\* Three tasks that read and write as they like, and a u32 of two binary digits,
\* so that the count passes 2^32 more than once.
SPECIFICATION FairSpec
CONSTANTS
  t1 = t1
  t2 = t2
  t3 = t3
  NoTask = NoTask
  NoFlags = NoFlags
  Tasks = {t1, t2, t3}
  Byte = 2
  U32_BYTE_SIZE = 2
  MaxCount = 6
CHECK_DEADLOCK FALSE
INVARIANTS OnePlace NoWakeupLost
PROPERTIES ImplementsCounter ValueIsRead
