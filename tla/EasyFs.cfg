\* Two names, two open files.  A file may have one direct block, two behind the
\* indirect block and two more rows; the data area is too small for both files
\* at their largest, so that it also runs out.  A panic ends the system.
SPECIFICATION Spec
CONSTANTS
  BLOCK_SZ = 2
  INODE_DIRECT_COUNT = 1
  INODE_INDIRECT1_COUNT = 2
  DataBlocks = 13
  Names = {1, 2}
  Handles = {1, 2}
  Opens <- MCOpens
  Writes <- MCWrites
  Reads <- MCReads
  MaxSize = 12
CHECK_DEADLOCK FALSE
INVARIANTS BlocksOwned
PROPERTY ImplementsFiles
