----------------------------- MODULE RingBuffer -----------------------------
(***************************************************************************)
(* PipeRingBuffer of os/src/fs/pipe.rs: an array with a head, a tail and a *)
(* status that tells a full buffer from an empty one when head = tail.     *)
(* The status is written twice by each operation: Normal first, then Full  *)
(* or Empty if the two indices have met.                                   *)
(***************************************************************************)
EXTENDS Integers, Sequences

CONSTANTS
  Bytes,             \* the values of a u8 that the properties tell apart
  RING_BUFFER_SIZE

ASSUME RingAssumption == 0 \in Bytes /\ RING_BUFFER_SIZE \in Nat \ {0}

VARIABLES arr, head, tail, status

ringVars == <<arr, head, tail, status>>

Indices == 0..(RING_BUFFER_SIZE - 1)

RingTypeOK ==
  /\ arr \in [Indices -> Bytes]
  /\ head \in Indices
  /\ tail \in Indices
  /\ status \in {"Full", "Empty", "Normal"}

RingNew ==
  /\ arr = [i \in Indices |-> 0]
  /\ head = 0
  /\ tail = 0
  /\ status = "Empty"

available_read ==
  IF status = "Empty" THEN 0
  ELSE IF tail > head THEN tail - head
       ELSE tail + RING_BUFFER_SIZE - head

available_write ==
  IF status = "Full" THEN 0 ELSE RING_BUFFER_SIZE - available_read

write_byte(byte) ==
  /\ arr' = [arr EXCEPT ![tail] = byte]
  /\ tail' = (tail + 1) % RING_BUFFER_SIZE
  /\ status' = IF tail' = head THEN "Full" ELSE "Normal"
  /\ UNCHANGED head

\* The byte it returns is arr[head], before the step.
read_byte ==
  /\ head' = (head + 1) % RING_BUFFER_SIZE
  /\ status' = IF head' = tail THEN "Empty" ELSE "Normal"
  /\ UNCHANGED <<arr, tail>>

-----------------------------------------------------------------------------
\* The bytes between head and tail, oldest first.
Slot(h, i) == (h + i - 1) % RING_BUFFER_SIZE
Contents == [i \in 1..available_read |-> arr[Slot(head, i)]]

\* The status always tells the truth about the two indices: it says Full or
\* Empty exactly when they are equal.
StatusAgrees == (status = "Normal") <=> (head # tail)
=============================================================================
