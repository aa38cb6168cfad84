---------------------------- MODULE BoundedFifo ----------------------------
(***************************************************************************)
(* What a pipe promises to the processes at its two ends: a queue of at    *)
(* most Capacity bytes, taken out in the order they were put in, and an    *)
(* end of file that a reader is told of only once no writer is left and    *)
(* nothing is left to read.                                                *)
(***************************************************************************)
EXTENDS Naturals, Sequences

CONSTANTS Bytes, Capacity

VARIABLES
  queue,     \* bytes put and not yet taken
  taken,     \* the byte handed to a reader last
  writable,  \* some process can still write
  eof        \* a reader has been told of the end

Init == queue = <<>> /\ taken = 0 /\ writable = TRUE /\ eof = FALSE

Put(b) ==
  /\ writable
  /\ Len(queue) < Capacity
  /\ queue' = Append(queue, b)
  /\ UNCHANGED <<taken, writable, eof>>

Take ==
  /\ queue # <<>>
  /\ queue' = Tail(queue)
  /\ taken' = Head(queue)
  /\ UNCHANGED <<writable, eof>>

LastWriterLeaves == writable /\ writable' = FALSE /\ UNCHANGED <<queue, taken, eof>>

EndOfFile ==
  /\ ~writable
  /\ queue = <<>>
  /\ eof' = TRUE
  /\ UNCHANGED <<queue, taken, writable>>

Next == (\E b \in Bytes : Put(b)) \/ Take \/ LastWriterLeaves \/ EndOfFile

Spec == Init /\ [][Next]_<<queue, taken, writable, eof>>
=============================================================================
