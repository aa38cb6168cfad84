---------------------------- MODULE FrameAllocator ----------------------------
(***************************************************************************)
(* StackFrameAllocator of os/src/mm/frame_allocator.rs: the physical       *)
(* frames from current to end were never handed out, and those in recycled *)
(* were given back.  An allocator is a record, and the operators are its   *)
(* methods.                                                                *)
(***************************************************************************)
EXTENDS Integers, Sequences, Functions

init(l, r) == [current |-> l, end |-> r, recycled |-> <<>>]

available(a) == Len(a.recycled) + a.end - a.current

\* The frame that the i-th of several calls of alloc returns.
nth(a, i) ==
  LET n == Len(a.recycled)
  IN  IF i <= n THEN a.recycled[n + 1 - i] ELSE a.current + i - n - 1

\* A bug: alloc reads the recycled frame and does not pop it.
alloc_keeps_recycled(a, n) ==
  IF a.recycled # <<>> THEN a ELSE [a EXCEPT !.current = @ + n]

\* After n calls of alloc, none of which returned None.
alloc(a, n) ==
  LET reused == IF n < Len(a.recycled) THEN n ELSE Len(a.recycled)
  IN  [a EXCEPT !.recycled = SubSeq(@, 1, Len(@) - reused), !.current = @ + n - reused]

\* The validity check fails in one of the calls of dealloc with the frames of seq.
dealloc_panics(a, seq) ==
  \E i \in DOMAIN seq :
    \/ seq[i] >= a.current
    \/ seq[i] \in Range(a.recycled)
    \/ \E j \in 1 .. i - 1 : seq[j] = seq[i]

\* After dealloc of the frames of seq, in this order.
dealloc(a, seq) == [a EXCEPT !.recycled = @ \o seq]
=============================================================================
