-------------------------- MODULE RecycleAllocator --------------------------
(***************************************************************************)
(* RecycleAllocator of os/src/task/id.rs, the allocator of process ids,    *)
(* kernel stack ids and, one per process, thread ids: a counter and a      *)
(* stack of ids that were given back.  An allocator is a record, and the   *)
(* operators are its methods.                                              *)
(***************************************************************************)
EXTENDS Integers, Sequences, Functions

NewAllocator == [current |-> 0, recycled |-> <<>>]

\* The id that the next alloc() returns.
NextId(a) == IF a.recycled # <<>> THEN a.recycled[Len(a.recycled)] ELSE a.current

\* An alloc that reads the recycled id and forgets to pop it.
alloc_keeps_recycled(a) ==
  IF a.recycled # <<>> THEN a ELSE [a EXCEPT !.current = @ + 1]

alloc(a) ==
  IF a.recycled # <<>>
  THEN [a EXCEPT !.recycled = SubSeq(@, 1, Len(@) - 1)]
  ELSE [a EXCEPT !.current = @ + 1]

\* The two asserts of dealloc.
dealloc_asserts(a, id) == id < a.current /\ id \notin Range(a.recycled)

dealloc(a, id) == [a EXCEPT !.recycled = Append(@, id)]

\* The ids handed out and not given back.
InUse(a) == (0..(a.current - 1)) \ Range(a.recycled)
=============================================================================
