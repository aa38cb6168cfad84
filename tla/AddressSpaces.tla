---------------------------- MODULE AddressSpaces ----------------------------
(***************************************************************************)
(* What memory management promises a program: private memories.  Each      *)
(* process has one, a function from its pages to their contents; there is  *)
(* no frame and no page table here.  A process that is not running has the *)
(* empty memory.                                                           *)
(***************************************************************************)
CONSTANTS Procs, initproc,  \* the processes, and the first one
          Images,           \* the memories a program starts with
          Fresh             \* contents of a page the program has not written yet

VARIABLE memory

Empty == << >>

Init ==
  \E image \in Images :
    memory = [p \in Procs |-> IF p = initproc THEN image ELSE Empty]

\* The other processes notice nothing.
OnlyOf(p) == \A q \in Procs \ {p} : memory'[q] = memory[q]

\* The pages of vs are there before and after, with the same contents.
Kept(p, vs) ==
  /\ vs \subseteq DOMAIN memory[p] \cap DOMAIN memory'[p]
  /\ \A v \in vs : memory'[p][v] = memory[p][v]

\* One page is written.
Store(p) ==
  /\ OnlyOf(p)
  /\ DOMAIN memory'[p] = DOMAIN memory[p]
  /\ \E v \in DOMAIN memory[p] : Kept(p, DOMAIN memory[p] \ {v})

\* The child starts with a copy of its own.
Fork(p, q) ==
  /\ memory[q] = Empty
  /\ OnlyOf(q)
  /\ memory'[q] = memory[p]

Exec(p) == OnlyOf(p) /\ memory'[p] \in Images

\* New pages appear, and hold nothing of anybody's.
Grow(p) ==
  /\ OnlyOf(p)
  /\ Kept(p, DOMAIN memory[p])
  /\ \A v \in DOMAIN memory'[p] \ DOMAIN memory[p] : memory'[p][v] \in Fresh

\* Pages disappear, all of them when the process exits.
Shrink(p) == OnlyOf(p) /\ Kept(p, DOMAIN memory'[p])

Next ==
  \E p \in Procs :
    Store(p) \/ Exec(p) \/ Grow(p) \/ Shrink(p) \/ \E q \in Procs : Fork(p, q)

Spec == Init /\ [][Next]_memory
=============================================================================
