---------------------------- MODULE EventCounter ----------------------------
(***************************************************************************)
(* What an eventfd promises its users: one counter modulo 2^32.  A write   *)
(* adds to it.  A read takes the whole value, or 1 of it in semaphore      *)
(* mode, and never takes anything while the value is 0.  There are no      *)
(* tasks, queues or bytes here.                                            *)
(***************************************************************************)
EXTENDS Integers

CONSTANTS Users,     \* who reads and writes
          Modulus,
          Unset      \* nobody has created it, or nothing was read yet

VARIABLES mode,      \* "default", "semaphore", "nonblock", or Unset
          value,
          result     \* user -> what its last read took

vars == <<mode, value, result>>

Init ==
  /\ mode = Unset /\ value = 0
  /\ result = [u \in Users |-> Unset]

Create ==
  /\ mode = Unset /\ mode' \in {"default", "semaphore", "nonblock"}
  /\ value' \in 0 .. Modulus - 1
  /\ UNCHANGED result

\* In semaphore mode the amount does not matter.
Write(n) ==
  /\ mode # Unset
  /\ value' = (value + IF mode = "semaphore" THEN 1 ELSE n) % Modulus
  /\ UNCHANGED <<mode, result>>

Taken == IF mode = "semaphore" THEN 1 ELSE value

Read(u) ==
  /\ mode # Unset /\ value # 0
  /\ result' = [result EXCEPT ![u] = Taken]
  /\ value' = value - Taken
  /\ UNCHANGED mode

Next ==
  \/ Create
  \/ \E n \in 0 .. Modulus - 1 : Write(n)
  \/ \E u \in Users : Read(u)

Spec == Init /\ [][Next]_vars
=============================================================================
