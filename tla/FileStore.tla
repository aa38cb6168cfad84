------------------------------ MODULE FileStore ------------------------------
(***************************************************************************)
(* What the file system promises a program: named byte strings, and open   *)
(* files with an offset each.  There is no directory, inode or block here. *)
(***************************************************************************)
EXTENDS Integers, Sequences

CONSTANTS Names, Handles, Absent, Closed, MaxSize

VARIABLES files,  \* name -> its bytes, or Absent
          open    \* handle -> name and offset, or Closed

Min2(a, b) == IF a < b THEN a ELSE b

\* The bytes of f with n bytes of value h written at offset; a gap reads as zeros.
Overwrite(f, offset, n, h) ==
  LET full == f \o [i \in 1 .. offset + n - Len(f) |-> 0]
  IN  [i \in DOMAIN full |-> IF i \in offset + 1 .. offset + n THEN h ELSE full[i]]

Init == /\ files = [f \in Names |-> Absent]
        /\ open = [h \in Handles |-> Closed]

\* An existing file is opened as it is or emptied, a missing one made.
Open(h, f) ==
  /\ open[h] = Closed
  /\ open' = [open EXCEPT ![h] = [name |-> f, offset |-> 0]]
  /\ \/ files[f] # Absent /\ UNCHANGED files
     \/ files' = [files EXCEPT ![f] = << >>]

Close(h) ==
  /\ open[h] # Closed
  /\ open' = [open EXCEPT ![h] = Closed]
  /\ UNCHANGED files

\* A read moves the offset forward, never past the end.
Read(h, n) ==
  /\ open[h] # Closed
  /\ LET size == Len(files[open[h].name])
     IN  /\ open[h].offset < size
         /\ open' = [open EXCEPT ![h].offset = Min2(@ + n, size)]
  /\ UNCHANGED files

\* A write changes the bytes it was given, and none of another file.
Write(h, n) ==
  /\ open[h] # Closed
  /\ open' = [open EXCEPT ![h].offset = @ + n]
  /\ files' = [files EXCEPT ![open[h].name] = Overwrite(@, open[h].offset, n, h)]

Next ==
  \E h \in Handles :
    \/ \E f \in Names : Open(h, f)
    \/ Close(h)
    \/ \E n \in 1..MaxSize : Read(h, n) \/ Write(h, n)

Spec == Init /\ [][Next]_<<files, open>>
=============================================================================
