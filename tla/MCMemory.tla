------------------------------ MODULE MCMemory -------------------------------
(* Two processes and programs of one or two pages.  Programs write the      *)
(* first page of their image, and page 4, which is the stack of a second    *)
(* thread of the small program and a guard page of the large one.           *)
EXTENDS UserBuffers

MCStored == {0, 4}
=============================================================================
