----------------------------- MODULE MCKernelSync -----------------------------
(* TLC instances of KernelSync.                                            *)
EXTENDS KernelSync, TLC

\* The threads other than the init process are interchangeable.
ThreadSymmetry == Permutations(Tasks \ {InitProc})
=============================================================================
