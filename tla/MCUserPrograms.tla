---------------------------- MODULE MCUserPrograms ----------------------------
(* A TLC instance of UserPrograms.                                         *)
EXTENDS UserPrograms

CONSTANTS w1, w2, w3

\* The threads of a program in the order of their creation.
ThreeWorkers == <<w1, w2, w3>>
=============================================================================
