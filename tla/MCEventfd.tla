------------------------------ MODULE MCEventfd ------------------------------
(* TLC instance of Eventfd.  No symmetry: the run checks liveness.         *)
EXTENDS Eventfd
=============================================================================
