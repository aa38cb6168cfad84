------------------------------ MODULE MCSignals ------------------------------
(* Instances of Signals: SIGHUP, below every kernel signal but SIGDEF;      *)
(* SIGUSR1, between SIGKILL and SIGCONT; SIGSEGV, fatal unless handled.     *)
EXTENDS Signals

SIGHUP == 1
SIGUSR1 == 10

MCSigs == {SIGDEF, SIGHUP, SIGKILL, SIGUSR1, SIGSEGV, SIGCONT, SIGSTOP}
\* The program may mask nothing, or a user signal, the fatal ones and SIGCONT.
MCMasks == {{}, {SIGUSR1, SIGKILL, SIGSEGV, SIGCONT}}
\* A handler whose action keeps the other user signals out, one that masks
\* nothing, as SignalAction::default of the user library does, and no handler.
Masking(mask) == [handler |-> TRUE, mask |-> mask]
MCActions == {Masking(UserSigs), Masking({}), DefaultAction}
KilledSigs == {SIGHUP, SIGKILL, SIGCONT, SIGSTOP}
NoActions == {}
NoMasks == {{}}
=============================================================================
