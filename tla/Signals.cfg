\* What holds of every program, with actions that mask all user signals or none.
\* The process may exit, and the system stop.
SPECIFICATION FairSpec
CONSTANTS
  Sigs <- MCSigs
  Masks <- MCMasks
  NewActions <- MCActions
CHECK_DEADLOCK FALSE
 
PROPERTIES ContextKept SignalConsumedByHandler ContinueResumes
