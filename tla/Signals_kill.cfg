\* A stopped process and SIGKILL: nothing is masked, no handler is installed.
SPECIFICATION FairSpec
CONSTANTS
  Sigs <- KilledSigs
  Masks <- NoMasks
  NewActions <- NoActions
CHECK_DEADLOCK FALSE
PROPERTY StoppedIsKilled
