SPECIFICATION Spec
CONSTANTS
  worker = worker
  setup = setup
  cleaner = cleaner
  service = service
  command = command
  Actors <- MCActors
  Processes <- MCProcesses
  Proc <- MCProc
  Does <- MCDoes
  Inodes <- MCInodes
  MaxInstallations = 2
INVARIANT NoLeasePastTombstone
INVARIANT EstablishedHasLocks
INVARIANT NoStandoff
PROPERTY PurgeIsFinal
PROPERTY LeasesExclude
\* Nobody needs to start an operation.
CHECK_DEADLOCK FALSE
