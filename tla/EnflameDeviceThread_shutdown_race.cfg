\* Shutdown may start while instructions are still queued for the actor.
CONSTANTS
  NumInstrs = 3
  InstrKinds <- MCInstrKinds
  SchedulerModes = {FALSE, TRUE}
SPECIFICATION Spec
\* After the context is released the process has nothing left to do.
CHECK_DEADLOCK FALSE
INVARIANT TypeOK
INVARIANT CallbackOrder
INVARIANT DrainsFully
PROPERTY Termination
PROPERTY EveryAcceptedCallbackRuns
