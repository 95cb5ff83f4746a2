CONSTANTS
  NumInstrs = 2
  InstrKinds <- MCInstrKinds
  SchedulerModes = {TRUE}
SPECIFICATION Spec
CHECK_DEADLOCK FALSE
INVARIANT CallbackAfterCompletion
