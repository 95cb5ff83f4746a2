\* Kernels that ignore the status of some tops calls; any call may fail.
CONSTANTS
  Kernels <- MCUncheckedKernels
  MaxAddNInputs = 3
  MaxComputes = 2
  FailingKernels <- MCUncheckedKernels
  PoolSizes <- MCPoolSizes
  PoolStrides <- MCPoolStrides
  PoolDims <- MCPoolDims
  Paddings = {"same_upper", "valid", "unknown"}
  DataFormats = {"channels_first", "channels_last"}
SPECIFICATION Spec
\* The model stops after MaxComputes calls, and after LOG(FATAL).
CHECK_DEADLOCK FALSE
INVARIANT NextCallSound
