\* Two Compute calls of every kernel; tops calls succeed.
CONSTANTS
  Kernels <- MCAllKernels
  MaxAddNInputs = 3
  MaxComputes = 2
  FailingKernels = {}
  PoolSizes <- MCPoolSizes
  PoolStrides <- MCPoolStrides
  PoolDims <- MCPoolDims
  Paddings = {"same_upper", "valid", "unknown"}
  DataFormats = {"channels_first", "channels_last"}
SPECIFICATION Spec
\* The model stops after MaxComputes calls, and after LOG(FATAL).
CHECK_DEADLOCK FALSE
INVARIANT DescriptorsReleased
