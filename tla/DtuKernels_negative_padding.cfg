\* One Compute of each pooling kernel with a window smaller than its stride.
CONSTANTS
  Kernels <- MCPoolKernels
  MaxAddNInputs = 2
  MaxComputes = 1
  FailingKernels = {}
  PoolSizes <- MCSmallWindowSizes
  PoolStrides <- MCPoolStrides
  PoolDims <- MCPoolDims
  Paddings = {"same_lower", "same_upper", "valid", "unknown"}
  DataFormats = {"channels_first", "channels_last"}
SPECIFICATION Spec
\* The model stops after MaxComputes calls, and after UNIMPLEMENTED().
CHECK_DEADLOCK FALSE
INVARIANT PadsMatchReference
