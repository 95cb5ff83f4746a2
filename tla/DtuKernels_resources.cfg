\* Two Compute calls of every kernel, with every branch its attributes select;
\* any tops call of a kernel that checks its statuses may fail; the pooling
\* kernels run over windows that cover their strides, every padding mode and
\* odd and even input extents.
CONSTANTS
  Kernels <- MCAllKernels
  MaxAddNInputs = 3
  MaxComputes = 2
  FailingKernels <- MCCheckedKernels
  PoolSizes <- MCCoverSizes
  PoolStrides <- MCCoverStrides
  PoolDims <- MCCoverDims
  Paddings = {"same_lower", "same_upper", "valid", "unknown"}
  DataFormats = {"channels_first", "channels_last"}
SPECIFICATION Spec
\* The model stops after MaxComputes calls, and after LOG(FATAL).
CHECK_DEADLOCK FALSE
INVARIANT TypeOK
INVARIANT NextCallSound
INVARIANT NoDeviceMemoryLeak
INVARIANT PadsMatchReference
