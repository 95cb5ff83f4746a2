\* Chains of PatchMemCase / staging calls over three buffers, with device
\* indices at both ends of the 7-bit field and ranks up to the largest whose
\* global key TLC can represent.
CONSTANTS
  b1 = b1
  b2 = b2
  b3 = b3
  Buffers <- MCBuffers
  DeviceIndices = {0, 1, 127}
  DeviceTypeCode <- MCDeviceTypeCode
  Ranks = {0, 7, 8191}
SPECIFICATION Spec
SYMMETRY MCSymmetry
\* A CHECK failure or UNIMPLEMENTED() ends the process: no step follows it.
CHECK_DEADLOCK FALSE
INVARIANT TypeOK
INVARIANT KeyInjective
INVARIANT GlobalKeyComposes
INVARIANT RoundTrip
PROPERTY PatchNeverWeakens
