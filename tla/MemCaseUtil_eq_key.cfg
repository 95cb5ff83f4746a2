CONSTANTS
  b1 = b1
  b2 = b2
  b3 = b3
  Buffers <- MCBuffers
  DeviceIndices = {0, 1}
  DeviceTypeCode <- MCDeviceTypeCode
  Ranks = {0}
SPECIFICATION Spec
CHECK_DEADLOCK FALSE
INVARIANT EqualityAgreesWithKey
