--------------------------- MODULE MCMemCaseUtil ---------------------------
(* Model-checking instance of MemCaseUtil.                                 *)
EXTENDS MemCaseUtil, TLC

CONSTANTS b1, b2, b3

MCBuffers == {b1, b2, b3}

\* Two buffers suffice for pairwise properties of the key.
MCBuffers2 == {b1, b2}

\* DeviceType enumerator values (device_type.proto): kInvalidDevice = 0,
\* kCPU = 1, kGPU = 2, then the fork's backends; only their distinctness
\* and the 5-bit field width matter to the properties.
MCDeviceTypeCode ==
  [t \in DeviceTypes |->
     CASE t = "Invalid" -> 0 [] t = "CPU" -> 1 [] t = "GPU" -> 2
       [] t = "FAKEDEVICE" -> 3 [] t = "ABC" -> 4 [] t = "ENFLAME" -> 5]

\* Buffers are interchangeable: every property quantifies over all of them.
MCSymmetry == Permutations(MCBuffers)
MCSymmetry2 == Permutations(MCBuffers2)

=============================================================================
