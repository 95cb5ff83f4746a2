----------------------- MODULE MCEnflameDeviceThread -----------------------
(* Model-checking instance of EnflameDeviceThread.                         *)
EXTENDS EnflameDeviceThread

\* Every kind of instruction a kernel can issue on the worker.
MCInstrKinds == {"tops_call", "stream_op", "sync_device"}

=============================================================================
