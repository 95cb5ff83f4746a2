----------------------------- MODULE DtuKernels -----------------------------
(***************************************************************************)
(* The resource protocol of the DTU user kernels (user/kernels/*_dtu.cpp). *)
(* Each Compute is a synchronous sequence of tops calls on the actor       *)
(* thread. A call reads handles (descriptors, device buffers), may make    *)
(* one (topsCreateXDescriptor, topsMalloc, and every operation that        *)
(* returns its result through a topsMemory_t pointer), and may release     *)
(* one (topsDestroyXDescriptor, topsFree). Tensor data, shapes and         *)
(* attributes other than those that choose a branch are abstracted         *)
(* away; blob pointers owned by the framework are not handles of the       *)
(* kernel.                                                                 *)
(*                                                                         *)
(* A call wrapped in OF_ENFLAME_CHECK (dtu_util.h) that fails ends the     *)
(* process with LOG(FATAL); a call whose status is ignored and that fails  *)
(* leaves its output handle unmade and its released handle still held.     *)
(***************************************************************************)
EXTENDS Integers, Sequences, SequencesExt

CONSTANTS
  Kernels,        \* the registered kernels launched in this model
  MaxAddNInputs,  \* largest in_num of an add_n call
  MaxComputes,    \* bound on the number of Compute calls
  FailingKernels, \* kernels whose tops calls can return a non-success status
  PoolSizes,      \* values of the pool_size attribute
  PoolStrides,    \* values of the strides attribute
  PoolDims,       \* 4-d shapes of the pooled input x, as its data_format lays it out
  Paddings,       \* values of the padding attribute
  DataFormats     \* values of the data_format attribute

PoolKernels == {"max_pool_2d", "avg_pool_2d", "max_pool_2d_grad", "avg_pool_2d_grad"}
KernelNames == {"add_n", "bias_add", "conv2d", "conv_data_grad", "conv_filter_grad",
                "conv_bias_grad", "matmul", "sgd_update", "normalization", "relu",
                "relu_grad", "scalar_mul", "softmax"} \cup PoolKernels

ASSUME Kernels \subseteq KernelNames /\ MaxAddNInputs >= 2 /\ MaxComputes \in Nat
ASSUME FailingKernels \subseteq Kernels

\* Checked (OF_ENFLAME_CHECK) and unchecked calls.
K == TRUE
U == FALSE

\* One tops call: the handles it reads, makes and releases.
Call(reads, makes, frees, checked) ==
  [reads |-> reads, makes |-> makes, frees |-> frees, checked |-> checked, fatal |-> FALSE]
CreateDesc(d, c) == Call({}, {d}, {}, c)
SetDesc(d, c) == Call({d}, {}, {}, c)
Produce(ins, out, c) == Call(ins, {out}, {}, c)
Use(m, c) == Call({m}, {}, {}, c)
Malloc(m, c) == Call({}, {m}, {}, c)
Free(m, c) == Call({m}, {}, {m}, c)
Destroy(d, c) == Call({d}, {}, {d}, c)
\* UNIMPLEMENTED() or a failed CHECK before any tops call.
Unimplemented == [reads |-> {}, makes |-> {}, frees |-> {}, checked |-> TRUE, fatal |-> TRUE]
\* std::vector::at past the end throws std::out_of_range while the
\* arguments of a call are evaluated; nothing in Compute or its callers
\* under src/ catches it, so the process ends before that call is made.
OutOfRange == Unimplemented

\* Create-and-set of each descriptor in order, all checked.
CreateAll(ds) == FlattenSeq([i \in 1 .. Len(ds) |-> <<CreateDesc(ds[i], K), SetDesc(ds[i], K)>>])
DestroyAll(ds) == [i \in 1 .. Len(ds) |-> Destroy(ds[i], K)]

\* The common shape: descriptors, one operation into out_mem, copy to the
\* output blob, free, then destroy the listed descriptors.
Standard(ds, out, destroyed) ==
  CreateAll(ds) \o <<Produce(ToSet(ds), out, K), Use(out, K), Free(out, K)>>
    \o DestroyAll(destroyed)

AddNProgram(n) ==
  << CreateDesc("input_desc", U), SetDesc("input_desc", U),
     CreateDesc("output_desc", U), SetDesc("output_desc", U),
     Produce({"input_desc", "output_desc"}, "out_mem", K), Use("out_mem", K), Free("out_mem", K) >>
  \o FlattenSeq([i \in 1 .. n - 2 |->
        <<Produce({"input_desc", "output_desc"}, "out_mem", K), Use("out_mem", K), Free("out_mem", K)>>])
  \o <<Destroy("input_desc", U), Destroy("output_desc", U)>>

BiasAddProgram ==
  CreateAll(<<"bDesc", "aDesc">>)
  \o << Produce({"bDesc", "aDesc"}, "b_broad", K), Produce({"aDesc", "b_broad"}, "out_mem", K),
        Use("out_mem", K), Free("out_mem", K), Free("b_broad", K) >>
  \o DestroyAll(<<"aDesc", "bDesc">>)

ConvProgram == Standard(<<"xDesc", "wDesc", "yDesc", "convDesc">>, "mem3",
                        <<"convDesc", "xDesc", "wDesc", "yDesc">>)
ConvDataGradProgram == Standard(<<"dyDesc", "wDesc", "convDesc", "dxDesc">>, "out_mem",
                                <<"dxDesc", "convDesc", "wDesc", "dyDesc">>)
ConvFilterGradProgram == Standard(<<"xDesc", "dyDesc", "convDesc", "dwDesc">>, "out_mem",
                                  <<"dwDesc", "convDesc", "dyDesc", "xDesc">>)
\* topsSetTensorNdDescriptor(yDesc, ...) at line 425 is not checked.
ConvBiasGradProgram ==
  CreateAll(<<"xDesc", "reduceDesc">>) \o <<CreateDesc("yDesc", K), SetDesc("yDesc", U)>>
  \o <<Produce({"xDesc", "reduceDesc", "yDesc"}, "out_mem", K), Use("out_mem", K), Free("out_mem", K)>>
  \o DestroyAll(<<"yDesc", "reduceDesc", "xDesc">>)
MatMulProgram == Standard(<<"aDesc", "bDesc", "dotDesc", "cDesc">>, "out_mem",
                          <<"cDesc", "dotDesc", "bDesc", "aDesc">>)
SoftmaxProgram == Standard(<<"softmaxDesc", "xDesc">>, "out_mem", <<"xDesc", "softmaxDesc">>)
\* Neither kernel destroys its descriptors.
NormalizationProgram == Standard(<<"xDesc", "yDesc">>, "out_mem", <<>>)
ReluProgram == Standard(<<"tDesc", "actDesc">>, "out_mem", <<>>)
ReluGradProgram == Standard(<<"tDesc", "actDesc">>, "out_mem", <<>>)
PoolForwardProgram == Standard(<<"xDesc", "poolingDesc", "yDesc">>, "out_mem",
                               <<"yDesc", "poolingDesc", "xDesc">>)
PoolBackwardProgram == Standard(<<"xDesc", "yDesc", "dyDesc", "poolingDesc", "dxDesc">>, "out_mem",
                                <<"dxDesc", "poolingDesc", "dyDesc", "yDesc", "xDesc">>)

ScalarMulProgramNoBroadcastFree ==
  << Malloc("scalar_mem", U), Use("scalar_mem", U),
     CreateDesc("tDesc", K), SetDesc("tDesc", U), CreateDesc("scalarDesc", K), SetDesc("scalarDesc", U),
     Produce({"scalarDesc", "scalar_mem", "tDesc"}, "broadcast_mem", U),
     Produce({"tDesc", "broadcast_mem"}, "mul_mem", U), Use("mul_mem", U),
     Free("scalar_mem", U), Free("mul_mem", U) >>

\* Neither descriptor is destroyed; no call but the two creates is checked.
ScalarMulProgram ==
  << Malloc("scalar_mem", U), Use("scalar_mem", U),
     CreateDesc("tDesc", K), SetDesc("tDesc", U), CreateDesc("scalarDesc", K), SetDesc("scalarDesc", U),
     Produce({"scalarDesc", "scalar_mem", "tDesc"}, "broadcast_mem", U),
     Produce({"tDesc", "broadcast_mem"}, "mul_mem", U), Use("mul_mem", U),
     Free("scalar_mem", U), Free("broadcast_mem", U), Free("mul_mem", U) >>

\* scalar2tensor and scalarMulTensor (dtu_kernel_utils.h); res names the
\* caller's variable that receives the returned buffer.
Scalar2Tensor(res) ==
  << Malloc("scalarMem", U), Use("scalarMem", U), CreateDesc("scalarDesc", U), SetDesc("scalarDesc", U),
     Produce({"scalarDesc", "scalarMem", "tensorDesc"}, res, U), Free("scalarMem", U),
     Destroy("scalarDesc", U) >>
ScalarMulTensor(res, ins) ==
  Scalar2Tensor("broadcastMem")
  \o <<Produce({"tensorDesc", "broadcastMem"} \cup ins, res, U), Free("broadcastMem", U)>>

\* Update<T> of model_update_kernels_dtu.cpp: no call is checked.
UpdateProgram ==
  <<CreateDesc("tensorDesc", U), SetDesc("tensorDesc", U)>>
  \o ScalarMulTensor("mem1", {})
  \o <<Produce({"tensorDesc"}, "result", U)>> \o ScalarMulTensor("mem2", {"result"})
  \o <<Free("result", U), Produce({"tensorDesc", "mem1", "mem2"}, "result", U),
       Free("mem1", U), Free("mem2", U)>>
  \o ScalarMulTensor("mem3", {})
  \o <<Produce({"tensorDesc", "result", "mem3"}, "newModelMem", U), Free("result", U),
       Free("mem3", U), Use("newModelMem", U), Free("newModelMem", U), Destroy("tensorDesc", U)>>

\* The programs a Compute of kernel k can run, one per branch of its code.
Programs(k) ==
  CASE k = "add_n" -> {AddNProgram(n) : n \in 2 .. MaxAddNInputs}
    [] k = "bias_add" -> {BiasAddProgram}
    [] k = "conv2d" -> {ConvProgram}
    [] k = "conv_data_grad" -> {ConvDataGradProgram}
    [] k = "conv_filter_grad" -> {ConvFilterGradProgram}
    [] k = "conv_bias_grad" -> {ConvBiasGradProgram}
    [] k = "matmul" -> {MatMulProgram}
    [] k = "sgd_update" -> {<<>>, UpdateProgram}
    [] k = "normalization" -> {NormalizationProgram, <<Unimplemented>>}
    [] k = "relu" -> {ReluProgram}
    [] k = "relu_grad" -> {ReluGradProgram}
    [] k = "scalar_mul" -> {ScalarMulProgram, <<Unimplemented>>}
    [] k = "softmax" -> {SoftmaxProgram}


DescHandles == {"input_desc", "output_desc", "bDesc", "aDesc", "xDesc", "wDesc", "yDesc",
                "convDesc", "dyDesc", "dxDesc", "dwDesc", "reduceDesc", "dotDesc", "cDesc",
                "softmaxDesc", "tDesc", "actDesc", "poolingDesc", "scalarDesc", "tensorDesc"}
MemHandles == {"out_mem", "b_broad", "mem3", "scalar_mem", "broadcast_mem", "mul_mem",
               "scalarMem", "broadcastMem", "mem1", "mem2", "result", "newModelMem"}
Handles == DescHandles \cup MemHandles

(***************************************************************************)
(* Pooling: the topsPoolingMode each registered kernel passes, and         *)
(* PaddingCompute.                                                         *)
(***************************************************************************)
PoolModeOf == [max_pool_2d |-> "MAX", avg_pool_2d |-> "AVERAGE_COUNT_EXCLUDE_PADDING",
               max_pool_2d_grad |-> "MAX", avg_pool_2d_grad |-> "MAX"]

\* C++ int division truncates toward zero.
CDiv(a, b) == IF a >= 0 THEN a \div b ELSE -((-a) \div b)

\* The result of PaddingCompute when it reaches UNIMPLEMENTED().
NoPads == <<>>

PaddingComputeSwapped(pool_size, strides, padding, dim_vec_x) ==
  LET wh == pool_size[1]
      ww == IF Len(pool_size) > 1 THEN pool_size[2] ELSE pool_size[1]
      vs == strides[1]
      hs == IF Len(strides) > 1 THEN strides[2] ELSE strides[1]
      tv == ((dim_vec_x[3] + (vs - 1)) \div vs - 1) * vs + wh - dim_vec_x[3]
      th == ((dim_vec_x[4] + (hs - 1)) \div hs - 1) * hs + ww - dim_vec_x[4]
  IN CASE padding = "same_upper" -> <<tv - CDiv(tv, 2), CDiv(tv, 2), th - CDiv(th, 2), CDiv(th, 2)>>
       [] padding = "same_lower" -> <<CDiv(tv, 2), tv - CDiv(tv, 2), CDiv(th, 2), th - CDiv(th, 2)>>
       [] padding = "valid" -> <<0, 0, 0, 0>>
       [] OTHER -> NoPads

\* Mutant: the output extent rounds down, input / stride.
PaddingComputeFloorOut(pool_size, strides, padding, dim_vec_x) ==
  LET wh == pool_size[1]
      ww == IF Len(pool_size) > 1 THEN pool_size[2] ELSE pool_size[1]
      vs == strides[1]
      hs == IF Len(strides) > 1 THEN strides[2] ELSE strides[1]
      tv == (dim_vec_x[3] \div vs - 1) * vs + wh - dim_vec_x[3]
      th == (dim_vec_x[4] \div hs - 1) * hs + ww - dim_vec_x[4]
  IN CASE padding = "same_lower" -> <<tv - CDiv(tv, 2), CDiv(tv, 2), th - CDiv(th, 2), CDiv(th, 2)>>
       [] padding = "same_upper" -> <<CDiv(tv, 2), tv - CDiv(tv, 2), CDiv(th, 2), th - CDiv(th, 2)>>
       [] padding = "valid" -> <<0, 0, 0, 0>>
       [] OTHER -> NoPads

\* <<pad_t, pad_b, pad_l, pad_r>>; dim_vec_x is <<N, C, H, W>>.
PaddingCompute(pool_size, strides, padding, dim_vec_x) ==
  LET wh == pool_size[1]
      ww == IF Len(pool_size) > 1 THEN pool_size[2] ELSE pool_size[1]
      vs == strides[1]
      hs == IF Len(strides) > 1 THEN strides[2] ELSE strides[1]
      total_vertical == ((dim_vec_x[3] + (vs - 1)) \div vs - 1) * vs + wh - dim_vec_x[3]
      total_horizon == ((dim_vec_x[4] + (hs - 1)) \div hs - 1) * hs + ww - dim_vec_x[4]
      pad_b_t_small == CDiv(total_vertical, 2)
      pad_b_t_big == total_vertical - pad_b_t_small
      pad_l_r_small == CDiv(total_horizon, 2)
      pad_l_r_big == total_horizon - pad_l_r_small
  IN CASE padding = "same_lower" -> <<pad_b_t_big, pad_b_t_small, pad_l_r_big, pad_l_r_small>>
       [] padding = "same_upper" -> <<pad_b_t_small, pad_b_t_big, pad_l_r_small, pad_l_r_big>>
       [] padding = "valid" -> <<0, 0, 0, 0>>
       [] OTHER -> NoPads

\* Mutant: the channels_last conversion swaps H and W.
DimVecSwapped(shape, data_format) ==
  IF data_format = "channels_first" THEN shape
  ELSE <<shape[1], shape[4], shape[3], shape[2]>>

\* PoolForward / PoolBackward: dim_vec_x is the shape for channels_first;
\* any other data_format is read as NHWC and reordered to <<N, C, H, W>>.
DimVec(shape, data_format) ==
  IF data_format = "channels_first" THEN shape
  ELSE <<shape[1], shape[4], shape[2], shape[3]>>

NoPool == [kernel |-> "none", mode |-> "none", size |-> <<>>, strides |-> <<>>,
           padding |-> "valid", shape |-> <<>>, format |-> "none", pads |-> NoPads]

VARIABLES
  kernel,    \* the kernel whose Compute is running, or "idle"
  prog,      \* the tops calls of that Compute still to run
  live,      \* handles the running Compute holds
  leaked,    \* <<compute, handle>>: handles still held when a Compute returned
  computes,  \* number of Compute calls started
  aborted,   \* LOG(FATAL) or UNIMPLEMENTED() ended the process
  pool       \* attributes and PaddingCompute result of a running pool kernel

vars == <<kernel, prog, live, leaked, computes, aborted, pool>>

Init ==
  /\ kernel = "idle"
  /\ prog = <<>>
  /\ live = {}
  /\ leaked = {}
  /\ computes = 0
  /\ aborted = FALSE
  /\ pool = NoPool

\* The actor launches a non-pool kernel; its attributes pick the branch.
StartKernel(k) ==
  /\ kernel = "idle" /\ ~aborted /\ computes < MaxComputes
  /\ \E p \in Programs(k) : prog' = p
  /\ kernel' = k
  /\ computes' = computes + 1
  /\ UNCHANGED <<live, leaked, aborted, pool>>

\* topsSetPoolingDescriptor's arguments: PoolForward reads pool_size.at(1)
\* and strides.at(1) (lines 131, 133); PoolBackward reads strides.at(1)
\* but pool_size[1] unchecked (line 242), an out-of-bounds read whose value
\* only the window width receives.
SetPoolingThrows(k, size, strides) ==
  \/ Len(strides) < 2
  \/ (k \in {"max_pool_2d", "avg_pool_2d"} /\ Len(size) < 2)

\* PoolForward / PoolBackward: PaddingCompute runs before any descriptor;
\* a throw at topsSetPoolingDescriptor comes after the descriptors created
\* before it (x, and for the backward kernels y and dy, then poolingDesc).
StartPool(k) ==
  /\ kernel = "idle" /\ ~aborted /\ computes < MaxComputes
  /\ \E size \in PoolSizes, strides \in PoolStrides, shape \in PoolDims, padding \in Paddings,
       format \in DataFormats :
       LET pads == PaddingCompute(size, strides, padding, DimVec(shape, format)) IN
       /\ pool' = [kernel |-> k, mode |-> PoolModeOf[k], size |-> size, strides |-> strides,
                   padding |-> padding, shape |-> shape, format |-> format, pads |-> pads]
       /\ prog' = CASE pads = NoPads -> <<Unimplemented>>
                    [] k \in {"max_pool_2d", "avg_pool_2d"} /\ SetPoolingThrows(k, size, strides) ->
                         SubSeq(PoolForwardProgram, 1, 3) \o <<OutOfRange>>
                    [] k \in {"max_pool_2d", "avg_pool_2d"} -> PoolForwardProgram
                    [] SetPoolingThrows(k, size, strides) ->
                         SubSeq(PoolBackwardProgram, 1, 7) \o <<OutOfRange>>
                    [] OTHER -> PoolBackwardProgram
  /\ kernel' = k
  /\ computes' = computes + 1
  /\ UNCHANGED <<live, leaked, aborted>>

\* One call whose status check was lost: a failing checked call goes on
\* like an unchecked one.
ExecIgnoreStatus ==
  /\ kernel # "idle" /\ ~aborted /\ prog # <<>>
  /\ LET s == Head(prog) IN
       \/ /\ ~s.fatal
          /\ live' = (live \ s.frees) \cup s.makes
          /\ prog' = Tail(prog)
          /\ UNCHANGED aborted
       \/ /\ s.fatal
          /\ aborted' = TRUE
          /\ UNCHANGED <<live, prog>>
       \/ /\ kernel \in FailingKernels /\ ~s.fatal
          /\ prog' = Tail(prog)
          /\ UNCHANGED <<live, aborted>>
  /\ UNCHANGED <<kernel, leaked, computes, pool>>

\* The next tops call of the running Compute: it succeeds; or it fails
\* inside OF_ENFLAME_CHECK (or is UNIMPLEMENTED/CHECK) and LOG(FATAL) ends
\* the process; or it fails unchecked and the kernel carries on with the
\* output handle unmade and the released handle still held.
Exec ==
  /\ kernel # "idle" /\ ~aborted /\ prog # <<>>
  /\ LET s == Head(prog) IN
       \/ /\ ~s.fatal
          /\ live' = (live \ s.frees) \cup s.makes
          /\ prog' = Tail(prog)
          /\ UNCHANGED aborted
       \/ /\ s.fatal \/ (kernel \in FailingKernels /\ s.checked)
          /\ aborted' = TRUE
          /\ UNCHANGED <<live, prog>>
       \/ /\ kernel \in FailingKernels /\ ~s.checked /\ ~s.fatal
          /\ prog' = Tail(prog)
          /\ UNCHANGED <<live, aborted>>
  /\ UNCHANGED <<kernel, leaked, computes, pool>>

\* Compute returns: its local handles go out of scope, and whatever they
\* still hold stays allocated in the tops runtime.
Return ==
  /\ kernel # "idle" /\ ~aborted /\ prog = <<>>
  /\ leaked' = leaked \cup {<<computes, h>> : h \in live}
  /\ live' = {}
  /\ kernel' = "idle"
  /\ pool' = NoPool
  /\ UNCHANGED <<prog, computes, aborted>>

Next ==
  \/ \E k \in Kernels \ PoolKernels : StartKernel(k)
  \/ \E k \in Kernels \cap PoolKernels : StartPool(k)
  \/ Exec
  \/ Return

Spec == Init /\ [][Next]_vars

(***************************************************************************)
(* Properties                                                              *)
(***************************************************************************)

TypeOK ==
  /\ kernel \in KernelNames \cup {"idle"}
  /\ live \subseteq Handles
  /\ leaked \subseteq (1 .. MaxComputes) \X Handles
  /\ computes \in 0 .. MaxComputes
  /\ aborted \in BOOLEAN
  /\ prog \in Seq([reads : SUBSET Handles, makes : SUBSET Handles, frees : SUBSET Handles,
                   checked : BOOLEAN, fatal : BOOLEAN])
  \* topsSetPoolingDescriptor takes the pads as counts of padded cells.
  /\ pool.pads \in {NoPads} \cup [1 .. 4 -> Nat]

\* Every tops call a kernel makes reads only handles it holds (no use or
\* free of a freed, destroyed or never-made handle), and never writes its
\* result over a buffer it still holds (which would leak that buffer).
NextCallSound ==
  (kernel # "idle" /\ ~aborted /\ prog # <<>>) =>
     /\ Head(prog).reads \subseteq live
     /\ Head(prog).makes \cap live = {}

\* No device buffer made during a Compute (tops results, topsMalloc) is
\* still allocated when the Compute returns.
NoDeviceMemoryLeak == \A l \in leaked : l[2] \notin MemHandles

\* No descriptor created during a Compute is still alive when it returns;
\* otherwise each training iteration leaks descriptors.
DescriptorsReleased == leaked = {}

\* Reference "same" padding: output ceil(in / stride), total padding
\* max(0, (out - 1) * stride + window - in), the odd unit at the end for
\* same_upper and at the start for same_lower; "valid" pads nothing.
RefSplit(in, k, s, extraAtEnd) ==
  LET out == CHOOSE o \in 1 .. in : (o - 1) * s < in /\ in <= o * s
      need == IF (out - 1) * s + k - in > 0 THEN (out - 1) * s + k - in ELSE 0
  IN IF extraAtEnd THEN <<need \div 2, need - need \div 2>>
                   ELSE <<need - need \div 2, need \div 2>>
RefPads(size, strides, padding, shape, format) ==
  LET height == IF format = "channels_first" THEN shape[3] ELSE shape[2]   \* NCHW / NHWC
      width == IF format = "channels_first" THEN shape[4] ELSE shape[3]
      kw == IF Len(size) = 1 THEN size[1] ELSE size[2]
      sw == IF Len(strides) = 1 THEN strides[1] ELSE strides[2]
      v == RefSplit(height, size[1], strides[1], padding = "same_upper")
      h == RefSplit(width, kw, sw, padding = "same_upper")
  IN IF padding = "valid" THEN <<0, 0, 0, 0>> ELSE <<v[1], v[2], h[1], h[2]>>

\* The pads PoolForward/PoolBackward pass to topsSetPoolingDescriptor are
\* the reference padding for the kernel's pool_size, strides and input.
PadsMatchReference ==
  (pool.kernel # "none" /\ pool.pads # NoPads /\ ~SetPoolingThrows(pool.kernel, pool.size, pool.strides)) =>
     pool.pads = RefPads(pool.size, pool.strides, pool.padding, pool.shape, pool.format)

=============================================================================
