# TLA+ models of the OneFlow Enflame (DTU) backend

This directory holds TLA+ models of the parts of the OneFlow Enflame fork under
`src/` that have state, ordering or arithmetic a model checker can say something
about. Each module comes with an MC module that gives its constants concrete
values. The `.cfg` files are the TLC runs. `PROJECT.json` lists the components,
runs, mutants, the source map, the findings and the hazards.

## The system

A OneFlow job runs its kernels on *device threads*, one per device stream.

* **Memory cases** (`core/memory/memory_case_util.{h,cpp}`). A `MemoryCase` is
  the protobuf that tells a blob where it lives: host (page-locked for some
  device, or not), CUDA, fake device, ABC or Enflame device memory, possibly
  registered with the network. `MemCaseId` is its decoded form. From a
  `MemCaseId` the code makes an int64 key, a global key that includes the rank,
  and a `MemoryCase` again. It also defines equality, `PatchMemCase` (merging
  the pin and network requirements of one consumer into another) and the
  page-locked host staging case for a device buffer.
* **Enflame device thread** (`core/thread/enflame_device_thread.cpp`). It has:
  * an *actor thread*, which runs `PollMsgChannel` and so launches the actors'
    kernels;
  * a *poller thread*, which receives `EnflameCBEvent`s from a channel and runs
    their callbacks.
  The destructor closes the channel and joins the poller. The base `Thread`
  then joins the actor thread.
* **Context handle** (`core/device/enflame_context_handle.cpp`,
  `enflame_device_context.h`). It is owned by the actor thread's `ThreadCtx`:
  * it creates the `topsStream_t` lazily on first use;
  * `AddCallBack` sends the callback into the poller's channel and ignores the
    send status;
  * its destructor destroys the stream.
* **DTU context** (`core/device/dtu_util.cpp`). This is the global
  `topsContext_t`. It is created in the constructor and destroyed by
  `DTUDestroyCtx` from the destructor.
* **Parallel-cast facade pass**
  (`oneflow/core/job_completer/add_parallel_cast_facade_op.cpp`). This is a
  job rewrite run during compilation. It finds every input whose producer has
  another `parallel_num` or SBP, and inserts one `ParallelCastFacade` op per
  (blob, consumer placement, needed SBP). It then points the consumers at the
  new op's output.
* **DTU kernels** (`user/kernels/*_dtu.cpp`). These are synchronous sequences
  of tops calls on the context. Each creates descriptors, lets tops allocate
  result buffers, copies the result out and frees the buffers.

## Modules

### `MemCaseUtil` (with `MCMemCaseUtil`)

Each function of `memory_case_util.cpp` is an operator:

* `DecodeMemCase` is the `MemCaseId(const MemoryCase&)` constructor.
* `SerializeMemCaseIdToInt64` and `SerializeGlobalMemCaseIdToInt64` pack the
  key with `Bitwise` `|` and products by powers of two. These are the shifts of
  the code.
* `SerializeMemCaseIdToMemCase` writes *into* the caller's message, as the
  code's mutable pointer does.
* `PatchMemCaseId`, `PatchMemCase` and `GenerateCorrespondingPageLockedHost*`
  follow the code.
* `UNIMPLEMENTED()` and a failed `CHECK` return the record `Fatal`.

A `MemoryCase` is a record. Its fields are the oneof case, the pin case, the
pinned device id, the `used_by_network` presence and value, and the device id.

The state is a memory case per buffer (`mcs`) and `alive`.
The actions are:

* `PatchStep(dst, src)`: a `PatchMemCase` call that returns.
* `PatchAbort(dst, src)`: a call that reaches `UNIMPLEMENTED`.
* `StageStep(b)`: the staging host for a device buffer replaces that buffer's
  case.
* `StageAbort(b)`: the same call on a host or invalid case fails a `CHECK_NE`
  of `GenerateCorrespondingPageLockedHostMemCaseId`.

`Init` allows every well-formed `MemoryCase`.

### `EnflameDeviceThread` (with `MCEnflameDeviceThread`)

The model has four actors:

* **The runtime** (`RuntimeSend`, `ThreadMgrStop`) sends instructions and then
  the stop message. `ThreadMgrStop` is modelled from the spec, since
  `ThreadMgr` is not under `src/`.
* **The actor thread** carries out the instructions one at a time:
  * `ActorLaunch`: a synchronous tops call, a stream operation (which creates
    the stream lazily through `EnflameStream`) or `SyncDevice`;
  * `ActorSyncDone`, when the device has drained the stream;
  * `ActorAddCallBack`, which either delivers the event or drops it if the
    channel is closed;
  * `ActorExit`, the `ThreadCtx` destructor, which destroys the stream if it
    was created.
* **The device** (`DeviceComplete`) completes queued stream work in order.
* **The poller** (`PollerInvoke`, `PollerExit`) runs callbacks in channel
  order and leaves when the channel is closed and empty.
* **The owner** (`DestructorClose`, `DestructorJoinPoller`, `BaseJoinActor`,
  `DTUDestroyCtx`) tears down in the order of the destructors.

The variable `quiesced` is fixed in `Init` from the constant
`SchedulerModes`. It says whether ThreadMgr waits for the actor to finish
all its work before it sends the stop message. Spec 4.3 assumes it does,
because the code does not ensure it. `shutdown_race` takes both values, so
every property is checked with and without the assumption. Without it the
actor can Send on the closed channel, which drops the callback, and even on
the destroyed channel member (`cb_event_chan_` goes with
`~EnflameDeviceThread`, before `~Thread` joins the actor), which is undefined
behaviour the model does not follow. With it neither can happen, so no
property is stated about them. `cb_before_completion` takes only the quiescing scheduler. That run
shows the early callback is not an artefact of a racing shutdown.

### `ParallelCastFacade` (with `MCParallelCastFacade`)

`Init` chooses the op graph from every graph of `NumOps` ops in topological
order. Each input bn reads an earlier op's blob with a needed SBP. The
placements have given `parallel_num`s. The pass's steps follow the code:

* `CollectConsumers` is the `ForEachNode` walk that builds `lib2consumers`.
* `CastGroup` visits one group, in any order, because `HashMap` iteration is
  unspecified. It adds the facade op.
* `MutConsumer` copies the consumer's conf from the op graph, points one ibn at
  the facade and calls `MutOps`, which replaces the op's conf in the job.
* `Finish` is the return.

`conf` is the job's view of every input. `facades` are the added ops.

### `DtuKernels` (with `MCDtuKernels`)

Each kernel's `Compute` is written as the sequence of its tops calls. A call
is a record with four parts:

* the handles it reads;
* the handle it makes: `topsCreate*Descriptor`, `topsMalloc`, and every
  operation that returns its result through a `topsMemory_t*`;
* the handle it releases: `topsDestroy*Descriptor` or `topsFree`;
* whether `OF_ENFLAME_CHECK` wraps it.

The helpers of `dtu_kernel_utils.h` are inlined the same way. Three
operators stand for them: `Standard`, for the common create/operate/copy/
free/destroy shape, `Scalar2Tensor` and `ScalarMulTensor`. The branches an
attribute selects are the members of `Programs(k)`:

* the `add_n` input count;
* `sgd_update`'s `skip_if` early return;
* `scalar_mul` with no operand, which reaches `UNIMPLEMENTED`;
* `normalization` in training mode, which fails its `CHECK`.

`PaddingCompute` is translated with C++ truncating division (`CDiv`). The
pooling kernels choose their attributes from constant sets, and they take
`data_format` from `DataFormats`. The input shape is given as the op sees
it. `DimVec` is the kernels' reordering of it into `dim_vec_x`:

* `channels_first` keeps the shape as it is;
* any other format is read as NHWC and reordered to NCHW.

The reference padding takes H and W by name from the layout, so a wrong
reordering shows as a padding mismatch.

The arguments of `topsSetPoolingDescriptor` are read with `.at(1)`:
`pool_size` and `strides` in the forward kernels (lines 131-133), `strides`
in the backward ones (line 242). A one-element attribute throws
`std::out_of_range`, which nothing catches, after `xDesc` (and for the
backward kernels `yDesc` and `dyDesc`) and `poolingDesc` have been made:
`StartPool` gives that prefix of the program followed by the fatal
`OutOfRange` call (`SetPoolingThrows`). The backward kernels read
`pool_size[1]` unchecked; with a one-element `pool_size` that is an
out-of-bounds read whose value reaches only the window width, which the
model does not track.

The state is:

* the running kernel;
* the calls it still has to make;
* the handles it holds;
* the handles still held when some Compute returned (`leaked`);
* `aborted`;
* the pooling attributes of the running call.

The actions are `StartKernel`/`StartPool` (the actor launches `Compute`),
`Exec` and `Return`. `Exec` is one call, with three outcomes:

* it succeeds;
* it fails inside `OF_ENFLAME_CHECK` and `LOG(FATAL)` ends the process;
* it fails unchecked and the kernel carries on.

Calls may fail only in the kernels of `FailingKernels`.

## Runs

| run | module/cfg | expect | what it shows |
|---|---|---|---|
| patch_chain | MCMemCaseUtil / MemCaseUtil_patch_chain.cfg | pass | This run uses three buffers, device indices 0, 1 and 127 (the top of the 7-bit field) and ranks 0, 7 and 8191. Over any sequence of patches and stagings: the key is injective on ids, and the global key separates rank from key. Decode∘encode is the identity. No patch removes a pin or the network flag. |
| patch_abort | MemCaseUtil_patch_abort.cfg | violation | A failed patch into an unset dst reaches `UNIMPLEMENTED` (`PatchNeverAborts`, an action property, so that a staging `CHECK` failure does not count). |
| staged_pin | MemCaseUtil_staged_pin.cfg | violation | The staging host for ABC and ENFLAME buffers is not page-locked. |
| eq_key | MemCaseUtil_eq_key.cfg | violation | Equal memory cases can have different int64 keys. |
| shutdown_race | MCEnflameDeviceThread / EnflameDeviceThread_shutdown_race.cfg | pass | This run has three instructions of every kind, and both schedulers: one that quiesces the actor before shutdown and one that lets shutdown start at any point. For both: callbacks run in order, every callback the channel accepted eventually runs, so none is pending when the poller exits, and teardown terminates. |
| cb_before_completion | EnflameDeviceThread_cb_before_completion.cfg | violation | A callback can run before the stream work it follows has completed. |
| kernel_resources | MCDtuKernels / DtuKernels_resources.cfg | pass | Two Computes of every kernel, on every branch. Calls may fail in the kernels that check every status. No call reads, frees or overwrites a handle the kernel does not hold, and no Compute returns with a device buffer allocated. The pooling kernels run over windows at least as large as their strides, in every mode, for odd and even extents, with two-element attributes that reach `topsSetPoolingDescriptor` and one-element ones that throw at `.at(1)`. Each input shape is read in both layouts, and its H and W extents differ. In all these cases `PaddingCompute` equals the reference SAME/VALID padding. |
| unchecked_failure | DtuKernels_unchecked_failure.cfg | violation | add_n, scalar_mul and sgd_update ignore some statuses. A failed call there leaves a handle unmade that the next call uses. |
| descriptor_leak | DtuKernels_descriptor_leak.cfg | violation | relu, relu_grad, normalization and scalar_mul return with descriptors alive. |
| negative_padding | DtuKernels_negative_padding.cfg | violation | With a two-element window smaller than its two-element stride, the pads passed to `topsSetPoolingDescriptor` are negative. |
| facade_rewrite | MCParallelCastFacade / ParallelCastFacade_rewrite.cfg | pass | This run covers every graph of three ops with up to two inputs each, and every order of the groups. The pass never points an input at a blob of the wrong SBP or placement. It ends with exactly one facade per (blob, placement, needed SBP). |
| facade_lost_rewrite | ParallelCastFacade_lost_rewrite.cfg | violation | An op with two inputs that need a cast keeps only the last rewrite. |

## Bounds

* **MemCaseUtil.** Three buffers are enough for a chain of a patch followed
  by a patch from a third buffer. Two suffice for the pairwise key properties,
  and symmetry over buffers is sound because every property quantifies over
  all of them. TLC integers are 32-bit signed, so the global key can be
  checked only for ranks below 2^13. The run includes 8191, the largest such
  rank.
* **EnflameDeviceThread.** Three instructions cover each instruction kind, a
  callback queued behind another, and a stop racing queued work. Both
  scheduler modes are enumerated in the same run, which holds 3616 distinct
  states.
* **DtuKernels.**
  * Two Computes are enough for a handle left over from the first to sit next
    to the second, and for the leak record to hold calls of two kernels.
  * `add_n` runs with up to 3 inputs, so the accumulation loop, which reuses
    `out_mem`, runs at least once.
  * The resource runs use `pool_size` and `strides` of two elements, as
    `topsSetPoolingDescriptor` reads them; the cover sets add one-element
    ones, which throw. `negative_padding` uses windows `<<1, 1>>` and
    `<<1, 2>>` with stride `<<2, 2>>` and input 4: a window of 1 with
    stride 2 is the smallest case that makes the total padding negative.

* **ParallelCastFacade.** Three ops with two input bns are enough for:
  * two consumers that share a need;
  * one consumer that needs two casts (of two blobs, or of one blob on both
    ibns);
  * a chain where a cast input's producer is itself cast.

  There are two placements, with `parallel_num` 1 and 2, and two SBPs. Either
  a placement change or an SBP change alone triggers a cast.

## Fairness

Weak fairness is assumed on the actor, the poller, the device and the owner,
because each is a thread that runs whenever it can. The runtime
(`RuntimeSend`, `ThreadMgrStop`) is weakly fair too: a process that is
shutting down deletes its threads, so the stop message is eventually sent.
The scheduler's quiescence is not a fairness assumption. It is the state
variable `quiesced`, and `shutdown_race` checks both of its values. `CHECK_DEADLOCK FALSE` is used
only because the process ends after teardown, or after a fatal error in the
codec. `ParallelCastFacade` is a sequential function, and its model stops
when the function returns. `DtuKernels` checks only safety, so its specification has no fairness.
It stops after `MaxComputes` Computes, or when `LOG(FATAL)` aborts.

## Not modelled

* Shape inference (`instance_norm_op.cpp`), the Python bindings and
  declarations. This is pure, sequential code with no state that outlives a
  call.
* Kernel registration (`REGISTER_USER_KERNEL ... SetIsMatchedHob`). It is a
  static table of device tag, data type and `groups == 1` matches, with no
  state or order to explore. The one wrong entry, the pooling mode of
  `avg_pool_2d_grad`, is recorded by `PoolModeOf`.
* The copy host/device kernel, which is a single dispatch.
* `op_expr_grad.cpp`. Both gradient classes reach `UNIMPLEMENTED()` in their
  constructors, so `Capture` and `DoBackward` cannot run.
  * `DoBackward` would pass four inputs: `TensorTuple inputs(2)` followed by
    two `push_back`s.
* `tensor.cpp` (pybind11 glue) and `infer_stream_type.h` (a delegating
  template).
* `scope.cpp`. It is symbol lookups at construction and reads afterwards, with
  no concurrency.
* The order in which the process deletes `Global<DTUCurrentDeviceContext>`
  relative to the device threads. It is fixed outside `src/`; the model
  assumes the threads are joined first (`DTUDestroyCtx` waits for them), so
  the stream and every kernel call fall within the context's life by
  assumption and no property is checked about it.
* An abstract channel contract that the worker refines. `Channel<T>` is not
  under `src/`, and a contract written from the spec would mirror the worker's
  own steps, so the project has no refinement check.
* What the tops runtime does with a stream destroyed while work is pending.
  This is the backend's behaviour and is not visible in `src/`.

## Findings

* Callbacks run without waiting for device completion.
  * The event wait in the poller is commented out
    (`enflame_device_thread.cpp:40`).
* `MemCaseId::operator==` ignores `registered_by_network`, but the int64 key
  includes it.
* The staging host for ENFLAME and ABC device buffers is not page-locked.
* A failed `PatchMemCase` with an unset destination reaches `UNIMPLEMENTED`.
* Four kernels leak descriptors on every call: relu, relu_grad, normalization
  and scalar_mul.
* add_n, scalar_mul and sgd_update ignore tops statuses, and after a failure
  they use an unmade handle.
* `PaddingCompute` does not clamp the total padding at 0.
* The parallel-cast facade pass loses rewrites. Each consumer rewrite copies
  the op's conf from the op graph (`add_parallel_cast_facade_op.cpp:49`), and
  `MutOps` replaces the whole conf. When an op has two inputs that need a
  cast, only the last rewrite survives.
* `avg_pool_2d_grad` passes `TOPS_POOLING_MAX` (`pool_kernel_dtu.cpp:347`).
  `PoolModeOf` records it. This needs no search, so no run is spent on it.

## Plan

All twelve runs are in use, so any further question needs a run slot.

1. Compose the kernels with the worker. Every kernel under `src/` makes only
   synchronous tops calls on the global context. Composing them would
   therefore add only `ActorLaunch` steps of kind `tops_call`, which
   `EnflameDeviceThread` already has. It becomes worth doing once a kernel
   queues work on `enflame_stream()`.
2. The `Scope` symbol-lookup protocol (`scope.cpp`). `Init` fails unless the
   job desc, both parallel descs and the parent scope are already in
   `symbol::Storage`, which is not under `src/`. `MakeChildScopeProto` fails
   for a scope built without a symbol id. A model of it needs the storage's
   contract from outside `src/`.
