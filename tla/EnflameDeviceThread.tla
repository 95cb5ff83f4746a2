------------------------- MODULE EnflameDeviceThread -------------------------
(***************************************************************************)
(* One Enflame device worker (thread/enflame_device_thread.cpp) with its   *)
(* EnflameContextHandle (device/enflame_context_handle.cpp), the           *)
(* EnflameDeviceCtx calls kernels make on it                               *)
(* (device/enflame_device_context.h) and the process-wide device context   *)
(* (device/dtu_util.cpp).                                                  *)
(*                                                                         *)
(* Threads and their steps:                                                *)
(*  - the actor thread receives instruction messages from its inbox and    *)
(*    executes each: a kernel's synchronous tops* calls, a call queued on  *)
(*    the lazily created stream, or SyncDevice; after a kernel it          *)
(*    registers a callback with AddCallBack, i.e. Sends it on              *)
(*    cb_event_chan_; a stop message ends the thread and destroys its     *)
(*    EnflameContextHandle, and with it the stream;                       *)
(*  - the poller thread Receives callbacks from cb_event_chan_ and runs    *)
(*    them until Receive reports the channel closed and empty;             *)
(*  - the device completes the calls queued on the stream, in order;       *)
(*  - the runtime sends instructions and, at shutdown, a stop message,     *)
(*    then deletes the thread: ~EnflameDeviceThread closes the channel     *)
(*    and joins the poller, ~Thread joins the actor; afterwards the global *)
(*    DTUCurrentDeviceContext is deleted.                                  *)
(***************************************************************************)
EXTENDS Naturals, Sequences, SequencesExt

CONSTANTS
  NumInstrs,   \* instruction messages the runtime sends to this thread
  InstrKinds,  \* what an instruction does on the device
  SchedulerModes  \* whether ThreadMgr quiesces the actor before shutdown:
                  \* TRUE, shutdown starts only once it has finished all work

ASSUME NumInstrs \in Nat \ {0}
ASSUME InstrKinds \subseteq {"tops_call", "stream_op", "sync_device"}
ASSUME SchedulerModes \subseteq BOOLEAN /\ SchedulerModes # {}

Instrs == 1 .. NumInstrs
Instr(id, kind) == [id |-> id, kind |-> kind]
StopMsg == Instr(0, "stop")
NoInstr == Instr(0, "none")

VARIABLES
  inbox,      \* the actor thread's message channel
  sent,       \* instructions the runtime has sent so far
  actorPc,    \* "idle", "launched" (kernel ran, callback not yet added),
              \* "syncing" (inside SyncDevice) or "exited"
  cur,        \* the instruction the actor is executing
  stream,     \* enflame_stream_: "none", "created" or "destroyed"
  devQ,       \* calls queued on the stream and not yet completed
  completed,  \* instructions whose device work has completed
  chan,       \* callbacks queued in cb_event_chan_
  closed,     \* cb_event_chan_ has been closed
  pushed,     \* callbacks Send accepted, in order (history)
  dropped,    \* callbacks whose Send found the channel closed (history)
  invoked,    \* callbacks the poller has run, in order (history)
  pollerPc,   \* "running" or "exited"
  owner,      \* shutdown progress: "running", "stopping", "closed",
              \* "poller_joined", "done"
  ctx,        \* the global DTUCurrentDeviceContext: "live" or "destroyed"
  quiesced    \* the scheduler this run has (fixed for the run)

vars == <<inbox, sent, actorPc, cur, stream, devQ, completed, chan, closed,
          pushed, dropped, invoked, pollerPc, owner, ctx, quiesced>>

Init ==
  /\ inbox = <<>>
  /\ sent = 0
  /\ actorPc = "idle"
  /\ cur = NoInstr
  /\ stream = "none"
  /\ devQ = <<>>
  /\ completed = {}
  /\ chan = <<>>
  /\ closed = FALSE
  /\ pushed = <<>>
  /\ dropped = {}
  /\ invoked = <<>>
  /\ pollerPc = "running"
  /\ owner = "running"
  /\ ctx = "live"
  /\ quiesced \in SchedulerModes

-----------------------------------------------------------------------------
(* Runtime and ThreadMgr (outside this code).                              *)
(***************************************************************************)
RuntimeSend ==
  /\ owner = "running"
  /\ sent < NumInstrs
  /\ \E k \in InstrKinds : inbox' = Append(inbox, Instr(sent + 1, k))
  /\ sent' = sent + 1
  /\ UNCHANGED <<actorPc, cur, stream, devQ, completed, chan, closed, pushed,
                 dropped, invoked, pollerPc, owner, ctx, quiesced>>

\* ThreadMgr sends the stop message after everything else; a quiescing
\* scheduler waits until the actor has finished all its work.
ThreadMgrStop ==
  /\ owner = "running"
  /\ sent = NumInstrs
  /\ quiesced => inbox = <<>> /\ actorPc = "idle"
  /\ inbox' = Append(inbox, StopMsg)
  /\ owner' = "stopping"
  /\ UNCHANGED <<sent, actorPc, cur, stream, devQ, completed, chan, closed,
                 pushed, dropped, invoked, pollerPc, ctx, quiesced>>

-----------------------------------------------------------------------------
(* Actor thread.                                                           *)
(***************************************************************************)
\* EnflameContextHandle::enflame_stream(): create the stream on first use.
EnflameStream == IF stream = "none" THEN "created" ELSE stream

\* Receive an instruction and run it: synchronous tops* calls complete
\* before the kernel returns; a stream call is queued on the stream;
\* SyncDevice obtains the stream and waits in topsStreamSynchronize.
ActorLaunch ==
  /\ actorPc = "idle"
  /\ inbox # <<>>
  /\ Head(inbox).kind # "stop"
  /\ inbox' = Tail(inbox)
  /\ cur' = Head(inbox)
  /\ CASE Head(inbox).kind = "tops_call" ->
            /\ completed' = completed \cup {Head(inbox).id}
            /\ actorPc' = "launched"
            /\ UNCHANGED <<stream, devQ>>
       [] Head(inbox).kind = "stream_op" ->
            /\ stream' = EnflameStream
            /\ devQ' = Append(devQ, Head(inbox).id)
            /\ actorPc' = "launched"
            /\ UNCHANGED completed
       [] Head(inbox).kind = "sync_device" ->
            /\ stream' = EnflameStream
            /\ actorPc' = "syncing"
            /\ UNCHANGED <<devQ, completed>>
  /\ UNCHANGED <<sent, chan, closed, pushed, dropped, invoked, pollerPc, owner, ctx, quiesced>>

\* topsStreamSynchronize returns once every queued call has completed.
ActorSyncDone ==
  /\ actorPc = "syncing"
  /\ devQ = <<>>
  /\ actorPc' = "idle"
  /\ cur' = NoInstr
  /\ UNCHANGED <<inbox, sent, stream, devQ, completed, chan, closed, pushed, dropped,
                 invoked, pollerPc, owner, ctx, quiesced>>

\* Mutant: the slot is cleared before the callback is built from it.
ActorAddCallBackClearedFirst ==
  /\ actorPc = "launched"
  /\ actorPc' = "idle"
  /\ cur' = NoInstr
  /\ \/ /\ ~closed
        /\ chan' = Append(chan, cur'.id)
        /\ pushed' = Append(pushed, cur'.id)
        /\ UNCHANGED dropped
     \/ /\ closed
        /\ dropped' = dropped \cup {cur'.id}
        /\ UNCHANGED <<chan, pushed>>
  /\ UNCHANGED <<inbox, sent, stream, devQ, completed, closed, invoked,
                 pollerPc, owner, ctx, quiesced>>

\* AddCallBack: Send the callback on cb_event_chan_; Send's status is
\* ignored, so on a closed channel the callback is lost.
\* After ~EnflameDeviceThread has returned (owner "poller_joined") the channel
\* member no longer exists; that Send is checked by ChannelOutlivesSends.
ActorAddCallBack ==
  /\ actorPc = "launched"
  /\ actorPc' = "idle"
  /\ cur' = NoInstr
  /\ \/ /\ ~closed
        /\ chan' = Append(chan, cur.id)
        /\ pushed' = Append(pushed, cur.id)
        /\ UNCHANGED dropped
     \/ /\ closed
        /\ dropped' = dropped \cup {cur.id}
        /\ UNCHANGED <<chan, pushed>>
  /\ UNCHANGED <<inbox, sent, stream, devQ, completed, closed, invoked,
                 pollerPc, owner, ctx, quiesced>>

\* The stop message ends PollMsgChannel; the thread's ThreadCtx goes out of
\* scope and ~EnflameContextHandle destroys the stream if it was created.
ActorExit ==
  /\ actorPc = "idle"
  /\ inbox # <<>>
  /\ Head(inbox).kind = "stop"
  /\ inbox' = Tail(inbox)
  /\ actorPc' = "exited"
  /\ stream' = IF stream = "created" THEN "destroyed" ELSE stream
  /\ UNCHANGED <<sent, cur, devQ, completed, chan, closed, pushed, dropped,
                 invoked, pollerPc, owner, ctx, quiesced>>

-----------------------------------------------------------------------------
(* Device and poller thread.                                               *)
(***************************************************************************)
DeviceComplete ==
  /\ devQ # <<>>
  /\ completed' = completed \cup {Head(devQ)}
  /\ devQ' = Tail(devQ)
  /\ UNCHANGED <<inbox, sent, actorPc, cur, stream, chan, closed, pushed,
                 dropped, invoked, pollerPc, owner, ctx, quiesced>>

\* Mutant: the channel hands out its newest callback first.
PollerInvokeNewest ==
  /\ pollerPc = "running"
  /\ chan # <<>>
  /\ invoked' = Append(invoked, Last(chan))
  /\ chan' = Front(chan)
  /\ UNCHANGED <<inbox, sent, actorPc, cur, stream, devQ, completed, closed,
                 pushed, dropped, pollerPc, owner, ctx, quiesced>>

\* Receive succeeds while the channel holds a callback; the poller runs it
\* at once (the event wait before the call is commented out).
PollerInvoke ==
  /\ pollerPc = "running"
  /\ chan # <<>>
  /\ invoked' = Append(invoked, Head(chan))
  /\ chan' = Tail(chan)
  /\ UNCHANGED <<inbox, sent, actorPc, cur, stream, devQ, completed, closed,
                 pushed, dropped, pollerPc, owner, ctx, quiesced>>

\* Mutant: the poller loop ends as soon as the channel is closed.
PollerExitOnClose ==
  /\ pollerPc = "running"
  /\ closed
  /\ pollerPc' = "exited"
  /\ UNCHANGED <<inbox, sent, actorPc, cur, stream, devQ, completed, chan,
                 closed, pushed, dropped, invoked, owner, ctx, quiesced>>

\* Receive reports kChannelStatusErrorClosed once the channel is closed and
\* empty, and the poller loop ends.
PollerExit ==
  /\ pollerPc = "running"
  /\ chan = <<>>
  /\ closed
  /\ pollerPc' = "exited"
  /\ UNCHANGED <<inbox, sent, actorPc, cur, stream, devQ, completed, chan,
                 closed, pushed, dropped, invoked, owner, ctx, quiesced>>

-----------------------------------------------------------------------------
(* Teardown.                                                               *)
(***************************************************************************)
\* Mutant: the destructor omits cb_event_chan_.Close().
DestructorCloseOmitted ==
  /\ owner = "stopping"
  /\ owner' = "closed"
  /\ UNCHANGED <<inbox, sent, actorPc, cur, stream, devQ, completed, chan,
                 closed, pushed, dropped, invoked, pollerPc, ctx, quiesced>>

\* ~EnflameDeviceThread: cb_event_chan_.Close()
DestructorClose ==
  /\ owner = "stopping"
  /\ closed' = TRUE
  /\ owner' = "closed"
  /\ UNCHANGED <<inbox, sent, actorPc, cur, stream, devQ, completed, chan,
                 pushed, dropped, invoked, pollerPc, ctx, quiesced>>

\* ~EnflameDeviceThread: cb_event_poller_.join()
DestructorJoinPoller ==
  /\ owner = "closed"
  /\ pollerPc = "exited"
  /\ owner' = "poller_joined"
  /\ UNCHANGED <<inbox, sent, actorPc, cur, stream, devQ, completed, chan,
                 closed, pushed, dropped, invoked, pollerPc, ctx, quiesced>>

\* ~Thread, run after the derived destructor: joins the actor thread.
BaseJoinActor ==
  /\ owner = "poller_joined"
  /\ actorPc = "exited"
  /\ owner' = "done"
  /\ UNCHANGED <<inbox, sent, actorPc, cur, stream, devQ, completed, chan,
                 closed, pushed, dropped, invoked, pollerPc, ctx, quiesced>>

\* Deleting the global DTUCurrentDeviceContext after the threads:
\* ~DTUCurrentDeviceContext calls DTUDestroyCtx (topsDeviceDestroy).
DTUDestroyCtx ==
  /\ owner = "done"
  /\ ctx = "live"
  /\ ctx' = "destroyed"
  /\ UNCHANGED <<inbox, sent, actorPc, cur, stream, devQ, completed, chan,
                 closed, pushed, dropped, invoked, pollerPc, owner, quiesced>>

-----------------------------------------------------------------------------
RuntimeNext == RuntimeSend \/ ThreadMgrStop
ActorNext == ActorLaunch \/ ActorSyncDone \/ ActorAddCallBack \/ ActorExit
PollerNext == PollerInvoke \/ PollerExit
OwnerNext == DestructorClose \/ DestructorJoinPoller \/ BaseJoinActor \/ DTUDestroyCtx

Next == RuntimeNext \/ ActorNext \/ DeviceComplete \/ PollerNext \/ OwnerNext

\* Actor, poller and teardown are OS threads, the device finishes what is
\* queued on it, and the runtime does reach shutdown: each is weakly fair.
Fairness ==
  /\ WF_vars(RuntimeNext)
  /\ WF_vars(ActorNext)
  /\ WF_vars(DeviceComplete)
  /\ WF_vars(PollerNext)
  /\ WF_vars(OwnerNext)

Spec == Init /\ [][Next]_vars /\ Fairness

-----------------------------------------------------------------------------
TypeOK ==
  /\ inbox \in Seq([id : Instrs \cup {0},
                    kind : InstrKinds \cup {"stop"}])
  /\ sent \in 0 .. NumInstrs
  /\ actorPc \in {"idle", "launched", "syncing", "exited"}
  /\ cur \in [id : Instrs \cup {0}, kind : InstrKinds \cup {"none"}]
  /\ stream \in {"none", "created", "destroyed"}
  /\ devQ \in Seq(Instrs)
  /\ completed \subseteq Instrs
  /\ chan \in Seq(Instrs)
  /\ closed \in BOOLEAN
  /\ pushed \in Seq(Instrs)
  /\ dropped \subseteq Instrs
  /\ invoked \in Seq(Instrs)
  /\ pollerPc \in {"running", "exited"}
  /\ owner \in {"running", "stopping", "closed", "poller_joined", "done"}
  /\ ctx \in {"live", "destroyed"}
  /\ quiesced \in BOOLEAN

\* Callbacks run on the poller in the order the actor added them, and the
\* actor adds them in the order it received its instructions.
CallbackOrder ==
  /\ IsPrefix(invoked, pushed)
  /\ \A i, j \in 1 .. Len(pushed) : i < j => pushed[i] < pushed[j]

\* spec 8 "shutdown drains fully": once the poller loop has ended, every
\* callback Send accepted has been run, none twice.
DrainsFully ==
  pollerPc = "exited" => invoked = pushed

\* Shutdown completes: both threads are joined and the context released.
Termination ==
  <>(owner = "done" /\ ctx = "destroyed")

\* Every callback the channel accepted from AddCallBack is eventually run by
\* the poller, however the destructor's Close races the actor.
EveryAcceptedCallbackRuns ==
  \A i \in Instrs :
    (\E k \in 1 .. Len(pushed) : pushed[k] = i) ~> (\E k \in 1 .. Len(invoked) : invoked[k] = i)

\* spec 2 / 4.3: the poller turns device completions into callbacks, so a
\* callback runs only after the device work of its instruction completed.
CallbackAfterCompletion ==
  \A k \in 1 .. Len(invoked) : invoked[k] \in completed

=============================================================================
