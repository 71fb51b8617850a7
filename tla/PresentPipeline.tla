---------------------------- MODULE PresentPipeline ----------------------------
(***************************************************************************)
(* The frame path of the Windows display driver (UsbDisplayIdd): the       *)
(* callbacks that assign and take away a swap chain (DisplayDevice.cpp),   *)
(* the present threads they start and stop, the pipeline that sends a      *)
(* frame to the transport driver chunk by chunk with retries               *)
(* (Pipeline.cpp), and the transport driver's handling of a chunk          *)
(* (Queue.cpp).                                                            *)
(***************************************************************************)
EXTENDS Naturals, Sequences, FiniteSets

CONSTANTS
  TotalChunks,  \* chunks of a frame
  kMaxRetries,  \* retries of one chunk's IOCTL
  MaxAssigns,   \* bound: swap chains assigned in a behaviour
  MaxFrames     \* bound: buffers acquired in a behaviour

ASSUME PipelineAssumption ==
  /\ TotalChunks \in Nat \ {0}
  /\ {kMaxRetries, MaxAssigns, MaxFrames} \subseteq Nat

VARIABLES
  SwapChain,        \* SwapChainCtx.SwapChain, 0 for nullptr
  PresentThread,    \* SwapChainCtx.PresentThread, 0 for nullptr
  ShouldStop,       \* SwapChainCtx.ShouldStop
  StopEvent,        \* SwapChainCtx.StopEvent is signalled
  TransportTarget,  \* g_context.TransportTarget is open
  ParentDevice,     \* g_context.ParentDevice is set
  frameCounter,     \* g_frameCounter
  thread,           \* the present threads, numbered in creation order
  callback,         \* control state of the callback being run
  assigns,          \* swap chains assigned so far: the handles are 1..assigns
  lent,             \* the swap chain the driver may use, 0 for none
  acquired,         \* buffers acquired so far
  removed,          \* the device is gone
  received,         \* chunks the device got
  last,             \* the chunk it got last, <<0, 0>> for none
  sent,             \* frames whose last chunk's IOCTL succeeded
  FramesSubmitted,  \* the transport driver's Statistics.FramesSubmitted
  abandoned         \* a callback has left a running thread nobody waits for

context == <<SwapChain, PresentThread, ShouldStop, StopEvent>>
g_context == <<TransportTarget, ParentDevice>>
device == <<received, last, sent, FramesSubmitted>>
vars == <<context, g_context, frameCounter, thread, callback, assigns, lent,
          acquired, removed, abandoned, device>>

Threads == 1..MaxAssigns
Chunks == (1..MaxFrames) \X (1..TotalChunks)
Dead == [pc |-> "dead", chain |-> 0, frame |-> 0, chunk |-> 0, retry |-> 0]

(* The control states from PipelineHandlePresent to its return, and those  *)
(* that hold a buffer of the swap chain.                                   *)
InPipeline == {"ensure", "open", "frame", "ready", "sending", "close"}
HoldsBuffer == InPipeline \union {"finish"}

Running(t) == thread[t].pc # "dead"

TypeOK ==
  /\ {SwapChain, lent, assigns, PresentThread} \subseteq 0..MaxAssigns
  /\ {ShouldStop, StopEvent, TransportTarget, ParentDevice, removed, abandoned} \subseteq BOOLEAN
  /\ {frameCounter, acquired, FramesSubmitted} \subseteq 0..MaxFrames
  /\ thread \in [Threads ->
       [pc : HoldsBuffer \union {"dead", "top", "wait", "acquire"},
        chain : 0..MaxAssigns, frame : 0..MaxFrames,
        chunk : 0..TotalChunks, retry : 0..kMaxRetries]]
  /\ callback \in {"none", "assign", "unassign", "clear", "removal", "teardown", "detach"}
  /\ received \subseteq Chunks
  /\ last \in Chunks \union {<<0, 0>>}
  /\ sent \subseteq 1..MaxFrames

(* The driver is loaded and PipelineInitialize has run: the target is open *)
(* if the transport driver was there already.                              *)
Init ==
  /\ SwapChain = 0 /\ PresentThread = 0
  /\ ShouldStop = FALSE /\ StopEvent = FALSE
  /\ TransportTarget \in BOOLEAN /\ ParentDevice = TRUE
  /\ frameCounter = 0
  /\ thread = [t \in Threads |-> Dead]
  /\ callback = "none"
  /\ assigns = 0 /\ lent = 0 /\ acquired = 0
  /\ removed = FALSE /\ abandoned = FALSE
  /\ received = {} /\ last = <<0, 0>> /\ sent = {} /\ FramesSubmitted = 0

-----------------------------------------------------------------------------
(* DisplayEvtAssignSwapChain.  The callbacks of the monitor and of the     *)
(* device run one at a time.  PsCreateSystemThread may fail: then the      *)
(* swap chain is refused and its handle stays in the context.              *)
AssignSwapChain ==
  /\ callback = "none" /\ lent = 0 /\ ~removed
  /\ assigns < MaxAssigns
  /\ assigns' = assigns + 1
  /\ SwapChain' = assigns'
  /\ ShouldStop' = FALSE
  /\ StopEvent' = FALSE
  /\ \/ /\ thread' = [thread EXCEPT ![assigns'].pc = "top"]
        /\ callback' = "assign"
        /\ lent' = assigns'
     \/ UNCHANGED <<thread, callback, lent>>
  /\ UNCHANGED <<PresentThread, g_context, frameCounter, acquired, removed,
                 abandoned, device>>

(* ObReferenceObjectByHandle succeeds and the callback returns.            *)
ReferenceThread ==
  /\ callback = "assign"
  /\ PresentThread' = assigns
  /\ callback' = "none"
  /\ UNCHANGED <<SwapChain, ShouldStop, StopEvent, g_context, frameCounter,
                 thread, assigns, lent, acquired, removed, abandoned, device>>

(* ObReferenceObjectByHandle fails: the thread is told to stop and the     *)
(* callback returns the error, so that the swap chain is taken back.       *)
ReferenceFails ==
  /\ callback = "assign"
  /\ ShouldStop' = TRUE
  /\ StopEvent' = TRUE
  /\ lent' = 0
  /\ callback' = "none"
  /\ abandoned' = (abandoned \/ Running(assigns))
  /\ UNCHANGED <<SwapChain, PresentThread, g_context, frameCounter, thread,
                 assigns, acquired, removed, device>>

(* Mutant of SignalStop: waits for a thread it did not tell to stop.       *)
SignalNothing(waiting, otherwise) ==
  /\ UNCHANGED <<ShouldStop, StopEvent>>
  /\ callback' = IF PresentThread # 0 THEN waiting ELSE otherwise

(* Signals the present thread, if the context has one, to stop.            *)
SignalStop(waiting, otherwise) ==
  IF PresentThread # 0
  THEN ShouldStop' = TRUE /\ StopEvent' = TRUE /\ callback' = waiting
  ELSE UNCHANGED <<ShouldStop, StopEvent>> /\ callback' = otherwise

(* DisplayEvtUnassignSwapChain, up to its wait.                            *)
UnassignSwapChain ==
  /\ callback = "none" /\ lent # 0
  /\ SignalStop("unassign", "clear")
  /\ UNCHANGED <<SwapChain, PresentThread, g_context, frameCounter, thread,
                 assigns, lent, acquired, removed, abandoned, device>>

(* Mutant of UnassignWaited: does not wait.                                *)
UnassignNotWaited ==
  /\ callback = "unassign"
  /\ PresentThread' = 0
  /\ callback' = "clear"
  /\ UNCHANGED <<SwapChain, ShouldStop, StopEvent, g_context, frameCounter,
                 thread, assigns, lent, acquired, removed, abandoned, device>>

(* The present thread has terminated: its reference is released.           *)
UnassignWaited ==
  /\ callback = "unassign"
  /\ ~Running(PresentThread)
  /\ PresentThread' = 0
  /\ callback' = "clear"
  /\ UNCHANGED <<SwapChain, ShouldStop, StopEvent, g_context, frameCounter,
                 thread, assigns, lent, acquired, removed, abandoned, device>>

(* The swap chain is cleared and given back.                               *)
UnassignClear ==
  /\ callback = "clear"
  /\ SwapChain' = 0
  /\ lent' = 0
  /\ callback' = "none"
  /\ UNCHANGED <<PresentThread, ShouldStop, StopEvent, g_context, frameCounter,
                 thread, assigns, acquired, removed, abandoned, device>>

(* DisplayEvtSurpriseRemoval, up to its wait.                              *)
SurpriseRemoval ==
  /\ callback = "none" /\ ~removed
  /\ removed' = TRUE
  /\ SignalStop("removal", "teardown")
  /\ UNCHANGED <<SwapChain, PresentThread, g_context, frameCounter, thread,
                 assigns, lent, acquired, abandoned, device>>

(* The wait ends with the thread or, after one second, without it; either  *)
(* way the pointer is cleared.                                             *)
RemovalWaited ==
  /\ callback = "removal"
  /\ PresentThread' = 0
  /\ callback' = "teardown"
  /\ abandoned' = (abandoned \/ Running(PresentThread))
  /\ UNCHANGED <<SwapChain, ShouldStop, StopEvent, g_context, frameCounter,
                 thread, assigns, lent, acquired, removed, device>>

(* PipelineTeardown: WdfIoTargetClose cancels a request that is under way  *)
(* and waits for it; then the parent device is cleared.                    *)
TeardownClose ==
  /\ callback = "teardown"
  /\ \A t \in Threads : thread[t].pc # "sending"
  /\ TransportTarget' = FALSE
  /\ callback' = "detach"
  /\ UNCHANGED <<context, ParentDevice, frameCounter, thread, assigns, lent,
                 acquired, removed, abandoned, device>>

TeardownDetach ==
  /\ callback = "detach"
  /\ ParentDevice' = FALSE
  /\ callback' = "none"
  /\ UNCHANGED <<context, TransportTarget, frameCounter, thread, assigns, lent,
                 acquired, removed, abandoned, device>>

-----------------------------------------------------------------------------
(* PresentProcessingThread: the loop's test, the wait of 10 ms for the     *)
(* stop event, and IddCxSwapChainReleaseAndAcquireBuffer, which gives a    *)
(* buffer, nothing yet or an error that ends the thread.                   *)
Goto(t, pc) == thread' = [thread EXCEPT ![t].pc = pc]

LoopTest(t) ==
  /\ thread[t].pc = "top"
  /\ IF ShouldStop THEN thread' = [thread EXCEPT ![t] = Dead] ELSE Goto(t, "wait")
  /\ UNCHANGED <<context, g_context, frameCounter, callback, assigns, lent,
                 acquired, removed, abandoned, device>>

WaitForStop(t) ==
  /\ thread[t].pc = "wait"
  /\ IF StopEvent THEN thread' = [thread EXCEPT ![t] = Dead] ELSE Goto(t, "acquire")
  /\ UNCHANGED <<context, g_context, frameCounter, callback, assigns, lent,
                 acquired, removed, abandoned, device>>

AcquireBuffer(t) ==
  /\ thread[t].pc = "acquire"
  /\ acquired < MaxFrames
  /\ acquired' = acquired + 1
  /\ thread' = [thread EXCEPT ![t] =
       [pc |-> "ensure", chain |-> SwapChain, frame |-> 0, chunk |-> 0, retry |-> 0]]
  /\ UNCHANGED <<context, g_context, frameCounter, callback, assigns, lent,
                 removed, abandoned, device>>

AcquireNothing(t) ==
  /\ thread[t].pc = "acquire"
  /\ Goto(t, "top")
  /\ UNCHANGED <<context, g_context, frameCounter, callback, assigns, lent,
                 acquired, removed, abandoned, device>>

AcquireFails(t) ==
  /\ thread[t].pc = "acquire"
  /\ thread' = [thread EXCEPT ![t] = Dead]
  /\ UNCHANGED <<context, g_context, frameCounter, callback, assigns, lent,
                 acquired, removed, abandoned, device>>

(* PresentCompletion: IddCxSwapChainFinishedPresent, whatever became of    *)
(* the frame.                                                              *)
FinishPresent(t) ==
  /\ thread[t].pc = "finish"
  /\ thread' = [thread EXCEPT ![t] = [Dead EXCEPT !.pc = "top"]]
  /\ UNCHANGED <<context, g_context, frameCounter, callback, assigns, lent,
                 acquired, removed, abandoned, device>>

-----------------------------------------------------------------------------
(* EnsureTransportTarget.  PipelineHandlePresent calls it once before the  *)
(* frame is made (chunk 0), where a failure drops the frame, and           *)
(* SendIoctlWithRetry before each attempt, where a failure uses up one.    *)
Ensured(t) == IF thread[t].chunk = 0 THEN "frame" ELSE "ready"

MayRetry(t) == thread[t].chunk # 0 /\ thread[t].retry < kMaxRetries

(* Mutant of AttemptFailed: tries again without a target.                  *)
AttemptSkipsEnsure(t) ==
  thread' = IF MayRetry(t)
            THEN [thread EXCEPT ![t].pc = "ready", ![t].retry = @ + 1]
            ELSE [thread EXCEPT ![t].pc = "finish"]

(* Mutant of AttemptFailed: goes on with the next chunk.                   *)
AttemptSkipsChunk(t) ==
  thread' = IF MayRetry(t)
            THEN [thread EXCEPT ![t].pc = "ensure", ![t].retry = @ + 1]
            ELSE IF thread[t].chunk \in 1..(TotalChunks - 1)
            THEN [thread EXCEPT ![t].pc = "ensure", ![t].chunk = @ + 1, ![t].retry = 0]
            ELSE [thread EXCEPT ![t].pc = "finish"]

AttemptFailed(t) ==
  thread' = IF MayRetry(t)
            THEN [thread EXCEPT ![t].pc = "ensure", ![t].retry = @ + 1]
            ELSE [thread EXCEPT ![t].pc = "finish"]

EnsureTransportTarget(t) ==
  /\ thread[t].pc = "ensure"
  /\ \/ TransportTarget /\ Goto(t, Ensured(t))
     \/ ~TransportTarget /\ ParentDevice /\ Goto(t, "open")
     \/ ~TransportTarget /\ AttemptFailed(t)
  /\ UNCHANGED <<context, g_context, frameCounter, callback, assigns, lent,
                 acquired, removed, abandoned, device>>

(* The interface was found: the target is created and opened, which may    *)
(* fail.                                                                   *)
OpenTarget(t) ==
  /\ thread[t].pc = "open"
  /\ \/ ParentDevice /\ TransportTarget' = TRUE /\ Goto(t, Ensured(t))
     \/ AttemptFailed(t) /\ TransportTarget' = FALSE
  /\ UNCHANGED <<context, ParentDevice, frameCounter, callback, assigns, lent,
                 acquired, removed, abandoned, device>>

(* PipelineHandlePresent up to the chunk loop: the surface is converted    *)
(* and the frame gets its number, or it cannot be read and is dropped.     *)
PrepareFrame(t) ==
  /\ thread[t].pc = "frame"
  /\ frameCounter' = frameCounter + 1
  /\ thread' = [thread EXCEPT ![t].pc = "ensure", ![t].frame = frameCounter',
                              ![t].chunk = 1, ![t].retry = 0]
  /\ UNCHANGED <<context, g_context, callback, assigns, lent, acquired, removed,
                 abandoned, device>>

DropFrame(t) ==
  /\ thread[t].pc = "frame"
  /\ Goto(t, "finish")
  /\ UNCHANGED <<context, g_context, frameCounter, callback, assigns, lent,
                 acquired, removed, abandoned, device>>

(* A chunk's buffer cannot be allocated: the rest of the frame is not sent. *)
DropChunk(t) ==
  /\ thread[t].pc = "ensure" /\ thread[t].chunk # 0 /\ thread[t].retry = 0
  /\ Goto(t, "finish")
  /\ UNCHANGED <<context, g_context, frameCounter, callback, assigns, lent,
                 acquired, removed, abandoned, device>>

(* WdfIoTargetSendIoctlSynchronously on the target that is open by then.   *)
(* On a null target, which only an abandoned thread leaves behind, the     *)
(* framework stops the system: the thread does not go on.                  *)
SendIoctl(t) ==
  /\ thread[t].pc = "ready"
  /\ TransportTarget
  /\ Goto(t, "sending")
  /\ UNCHANGED <<context, g_context, frameCounter, callback, assigns, lent,
                 acquired, removed, abandoned, device>>

(* A chunk arrives at the device.                                          *)
DeviceGets(frame, chunk) ==
  /\ received' = received \union {<<frame, chunk>>}
  /\ last' = <<frame, chunk>>

(* Mutant of PushFrameChunk: the last chunk is taken to be one earlier.    *)
PushFrameChunkOffByOne(t) ==
  /\ DeviceGets(thread[t].frame, thread[t].chunk)
  /\ IF thread[t].chunk + 1 = TotalChunks
     THEN /\ FramesSubmitted' = FramesSubmitted + 1
          /\ sent' = sent \union {thread[t].frame}
     ELSE UNCHANGED <<FramesSubmitted, sent>>

(* The transport driver: the bulk write succeeds, and the last chunk of a  *)
(* frame is counted.                                                       *)
PushFrameChunk(t) ==
  /\ DeviceGets(thread[t].frame, thread[t].chunk)
  /\ IF thread[t].chunk = TotalChunks
     THEN /\ FramesSubmitted' = FramesSubmitted + 1
          /\ sent' = sent \union {thread[t].frame}
     ELSE UNCHANGED <<FramesSubmitted, sent>>

(* The next chunk, or the end of the frame.                                *)
NextChunk(t) ==
  thread' = IF thread[t].chunk < TotalChunks
            THEN [thread EXCEPT ![t].pc = "ensure", ![t].chunk = @ + 1, ![t].retry = 0]
            ELSE [thread EXCEPT ![t].pc = "finish"]

ChunkSent(t) ==
  /\ thread[t].pc = "sending"
  /\ PushFrameChunk(t)
  /\ NextChunk(t)
  /\ UNCHANGED <<context, g_context, frameCounter, callback, assigns, lent,
                 acquired, removed, abandoned>>

(* The request fails, with the device having got the chunk or not.         *)
ChunkFailed(t) ==
  /\ thread[t].pc = "sending"
  /\ Goto(t, "close")
  /\ \/ DeviceGets(thread[t].frame, thread[t].chunk)
     \/ UNCHANGED <<received, last>>
  /\ UNCHANGED <<context, g_context, frameCounter, callback, assigns, lent,
                 acquired, removed, abandoned, sent, FramesSubmitted>>

(* CloseTransportTarget, and the next attempt if one is left.              *)
CloseAndRetry(t) ==
  /\ thread[t].pc = "close"
  /\ TransportTarget' = FALSE
  /\ AttemptFailed(t)
  /\ UNCHANGED <<context, ParentDevice, frameCounter, callback, assigns, lent,
                 acquired, removed, abandoned, device>>

-----------------------------------------------------------------------------
CallbackStep == ReferenceThread \/ UnassignWaited \/ UnassignClear \/ RemovalWaited
                \/ TeardownClose \/ TeardownDetach
Callback == AssignSwapChain \/ ReferenceFails \/ UnassignSwapChain \/ SurpriseRemoval
            \/ CallbackStep

ThreadStep(t) ==
  \/ LoopTest(t) \/ WaitForStop(t)
  \/ AcquireBuffer(t) \/ AcquireNothing(t) \/ AcquireFails(t)
  \/ EnsureTransportTarget(t) \/ OpenTarget(t)
  \/ PrepareFrame(t) \/ DropFrame(t) \/ DropChunk(t)
  \/ SendIoctl(t) \/ ChunkSent(t) \/ ChunkFailed(t) \/ CloseAndRetry(t)
  \/ FinishPresent(t)

Next == Callback \/ \E t \in Threads : ThreadStep(t)

Spec == Init /\ [][Next]_vars

(* A callback runs on, a thread is scheduled, and an IOCTL comes back.     *)
FairSpec == Spec /\ WF_vars(CallbackStep) /\ \A t \in Threads : WF_vars(ThreadStep(t))

-----------------------------------------------------------------------------
(* g_context has no lock: at most one thread is in the pipeline, none is   *)
(* while PipelineTeardown runs, and the target a thread has ensured is     *)
(* still there when it sends - as long as no callback has left a thread    *)
(* running that it ought to have waited for.                               *)
PipelineExclusive ==
  LET inside == {t \in Threads : thread[t].pc \in InPipeline}
  IN  ~abandoned =>
        /\ Cardinality(inside) <= 1
        /\ callback \in {"teardown", "detach"} => inside = {}
        /\ \A t \in inside : thread[t].pc \in {"frame", "ready", "sending"} => TransportTarget

(* No thread touches a swap chain that was taken back: the one it acquires *)
(* from and the one whose buffer it holds are the one lent to the driver,  *)
(* as long as no callback has abandoned a thread.                          *)
SwapChainStillLent ==
  ~abandoned =>
    \A t \in Threads :
      /\ thread[t].pc = "acquire" => SwapChain # 0 /\ SwapChain = lent
      /\ thread[t].pc \in HoldsBuffer => thread[t].chain # 0 /\ thread[t].chain = lent

(* Whatever is retried or given up, the device gets the chunks of a frame  *)
(* from the first on, without a gap and not mixed with those of another    *)
(* frame; the only chunk it may get again is the last one.                 *)
ChunksInOrder ==
  [][~abandoned /\ last' # last =>
       \/ last' = <<last[1], last[2] + 1>>
       \/ last'[1] > last[1] /\ last'[2] = 1]_vars

(* Statistics.FramesSubmitted is the number of frames of which the device  *)
(* has every chunk and the driver knows it, whatever threads are left.     *)
FramesCountedOnce ==
  /\ FramesSubmitted = Cardinality(sent)
  /\ sent \X (1..TotalChunks) \subseteq received

(* DisplayEvtUnassignSwapChain waits without a timeout and returns, as     *)
(* long as no callback has abandoned a thread.                             *)
UnassignEnds == callback = "unassign" ~> callback = "none" \/ abandoned

=============================================================================
