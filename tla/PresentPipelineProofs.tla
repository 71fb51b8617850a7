------------------------- MODULE PresentPipelineProofs -------------------------
(***************************************************************************)
(* Proofs about PresentPipeline, for frames of any number of chunks, any   *)
(* number of retries, swap chains and buffers.                             *)
(***************************************************************************)
EXTENDS PresentPipeline, FiniteSetTheorems, TLAPS

ThreadRecord ==
  [pc : HoldsBuffer \union {"dead", "top", "wait", "acquire"},
   chain : Nat, frame : Nat, chunk : 0..TotalChunks, retry : Nat]

(* TypeOK without the bounds of the model.                                 *)
Shape ==
  /\ SwapChain \in Nat /\ PresentThread \in Nat /\ lent \in Nat
  /\ assigns \in 0..MaxAssigns
  /\ frameCounter \in Nat /\ FramesSubmitted \in Nat
  /\ thread \in [Threads -> ThreadRecord]
  /\ callback \in {"none", "assign", "unassign", "clear", "removal", "teardown", "detach"}
  /\ received \subseteq Nat \X Nat
  /\ last \in Nat \X Nat

(***************************************************************************)
(* The callbacks hand the present thread over: without a swap chain on     *)
(* loan, and between its creation and its reference, the context has none. *)
(***************************************************************************)
Handover ==
  /\ lent = 0 \/ callback \in {"assign", "clear", "teardown", "detach"} => PresentThread = 0
  /\ callback = "assign" => assigns # 0 /\ lent = assigns

(* The thread the callbacks know of.                                       *)
Current == IF callback = "assign" THEN assigns ELSE PresentThread

(***************************************************************************)
(* Until a callback abandons a thread, the only one that runs is the one   *)
(* the callbacks know of; it works on the swap chain it was started for,   *)
(* and the target it has ensured is open.                                  *)
(***************************************************************************)
RunsAlone(t) ==
  Running(t) =>
    /\ t = Current
    /\ lent = t /\ SwapChain = t
    /\ thread[t].pc \in HoldsBuffer => thread[t].chain = t
    /\ thread[t].pc \in {"frame", "ready", "sending"} => TransportTarget

Alone == ~abandoned => \A t \in Threads : RunsAlone(t)

(* A thread with a numbered frame that is not given up yet.                *)
InFrame(t) == thread[t].pc \in InPipeline /\ thread[t].chunk # 0

(***************************************************************************)
(* Frame numbers are given out once, also to threads left behind.          *)
(***************************************************************************)
Numbered ==
  /\ \A t \in Threads :
       /\ thread[t].pc \in {"ready", "sending", "close"} => thread[t].chunk # 0
       /\ InFrame(t) => thread[t].frame \in 1..frameCounter
  /\ \A t, u \in Threads :
       InFrame(t) /\ InFrame(u) /\ t # u => thread[t].frame # thread[u].frame

(***************************************************************************)
(* What the device has of the frames that were counted and of those that   *)
(* are being sent.                                                         *)
(***************************************************************************)
Counted ==
  /\ sent \subseteq 1..frameCounter
  /\ FramesSubmitted = Cardinality(sent)
  /\ sent \X (1..TotalChunks) \subseteq received
  /\ \A t \in Threads : InFrame(t) =>
       /\ thread[t].frame \notin sent
       /\ \A k \in 1..(thread[t].chunk - 1) : <<thread[t].frame, k>> \in received

(***************************************************************************)
(* Where a thread is relative to the chunk the device got last: at that    *)
(* chunk, at the one after it, or at the first one of a later frame.       *)
(***************************************************************************)
Follows(t) ==
  InFrame(t) =>
    \/ last[1] = thread[t].frame /\ last[2] = thread[t].chunk
    \/ last[1] = thread[t].frame /\ last[2] = thread[t].chunk - 1
    \/ last[1] < thread[t].frame /\ thread[t].chunk = 1

Position ==
  /\ last[1] <= frameCounter
  /\ ~abandoned => \A t \in Threads : Follows(t)

IInv == Shape /\ Handover /\ Alone /\ Numbered /\ Counted /\ Position

-----------------------------------------------------------------------------
(* The callbacks and the threads, as far as the proofs tell them apart:    *)
(* the steps of a thread that neither number a frame nor reach the device. *)
QuietStep(t) ==
  \/ LoopTest(t) \/ WaitForStop(t)
  \/ AcquireBuffer(t) \/ AcquireNothing(t) \/ AcquireFails(t)
  \/ EnsureTransportTarget(t) \/ OpenTarget(t)
  \/ DropFrame(t) \/ DropChunk(t)
  \/ SendIoctl(t) \/ CloseAndRetry(t)
  \/ FinishPresent(t)

(* The parts of a present thread's record.                                 *)
LEMMA ThreadFields ==
  ASSUME Shape, NEW t \in Threads
  PROVE  /\ thread[t] \in ThreadRecord
         /\ thread[t].pc \in HoldsBuffer \union {"dead", "top", "wait", "acquire"}
         /\ thread[t].chain \in Nat /\ thread[t].frame \in Nat
         /\ thread[t].chunk \in 0..TotalChunks /\ thread[t].retry \in Nat
<1>1. thread[t] \in ThreadRecord
  BY DEF Shape
<1>2. QED
  BY <1>1 DEF ThreadRecord

(* A failed attempt is repeated or ends the frame; the chunk stays.        *)
LEMMA AttemptFailedEffect ==
  ASSUME Shape, NEW t \in Threads, AttemptFailed(t)
  PROVE  /\ thread' \in [Threads -> ThreadRecord]
         /\ \A u \in Threads : u # t => thread'[u] = thread[u]
         /\ thread'[t].pc \in {"ensure", "finish"}
         /\ thread'[t].chain = thread[t].chain
         /\ thread'[t].frame = thread[t].frame
         /\ thread'[t].chunk = thread[t].chunk
  BY ThreadFields DEF Shape, ThreadRecord, AttemptFailed, HoldsBuffer, InPipeline

(* A quiet step changes one thread and at most the target; it starts no    *)
(* thread, and it gives a thread neither a frame nor another chunk.        *)
LEMMA QuietEffect ==
  ASSUME Shape, NEW t \in Threads, QuietStep(t)
  PROVE  /\ UNCHANGED <<context, frameCounter, callback, assigns, lent, abandoned, device>>
         /\ thread' \in [Threads -> ThreadRecord]
         /\ \A u \in Threads : u # t => thread'[u] = thread[u]
         /\ Running(t)
         /\ thread'[t].pc \in {"ready", "sending", "close"} =>
              \/ thread'[t].chunk # 0
              \/ /\ thread[t].pc \in {"ready", "sending", "close"}
                 /\ thread'[t].chunk = thread[t].chunk
         /\ InFrame(t)' => InFrame(t) /\ thread'[t].frame = thread[t].frame
                                      /\ thread'[t].chunk = thread[t].chunk
         /\ thread'[t].pc \in HoldsBuffer =>
              \/ thread[t].pc \in HoldsBuffer /\ thread'[t].chain = thread[t].chain
              \/ thread'[t].chain = SwapChain
         /\ thread'[t].pc \in {"frame", "ready", "sending"} => TransportTarget'
<1> DEFINE r == thread[t]
<1>1. /\ r.pc \in HoldsBuffer \union {"dead", "top", "wait", "acquire"}
      /\ r.chain \in Nat /\ r.frame \in Nat
      /\ r.chunk \in 0..TotalChunks /\ r.retry \in Nat
      /\ thread \in [Threads -> ThreadRecord]
      /\ SwapChain \in Nat
  BY ThreadFields DEF Shape
<1> USE <1>1, PipelineAssumption DEF ThreadRecord, HoldsBuffer, InPipeline, Running, InFrame,
      context, g_context, device
<1>2. CASE LoopTest(t)
  BY <1>2 DEF LoopTest, Goto, Dead
<1>3. CASE WaitForStop(t)
  BY <1>3 DEF WaitForStop, Goto, Dead
<1>4. CASE AcquireBuffer(t)
  BY <1>4 DEF AcquireBuffer
<1>5. CASE AcquireNothing(t)
  BY <1>5 DEF AcquireNothing, Goto
<1>6. CASE AcquireFails(t)
  BY <1>6 DEF AcquireFails, Dead
<1>7. CASE EnsureTransportTarget(t)
  <2>1. CASE TransportTarget /\ Goto(t, Ensured(t))
    BY <1>7, <2>1 DEF EnsureTransportTarget, Goto, Ensured
  <2>2. CASE Goto(t, "open")
    BY <1>7, <2>2 DEF EnsureTransportTarget, Goto
  <2>3. CASE AttemptFailed(t)
    BY <1>7, <2>3, AttemptFailedEffect DEF EnsureTransportTarget
  <2>4. QED
    BY <1>7, <2>1, <2>2, <2>3 DEF EnsureTransportTarget
<1>8. CASE OpenTarget(t)
  <2>1. CASE TransportTarget' = TRUE /\ Goto(t, Ensured(t))
    BY <1>8, <2>1 DEF OpenTarget, Goto, Ensured
  <2>2. CASE AttemptFailed(t)
    BY <1>8, <2>2, AttemptFailedEffect DEF OpenTarget
  <2>3. QED
    BY <1>8, <2>1, <2>2 DEF OpenTarget
<1>9. CASE DropFrame(t)
  BY <1>9 DEF DropFrame, Goto
<1>10. CASE DropChunk(t)
  BY <1>10 DEF DropChunk, Goto
<1>11. CASE SendIoctl(t)
  BY <1>11 DEF SendIoctl, Goto
<1>12. CASE CloseAndRetry(t)
  BY <1>12, AttemptFailedEffect DEF CloseAndRetry
<1>13. CASE FinishPresent(t)
  BY <1>13 DEF FinishPresent, Dead
<1>14. QED
  BY <1>2, <1>3, <1>4, <1>5, <1>6, <1>7, <1>8, <1>9, <1>10, <1>11, <1>12, <1>13
  DEF QuietStep

(* A quiet step of a thread keeps the invariant.                           *)
LEMMA QuietKeeps ==
  ASSUME IInv, NEW t \in Threads, QuietStep(t)
  PROVE  IInv'
<1>1. Shape
  BY DEF IInv
<1>2. /\ UNCHANGED <<context, frameCounter, callback, assigns, lent, abandoned, device>>
      /\ thread' \in [Threads -> ThreadRecord]
      /\ \A u \in Threads : u # t => thread'[u] = thread[u]
      /\ Running(t)
      /\ thread'[t].pc \in {"ready", "sending", "close"} =>
           \/ thread'[t].chunk # 0
           \/ /\ thread[t].pc \in {"ready", "sending", "close"}
              /\ thread'[t].chunk = thread[t].chunk
      /\ InFrame(t)' => InFrame(t) /\ thread'[t].frame = thread[t].frame
                                   /\ thread'[t].chunk = thread[t].chunk
      /\ thread'[t].pc \in HoldsBuffer =>
           \/ thread[t].pc \in HoldsBuffer /\ thread'[t].chain = thread[t].chain
           \/ thread'[t].chain = SwapChain
      /\ thread'[t].pc \in {"frame", "ready", "sending"} => TransportTarget'
  BY <1>1, QuietEffect
<1>3. UNCHANGED <<SwapChain, PresentThread, frameCounter, callback, assigns, lent, abandoned,
                  received, last, sent, FramesSubmitted>>
  BY <1>2 DEF context, device
<1>4. Shape' /\ Handover'
  BY <1>2, <1>3 DEF IInv, Shape, Handover
<1>5. \A u \in Threads : u # t => (InFrame(u)' <=> InFrame(u)) /\ (Running(u)' <=> Running(u))
  BY <1>2 DEF InFrame, Running
<1>6. Alone'
  <2> SUFFICES ASSUME ~abandoned, NEW u \in Threads, Running(u)'
               PROVE  RunsAlone(u)'
    BY <1>3 DEF Alone, RunsAlone
  <2>1. RunsAlone(t) /\ RunsAlone(u)
    BY DEF IInv, Alone
  <2>2. u = t
    BY <1>2, <1>5, <2>1 DEF RunsAlone
  <2>3. Current' = Current
    BY <1>3 DEF Current
  <2>4. QED
    BY <1>2, <1>3, <2>1, <2>2, <2>3 DEF RunsAlone
<1>7. Numbered'
  <2>1. \A u \in Threads :
          InFrame(u)' => InFrame(u) /\ thread'[u].frame = thread[u].frame
    BY <1>2, <1>5
  <2>2. ASSUME NEW u \in Threads, thread'[u].pc \in {"ready", "sending", "close"}
        PROVE  thread'[u].chunk # 0
    <3>1. CASE u # t
      BY <1>2, <2>2, <3>1 DEF IInv, Numbered
    <3>2. CASE u = t
      BY <1>2, <2>2, <3>2 DEF IInv, Numbered
    <3>3. QED
      BY <3>1, <3>2
  <2>3. QED
    BY <1>3, <2>1, <2>2 DEF IInv, Numbered
<1>8. Counted'
  <2>1. \A u \in Threads :
          InFrame(u)' => /\ InFrame(u) /\ thread'[u].frame = thread[u].frame
                         /\ thread'[u].chunk = thread[u].chunk
    BY <1>2, <1>5
  <2>2. QED
    BY <1>3, <2>1 DEF IInv, Counted
<1>9. Position'
  <2>1. \A u \in Threads :
          InFrame(u)' => /\ InFrame(u) /\ thread'[u].frame = thread[u].frame
                         /\ thread'[u].chunk = thread[u].chunk
    BY <1>2, <1>5
  <2>2. QED
    BY <1>3, <2>1 DEF IInv, Position, Follows
<1>10. QED
  BY <1>4, <1>6, <1>7, <1>8, <1>9 DEF IInv

(* A step of a thread that stays in the pipeline and changes neither the   *)
(* callbacks' state nor the target keeps the one thread alone.             *)
LEMMA StaysAlone ==
  ASSUME IInv, NEW t \in Threads, thread[t].pc \in InPipeline,
         UNCHANGED <<SwapChain, PresentThread, TransportTarget, callback, assigns, lent,
                     abandoned>>,
         \A u \in Threads : u # t => thread'[u] = thread[u],
         thread'[t].chain = thread[t].chain,
         thread'[t].pc \notin {"frame", "ready", "sending"}
  PROVE  Alone'
<1> SUFFICES ASSUME ~abandoned, NEW u \in Threads, Running(u)'
             PROVE  RunsAlone(u)'
  BY DEF Alone, RunsAlone
<1>1. RunsAlone(t) /\ RunsAlone(u)
  BY DEF IInv, Alone
<1>2. Running(t)
  BY DEF Running, InPipeline
<1>3. Running(u)
  BY <1>2 DEF Running
<1>4. u = t
  BY <1>1, <1>2, <1>3 DEF RunsAlone
<1>5. Current' = Current
  BY DEF Current
<1>6. QED
  BY <1>1, <1>2, <1>4, <1>5 DEF RunsAlone, HoldsBuffer

(* PrepareFrame gives the next number to a frame.                          *)
LEMMA PrepareKeeps ==
  ASSUME IInv, NEW t \in Threads, PrepareFrame(t)
  PROVE  IInv'
<1> USE PipelineAssumption DEF context, g_context, device
<1>1. /\ Shape /\ thread[t].chain \in Nat
      /\ thread \in [Threads -> ThreadRecord] /\ frameCounter + 1 \in Nat /\ 1 \in 0..TotalChunks
  BY ThreadFields DEF IInv, Shape
<1>2. /\ thread' \in [Threads -> ThreadRecord]
      /\ \A u \in Threads : u # t => thread'[u] = thread[u]
      /\ thread'[t].pc = "ensure" /\ thread'[t].chain = thread[t].chain
      /\ thread'[t].frame = frameCounter + 1 /\ thread'[t].chunk = 1
      /\ frameCounter' = frameCounter + 1
      /\ thread[t].pc = "frame"
  <2> DEFINE f == frameCounter + 1
  <2>1. /\ thread[t].pc = "frame" /\ frameCounter' = f
        /\ thread' = [thread EXCEPT ![t].pc = "ensure", ![t].frame = f,
                                   ![t].chunk = 1, ![t].retry = 0]
    BY DEF PrepareFrame
  <2>2. f \in Nat
    BY <1>1
  <2> HIDE DEF f
  <2> DEFINE r == [thread[t] EXCEPT !.pc = "ensure", !.frame = f, !.chunk = 1, !.retry = 0]
  <2>3. r \in ThreadRecord
    BY <1>1, <2>2, ThreadFields DEF ThreadRecord, HoldsBuffer, InPipeline
  <2>4. r.pc = "ensure" /\ r.chain = thread[t].chain /\ r.frame = f /\ r.chunk = 1
    BY <1>1 DEF ThreadRecord
  <2>5. thread' = [thread EXCEPT ![t] = r]
    BY <1>1, <2>1 DEF ThreadRecord
  <2> HIDE DEF r
  <2>6. /\ thread' \in [Threads -> ThreadRecord]
        /\ \A u \in Threads : u # t => thread'[u] = thread[u]
        /\ thread'[t] = r
    BY <1>1, <2>3, <2>5
  <2>7. QED
    BY <2>1, <2>4, <2>6 DEF f
<1>3. UNCHANGED <<SwapChain, PresentThread, TransportTarget, callback, assigns, lent, abandoned,
                  received, last, sent, FramesSubmitted>>
  BY DEF PrepareFrame
<1>4. Shape' /\ Handover'
  BY <1>1, <1>2, <1>3 DEF IInv, Shape, Handover
<1>5. Alone'
  BY <1>2, <1>3, StaysAlone DEF InPipeline
<1>6. \A u \in Threads : u # t => (InFrame(u)' <=> InFrame(u))
  BY <1>2 DEF InFrame
<1>7. frameCounter \in Nat
  BY <1>1 DEF Shape
<1>8. Numbered'
  BY <1>2, <1>6, <1>7 DEF IInv, Numbered
<1>9. Counted'
  <2>1. sent \subseteq 1..frameCounter
    BY DEF IInv, Counted
  <2>2. sent' \subseteq 1..frameCounter'
    BY <1>2, <1>3, <1>7, <2>1
  <2>3. thread'[t].frame \notin sent /\ 1..(thread'[t].chunk - 1) = {}
    BY <1>2, <1>7, <2>1
  <2>4. QED
    BY <1>2, <1>3, <1>6, <2>2, <2>3 DEF IInv, Counted
<1>10. Position'
  <2>1. last[1] \in Nat /\ last[1] <= frameCounter
    BY <1>1 DEF Shape, IInv, Position
  <2>2. QED
    BY <1>2, <1>3, <1>6, <1>7, <2>1 DEF IInv, Position, Follows
<1>11. QED
  BY <1>4, <1>5, <1>8, <1>9, <1>10 DEF IInv

(* A chunk that reaches the device, or may have, moves the device's view   *)
(* to the place of the thread that sends it.                               *)
LEMMA DeviceGetsEffect ==
  ASSUME IInv, NEW t \in Threads, thread[t].pc = "sending",
         DeviceGets(thread[t].frame, thread[t].chunk) \/ UNCHANGED <<received, last>>
  PROVE  /\ InFrame(t)
         /\ received' \subseteq Nat \X Nat /\ received \subseteq received'
         /\ last' \in Nat \X Nat
         /\ last' = last \/ last' = <<thread[t].frame, thread[t].chunk>>
         /\ last'[1] <= frameCounter
<1>1. Shape /\ InFrame(t)
  BY DEF IInv, Numbered, InFrame, InPipeline
<1>2. /\ thread[t].frame \in Nat /\ thread[t].chunk \in Nat
      /\ thread[t].frame <= frameCounter
  <2>1. thread[t].frame \in 1..frameCounter
    BY <1>1 DEF IInv, Numbered
  <2>2. thread[t].chunk \in Nat
    BY <1>1, ThreadFields, PipelineAssumption
  <2>3. QED
    BY <1>1, <2>1, <2>2 DEF Shape
<1>3. CASE DeviceGets(thread[t].frame, thread[t].chunk)
  <2> DEFINE f == thread[t].frame
             c == thread[t].chunk
  <2>1. last' = <<f, c>> /\ received' = received \union {<<f, c>>}
    BY <1>3 DEF DeviceGets
  <2>2. f \in Nat /\ c \in Nat /\ f <= frameCounter /\ received \subseteq Nat \X Nat
    BY <1>1, <1>2 DEF Shape
  <2> HIDE DEF f, c
  <2>3. <<f, c>> \in Nat \X Nat /\ <<f, c>>[1] = f
    BY <2>2
  <2>4. QED
    BY <1>1, <2>1, <2>2, <2>3 DEF f, c
<1>4. CASE UNCHANGED <<received, last>>
  BY <1>1, <1>4 DEF Shape, IInv, Position
<1>5. QED
  BY <1>3, <1>4

(* The device's view as the thread in the pipeline sees it: the chunk that *)
(* arrives is the last one again, the next one, or the first of a frame.   *)
LEMMA ArrivesInOrder ==
  ASSUME IInv, NEW t \in Threads, thread[t].pc = "sending", ~abandoned,
         last' = <<thread[t].frame, thread[t].chunk>>, last' # last
  PROVE  \/ last' = <<last[1], last[2] + 1>>
         \/ last'[1] > last[1] /\ last'[2] = 1
<1>1. Shape /\ InFrame(t) /\ Follows(t)
  BY DEF IInv, Numbered, InFrame, InPipeline, Position
<1>2. /\ thread[t].frame \in Nat /\ thread[t].chunk \in Nat
      /\ last[1] \in Nat /\ last[2] \in Nat /\ last = <<last[1], last[2]>>
  BY <1>1, ThreadFields, PipelineAssumption DEF Shape
<1>3. CASE last[1] = thread[t].frame /\ last[2] = thread[t].chunk
  BY <1>2, <1>3
<1>4. CASE last[1] = thread[t].frame /\ last[2] = thread[t].chunk - 1
  BY <1>2, <1>4
<1>5. CASE last[1] < thread[t].frame /\ thread[t].chunk = 1
  BY <1>2, <1>5
<1>6. QED
  BY <1>1, <1>3, <1>4, <1>5 DEF Follows

(* ChunkFailed: the device has got the chunk or not.                       *)
LEMMA FailedKeeps ==
  ASSUME IInv, NEW t \in Threads, ChunkFailed(t)
  PROVE  IInv'
<1> USE PipelineAssumption DEF context, g_context
<1>1. Shape
  BY DEF IInv
<1>2. /\ thread' \in [Threads -> ThreadRecord]
      /\ \A u \in Threads : u # t => thread'[u] = thread[u]
      /\ thread'[t].pc = "close" /\ thread'[t].chain = thread[t].chain
      /\ thread'[t].frame = thread[t].frame /\ thread'[t].chunk = thread[t].chunk
      /\ thread[t].pc = "sending"
  BY <1>1, ThreadFields DEF ChunkFailed, Goto, Shape, ThreadRecord, HoldsBuffer, InPipeline
<1>3. UNCHANGED <<SwapChain, PresentThread, TransportTarget, callback, assigns, lent, abandoned,
                  frameCounter, sent, FramesSubmitted>>
  BY DEF ChunkFailed
<1>4. /\ InFrame(t)
      /\ received' \subseteq Nat \X Nat /\ received \subseteq received'
      /\ last' \in Nat \X Nat
      /\ last' = last \/ last' = <<thread[t].frame, thread[t].chunk>>
      /\ last'[1] <= frameCounter
  BY <1>2, DeviceGetsEffect DEF ChunkFailed
<1>5. Shape' /\ Handover'
  BY <1>1, <1>2, <1>3, <1>4 DEF IInv, Shape, Handover
<1>6. Alone'
  BY <1>2, <1>3, StaysAlone DEF InPipeline
<1>7. \A u \in Threads : /\ InFrame(u)' <=> InFrame(u)
                         /\ thread'[u].frame = thread[u].frame
                         /\ thread'[u].chunk = thread[u].chunk
  BY <1>2, <1>4 DEF InFrame, InPipeline
<1>8. Numbered'
  BY <1>2, <1>3, <1>4, <1>7 DEF IInv, Numbered, InFrame
<1>9. Counted'
  BY <1>3, <1>4, <1>7 DEF IInv, Counted
<1>10. Position'
  <2>1. ASSUME ~abandoned, NEW u \in Threads, InFrame(u) PROVE Follows(u)'
    <3>1. u = t
      BY <1>2, <2>1 DEF IInv, Alone, RunsAlone, Running, InFrame, InPipeline
    <3>2. CASE last' = last
      BY <1>7, <2>1, <3>2 DEF IInv, Position, Follows
    <3>3. CASE last' = <<thread[t].frame, thread[t].chunk>>
      BY <1>7, <3>1, <3>3 DEF Follows
    <3>4. QED
      BY <1>4, <3>2, <3>3
  <2>2. QED
    BY <1>3, <1>4, <1>7, <2>1 DEF Position, Follows
<1>11. QED
  BY <1>5, <1>6, <1>8, <1>9, <1>10 DEF IInv

(* A chunk that is not the frame's last one was sent.                      *)
LEMMA SentKeepsMore ==
  ASSUME IInv, NEW t \in Threads, ChunkSent(t), thread[t].chunk # TotalChunks
  PROVE  IInv'
<1> USE PipelineAssumption DEF context, g_context
<1>1. Shape /\ thread[t].chunk \in 0..TotalChunks
  BY ThreadFields DEF IInv
<1>2. /\ thread' \in [Threads -> ThreadRecord]
      /\ \A u \in Threads : u # t => thread'[u] = thread[u]
      /\ thread'[t].pc = "ensure" /\ thread'[t].chain = thread[t].chain
      /\ thread'[t].frame = thread[t].frame /\ thread'[t].chunk = thread[t].chunk + 1
      /\ thread[t].pc = "sending"
  BY <1>1, ThreadFields DEF ChunkSent, NextChunk, Shape, ThreadRecord, HoldsBuffer, InPipeline
<1>3. UNCHANGED <<SwapChain, PresentThread, TransportTarget, callback, assigns, lent, abandoned,
                  frameCounter, sent, FramesSubmitted>>
  BY DEF ChunkSent, PushFrameChunk
<1>4. /\ InFrame(t)
      /\ received' \subseteq Nat \X Nat /\ received \subseteq received'
      /\ last' \in Nat \X Nat /\ last'[1] <= frameCounter
  BY <1>2, DeviceGetsEffect DEF ChunkSent, PushFrameChunk
<1>5. last' = <<thread[t].frame, thread[t].chunk>> /\ last' \in received'
  BY DEF ChunkSent, PushFrameChunk, DeviceGets
<1>6. Shape' /\ Handover'
  BY <1>1, <1>2, <1>3, <1>4 DEF IInv, Shape, Handover
<1>7. Alone'
  BY <1>2, <1>3, StaysAlone DEF InPipeline
<1>8. \A u \in Threads : /\ InFrame(u)' => InFrame(u)
                         /\ thread'[u].frame = thread[u].frame
  BY <1>2, <1>4 DEF InFrame
<1>9. Numbered'
  BY <1>1, <1>2, <1>3, <1>8 DEF IInv, Numbered
<1>10. Counted'
  <2>1. ASSUME NEW u \in Threads, InFrame(u)', NEW k \in 1..(thread'[u].chunk - 1)
        PROVE  <<thread'[u].frame, k>> \in received'
    <3>1. CASE u # t
      BY <1>2, <1>4, <1>8, <2>1, <3>1 DEF IInv, Counted
    <3>2. CASE u = t /\ k \in 1..(thread[t].chunk - 1)
      BY <1>2, <1>4, <3>2 DEF IInv, Counted
    <3>3. CASE u = t /\ k = thread[t].chunk
      BY <1>2, <1>5, <3>3
    <3>4. QED
      BY <1>1, <1>2, <2>1, <3>1, <3>2, <3>3
  <2>2. QED
    BY <1>3, <1>4, <1>8, <2>1 DEF IInv, Counted
<1>11. Position'
  <2>1. ASSUME ~abandoned, NEW u \in Threads, InFrame(u)' PROVE Follows(u)'
    <3>1. u = t
      BY <1>2, <1>8, <2>1 DEF IInv, Alone, RunsAlone, Running, InFrame, InPipeline
    <3>2. thread'[t].chunk - 1 = thread[t].chunk
      BY <1>1, <1>2
    <3>3. QED
      BY <1>2, <1>5, <3>1, <3>2 DEF Follows
  <2>2. QED
    BY <1>3, <1>4, <2>1 DEF Position, Follows
<1>12. QED
  BY <1>6, <1>7, <1>9, <1>10, <1>11 DEF IInv

(* The last chunk of a frame was sent and the frame is counted.            *)
LEMMA SentKeepsLast ==
  ASSUME IInv, NEW t \in Threads, ChunkSent(t), thread[t].chunk = TotalChunks
  PROVE  IInv'
<1> USE PipelineAssumption DEF context, g_context
<1> DEFINE f == thread[t].frame
<1>1. Shape
  BY DEF IInv
<1>2. /\ thread' \in [Threads -> ThreadRecord]
      /\ \A u \in Threads : u # t => thread'[u] = thread[u]
      /\ thread'[t].pc = "finish" /\ thread'[t].chain = thread[t].chain
      /\ thread[t].pc = "sending"
  BY <1>1, ThreadFields DEF ChunkSent, NextChunk, Shape, ThreadRecord, HoldsBuffer, InPipeline
<1>3. UNCHANGED <<SwapChain, PresentThread, TransportTarget, callback, assigns, lent, abandoned,
                  frameCounter>>
  BY DEF ChunkSent
<1>4. /\ InFrame(t)
      /\ received' \subseteq Nat \X Nat /\ received \subseteq received'
      /\ last' \in Nat \X Nat /\ last'[1] <= frameCounter
  BY <1>2, DeviceGetsEffect DEF ChunkSent, PushFrameChunk
<1>5. /\ <<f, TotalChunks>> \in received'
      /\ sent' = sent \union {f} /\ FramesSubmitted' = FramesSubmitted + 1
  BY DEF ChunkSent, PushFrameChunk, DeviceGets
<1>6. Shape' /\ Handover'
  BY <1>1, <1>2, <1>3, <1>4, <1>5 DEF IInv, Shape, Handover
<1>7. Alone'
  BY <1>2, <1>3, StaysAlone DEF InPipeline
<1>8. \A u \in Threads : InFrame(u)' => u # t /\ InFrame(u) /\ thread'[u] = thread[u]
  BY <1>2 DEF InFrame, InPipeline
<1>9. Numbered'
  BY <1>2, <1>3, <1>8 DEF IInv, Numbered
<1>10. Counted'
  <2>1. /\ f \notin sent /\ f \in 1..frameCounter
        /\ \A k \in 1..(TotalChunks - 1) : <<f, k>> \in received
    BY <1>4 DEF IInv, Counted, Numbered
  <2>2. IsFiniteSet(sent) /\ sent \subseteq 1..frameCounter
    <3>1. IsFiniteSet(1..frameCounter)
      BY <1>1, FS_Interval DEF Shape
    <3>2. QED
      BY <3>1, FS_Subset DEF IInv, Counted
  <2>3. FramesSubmitted' = Cardinality(sent')
    BY <1>5, <2>1, <2>2, FS_AddElement DEF IInv, Counted
  <2>4. \A k \in 1..TotalChunks : <<f, k>> \in received'
    BY <1>4, <1>5, <2>1
  <2>5. sent' \X (1..TotalChunks) \subseteq received'
    BY <1>4, <1>5, <2>4 DEF IInv, Counted
  <2>6. \A u \in Threads : InFrame(u)' => thread'[u].frame \notin sent'
    BY <1>4, <1>5, <1>8 DEF IInv, Counted, Numbered
  <2>7. QED
    BY <1>3, <1>4, <1>5, <1>8, <2>1, <2>2, <2>3, <2>5, <2>6 DEF IInv, Counted
<1>11. Position'
  <2>1. ASSUME ~abandoned, NEW u \in Threads PROVE ~InFrame(u)'
    BY <1>2, <1>8, <2>1 DEF IInv, Alone, RunsAlone, Running, InFrame, InPipeline
  <2>2. QED
    BY <1>3, <1>4, <2>1 DEF Position, Follows
<1>12. QED
  BY <1>6, <1>7, <1>9, <1>10, <1>11 DEF IInv

-----------------------------------------------------------------------------
(* A callback's step keeps what the invariant says of frames, if it leaves *)
(* the threads in the pipeline and the device alone.                       *)
LEMMA FramesUntouched ==
  ASSUME IInv, UNCHANGED <<frameCounter, device>>, abandoned => abandoned',
         \A t \in Threads :
           \/ /\ thread'[t].pc = thread[t].pc
              /\ thread'[t].frame = thread[t].frame
              /\ thread'[t].chunk = thread[t].chunk
           \/ thread'[t].pc = "top"
  PROVE  Numbered' /\ Counted' /\ Position'
<1>1. \A t \in Threads :
        InFrame(t)' => /\ InFrame(t) /\ thread'[t].frame = thread[t].frame
                       /\ thread'[t].chunk = thread[t].chunk
  BY DEF InFrame, InPipeline
<1>2. Numbered'
  BY <1>1 DEF IInv, Numbered
<1>3. Counted'
  BY <1>1 DEF IInv, Counted, device
<1>4. Position'
  BY <1>1 DEF IInv, Position, Follows, device
<1>5. QED
  BY <1>2, <1>3, <1>4

(* DisplayEvtAssignSwapChain, with or without a new thread.                *)
LEMMA AssignKeeps ==
  ASSUME IInv, AssignSwapChain
  PROVE  IInv'
<1> USE PipelineAssumption DEF context, g_context
<1>1. /\ assigns' = assigns + 1 /\ assigns' \in Threads /\ SwapChain' = assigns'
      /\ lent = 0 /\ callback = "none" /\ PresentThread = 0
      /\ UNCHANGED <<PresentThread, g_context, frameCounter, removed, abandoned, device>>
      /\ Shape
  BY DEF AssignSwapChain, IInv, Shape, Handover, Threads
<1>2. ~abandoned => \A t \in Threads : ~Running(t)
  BY <1>1 DEF IInv, Alone, RunsAlone, Current, Threads
<1>3. CASE /\ thread' = [thread EXCEPT ![assigns'].pc = "top"]
           /\ callback' = "assign" /\ lent' = assigns'
  <2>1. /\ thread' \in [Threads -> ThreadRecord]
        /\ \A t \in Threads : t # assigns' => thread'[t] = thread[t]
        /\ thread'[assigns'].pc = "top"
    BY <1>1, <1>3 DEF Shape, ThreadRecord
  <2>2. Shape' /\ Handover'
    BY <1>1, <1>3, <2>1 DEF IInv, Shape, Handover, device, Threads
  <2>3. Alone'
    BY <1>1, <1>2, <1>3, <2>1 DEF Alone, RunsAlone, Running, Current, HoldsBuffer, InPipeline
  <2>4. QED
    BY <1>1, <2>1, <2>2, <2>3, FramesUntouched DEF IInv
<1>4. CASE UNCHANGED <<thread, callback, lent>>
  <2>1. Shape' /\ Handover'
    BY <1>1, <1>4 DEF IInv, Shape, Handover, device, Threads
  <2>2. Alone'
    BY <1>1, <1>2, <1>4 DEF Alone, RunsAlone, Running
  <2>3. QED
    BY <1>1, <1>4, <2>1, <2>2, FramesUntouched DEF IInv
<1>5. QED
  BY <1>3, <1>4 DEF AssignSwapChain

(* The other steps of the callbacks.                                       *)
LEMMA CallbackKeeps ==
  ASSUME IInv, Callback, ~AssignSwapChain
  PROVE  IInv'
<1> USE DEF context, g_context
<1>1. UNCHANGED <<frameCounter, thread, assigns, device>>
  BY DEF Callback, CallbackStep, ReferenceThread, ReferenceFails, UnassignSwapChain,
     UnassignWaited, UnassignClear, SurpriseRemoval, RemovalWaited, TeardownClose, TeardownDetach
<1> USE <1>1 DEF IInv, Shape, Handover, Alone, RunsAlone, Running, Current, Threads, device
<1>2. CASE ReferenceThread
  <2>1. Shape' /\ Handover' /\ Alone' /\ (abandoned => abandoned')
    BY <1>2 DEF ReferenceThread
  <2>2. QED
    BY <2>1, FramesUntouched
<1>3. CASE ReferenceFails
  <2>1. Shape' /\ Handover' /\ (abandoned => abandoned')
    BY <1>3 DEF ReferenceFails
  <2>2. ~abandoned' => \A t \in Threads : ~Running(t)
    BY <1>3 DEF ReferenceFails
  <2>3. Alone'
    BY <2>2
  <2>4. QED
    BY <2>1, <2>3, FramesUntouched
<1>4. CASE UnassignSwapChain
  <2>1. Shape' /\ Handover' /\ Alone' /\ (abandoned => abandoned')
    BY <1>4 DEF UnassignSwapChain, SignalStop
  <2>2. QED
    BY <2>1, FramesUntouched
<1>5. CASE UnassignWaited
  <2>1. Shape' /\ Handover' /\ Alone' /\ (abandoned => abandoned')
    BY <1>5 DEF UnassignWaited
  <2>2. QED
    BY <2>1, FramesUntouched
<1>6. CASE UnassignClear
  <2>1. Shape' /\ Handover' /\ Alone' /\ (abandoned => abandoned')
    BY <1>6 DEF UnassignClear
  <2>2. QED
    BY <2>1, FramesUntouched
<1>7. CASE SurpriseRemoval
  <2>1. Shape' /\ Handover' /\ Alone' /\ (abandoned => abandoned')
    BY <1>7 DEF SurpriseRemoval, SignalStop
  <2>2. QED
    BY <2>1, FramesUntouched
<1>8. CASE RemovalWaited
  <2>1. Shape' /\ Handover' /\ (abandoned => abandoned')
    BY <1>8 DEF RemovalWaited
  <2>2. ~abandoned' => \A t \in Threads : ~Running(t)
    BY <1>8 DEF RemovalWaited
  <2>3. Alone'
    BY <2>2
  <2>4. QED
    BY <2>1, <2>3, FramesUntouched
<1>9. CASE TeardownClose
  <2>1. Shape' /\ Handover' /\ Alone' /\ (abandoned => abandoned')
    BY <1>9 DEF TeardownClose
  <2>2. QED
    BY <2>1, FramesUntouched
<1>10. CASE TeardownDetach
  <2>1. Shape' /\ Handover' /\ Alone' /\ (abandoned => abandoned')
    BY <1>10 DEF TeardownDetach
  <2>2. QED
    BY <2>1, FramesUntouched
<1>11. QED
  BY <1>2, <1>3, <1>4, <1>5, <1>6, <1>7, <1>8, <1>9, <1>10 DEF Callback, CallbackStep

(* The driver was just loaded: no thread runs and no frame has a number.   *)
LEMMA InitIInv ==
  Init => IInv
<1> SUFFICES ASSUME Init PROVE IInv
  OBVIOUS
<1> USE PipelineAssumption DEF Init
<1>1. thread \in [Threads -> ThreadRecord] /\ \A t \in Threads : thread[t].pc = "dead"
  BY DEF ThreadRecord, Dead
<1>2. Shape /\ Handover
  BY <1>1 DEF Shape, Handover
<1>3. Alone
  BY <1>1 DEF Alone, RunsAlone, Running
<1>4. \A t \in Threads : ~InFrame(t)
  BY <1>1 DEF InFrame, InPipeline
<1>5. Numbered
  BY <1>1, <1>4 DEF Numbered
<1>6. Counted
  BY <1>4, FS_EmptySet DEF Counted
<1>7. Position
  BY <1>4 DEF Position, Follows
<1>8. QED
  BY <1>2, <1>3, <1>5, <1>6, <1>7 DEF IInv

(* Every step keeps the invariant.                                         *)
LEMMA NextIInv ==
  IInv /\ [Next]_vars => IInv'
<1> SUFFICES ASSUME IInv, [Next]_vars PROVE IInv'
  OBVIOUS
<1>1. CASE Callback
  BY <1>1, AssignKeeps, CallbackKeeps
<1>2. ASSUME NEW t \in Threads, ThreadStep(t) PROVE IInv'
  <2>1. CASE QuietStep(t)
    BY <2>1, QuietKeeps
  <2>2. CASE PrepareFrame(t)
    BY <2>2, PrepareKeeps
  <2>3. CASE ChunkSent(t)
    BY <2>3, SentKeepsMore, SentKeepsLast
  <2>4. CASE ChunkFailed(t)
    BY <2>4, FailedKeeps
  <2>5. QED
    BY <1>2, <2>1, <2>2, <2>3, <2>4 DEF ThreadStep, QuietStep
<1>3. CASE UNCHANGED vars
  BY <1>3 DEF vars, context, g_context, device, IInv, Shape, Handover, Alone, RunsAlone, Running,
     Current, Numbered, InFrame, Counted, Position, Follows
<1>4. QED
  BY <1>1, <1>2, <1>3 DEF Next

(***************************************************************************)
(* The inductive invariant holds of every reachable state.                 *)
(***************************************************************************)
THEOREM Inductive == Spec => []IInv
<1>1. QED
  BY InitIInv, NextIInv, PTL DEF Spec

(***************************************************************************)
(* g_context needs no lock as long as no thread was abandoned: one thread  *)
(* at most is in the pipeline, none is during PipelineTeardown, and the    *)
(* target it has ensured stays open until it has sent.                     *)
(***************************************************************************)
THEOREM PipelineSafe == Spec => []PipelineExclusive
<1>1. ASSUME IInv PROVE PipelineExclusive
  <2> DEFINE inside == {t \in Threads : thread[t].pc \in InPipeline}
  <2> SUFFICES ASSUME ~abandoned
               PROVE  /\ Cardinality(inside) <= 1
                      /\ callback \in {"teardown", "detach"} => inside = {}
                      /\ \A t \in inside :
                           thread[t].pc \in {"frame", "ready", "sending"} => TransportTarget
    BY DEF PipelineExclusive
  <2>1. \A t \in inside : t \in Threads /\ Running(t) /\ RunsAlone(t)
    BY <1>1 DEF IInv, Alone, Running, InPipeline
  <2>2. inside \subseteq {Current}
    BY <2>1 DEF RunsAlone
  <2>3. Cardinality(inside) <= 1
    <3>1. IsFiniteSet({Current}) /\ Cardinality({Current}) = 1
      BY FS_Singleton
    <3>2. QED
      BY <2>2, <3>1, FS_Subset
  <2>4. callback \in {"teardown", "detach"} => inside = {}
    BY <1>1, <2>1, <2>2 DEF Current, IInv, Handover, Threads
  <2>5. QED
    BY <2>1, <2>3, <2>4 DEF RunsAlone
<1>2. QED
  BY Inductive, <1>1, PTL

(***************************************************************************)
(* A thread acquires from, and holds buffers of, only the swap chain that  *)
(* is lent to the driver, as long as no thread was abandoned.              *)
(***************************************************************************)
THEOREM SwapChainSafe == Spec => []SwapChainStillLent
<1>1. ASSUME IInv PROVE SwapChainStillLent
  BY <1>1 DEF IInv, SwapChainStillLent, Alone, RunsAlone, Running, HoldsBuffer, InPipeline,
     Threads
<1>2. QED
  BY Inductive, <1>1, PTL

(***************************************************************************)
(* The transport driver counts each frame once and only when the device    *)
(* has every chunk of it, also when abandoned threads share the pipeline.  *)
(***************************************************************************)
THEOREM FramesSafe == Spec => []FramesCountedOnce
<1>1. ASSUME IInv PROVE FramesCountedOnce
  BY <1>1 DEF IInv, FramesCountedOnce, Counted
<1>2. QED
  BY Inductive, <1>1, PTL

(***************************************************************************)
(* The device gets the chunks of a frame in order, without a gap.          *)
(***************************************************************************)
THEOREM ChunksOrdered == Spec => ChunksInOrder
<1> DEFINE Ordered ==
      ~abandoned /\ last' # last =>
        \/ last' = <<last[1], last[2] + 1>>
        \/ last'[1] > last[1] /\ last'[2] = 1
<1>1. ASSUME IInv, [Next]_vars PROVE [Ordered]_vars
  <2> SUFFICES ASSUME ~abandoned, last' # last, Next PROVE Ordered
    BY <1>1
  <2>1. PICK t \in Threads : ChunkSent(t) \/ ChunkFailed(t)
    <3>1. ~Callback
      BY DEF Callback, CallbackStep, AssignSwapChain, ReferenceThread, ReferenceFails,
         UnassignSwapChain, UnassignWaited, UnassignClear, SurpriseRemoval, RemovalWaited,
         TeardownClose, TeardownDetach, device
    <3>2. PICK t \in Threads : ThreadStep(t)
      BY <3>1 DEF Next
    <3>3. ~QuietStep(t)
      BY <1>1, QuietEffect DEF IInv, device
    <3>4. ~PrepareFrame(t)
      BY DEF PrepareFrame, device
    <3>5. QED
      BY <3>2, <3>3, <3>4 DEF ThreadStep, QuietStep
  <2>2. thread[t].pc = "sending" /\ last' = <<thread[t].frame, thread[t].chunk>>
    BY <2>1 DEF ChunkSent, ChunkFailed, PushFrameChunk, DeviceGets
  <2>3. QED
    BY <1>1, <2>2, ArrivesInOrder
<1>2. QED
  BY Inductive, <1>1, PTL DEF Spec, ChunksInOrder

=============================================================================
