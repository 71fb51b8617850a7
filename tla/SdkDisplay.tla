-------------------------------- MODULE SdkDisplay --------------------------------
(***************************************************************************)
(* The user-mode SDK's display object (rpusbdisp.cc), opened and disposed  *)
(* of through the C interface (c_interface.cc), over its USB transfers     *)
(* (transfer.cc) and the event thread it shares with the other displays of *)
(* the process (context.cc): application threads that send commands and    *)
(* ask for the status, the status worker and its callback, destruction,    *)
(* and the device being unplugged.                                         *)
(***************************************************************************)
EXTENDS SdkPackets

CONSTANTS
  Clients,       \* application threads
  Worker,        \* the status fetching thread
  FillSize,      \* sizeof(rpusbdisp_disp_fill_packet_t)
  CommandSizes   \* bound: sizes of the other commands with their payload

ASSUME SdkAssumption ==
  /\ Worker \notin Clients
  /\ FillSize \in Nat \ {0, 1}
  /\ CommandSizes \subseteq Nat \ {0, 1}

VARIABLES
  object,       \* the display object, from opening to destruction
  enabled,      \* statusThreadOnceFlag_: doEnable_ has run
  working,      \* working_
  worker,       \* control state of statusFetchingWorker_
  client,       \* control state of each application thread
  transfer,     \* each thread's transfer, as libusb sees it
  completion_,  \* the transfer's completion_ flag
  pipeline,     \* the displays that hold the Pipeline and its event thread
  terminated,   \* std::terminate ended the process
  plugged       \* the device is there

objectVars == <<object, enabled, working, pipeline>>
vars == <<objectVars, terminated, worker, client, transfer, completion_, plugged>>

Actors == Clients \union {Worker}

Results == {"completed", "stall", "error"}

Displays == {"this", "other"}

(* The drawing calls of the C interface, by the size of their command.     *)
Sizes == {FillSize} \union CommandSizes

TypeOK ==
  /\ {enabled, working, terminated, plugged} \subseteq BOOLEAN
  /\ worker \in {"off", "test", "submit", "wait", "status", "callback", "stuck", "ended"}
  /\ client \in [Clients -> [pc : {"idle", "lock", "submit", "wait", "status"},
                             totalSize : Sizes \union {0}, left : 0..1]]
  /\ transfer \in [Actors -> {"idle", "flying"} \union Results]
  /\ completion_ \in [Actors -> BOOLEAN]
  /\ object \in {"none", "open", "join", "pipeline", "interface"}
  /\ pipeline \subseteq Displays

Outside == [pc |-> "idle", totalSize |-> 0, left |-> 0]

Init ==
  /\ object = "none"
  /\ enabled = FALSE /\ working = FALSE
  /\ worker = "off"
  /\ client = [c \in Clients |-> Outside]
  /\ transfer = [a \in Actors |-> "idle"]
  /\ completion_ = [a \in Actors |-> FALSE]
  /\ pipeline = {}
  /\ terminated = FALSE
  /\ plugged = TRUE

-----------------------------------------------------------------------------
(* The process was not terminated, nor is it by this step.                 *)
Running == ~terminated /\ UNCHANGED terminated

(* Transfer::submit: libusb takes the transfer, or refuses it, as it must  *)
(* when the device is gone, and an exception is thrown.                    *)
Submit(a) == plugged /\ transfer' = [transfer EXCEPT ![a] = "flying"]
SubmitThrows == UNCHANGED transfer

(* Mutant of Wait: completion_ is not reset.                               *)
WaitKeepsCompletion(a) == completion_[a] /\ UNCHANGED completion_

(* Transfer::waitForCompletion.                                            *)
Wait(a) == completion_[a] /\ completion_' = [completion_ EXCEPT ![a] = FALSE]

(* Mutant of Completes: the callback finds no transfer to signal.          *)
CompletesUnsignalled(a, result) ==
  /\ pipeline # {}
  /\ transfer[a] = "flying"
  /\ transfer' = [transfer EXCEPT ![a] = result]
  /\ UNCHANGED completion_

(* The event thread, there as long as a display holds the Pipeline, runs   *)
(* transferCallback_ for a transfer that libusb has finished.              *)
Completes(a, result) ==
  /\ pipeline # {}
  /\ transfer[a] = "flying"
  /\ transfer' = [transfer EXCEPT ![a] = result]
  /\ completion_' = [completion_ EXCEPT ![a] = TRUE]

(* summonPipeline: the running Pipeline is shared, or a new one is started. *)
SummonPipeline(d) == pipeline' = pipeline \union {d}

(* ~Pipeline, in the last display's destructor, stops and joins the thread. *)
LetGoOfPipeline(d) == pipeline' = pipeline \ {d}

(* Another display of the process is enabled or destroyed.                 *)
OtherDisplay ==
  /\ IF "other" \in pipeline THEN LetGoOfPipeline("other") ELSE SummonPipeline("other")
  /\ Running /\ UNCHANGED <<object, enabled, working, worker, client, transfer,
                 completion_, plugged>>

-----------------------------------------------------------------------------
(* RoboPeakUsbDisplayOpenFirstDevice makes a new object.  When there is no *)
(* device, or it cannot be opened or claimed, the call reports it and      *)
(* nothing changes.                                                        *)
OpenFirstDevice ==
  /\ object = "none" /\ plugged
  /\ object' = "open"
  /\ enabled' = FALSE
  /\ worker' = "off"
  /\ Running /\ UNCHANGED <<working, pipeline, client, transfer, completion_, plugged>>

(* A call of the object.  The object is used only until it is destroyed    *)
(* and, as rpusbdisp.h asks, only once it is enabled.                      *)
Call(c, totalSize, more) ==
  /\ client[c].pc = "idle" /\ object = "open"
  /\ client' = [client EXCEPT ![c] =
       [pc |-> "lock", totalSize |-> totalSize, left |-> more]]

(* getStatus and setStatusUpdatedCallback only need the lock.              *)
AccessStatus(c) ==
  /\ Call(c, 0, 0)
  /\ Running /\ UNCHANGED <<objectVars, worker, transfer, completion_, plugged>>

(* A drawing command: sendCommandToDisplayEndpoint lays its totalSize      *)
(* bytes out as transferBuffer(totalSize).                                 *)
Command(c) ==
  /\ enabled
  /\ \E n \in Sizes : Call(c, n, 0)
  /\ Running /\ UNCHANGED <<objectVars, worker, transfer, completion_, plugged>>

(* doEnable_, once: the event thread and the worker are started.           *)
StartThreads ==
  /\ enabled' = TRUE
  /\ IF enabled THEN UNCHANGED <<working, worker, pipeline>>
     ELSE working' = TRUE /\ worker' = "test" /\ SummonPipeline("this")

(* enable: the threads are started once, then the screen is filled twice.  *)
Enable(c) ==
  /\ Call(c, FillSize, 1)
  /\ StartThreads
  /\ Running /\ UNCHANGED <<object, transfer, completion_, plugged>>

(* The thread leaves the object, by a return or by an exception that the   *)
(* C interface turns into a result.                                        *)
Leave(c) == client' = [client EXCEPT ![c] = Outside]

(* statusLock_ is the worker's while the callback runs; the clients take   *)
(* it for a moment, to read status_ or set the callback.                   *)
ClientLock(c) ==
  /\ client[c].pc = "lock"
  /\ worker \notin {"callback", "stuck"}
  /\ IF client[c].totalSize = 0 THEN Leave(c)
     ELSE client' = [client EXCEPT ![c].pc = "submit"]
  /\ Running /\ UNCHANGED <<objectVars, worker, transfer, completion_, plugged>>

ClientSubmit(c) ==
  /\ client[c].pc = "submit"
  /\ \/ Submit(c) /\ client' = [client EXCEPT ![c].pc = "wait"]
     \/ SubmitThrows /\ Leave(c)
  /\ Running /\ UNCHANGED <<objectVars, worker, completion_, plugged>>

ClientWait(c) ==
  /\ client[c].pc = "wait"
  /\ Wait(c)
  /\ client' = [client EXCEPT ![c].pc = "status"]
  /\ Running /\ UNCHANGED <<objectVars, worker, transfer, plugged>>

(* The status is looked at: an error is thrown; enable goes on with its    *)
(* second fill.  The command's transfer is released.                       *)
ClientStatus(c) ==
  /\ client[c].pc = "status"
  /\ IF transfer[c] = "completed" /\ client[c].left > 0
     THEN client' = [client EXCEPT ![c].pc = "lock", ![c].left = @ - 1]
     ELSE Leave(c)
  /\ transfer' = [transfer EXCEPT ![c] = "idle"]
  /\ Running /\ UNCHANGED <<objectVars, worker, completion_, plugged>>

(* The device executes a client's command, or answers the status poll.     *)
TransferDone(a) ==
  /\ plugged
  /\ Completes(a, "completed")
  /\ Running /\ UNCHANGED <<objectVars, worker, client, plugged>>

(* A transfer fails: it stalls, or the device is gone.                     *)
TransferFails(a) ==
  /\ \E result \in Results \ {"completed"} :
       /\ ~plugged => result = "error"
       /\ Completes(a, result)
  /\ Running /\ UNCHANGED <<objectVars, worker, client, plugged>>

-----------------------------------------------------------------------------
(* statusFetchingWorker_: the loop's test.                                 *)
WorkerTest ==
  /\ worker = "test"
  /\ worker' = IF working THEN "submit" ELSE "ended"
  /\ Running /\ UNCHANGED <<objectVars, client, transfer, completion_, plugged>>

(* Mutant of WorkerSubmit: goes on polling after an exception.             *)
WorkerSubmitRetries ==
  /\ worker = "submit"
  /\ \/ Submit(Worker) /\ worker' = "wait"
     \/ SubmitThrows /\ worker' = "test"
  /\ Running /\ UNCHANGED <<objectVars, client, completion_, plugged>>

(* A submission that throws ends the worker and the object's life.         *)
WorkerSubmit ==
  /\ worker = "submit"
  /\ \/ Submit(Worker) /\ worker' = "wait" /\ UNCHANGED working
     \/ SubmitThrows /\ working' = FALSE /\ worker' = "ended"
  /\ Running /\ UNCHANGED <<object, enabled, pipeline, client, completion_, plugged>>

WorkerWait ==
  /\ worker = "wait"
  /\ Wait(Worker)
  /\ worker' = "status"
  /\ Running /\ UNCHANGED <<objectVars, client, transfer, plugged>>

(* A report is decoded into status_ and handed to the callback, if there   *)
(* is one; results other than a stall are only printed.                    *)
WorkerStatus ==
  /\ worker = "status"
  /\ transfer[Worker] # "stall"
  /\ worker' \in IF transfer[Worker] = "completed" THEN {"callback", "test"} ELSE {"test"}
  /\ Running /\ UNCHANGED <<objectVars, client, transfer, completion_, plugged>>

(* clearEndpointHalt throws when the device is gone, outside of the try:   *)
(* the exception leaves the thread.                                        *)
WorkerClearHalt ==
  /\ worker = "status"
  /\ transfer[Worker] = "stall"
  /\ worker' = "test"
  /\ ~terminated /\ terminated' = ~plugged
  /\ UNCHANGED <<object, enabled, working, pipeline, client, transfer, completion_, plugged>>

(* The callback returns, or calls a method of the object and waits for the *)
(* lock its own thread holds.                                              *)
WorkerCallback ==
  /\ worker = "callback"
  /\ worker' \in {"test", "stuck"}
  /\ Running /\ UNCHANGED <<objectVars, client, transfer, completion_, plugged>>

-----------------------------------------------------------------------------
(* RoboPeakUsbDisplayDisposeDevice, when no thread uses the object: the    *)
(* destructor tells the worker to stop.                                    *)
DisposeDevice ==
  /\ object = "open"
  /\ \A c \in Clients : client[c].pc = "idle"
  /\ working' = FALSE
  /\ object' = "join"
  /\ Running /\ UNCHANGED <<enabled, pipeline, worker, client, transfer, completion_, plugged>>

(* Mutant of Join: does not wait for the worker.                           *)
JoinNot ==
  /\ object = "join"
  /\ object' = "pipeline"
  /\ Running /\ UNCHANGED <<enabled, working, pipeline, worker, client, transfer,
                 completion_, plugged>>

Join ==
  /\ object = "join"
  /\ worker \in {"off", "ended"}
  /\ object' = "pipeline"
  /\ Running /\ UNCHANGED <<enabled, working, pipeline, worker, client, transfer,
                 completion_, plugged>>

(* The members are destroyed, last one first: the Pipeline, ...            *)
DestroyPipeline ==
  /\ object = "pipeline"
  /\ object' = "interface"
  /\ LetGoOfPipeline("this")
  /\ Running /\ UNCHANGED <<enabled, working, worker, client, transfer, completion_, plugged>>

(* ... then the InterfaceScope, whose destructor throws when the device is *)
(* gone and thereby ends the process.                                      *)
ReleaseInterface ==
  /\ object = "interface"
  /\ object' = "none"
  /\ ~terminated /\ terminated' = ~plugged
  /\ UNCHANGED <<enabled, working, pipeline, worker, client, transfer, completion_, plugged>>

(* The device is unplugged, or plugged in for a new object.                *)
Unplug ==
  /\ plugged
  /\ plugged' = FALSE
  /\ Running /\ UNCHANGED <<objectVars, worker, client, transfer, completion_>>

PlugIn ==
  /\ ~plugged /\ object = "none"
  /\ plugged' = TRUE
  /\ Running /\ UNCHANGED <<objectVars, worker, client, transfer, completion_>>

-----------------------------------------------------------------------------
WorkerStep ==
  \/ WorkerTest \/ WorkerSubmit \/ WorkerWait
  \/ WorkerStatus \/ WorkerClearHalt \/ WorkerCallback
ClientStep(c) == ClientLock(c) \/ ClientSubmit(c) \/ ClientWait(c) \/ ClientStatus(c)
DestructorStep == Join \/ DestroyPipeline \/ ReleaseInterface
Finish(a) == TransferFails(a) \/ TransferDone(a)

Next ==
  \/ WorkerStep
  \/ OpenFirstDevice \/ DisposeDevice \/ DestructorStep
  \/ OtherDisplay \/ Unplug \/ PlugIn
  \/ \E c \in Clients : AccessStatus(c) \/ Command(c) \/ Enable(c) \/ ClientStep(c)
  \/ \E a \in Actors : Finish(a)

Spec == Init /\ [][Next]_vars

(* The threads are scheduled, one that waits for statusLock_ gets it if it *)
(* is free again and again, and the event thread reports every transfer:   *)
(* the device answers or is found to be gone.                              *)
FairSpec ==
  /\ Spec
  /\ WF_vars(WorkerStep) /\ WF_vars(DestructorStep)
  /\ \A c \in Clients : SF_vars(ClientLock(c)) /\ WF_vars(ClientStep(c))
  /\ \A a \in Actors : WF_vars(Finish(a))

-----------------------------------------------------------------------------
(* A wait ends with the transfer that was submitted before it: a status is *)
(* never looked at, nor a transfer submitted, while libusb still has it.   *)
WaitEndsWithTransfer ==
  /\ worker \in {"submit", "status"} => transfer[Worker] # "flying"
  /\ \A c \in Clients :
       client[c].pc \in {"submit", "status"} => transfer[c] # "flying"

(* When the members of the object go, so has the worker; libusb has none   *)
(* of its transfers when the event thread may stop.                        *)
DestroyedWhenQuiet ==
  object \in {"none", "pipeline", "interface"} =>
    worker \in {"off", "ended"} /\ \A a \in Actors : transfer[a] # "flying"

(* What may keep a call from ending: the callback called the object it was *)
(* called by, or an exception ended the process with the device unplugged. *)
Hung == worker = "stuck" \/ (terminated /\ ~plugged)

(* isAlive turns false once the device is unplugged.                       *)
UnplugNoticed == enabled /\ ~plugged ~> ~working \/ Hung

(* Every call into the object comes to its end, unplugged device or not: a *)
(* command returns or throws, and a disposed object is destroyed.  Only a  *)
(* callback that calls the object back, or std::terminate, prevents it.    *)
CallsEnd ==
  /\ \A c \in Clients : client[c].pc # "idle" ~> client[c].pc = "idle" \/ Hung
  /\ object = "join" ~> object = "none" \/ Hung

(* Of a command that is sent, no packet was written past the transfer      *)
(* buffer, whose size is computed separately from the packets; every       *)
(* packet starts with the command byte, and the device reads the bytes of  *)
(* the command, each once and in order.                                    *)
CommandArrives ==
  \A c \in Clients :
    client[c].pc \in {"submit", "wait"} =>
      LET n == client[c].totalSize
          buffer == transferBuffer(n)
      IN  /\ \A p \in 0..(packetCount(n) - 1) :
               /\ payloadSize(n, p) >= 0
               /\ transferBufferOffset(p) + 1 + payloadSize(n, p) <= transferBufferSize(n)
          /\ \A i \in DOMAIN buffer : FirstOfPacket(i) <=> buffer[i] = CommandByte
          /\ Received(buffer) = [k \in 1..(n - 1) |-> k]

=============================================================================
