---------------------------- MODULE TouchPathProofs ----------------------------
(***************************************************************************)
(* Proofs about TouchPath, for every set of requests that may run in       *)
(* parallel, every size of the touch buffer and every number of targets.   *)
(***************************************************************************)
EXTENDS TouchPath, FiniteSetTheorems, TLAPS

(***************************************************************************)
(* The reader and its completion routine are quiet from the moment the     *)
(* reader was stopped until D0Entry: nothing refills the buffer behind     *)
(* ClearTouchData, for a device that is not there does not wake up and     *)
(* one that is plugged in starts in D0.                                    *)
(***************************************************************************)
PoweredDown ==
  /\ power \in {"stopped", "D3"} => ~reader /\ packet = NoPacket
  /\ ~transport => power \in {"D0", "D3"}
  /\ power = "D3" => Contacts = Empty /\ ContactCount = 0

(***************************************************************************)
(* The counter follows the buffer, also between a packet and the next.     *)
(***************************************************************************)
Counted == ContactCount = Touching(Contacts)

Opens(r) == request[r].pc \in {"create", "open"}
Sends(r) == request[r].pc \in {"send", "sending"}

(***************************************************************************)
(* Who is doing what with the context's target as long as no two requests  *)
(* overlapped: one request at most opens it, from nothing, and whoever     *)
(* sends found it opened.                                                  *)
(***************************************************************************)
OneOpens == \A q, r \in Requests : Opens(q) /\ Opens(r) => q = r

Creating == \A r \in Requests : request[r].pc = "create" => target = 0

Opening ==
  \A r \in Requests : request[r].pc = "open" => target # 0 /\ targets[target] = "created"

SendsOnOpened ==
  \A r \in Requests : Sends(r) => target # 0 /\ targets[target] \in {"open", "gone"}

SendsOnContext == \A r \in Requests : request[r].pc = "sending" => request[r].target = target

OpenedOrOpening ==
  target # 0 => \/ targets[target] \in {"open", "gone"}
                \/ \E r \in Requests : request[r].pc = "open"

OnlyContext ==
  \A n \in 1..MaxTargets : targets[n] \in {"created", "open", "gone"} => target = n

TargetUse ==
  ~overlapped => /\ OneOpens /\ Creating /\ Opening
                 /\ SendsOnOpened /\ SendsOnContext
                 /\ OpenedOrOpening /\ OnlyContext

IInv == TypeOK /\ PoweredDown /\ Counted /\ TargetUse

-----------------------------------------------------------------------------
Statuses == {"idle", "ensure", "create", "open", "send", "sending", "read"}

RequestRecord ==
  [pc : Statuses, target : 0..MaxTargets]

(* The empty buffer and the idle request are of their types.               *)
LEMMA EmptyTypes ==
  /\ NoContact \in TouchContact
  /\ Empty \in [ContactIds -> TouchContact]
  /\ NoPacket.valid = FALSE
  /\ Idle \in RequestRecord /\ Idle.pc = "idle"
<1>1. NoContact \in TouchContact
  BY DEF NoContact, TouchContact
<1>2. Empty \in [ContactIds -> TouchContact]
  BY <1>1 DEF Empty
<1>3. Idle \in RequestRecord /\ Idle.pc = "idle"
  BY TouchAssumption DEF Idle, RequestRecord, Statuses
<1>4. QED
  BY <1>1, <1>2, <1>3 DEF NoPacket

(* The contacts that touch are a subset of the buffer's, so that their     *)
(* number fits into the report; none of them touches in an empty buffer.   *)
LEMMA TouchingBound ==
  /\ \A contacts : Touching(contacts) \in 0..MaxTouchContacts
  /\ Touching(Empty) = 0
<1>1. IsFiniteSet(ContactIds) /\ Cardinality(ContactIds) = MaxTouchContacts
  <2>1. MaxTouchContacts - 1 \in Int /\ 0 \in Int /\ ~(0 > MaxTouchContacts - 1)
    BY TouchAssumption
  <2>2. Cardinality(ContactIds) = (MaxTouchContacts - 1) - 0 + 1
    BY <2>1, FS_Interval, Zenon DEF ContactIds
  <2>3. QED
    BY <2>1, <2>2, FS_Interval, TouchAssumption DEF ContactIds
<1>2. ASSUME NEW contacts PROVE Touching(contacts) \in 0..MaxTouchContacts
  <2>1. {c \in ContactIds : contacts[c].TipSwitch} \subseteq ContactIds
    OBVIOUS
  <2>2. /\ IsFiniteSet({c \in ContactIds : contacts[c].TipSwitch})
        /\ Cardinality({c \in ContactIds : contacts[c].TipSwitch}) <= Cardinality(ContactIds)
    BY <1>1, <2>1, FS_Subset
  <2>3. Cardinality({c \in ContactIds : contacts[c].TipSwitch}) \in Nat
    BY <2>2, FS_CardinalityType
  <2>4. QED
    BY <1>1, <2>2, <2>3, TouchAssumption DEF Touching
<1>3. Touching(Empty) = 0
  <2>1. {c \in ContactIds : Empty[c].TipSwitch} = {}
    BY DEF Empty, NoContact
  <2>2. QED
    BY <2>1, FS_EmptySet DEF Touching
<1>4. QED
  BY <1>2, <1>3

(* Request r comes to the point s, with a target that is given there, and  *)
(* no other request is changed.                                            *)
Becomes(r, s) ==
  \E v \in RequestRecord :
    /\ v.pc = s
    /\ s = "sending" => v.target = target
    /\ request' = [request EXCEPT ![r] = v]

(* What becomes of a request, action by action.                            *)
LEMMA RequestStep ==
  ASSUME TypeOK, NEW r \in Requests
  PROVE  /\ ReadReport(r) => Becomes(r, "ensure")
         /\ EnsureUsbTransportTarget(r) =>
              \/ target # 0 /\ Becomes(r, "send")
              \/ target = 0 /\ (Becomes(r, "create") \/ Becomes(r, "idle"))
         /\ CreateTarget(r) => Becomes(r, "open")
         /\ OpenTarget(r) => Becomes(r, "send")
         /\ SendIoctl(r) => Becomes(r, "sending")
         /\ GetTouchData(r) \/ IoctlFails(r) => Becomes(r, "read")
         /\ CreateFails(r) \/ OpenFails(r) \/ MakeReport(r) => Becomes(r, "idle")
<1>0. /\ request \in [Requests -> RequestRecord] /\ request[r] \in RequestRecord
      /\ target \in 0..MaxTargets /\ ContactCount \in 0..MaxTouchContacts
      /\ Contacts \in [ContactIds -> TouchContact]
  BY DEF TypeOK, RequestRecord, Statuses
<1>1. ASSUME NEW s \in Statuses \ {"sending"}, request' = [request EXCEPT ![r].pc = s]
      PROVE  Becomes(r, s)
  <2> DEFINE v == [request[r] EXCEPT !.pc = s]
  <2>1. v \in RequestRecord /\ v.pc = s
    BY <1>0 DEF RequestRecord
  <2>2. request' = [request EXCEPT ![r] = v]
    BY <1>1
  <2> HIDE DEF v
  <2>3. QED
    BY <2>1, <2>2 DEF Becomes
<1>2. ASSUME Complete(r) PROVE Becomes(r, "idle")
  BY <1>2, EmptyTypes DEF Complete, Becomes
<1>3. ASSUME ReadReport(r) PROVE Becomes(r, "ensure")
  BY <1>1, <1>3 DEF ReadReport, Statuses
<1>4. ASSUME EnsureUsbTransportTarget(r)
      PROVE  \/ target # 0 /\ Becomes(r, "send")
             \/ target = 0 /\ (Becomes(r, "create") \/ Becomes(r, "idle"))
  <2>1. CASE target # 0 /\ request' = [request EXCEPT ![r].pc = "send"]
    BY <1>1, <2>1 DEF Statuses
  <2>2. CASE target = 0 /\ request' = [request EXCEPT ![r].pc = "create"]
    BY <1>1, <2>2 DEF Statuses
  <2>3. CASE target = 0 /\ Complete(r)
    BY <1>2, <2>3
  <2>4. QED
    BY <1>4, <2>1, <2>2, <2>3 DEF EnsureUsbTransportTarget
<1>5. ASSUME CreateTarget(r) PROVE Becomes(r, "open")
  BY <1>1, <1>5 DEF CreateTarget, Statuses
<1>6. ASSUME OpenTarget(r) PROVE Becomes(r, "send")
  BY <1>1, <1>6 DEF OpenTarget, Statuses
<1>7. ASSUME SendIoctl(r) PROVE Becomes(r, "sending")
  <2> DEFINE v == [request[r] EXCEPT !.pc = "sending", !.target = target]
  <2>1. request' = [request EXCEPT ![r] = v]
    BY <1>0, <1>7 DEF SendIoctl, RequestRecord
  <2>2. v \in RequestRecord /\ v.pc = "sending" /\ v.target = target
    BY <1>0 DEF RequestRecord, Statuses
  <2> HIDE DEF v
  <2>3. QED
    BY <2>1, <2>2 DEF Becomes
<1>8. ASSUME GetTouchData(r) PROVE Becomes(r, "read")
  BY <1>1, <1>8 DEF GetTouchData, Statuses
<1>9. ASSUME IoctlFails(r) PROVE Becomes(r, "read")
  BY <1>1, <1>9 DEF IoctlFails, Statuses
<1>10. ASSUME CreateFails(r) \/ OpenFails(r) \/ MakeReport(r) PROVE Becomes(r, "idle")
  BY <1>2, <1>10 DEF CreateFails, OpenFails, MakeReport
<1>11. QED
  BY <1>3, <1>4, <1>5, <1>6, <1>7, <1>8, <1>9, <1>10

(* The record of every request after a step of one of them.                *)
LEMMA BecomesEffect ==
  ASSUME TypeOK, NEW r \in Requests, NEW s, Becomes(r, s)
  PROVE  /\ request' \in [Requests -> RequestRecord]
         /\ request'[r].pc = s
         /\ s = "sending" => request'[r].target = target
         /\ \A q \in Requests \ {r} : request'[q] = request[q]
<1>1. request \in [Requests -> RequestRecord]
  BY DEF TypeOK, RequestRecord, Statuses
<1>2. QED
  BY <1>1 DEF Becomes

-----------------------------------------------------------------------------
(* The driver starts in the invariant.                                     *)
LEMMA InitIInv == Init => IInv
<1> SUFFICES ASSUME Init PROVE IInv
  OBVIOUS
<1>1. TypeOK
  <2>1. request \in [Requests -> RequestRecord]
    BY EmptyTypes DEF Init
  <2>2. target \in 0..MaxTargets /\ ContactCount \in 0..MaxTouchContacts
    BY TouchAssumption DEF Init
  <2>3. targets \in [1..MaxTargets -> {"none", "created", "open", "gone", "deleted"}]
    BY DEF Init
  <2>4. {reader, transport} \subseteq BOOLEAN /\ overlapped \in BOOLEAN
    BY Zenon DEF Init
  <2>5. QED
    BY <2>1, <2>2, <2>3, <2>4, EmptyTypes DEF Init, TypeOK, RequestRecord, Statuses
<1>2. PoweredDown
  BY DEF Init, PoweredDown
<1>3. Counted
  BY TouchingBound DEF Init, Counted
<1>4. TargetUse
  <2>1. \A r \in Requests : request[r].pc = "idle"
    BY DEF Init, Idle
  <2>2. \A n \in 1..MaxTargets : targets[n] = "none"
    BY DEF Init
  <2>3. QED
    BY <2>1, <2>2 DEF Init, TargetUse, OneOpens, Creating, Opening, SendsOnOpened,
      SendsOnContext, OpenedOrOpening, OnlyContext, Opens, Sends
<1>5. QED
  BY <1>1, <1>2, <1>3, <1>4 DEF IInv

(* The variables keep their types.                                         *)
LEMMA NextTypeOK == IInv /\ [Next]_vars => TypeOK'
<1> SUFFICES ASSUME IInv, [Next]_vars PROVE TypeOK'
  OBVIOUS
<1>0. TypeOK
  BY DEF IInv
<1>a. {reader', transport', overlapped'} \subseteq BOOLEAN
  <2>1. {reader, transport, overlapped} \subseteq BOOLEAN
    BY <1>0, Zenon DEF TypeOK
  <2>2. CASE Device
    <3>1. overlapped' = overlapped
      BY <2>2 DEF Device, PacketArrives, Store, D0Exit, StopReader, ClearTouchData, D0Entry,
        Unplug, PlugIn
    <3>2. reader' \in BOOLEAN
      BY <2>1, <2>2 DEF Device, PacketArrives, Store, D0Exit, StopReader, ClearTouchData,
        D0Entry, Unplug, PlugIn
    <3>3. transport' \in BOOLEAN
      BY <2>1, <2>2 DEF Device, PacketArrives, Store, D0Exit, StopReader, ClearTouchData,
        D0Entry, Unplug, PlugIn, hid
    <3>4. QED
      BY <2>1, <3>1, <3>2, <3>3
  <2>3. ASSUME NEW r \in Requests, Handler(r) PROVE {reader', transport', overlapped'} \subseteq BOOLEAN
    <3>1. CASE EnsureUsbTransportTarget(r)
      <4>1. overlapped' \in BOOLEAN
        BY <2>1, <3>1, Zenon DEF EnsureUsbTransportTarget
      <4>2. reader' = reader /\ transport' = transport
        BY <3>1 DEF EnsureUsbTransportTarget, touch, hid
      <4>3. QED
        BY <2>1, <4>1, <4>2
    <3>2. CASE ~EnsureUsbTransportTarget(r)
      <4>1. reader' = reader /\ transport' = transport /\ overlapped' = overlapped
        BY <2>3, <3>2 DEF Handler, ReadReport, CreateTarget, CreateFails, OpenTarget, OpenFails,
          SendIoctl, GetTouchData, IoctlFails, MakeReport, touch, hid
      <4>2. QED
        BY <2>1, <4>1
    <3>3. QED
      BY <3>1, <3>2
  <2>4. CASE UNCHANGED vars
    BY <2>1, <2>4 DEF vars, touch, hid
  <2>5. QED
    BY <2>2, <2>3, <2>4 DEF Next
<1>b. /\ power' \in {"D0", "notready", "stopped", "D3"}
      /\ packet' \in Packets \union {NoPacket}
      /\ Contacts' \in [ContactIds -> TouchContact]
      /\ ContactCount' \in 0..MaxTouchContacts
  <2>1. CASE Store
    <3>1. packet # NoPacket => packet.contact \in TouchContact
      BY <1>0 DEF TypeOK, Packets
    <3>2. Contacts' \in [ContactIds -> TouchContact]
      BY <1>0, <2>1, <3>1 DEF Store, TypeOK
    <3>3. ContactCount' \in 0..MaxTouchContacts
      BY <1>0, <2>1, TouchingBound DEF Store, TypeOK
    <3>4. QED
      BY <1>0, <2>1, <3>2, <3>3 DEF Store, TypeOK
  <2>2. CASE Device /\ ~Store
    <3>1. 0 \in 0..MaxTouchContacts
      BY TouchAssumption
    <3>2. QED
      BY <1>0, <2>2, <3>1, EmptyTypes DEF Device, PacketArrives, D0Exit, StopReader,
        ClearTouchData, D0Entry, Unplug, PlugIn, TypeOK
  <2>3. ASSUME NEW r \in Requests, Handler(r) PROVE UNCHANGED touch
    BY <2>3 DEF Handler, ReadReport, EnsureUsbTransportTarget, CreateTarget, CreateFails,
      OpenTarget, OpenFails, SendIoctl, GetTouchData, IoctlFails, MakeReport
  <2>4. CASE UNCHANGED touch
    BY <1>0, <2>4 DEF touch, TypeOK
  <2>5. QED
    BY <2>1, <2>2, <2>3, <2>4 DEF Next, vars
<1>c. /\ target' \in 0..MaxTargets
      /\ targets' \in [1..MaxTargets -> {"none", "created", "open", "gone", "deleted"}]
  <2>1. CASE Device
    BY <1>0, <2>1 DEF Device, PacketArrives, Store, D0Exit, StopReader, ClearTouchData, D0Entry,
      Unplug, PlugIn, hid, TypeOK
  <2>2. ASSUME NEW r \in Requests, Handler(r)
        PROVE  /\ target' \in 0..MaxTargets
               /\ targets' \in [1..MaxTargets -> {"none", "created", "open", "gone", "deleted"}]
    <3>1. CASE CreateTarget(r)
      BY <1>0, <3>1, TouchAssumption DEF CreateTarget, TypeOK
    <3>2. CASE OpenTarget(r) \/ OpenFails(r)
      <4>1. target' = target \/ target' = 0
        BY <3>2 DEF OpenTarget, OpenFails
      <4>2. \E s \in {"open", "deleted"} : targets' = [targets EXCEPT ![target] = s]
        BY <3>2 DEF OpenTarget, OpenFails
      <4>3. target' \in 0..MaxTargets
        BY <1>0, <4>1, TouchAssumption DEF TypeOK
      <4>4. QED
        BY <1>0, <4>2, <4>3 DEF TypeOK
    <3>3. CASE UNCHANGED hid
      BY <1>0, <3>3 DEF hid, TypeOK
    <3>4. QED
      BY <2>2, <3>1, <3>2, <3>3 DEF Handler, ReadReport, EnsureUsbTransportTarget, CreateFails,
        SendIoctl, GetTouchData, IoctlFails, MakeReport
  <2>3. CASE UNCHANGED vars
    BY <1>0, <2>3 DEF vars, hid, TypeOK
  <2>4. QED
    BY <2>1, <2>2, <2>3 DEF Next
<1>d. request' \in [Requests -> RequestRecord]
  <2>1. CASE Device \/ UNCHANGED vars
    BY <1>0, <2>1 DEF Device, PacketArrives, Store, D0Exit, StopReader, ClearTouchData, D0Entry,
      Unplug, PlugIn, vars, TypeOK, RequestRecord, Statuses
  <2>2. ASSUME NEW r \in Requests, Handler(r) PROVE request' \in [Requests -> RequestRecord]
    <3>1. \E s : Becomes(r, s)
      BY <1>0, <2>2, RequestStep DEF Handler
    <3>2. QED
      BY <1>0, <3>1, BecomesEffect
  <2>3. QED
    BY <2>1, <2>2 DEF Next
<1>e. QED
  BY <1>a, <1>b, <1>c, <1>d DEF TypeOK, RequestRecord, Statuses

(* A reader that was stopped stays stopped until the buffer was emptied    *)
(* and the device woke up again.                                           *)
LEMMA NextPoweredDown == IInv /\ [Next]_vars => PoweredDown'
<1> SUFFICES ASSUME IInv, [Next]_vars PROVE PoweredDown'
  OBVIOUS
<1> USE DEF IInv, PoweredDown
<1>1. CASE Device
  <2>1. CASE PacketArrives
    BY <2>1 DEF PacketArrives, hid
  <2>2. CASE Store
    BY <2>2 DEF Store, hid
  <2>3. CASE D0Exit
    BY <2>3 DEF D0Exit, hid
  <2>4. CASE StopReader
    BY <2>4 DEF StopReader, hid
  <2>5. CASE ClearTouchData
    BY <2>5 DEF ClearTouchData, hid
  <2>6. CASE D0Entry
    BY <2>6 DEF D0Entry, hid
  <2>7. CASE Unplug
    BY <2>7 DEF Unplug
  <2>8. CASE PlugIn
    BY <2>8 DEF PlugIn
  <2>9. QED
    BY <1>1, <2>1, <2>2, <2>3, <2>4, <2>5, <2>6, <2>7, <2>8 DEF Device
<1>2. ASSUME NEW r \in Requests, Handler(r) PROVE PoweredDown'
  <2>1. UNCHANGED touch /\ transport' = transport
    BY <1>2 DEF Handler, ReadReport, EnsureUsbTransportTarget, CreateTarget, CreateFails,
      OpenTarget, OpenFails, SendIoctl, GetTouchData, IoctlFails, MakeReport, hid
  <2>2. QED
    BY <2>1 DEF touch
<1>3. CASE UNCHANGED vars
  BY <1>3 DEF vars, touch, hid
<1>4. QED
  BY <1>1, <1>2, <1>3 DEF Next

(* Whoever writes the buffer writes the counter with it.                   *)
LEMMA NextCounted == IInv /\ [Next]_vars => Counted'
<1> SUFFICES ASSUME IInv, [Next]_vars PROVE Counted'
  OBVIOUS
<1>1. CASE Contacts' = Empty /\ ContactCount' = 0
  BY <1>1, TouchingBound DEF Counted, Touching
<1>2. CASE Store /\ ContactCount' = Touching(Contacts')
  BY <1>2 DEF Counted, Touching
<1>3. CASE UNCHANGED <<Contacts, ContactCount>>
  BY <1>3 DEF IInv, Counted, Touching
<1>4. QED
  BY <1>1, <1>2, <1>3 DEF Next, Device, PacketArrives, Store, D0Exit, StopReader, ClearTouchData,
    D0Entry, Unplug, PlugIn, Handler, ReadReport, EnsureUsbTransportTarget, CreateTarget,
    CreateFails, OpenTarget, OpenFails, SendIoctl, GetTouchData, IoctlFails, MakeReport, touch,
    vars

(* No other request opens or sends while one opens the target, and one    *)
(* that sends does it on the opened target of the context.                 *)
LEMMA NextTargetUse == IInv /\ [Next]_vars => TargetUse'
<1> SUFFICES ASSUME IInv, [Next]_vars, ~overlapped' PROVE TargetUse'
  BY DEF TargetUse
<1> DEFINE Parts == /\ OneOpens /\ Creating /\ Opening
                    /\ SendsOnOpened /\ SendsOnContext
                    /\ OpenedOrOpening /\ OnlyContext
<1>0. TypeOK
  BY DEF IInv
<1>1. ~overlapped
  BY DEF Next, Device, PacketArrives, Store, D0Exit, StopReader, ClearTouchData, D0Entry, Unplug,
    PlugIn, Handler, ReadReport, EnsureUsbTransportTarget, CreateTarget, CreateFails, OpenTarget,
    OpenFails, SendIoctl, GetTouchData, IoctlFails, MakeReport, vars
<1>2. Parts
  BY <1>1 DEF IInv, TargetUse
<1> SUFFICES Parts'
  BY DEF TargetUse
<1> USE <1>2 DEF OneOpens, Creating, Opening, SendsOnOpened, SendsOnContext, OpenedOrOpening,
      OnlyContext, Opens, Sends
<1>3. CASE UNCHANGED <<target, targets, request>>
  BY <1>3
<1>4. CASE Unplug
  <2>1. target' = target /\ request' = request
    BY <1>4 DEF Unplug
  <2>2. \A n \in 1..MaxTargets :
          targets'[n] = IF targets[n] = "open" THEN "gone" ELSE targets[n]
    BY <1>4 DEF Unplug
  <2>3. target # 0 => target \in 1..MaxTargets
    BY <1>0, TouchAssumption DEF TypeOK
  <2>4. QED
    BY <2>1, <2>2, <2>3
<1>5. ASSUME NEW r \in Requests, Handler(r) PROVE Parts'
  <2>1. ASSUME UNCHANGED <<target, targets>>,
               NEW s \in {"ensure", "idle", "read"}, Becomes(r, s), request[r].pc # "open"
        PROVE  Parts'
    BY <1>0, <2>1, BecomesEffect
  <2>2. CASE EnsureUsbTransportTarget(r)
    <3>1. \A q \in Requests : request[q].pc \notin {"create", "open"}
      BY <2>2 DEF EnsureUsbTransportTarget
    <3>2. UNCHANGED <<target, targets>>
      BY <2>2 DEF EnsureUsbTransportTarget, hid
    <3>3. CASE target # 0 /\ Becomes(r, "send")
      BY <1>0, <3>1, <3>2, <3>3, BecomesEffect
    <3>4. CASE target = 0 /\ Becomes(r, "create")
      BY <1>0, <3>1, <3>2, <3>4, BecomesEffect
    <3>5. CASE Becomes(r, "idle")
      BY <2>1, <3>1, <3>2, <3>5
    <3>6. QED
      BY <1>0, <2>2, <3>3, <3>4, <3>5, RequestStep
  <2>3. CASE CreateTarget(r)
    <3>1. PICK n \in 1..MaxTargets : /\ targets[n] = "none" /\ target' = n
                                     /\ targets' = [targets EXCEPT ![n] = "created"]
      BY <2>3 DEF CreateTarget
    <3>2. target = 0 /\ n # 0 /\ targets'[n] = "created"
      BY <1>0, <2>3, <3>1 DEF CreateTarget, TypeOK
    <3>3. \A m \in (1..MaxTargets) \ {n} :
            targets'[m] = targets[m] /\ targets[m] \notin {"created", "open", "gone"}
      BY <1>0, <3>1, <3>2 DEF TypeOK
    <3>4. Becomes(r, "open") /\ request[r].pc = "create"
      BY <1>0, <2>3, RequestStep DEF CreateTarget
    <3>5. \A q \in Requests \ {r} : ~Opens(q) /\ ~Sends(q)
      BY <3>2, <3>4
    <3>6. QED
      BY <1>0, <3>1, <3>2, <3>3, <3>4, <3>5, BecomesEffect
  <2>4. CASE OpenTarget(r) \/ OpenFails(r)
    <3>1. request[r].pc = "open" /\ target # 0 /\ targets[target] = "created"
      BY <2>4 DEF OpenTarget, OpenFails
    <3>2. target \in 1..MaxTargets
      BY <1>0, <3>1, TouchAssumption DEF TypeOK
    <3>3. \A q \in Requests \ {r} : ~Opens(q) /\ ~Sends(q)
      BY <3>1
    <3>4. CASE OpenTarget(r)
      <4>1. targets' = [targets EXCEPT ![target] = "open"] /\ target' = target
        BY <3>4 DEF OpenTarget
      <4>2. Becomes(r, "send")
        BY <1>0, <3>4, RequestStep
      <4>3. targets'[target] = "open"
        BY <1>0, <3>2, <4>1 DEF TypeOK
      <4>4. \A m \in (1..MaxTargets) \ {target} :
              targets'[m] = targets[m] /\ targets[m] \notin {"created", "open", "gone"}
        BY <1>0, <3>2, <4>1 DEF TypeOK
      <4>5. request'[r].pc = "send" /\ \A q \in Requests \ {r} : request'[q] = request[q]
        BY <1>0, <4>2, BecomesEffect
      <4>6. QED
        BY <3>1, <3>2, <3>3, <4>1, <4>3, <4>4, <4>5
    <3>5. CASE OpenFails(r)
      <4>1. targets' = [targets EXCEPT ![target] = "deleted"] /\ target' = 0
        BY <3>5 DEF OpenFails
      <4>2. Becomes(r, "idle")
        BY <1>0, <3>5, RequestStep
      <4>3. targets'[target] = "deleted"
        BY <1>0, <3>2, <4>1 DEF TypeOK
      <4>4. \A m \in (1..MaxTargets) \ {target} :
              targets'[m] = targets[m] /\ targets[m] \notin {"created", "open", "gone"}
        BY <1>0, <3>2, <4>1 DEF TypeOK
      <4>5. request'[r].pc = "idle" /\ \A q \in Requests \ {r} : request'[q] = request[q]
        BY <1>0, <4>2, BecomesEffect
      <4>6. QED
        BY <3>1, <3>2, <3>3, <4>1, <4>3, <4>4, <4>5
    <3>6. QED
      BY <2>4, <3>4, <3>5
  <2>5. CASE SendIoctl(r)
    <3>1. Becomes(r, "sending") /\ request[r].pc = "send" /\ UNCHANGED <<target, targets>>
      BY <1>0, <2>5, RequestStep DEF SendIoctl, hid
    <3>2. QED
      BY <1>0, <3>1, BecomesEffect
  <2>6. CASE ReadReport(r)
    BY <1>0, <2>1, <2>6, RequestStep DEF ReadReport, hid
  <2>7. CASE GetTouchData(r) \/ IoctlFails(r)
    BY <1>0, <2>1, <2>7, RequestStep DEF GetTouchData, IoctlFails, hid
  <2>8. CASE CreateFails(r) \/ MakeReport(r)
    BY <1>0, <2>1, <2>8, RequestStep DEF CreateFails, MakeReport, hid
  <2>9. QED
    BY <1>5, <2>2, <2>3, <2>4, <2>5, <2>6, <2>7, <2>8 DEF Handler
<1>6. QED
  BY <1>3, <1>4, <1>5 DEF Next, Device, PacketArrives, Store, D0Exit, StopReader, ClearTouchData,
    D0Entry, PlugIn, vars, hid

(* The touch path keeps the types, the order of power-down and the use of  *)
(* the target.                                                             *)
THEOREM Inductive == Spec => []IInv
<1>1. Init => IInv
  BY InitIInv
<1>2. IInv /\ [Next]_vars => IInv'
  BY NextTypeOK, NextPoweredDown, NextCounted, NextTargetUse DEF IInv
<1>3. QED
  BY <1>1, <1>2, PTL DEF Spec

(* In D3 the buffer is empty and no completion routine is left that could  *)
(* fill it: ClearTouchData comes after the reader was stopped for good.    *)
THEOREM NoGhost == Spec => []NoGhostTouch
<1>1. IInv => NoGhostTouch
  BY DEF IInv, PoweredDown, NoGhostTouch
<1>2. QED
  BY <1>1, Inductive, PTL

(* Requests that do not overlap while one of them opens the target send    *)
(* only on opened targets and leave none behind.                           *)
THEOREM TargetSafe == Spec => []TargetSound
<1>1. IInv => TargetSound
  BY DEF IInv, TargetUse, SendsOnOpened, SendsOnContext, OnlyContext, Sends, TargetSound
<1>2. QED
  BY <1>1, Inductive, PTL

=============================================================================
