-------------------------------- MODULE TouchPath --------------------------------
(***************************************************************************)
(* The touch path of the Windows drivers: the transport driver's touch     *)
(* buffer, filled by the interrupt reader and emptied when the device is   *)
(* powered down (UsbTransportUmdf/Device.cpp, Queue.cpp), and the HID      *)
(* driver that opens the transport driver on demand and answers read       *)
(* requests with what it finds in the buffer (UsbTouchHidUmdf/Device.cpp). *)
(* The report itself, its first contact and its count, is left out.        *)
(***************************************************************************)
EXTENDS Naturals, FiniteSets

CONSTANTS
  Requests,          \* IOCTL_HID_READ_REPORT requests that may run in parallel
  MaxTouchContacts,  \* contacts the buffer holds
  MaxTargets         \* bound: I/O targets created in a behaviour

ASSUME TouchAssumption ==
  /\ MaxTouchContacts \in Nat \ {0}
  /\ MaxTargets \in Nat
  /\ IsFiniteSet(Requests)

VARIABLES
  power,         \* the transport device: in D0, on its way to D3, or in D3
  reader,        \* the continuous reader of the interrupt pipe runs
  packet,        \* the packet its completion routine is handling
  Contacts,      \* TouchData.Contacts
  ContactCount,  \* TouchData.ContactCount
  transport,     \* the transport driver's interface is there
  target,        \* the HID context's UsbTransportTarget, 0 for nullptr
  targets,       \* what became of each target: see TypeOK
  request,       \* the read requests
  overlapped     \* a request has come while another was opening the target

touch == <<power, reader, packet, Contacts, ContactCount>>
hid == <<transport, target, targets>>
vars == <<touch, hid, request, overlapped>>

ContactIds == 0..(MaxTouchContacts - 1)
TouchContact == [TipSwitch : BOOLEAN, InRange : BOOLEAN]
NoContact == [TipSwitch |-> FALSE, InRange |-> FALSE]
Empty == [c \in ContactIds |-> NoContact]
NoPacket == [id |-> 0, contact |-> NoContact, valid |-> FALSE]

(* A packet's contact id is a byte: one beyond the buffer stands for the   *)
(* rest.  A finger that touches is in range.                               *)
Packets == {p \in [id : 0..MaxTouchContacts, contact : TouchContact, valid : {TRUE}] :
              p.contact.TipSwitch => p.contact.InRange}

Touching(contacts) == Cardinality({c \in ContactIds : contacts[c].TipSwitch})

Idle == [pc |-> "idle", target |-> 0]

TypeOK ==
  /\ power \in {"D0", "notready", "stopped", "D3"}
  /\ {reader, transport} \subseteq BOOLEAN
  /\ packet \in Packets \union {NoPacket}
  /\ Contacts \in [ContactIds -> TouchContact]
  /\ ContactCount \in 0..MaxTouchContacts
  /\ target \in 0..MaxTargets
  /\ targets \in [1..MaxTargets -> {"none", "created", "open", "gone", "deleted"}]
  /\ request \in [Requests ->
       [pc : {"idle", "ensure", "create", "open", "send", "sending", "read"},
        target : 0..MaxTargets]]
  /\ overlapped \in BOOLEAN

Init ==
  /\ power = "D0" /\ reader = TRUE /\ packet = NoPacket
  /\ Contacts = Empty /\ ContactCount = 0
  /\ transport = TRUE
  /\ target = 0 /\ targets = [n \in 1..MaxTargets |-> "none"]
  /\ request = [r \in Requests |-> Idle]
  /\ overlapped = FALSE

-----------------------------------------------------------------------------
(* The panel reports a contact to the running reader.                      *)
PacketArrives ==
  /\ reader /\ packet = NoPacket
  /\ packet' \in Packets
  /\ UNCHANGED <<power, reader, Contacts, ContactCount, hid, request, overlapped>>

(* UsbInterruptCompletion, under TouchData.Lock: the contact is stored and *)
(* the touching contacts are counted again; other ids are ignored.         *)
Store ==
  /\ packet # NoPacket
  /\ IF packet.id \in ContactIds
     THEN /\ Contacts' = [Contacts EXCEPT ![packet.id] = packet.contact]
          /\ ContactCount' = Touching(Contacts')
     ELSE UNCHANGED <<Contacts, ContactCount>>
  /\ packet' = NoPacket
  /\ UNCHANGED <<power, reader, hid, request, overlapped>>

(* UsbDeviceD0Exit to D3.  The queue is power-managed: no request is being *)
(* handled by then.  WdfIoTargetStop cancels the reads and waits for the   *)
(* completion routine.                                                     *)
D0Exit ==
  /\ transport /\ power = "D0"
  /\ \A r \in Requests : request[r].pc # "sending"
  /\ power' = "notready"
  /\ UNCHANGED <<reader, packet, Contacts, ContactCount, hid, request, overlapped>>

(* Mutant of StopReader: leaves a completion routine running.              *)
StopReaderNoWait ==
  /\ power = "notready"
  /\ reader' = FALSE
  /\ power' = "stopped"
  /\ UNCHANGED <<packet, Contacts, ContactCount, hid, request, overlapped>>

StopReader ==
  /\ power = "notready" /\ packet = NoPacket
  /\ reader' = FALSE
  /\ power' = "stopped"
  /\ UNCHANGED <<packet, Contacts, ContactCount, hid, request, overlapped>>

ClearTouchData ==
  /\ power = "stopped"
  /\ ContactCount' = 0
  /\ Contacts' = Empty
  /\ power' = "D3"
  /\ UNCHANGED <<reader, packet, hid, request, overlapped>>

(* UsbDeviceD0Entry from D3: restarting the reader may fail, which is only *)
(* logged.                                                                 *)
D0Entry ==
  /\ transport /\ power = "D3"
  /\ reader' \in BOOLEAN
  /\ power' = "D0"
  /\ UNCHANGED <<packet, Contacts, ContactCount, hid, request, overlapped>>

(* The transport device is unplugged, in D0 or while it sleeps: the open   *)
(* target leads nowhere.                                                   *)
Unplug ==
  /\ transport /\ power \in {"D0", "D3"} /\ packet = NoPacket
  /\ \A r \in Requests : request[r].pc # "sending"
  /\ transport' = FALSE
  /\ reader' = FALSE
  /\ targets' = [n \in 1..MaxTargets |-> IF targets[n] = "open" THEN "gone" ELSE targets[n]]
  /\ UNCHANGED <<power, packet, Contacts, ContactCount, target, request, overlapped>>

(* It is plugged in: UsbDeviceCreate and UsbDevicePrepareHardware start    *)
(* with a new context.  A device without an interrupt pipe has no reader.  *)
PlugIn ==
  /\ ~transport
  /\ transport' = TRUE
  /\ power' = "D0"
  /\ reader' \in BOOLEAN
  /\ Contacts' = Empty
  /\ ContactCount' = 0
  /\ UNCHANGED <<packet, target, targets, request, overlapped>>

-----------------------------------------------------------------------------
(* TouchEvtInternalIoctl for IOCTL_HID_READ_REPORT.                        *)
ReadReport(r) ==
  /\ request[r].pc = "idle"
  /\ request' = [request EXCEPT ![r].pc = "ensure"]
  /\ UNCHANGED <<touch, hid, overlapped>>

(* The request is completed.                                               *)
Complete(r) == request' = [request EXCEPT ![r] = Idle]

(* EnsureUsbTransportTarget: a target that was opened once is taken as it  *)
(* is; otherwise the interface is looked up.                               *)
EnsureUsbTransportTarget(r) ==
  /\ request[r].pc = "ensure"
  /\ \/ target # 0 /\ request' = [request EXCEPT ![r].pc = "send"]
     \/ target = 0 /\ transport /\ request' = [request EXCEPT ![r].pc = "create"]
     \/ target = 0 /\ Complete(r)
  /\ overlapped' = (overlapped \/ \E q \in Requests : request[q].pc \in {"create", "open"})
  /\ UNCHANGED <<touch, hid>>

(* WdfIoTargetCreate stores the new target in the context at once.         *)
CreateTarget(r) ==
  /\ request[r].pc = "create"
  /\ \E n \in 1..MaxTargets :
       /\ targets[n] = "none"
       /\ \A k \in 1..(n - 1) : targets[k] # "none"
       /\ target' = n
       /\ targets' = [targets EXCEPT ![n] = "created"]
  /\ request' = [request EXCEPT ![r].pc = "open"]
  /\ UNCHANGED <<touch, transport, overlapped>>

CreateFails(r) ==
  /\ request[r].pc = "create"
  /\ Complete(r)
  /\ UNCHANGED <<touch, hid, overlapped>>

(* WdfIoTargetOpen on the context's target; when it fails the target is    *)
(* deleted and the pointer cleared.                                        *)
OpenTarget(r) ==
  /\ request[r].pc = "open" /\ target # 0 /\ transport
  /\ targets' = [targets EXCEPT ![target] = "open"]
  /\ request' = [request EXCEPT ![r].pc = "send"]
  /\ UNCHANGED <<touch, transport, target, overlapped>>

(* Mutant of OpenFails: the pointer to the deleted target stays.           *)
OpenFailsKeepsPointer(r) ==
  /\ request[r].pc = "open" /\ target # 0
  /\ targets' = [targets EXCEPT ![target] = "deleted"]
  /\ Complete(r)
  /\ UNCHANGED <<touch, transport, target, overlapped>>

OpenFails(r) ==
  /\ request[r].pc = "open" /\ target # 0
  /\ targets' = [targets EXCEPT ![target] = "deleted"]
  /\ target' = 0
  /\ Complete(r)
  /\ UNCHANGED <<touch, transport, overlapped>>

(* WdfIoTargetSendIoctlSynchronously reads the pointer again.              *)
SendIoctl(r) ==
  /\ request[r].pc = "send"
  /\ request' = [request EXCEPT ![r].pc = "sending", ![r].target = target]
  /\ UNCHANGED <<touch, hid, overlapped>>

(* IOCTL_RPUSB_GET_TOUCH_DATA: a copy of the buffer, under TouchData.Lock, *)
(* while the device is in D0.                                              *)
GetTouchData(r) ==
  /\ request[r].pc = "sending" /\ power = "D0"
  /\ request[r].target # 0 /\ targets[request[r].target] = "open"
  /\ request' = [request EXCEPT ![r].pc = "read"]
  /\ UNCHANGED <<touch, hid, overlapped>>

(* The IOCTL fails: the report will be the empty one.                      *)
IoctlFails(r) ==
  /\ request[r].pc = "sending"
  /\ request' = [request EXCEPT ![r].pc = "read"]
  /\ UNCHANGED <<touch, hid, overlapped>>

(* The request is completed with a report, or with an error if its output  *)
(* buffer cannot be retrieved.                                             *)
MakeReport(r) ==
  /\ request[r].pc = "read"
  /\ Complete(r)
  /\ UNCHANGED <<touch, hid, overlapped>>

-----------------------------------------------------------------------------
Device == PacketArrives \/ Store \/ D0Exit \/ StopReader \/ ClearTouchData \/ D0Entry
          \/ Unplug \/ PlugIn

Handler(r) ==
  \/ ReadReport(r) \/ EnsureUsbTransportTarget(r)
  \/ CreateTarget(r) \/ CreateFails(r) \/ OpenTarget(r) \/ OpenFails(r)
  \/ SendIoctl(r) \/ GetTouchData(r) \/ IoctlFails(r) \/ MakeReport(r)

Next == Device \/ \E r \in Requests : Handler(r)

Spec == Init /\ [][Next]_vars

-----------------------------------------------------------------------------
(* No contact survives a power-down: in D3 the buffer is empty, so that a  *)
(* finger lifted while the device slept is not reported after it wakes up. *)
NoGhostTouch == power = "D3" => Contacts = Empty /\ ContactCount = 0 /\ packet = NoPacket

(* As long as no request has come while another was opening the target     *)
(* (which nothing in the driver prevents), a request sends its IOCTL on a  *)
(* target that was opened (it may have lost its device since), not on      *)
(* nullptr, on one that is still being opened or on one that was deleted,  *)
(* and every target that was created and not deleted is the context's.     *)
TargetSound ==
  ~overlapped =>
    /\ \A r \in Requests : request[r].pc = "sending" =>
         request[r].target # 0 /\ targets[request[r].target] \in {"open", "gone"}
    /\ \A n \in 1..MaxTargets :
         targets[n] \in {"created", "open", "gone"} => target = n

=============================================================================
