----------------------------- MODULE SdkDisplayProofs -----------------------------
(***************************************************************************)
(* Proofs about SdkDisplay and SdkPackets, for any number of application   *)
(* threads, any packet size of the endpoint and commands of any size.      *)
(***************************************************************************)
EXTENDS SdkDisplay, WellFoundedInduction, TLAPS

(* TypeOK, as far as the proofs need it.                                   *)
Shape ==
  /\ client \in [Clients -> [pc : {"idle", "lock", "submit", "wait", "status"},
                             totalSize : Sizes \union {0}, left : 0..1]]
  /\ transfer \in [Actors -> {"idle", "flying"} \union Results]
  /\ completion_ \in [Actors -> BOOLEAN]
  /\ object \in {"none", "open", "join", "pipeline", "interface"}

(* The actor is in Transfer::waitForCompletion.                            *)
Waiting(a) == IF a = Worker THEN worker = "wait" ELSE client[a].pc = "wait"

(***************************************************************************)
(* The actor that submitted a transfer is in the wait for it as long as    *)
(* libusb has it, and until then completion_ is not set: no signal of an   *)
(* earlier transfer is left over.                                          *)
(***************************************************************************)
Awaited ==
  \A a \in Actors : /\ transfer[a] = "flying" => Waiting(a) /\ ~completion_[a]
                    /\ completion_[a] => Waiting(a)

(***************************************************************************)
(* The object outlives its users: the clients are out when it is being     *)
(* destroyed, the worker when its members go.                              *)
(***************************************************************************)
Lifetime ==
  /\ object # "open" => \A c \in Clients : client[c].pc = "idle"
  /\ object \in {"none", "pipeline", "interface"} => worker \in {"off", "ended"}
  /\ ~enabled => worker = "off"

(* Only a command is submitted: a size of 0 stands for a call without one. *)
Sized ==
  \A c \in Clients : client[c].pc \in {"submit", "wait", "status"} => client[c].totalSize # 0

IInv == Shape /\ Awaited /\ Lifetime /\ Sized

(* Before the display is opened nothing was submitted.                     *)
LEMMA InitIInv ==
  Init => IInv
  BY SdkAssumption
  DEF Init, IInv, Shape, Awaited, Lifetime, Sized, Waiting, Outside, Results, Actors

(* The steps of the worker.                                                *)
LEMMA WorkerKeeps ==
  ASSUME IInv, WorkerStep
  PROVE  IInv'
<1> USE SdkAssumption DEF IInv, Shape, Awaited, Lifetime, Sized, Waiting, Actors, Results,
      Running, objectVars
<1>1. CASE WorkerTest
  BY <1>1 DEF WorkerTest
<1>2. CASE WorkerSubmit
  BY <1>2 DEF WorkerSubmit, Submit, SubmitThrows
<1>3. CASE WorkerWait
  BY <1>3 DEF WorkerWait, Wait
<1>4. CASE WorkerStatus
  BY <1>4 DEF WorkerStatus
<1>5. CASE WorkerClearHalt
  BY <1>5 DEF WorkerClearHalt
<1>6. CASE WorkerCallback
  BY <1>6 DEF WorkerCallback
<1>7. QED
  BY <1>1, <1>2, <1>3, <1>4, <1>5, <1>6 DEF WorkerStep

(* Calls of an application thread.                                         *)
LEMMA CallKeeps ==
  ASSUME IInv, NEW c \in Clients, AccessStatus(c) \/ Command(c) \/ Enable(c)
  PROVE  IInv'
<1> USE SdkAssumption DEF IInv, Shape, Awaited, Lifetime, Sized, Waiting, Actors, Results,
      Running, objectVars, Sizes, Call
<1>1. CASE AccessStatus(c)
  BY <1>1 DEF AccessStatus
<1>2. CASE Command(c)
  BY <1>2 DEF Command
<1>3. CASE Enable(c)
  BY <1>3 DEF Enable, StartThreads
<1>4. QED
  BY <1>1, <1>2, <1>3

(* An application thread on its way through a command.                     *)
LEMMA ClientKeeps ==
  ASSUME IInv, NEW c \in Clients, ClientStep(c)
  PROVE  IInv'
<1> USE SdkAssumption DEF IInv, Shape, Awaited, Lifetime, Sized, Waiting, Actors, Results,
      Running, objectVars, Outside, Leave
<1>1. CASE ClientLock(c)
  BY <1>1 DEF ClientLock
<1>2. CASE ClientSubmit(c)
  BY <1>2 DEF ClientSubmit, Submit, SubmitThrows
<1>3. CASE ClientWait(c)
  BY <1>3 DEF ClientWait, Wait
<1>4. CASE ClientStatus(c)
  BY <1>4 DEF ClientStatus
<1>5. QED
  BY <1>1, <1>2, <1>3, <1>4 DEF ClientStep

(* The event thread, the destructor, other displays and the plug.          *)
LEMMA RestKeeps ==
  ASSUME IInv,
         \/ OpenFirstDevice \/ DisposeDevice \/ DestructorStep
         \/ OtherDisplay \/ Unplug \/ PlugIn
         \/ \E a \in Actors : Finish(a)
  PROVE  IInv'
<1> USE SdkAssumption DEF IInv, Shape, Awaited, Lifetime, Sized, Waiting, Actors, Results,
      Running, objectVars
<1>1. CASE OpenFirstDevice
  BY <1>1 DEF OpenFirstDevice
<1>2. CASE DisposeDevice
  BY <1>2 DEF DisposeDevice
<1>3. CASE DestructorStep
  BY <1>3 DEF DestructorStep, Join, DestroyPipeline, ReleaseInterface
<1>4. CASE OtherDisplay \/ Unplug \/ PlugIn
  BY <1>4 DEF OtherDisplay, Unplug, PlugIn
<1>5. ASSUME NEW a \in Actors, Finish(a) PROVE IInv'
  <2>1. PICK result \in Results : Completes(a, result)
    BY <1>5 DEF Finish, TransferDone, TransferFails
  <2>2. UNCHANGED <<object, enabled, worker, client>>
    BY <1>5 DEF Finish, TransferDone, TransferFails
  <2>3. QED
    BY <2>1, <2>2 DEF Completes
<1>6. QED
  BY <1>1, <1>2, <1>3, <1>4, <1>5

(* Every step keeps the invariant.                                         *)
LEMMA NextIInv ==
  IInv /\ [Next]_vars => IInv'
<1> SUFFICES ASSUME IInv, [Next]_vars PROVE IInv'
  OBVIOUS
<1>1. CASE UNCHANGED vars
  BY <1>1 DEF vars, objectVars, IInv, Shape, Awaited, Lifetime, Sized, Waiting
<1>2. QED
  BY <1>1, WorkerKeeps, CallKeeps, ClientKeeps, RestKeeps DEF Next

(***************************************************************************)
(* The inductive invariant holds of every reachable state.                 *)
(***************************************************************************)
THEOREM Inductive == Spec => []IInv
<1>1. QED
  BY InitIInv, NextIInv, PTL DEF Spec

(***************************************************************************)
(* A thread comes out of waitForCompletion only with the transfer it has   *)
(* submitted: no status is read, and nothing submitted, too early.         *)
(***************************************************************************)
THEOREM WaitSafe == Spec => []WaitEndsWithTransfer
<1>1. ASSUME IInv PROVE WaitEndsWithTransfer
  BY <1>1, SdkAssumption DEF IInv, Awaited, Waiting, Actors, WaitEndsWithTransfer
<1>2. QED
  BY Inductive, <1>1, PTL

(***************************************************************************)
(* The display object is taken apart only when no thread and no transfer   *)
(* of it is left.                                                          *)
(***************************************************************************)
THEOREM DestructionSafe == Spec => []DestroyedWhenQuiet
<1>1. ASSUME IInv PROVE DestroyedWhenQuiet
  BY <1>1, SdkAssumption
  DEF IInv, Awaited, Lifetime, Waiting, Actors, DestroyedWhenQuiet
<1>2. QED
  BY Inductive, <1>1, PTL

-----------------------------------------------------------------------------
(* How sendCommandToDisplayEndpoint lays a command out.  The packet that   *)
(* byte i of the buffer belongs to, and what is to be there.               *)
PacketOf(i) == (i - 1) \div maxPacketSize_
Place(i) == IF FirstOfPacket(i) THEN CommandByte ELSE i - PacketOf(i) - 1

(* The buffer after k packets were written.                                *)
Filled(totalSize, k) ==
  [i \in 1..transferBufferSize(totalSize) |-> IF PacketOf(i) < k THEN Place(i) ELSE Unwritten]

(* Division with remainder: there is a quotient, ...                       *)
LEMMA Quotient ==
  ASSUME NEW x \in Nat, NEW d \in Nat \ {0}
  PROVE  /\ x \div d \in Nat /\ x % d \in 0..(d - 1)
         /\ x = d * (x \div d) + (x % d)
<1> DEFINE q == x \div d
           r == x % d
<1>1. q \in Int /\ r \in 0..(d - 1) /\ x = d * q + r
  BY SMT
<1> HIDE DEF q, r
<1>2. q >= 0
  <2>1. ASSUME q < 0 PROVE FALSE
    <3>1. d * (q + 1) <= 0
      BY <1>1, <2>1
    <3>2. d * (q + 1) = d * q + d
      BY <1>1
    <3>3. QED
      BY <1>1, <3>1, <3>2
  <2>2. QED
    BY <1>1, <2>1
<1>3. QED
  BY <1>1, <1>2 DEF q, r

(* ... a larger one makes a difference of at least the divisor, ...        *)
LEMMA QuotientOrder ==
  ASSUME NEW d \in Nat, NEW a \in Int, NEW b \in Int, a < b
  PROVE  d * a + d <= d * b
<1>1. d * (b - a - 1) >= 0
  BY SMT
<1>2. d * (b - a - 1) = d * b - d * a - d
  BY SMT
<1>3. d * a \in Int /\ d * b \in Int
  BY SMT
<1>4. QED
  BY <1>1, <1>2, <1>3

(* ... and there is only one.                                              *)
LEMMA QuotientUnique ==
  ASSUME NEW d \in Nat \ {0}, NEW a \in Int, NEW b \in Int,
         NEW x \in 0..(d - 1), NEW y \in 0..(d - 1), d * a + x = d * b + y
  PROVE  a = b /\ x = y
<1>1. d * a \in Int /\ d * b \in Int
  BY SMT
<1>2. ~(a < b)
  <2>1. ASSUME a < b PROVE FALSE
    BY <1>1, <2>1, QuotientOrder
  <2>2. QED
    BY <2>1
<1>3. ~(b < a)
  <2>1. ASSUME b < a PROVE FALSE
    BY <1>1, <2>1, QuotientOrder
  <2>2. QED
    BY <2>1
<1>4. QED
  BY <1>1, <1>2, <1>3

(***************************************************************************)
(* A command of totalSize bytes: q full packets, and a last one with the r *)
(* bytes that are left, which may be none.                                 *)
(***************************************************************************)
LEMMA PacketSplit ==
  ASSUME NEW totalSize \in Nat \ {0, 1}
  PROVE  \E q \in Nat, r \in Nat :
           /\ r < maxPacketSize_ - 1
           /\ totalSize = (maxPacketSize_ - 1) * q + r + 1
           /\ packetCount(totalSize) = q + 1
           /\ transferBufferSize(totalSize) = maxPacketSize_ * q + r + 1
<1> DEFINE d == maxPacketSize_ - 1
           q == (totalSize - 1) \div d
           r == (totalSize - 1) % d
           p == packetCount(totalSize)
<1>1. d \in Nat \ {0} /\ maxPacketSize_ = d + 1 /\ totalSize - 1 \in Nat
  BY PacketAssumption
<1>2. q \in Nat /\ r \in 0..(d - 1) /\ totalSize - 1 = d * q + r
  BY <1>1, Quotient
<1>3. p = (totalSize - 1 + d) \div d
  BY PacketAssumption DEF packetCount
<1> HIDE DEF d, q, r
<1>4. p = q + 1
  <2> DEFINE x == totalSize - 1 + d
             s == x % d
  <2>1. x \in Nat
    BY <1>1
  <2>2. p = x \div d
    BY <1>3
  <2> HIDE DEF x
  <2>3. p \in Nat /\ s \in 0..(d - 1) /\ x = d * p + s
    BY <1>1, <2>1, <2>2, Quotient
  <2>4. d * (q + 1) = d * q + d
    BY <1>1, <1>2
  <2> HIDE DEF p, s
  <2>5. d * (q + 1) + r = d * p + s
    BY <1>1, <1>2, <2>3, <2>4 DEF x
  <2>6. q + 1 \in Int /\ p \in Int
    BY <1>2, <2>3
  <2>7. QED
    BY <1>1, <1>2, <2>3, <2>5, <2>6, QuotientUnique
<1>5. maxPacketSize_ * q = d * q + q
  BY <1>1, <1>2
<1>6. transferBufferSize(totalSize) = maxPacketSize_ * q + r + 1
  <2>1. transferBufferSize(totalSize) = totalSize + p - 1
    BY DEF transferBufferSize
  <2>2. d * q \in Int
    BY <1>1, <1>2
  <2> HIDE DEF p
  <2>3. QED
    BY <1>1, <1>2, <1>4, <1>5, <2>1, <2>2
<1>7. r < d /\ totalSize = d * q + r + 1 /\ r \in Nat
  BY <1>1, <1>2
<1>8. QED
  BY <1>2, <1>4, <1>6, <1>7 DEF d

(* Where byte i is: in packet p, j bytes after the packet's command byte.  *)
LEMMA ByteAt ==
  ASSUME NEW i \in Nat \ {0}
  PROVE  /\ PacketOf(i) \in Nat
         /\ \E j \in 0..(maxPacketSize_ - 1) :
              /\ i = maxPacketSize_ * PacketOf(i) + j + 1
              /\ FirstOfPacket(i) <=> j = 0
<1> DEFINE m == maxPacketSize_
           p == PacketOf(i)
           j == (i - 1) % m
           q == i \div m
           r == i % m
<1>1. m \in Nat \ {0, 1}
  BY PacketAssumption
<1>2. p \in Nat /\ j \in 0..(m - 1) /\ i - 1 = m * p + j
  BY <1>1, Quotient DEF PacketOf
<1>3. q \in Nat /\ r \in 0..(m - 1) /\ i = m * q + r
  BY <1>1, Quotient
<1>4. FirstOfPacket(i) <=> r = 1
  BY DEF FirstOfPacket
<1> HIDE DEF m, p, j, q, r
<1>5. m * p \in Int /\ m * q \in Int
  BY <1>1, <1>2, <1>3
<1>6. ASSUME r = 1 PROVE j = 0
  <2>1. m * p + j = m * q + 0
    BY <1>2, <1>3, <1>5, <1>6
  <2>2. QED
    BY <1>1, <1>2, <1>3, <2>1, QuotientUnique
<1>7. ASSUME j = 0 PROVE r = 1
  <2> DEFINE one == 1
  <2>1. m * p + one = m * q + r /\ one \in 0..(m - 1)
    BY <1>1, <1>2, <1>3, <1>5, <1>7
  <2> HIDE DEF one
  <2>2. r = one
    BY <1>1, <1>2, <1>3, <2>1, QuotientUnique
  <2>3. QED
    BY <2>2 DEF one
<1>8. i = m * p + j + 1 /\ (FirstOfPacket(i) <=> j = 0)
  BY <1>2, <1>4, <1>5, <1>6, <1>7
<1>9. QED
  BY <1>2, <1>8 DEF m, p

(***************************************************************************)
(* Packet p of a command takes what is left, at most maxPacketSize_ - 1,   *)
(* and ends within the transfer buffer.                                    *)
(***************************************************************************)
LEMMA PayloadFits ==
  ASSUME NEW totalSize \in Nat, NEW q \in Nat, NEW r \in Nat, NEW p \in 0..q,
         r < maxPacketSize_ - 1,
         totalSize = (maxPacketSize_ - 1) * q + r + 1,
         transferBufferSize(totalSize) = maxPacketSize_ * q + r + 1
  PROVE  /\ payloadSize(totalSize, p) = IF p < q THEN maxPacketSize_ - 1 ELSE r
         /\ transferBufferOffset(p) + 1 + payloadSize(totalSize, p)
              <= transferBufferSize(totalSize)
<1> DEFINE d == maxPacketSize_ - 1
           m == maxPacketSize_
<1>1. /\ d \in Nat \ {0} /\ m \in Nat /\ m = d + 1 /\ p \in Nat /\ r < d
      /\ totalSize = d * q + r + 1
  BY PacketAssumption
<1>2. packetOffset(p) = d * p + 1 /\ transferBufferOffset(p) = m * p
  BY <1>1 DEF packetOffset, transferBufferOffset
<1>3. /\ payloadSize(totalSize, p) =
           IF d > totalSize - packetOffset(p) THEN totalSize - packetOffset(p) ELSE d
      /\ transferBufferSize(totalSize) = m * q + r + 1
  BY DEF payloadSize
<1> HIDE DEF d, m
<1>4. d * p \in Int /\ d * q \in Int /\ m * p \in Int /\ m * q \in Int
  BY <1>1
<1>5. CASE p < q
  <2>1. d * p + d <= d * q /\ m * p + m <= m * q
    BY <1>1, <1>5, QuotientOrder
  <2>2. QED
    BY <1>1, <1>2, <1>3, <1>4, <1>5, <2>1 DEF d
<1>6. CASE p = q
  BY <1>1, <1>2, <1>3, <1>4, <1>6
<1>7. QED
  BY <1>1, <1>5, <1>6

(***************************************************************************)
(* One round of the loop: packet k is written where it belongs, and the    *)
(* packets before it are left alone.                                       *)
(***************************************************************************)
LEMMA WritePacketFills ==
  ASSUME NEW totalSize \in Nat, NEW q \in Nat, NEW r \in Nat, NEW k \in 0..q,
         r < maxPacketSize_ - 1,
         totalSize = (maxPacketSize_ - 1) * q + r + 1,
         transferBufferSize(totalSize) = maxPacketSize_ * q + r + 1
  PROVE  WritePacket(Filled(totalSize, k), totalSize, k) = Filled(totalSize, k + 1)
<1> DEFINE m == maxPacketSize_
           size == transferBufferSize(totalSize)
           payload == payloadSize(totalSize, k)
           before == Filled(totalSize, k)
           written(i) == IF i = m * k + 1 THEN CommandByte
                         ELSE IF i - m * k - 1 \in 1..payload THEN i - k - 1 ELSE before[i]
<1>1. /\ m \in Nat \ {0, 1} /\ k \in Nat /\ r < m - 1
      /\ size = m * q + r + 1
  BY PacketAssumption
<1>2. payload = IF k < q THEN m - 1 ELSE r
  BY PayloadFits
<1>3. DOMAIN before = 1..size
  BY DEF Filled
<1>4. WritePacket(before, totalSize, k) = [i \in 1..size |-> written(i)]
  <2>1. transferBufferOffset(k) = m * k /\ m * k \in Int
    BY <1>1 DEF transferBufferOffset
  <2>2. \A i \in 1..size : packetOffset(k) + (i - transferBufferOffset(k) - 2) = i - k - 1
    BY <1>1, <2>1 DEF packetOffset
  <2>3. QED
    BY <1>3, <2>1, <2>2 DEF WritePacket
<1>5. ASSUME NEW i \in 1..size
      PROVE  written(i) = IF PacketOf(i) < k + 1 THEN Place(i) ELSE Unwritten
  <2> DEFINE p == PacketOf(i)
  <2>1. i \in Nat \ {0}
    BY <1>1, <1>5
  <2>2. PICK j \in 0..(m - 1) : i = m * p + j + 1 /\ (FirstOfPacket(i) <=> j = 0)
    BY <2>1, ByteAt
  <2>3. p \in Nat
    BY <2>1, ByteAt
  <2>4. before[i] = IF p < k THEN Place(i) ELSE Unwritten
    BY <1>5 DEF Filled
  <2>5. Place(i) = IF FirstOfPacket(i) THEN CommandByte ELSE i - p - 1
    BY DEF Place
  <2> HIDE DEF p, m, size, payload, before
  <2>6. m * p \in Int /\ m * k \in Int /\ m * q \in Int
    BY <1>1, <2>3
  <2>7. CASE p = k
    <3>1. i - m * k - 1 = j
      BY <2>2, <2>6, <2>7
    <3>2. j = 0 \/ j \in 1..payload
      BY <1>1, <1>2, <1>5, <2>2, <2>6, <2>7
    <3>3. QED
      BY <1>1, <2>1, <2>2, <2>5, <2>6, <2>7, <3>1, <3>2 DEF p
  <2>8. CASE p < k
    <3>1. m * p + m <= m * k
      BY <1>1, <2>3, <2>8, QuotientOrder
    <3>2. i # m * k + 1 /\ i - m * k - 1 \notin 1..payload
      BY <1>1, <1>2, <2>2, <2>6, <3>1
    <3>3. QED
      BY <1>1, <2>3, <2>4, <2>8, <3>2 DEF p
  <2>9. CASE k < p
    <3>1. m * k + m <= m * p
      BY <1>1, <2>3, <2>9, QuotientOrder
    <3>2. i # m * k + 1 /\ i - m * k - 1 \notin 1..payload
      BY <1>1, <1>2, <2>2, <2>6, <3>1
    <3>3. QED
      BY <1>1, <2>3, <2>4, <2>9, <3>2 DEF p
  <2>10. QED
    BY <1>1, <2>3, <2>7, <2>8, <2>9
<1>6. QED
  BY <1>4, <1>5 DEF Filled

(* Every set of numbers that is not empty has a least one.                 *)
LEMMA LeastNat ==
  ASSUME NEW T, T \subseteq Nat, T # {}
  PROVE  \E x \in T : \A y \in T : x <= y
<1> DEFINE R == OpToRel(<, Nat)
<1>1. IsWellFoundedOn(R, Nat)
  BY NatLessThanWellFounded
<1> HIDE DEF R
<1>2. PICK x \in T : \A y \in T : ~(<<y, x>> \in R)
  BY <1>1, WFMin
<1>3. ASSUME NEW y \in T PROVE x <= y
  <2>1. ~(y < x)
    BY <1>2 DEF R, OpToRel
  <2>2. QED
    BY <2>1
<1>4. QED
  BY <1>3

(***************************************************************************)
(* What the loop over the packets computes: the buffer in which every byte *)
(* is in its place.  The recursive function exists, since Filled is one,   *)
(* and there is no other: consider the first round at which it differs.    *)
(***************************************************************************)
LEMMA TransferBufferFilled ==
  ASSUME NEW totalSize \in Nat \ {0, 1}
  PROVE  transferBuffer(totalSize) = Filled(totalSize, packetCount(totalSize))
<1> DEFINE count == packetCount(totalSize)
           Empty == [i \in 1..transferBufferSize(totalSize) |-> Unwritten]
           Loop(f) == f = [n \in 0..count |->
                             IF n = 0 THEN Empty ELSE WritePacket(f[n - 1], totalSize, n - 1)]
           filled == [n \in 0..count |-> Filled(totalSize, n)]
<1>1. PICK q \in Nat, r \in Nat :
        /\ r < maxPacketSize_ - 1
        /\ totalSize = (maxPacketSize_ - 1) * q + r + 1
        /\ count = q + 1
        /\ transferBufferSize(totalSize) = maxPacketSize_ * q + r + 1
  BY PacketSplit
<1>2. \A k \in 0..q :
        WritePacket(Filled(totalSize, k), totalSize, k) = Filled(totalSize, k + 1)
  BY <1>1, WritePacketFills
<1>3. Filled(totalSize, 0) = Empty
  <2>1. \A i \in 1..transferBufferSize(totalSize) : PacketOf(i) \in Nat
    <3>1. transferBufferSize(totalSize) \in Int
      BY <1>1, PacketAssumption
    <3>2. QED
      BY <3>1, ByteAt
  <2>2. QED
    BY <2>1 DEF Filled
<1>4. Loop(filled)
  <2>1. ASSUME NEW n \in 0..count, n # 0
        PROVE  filled[n] = WritePacket(filled[n - 1], totalSize, n - 1)
    <3>1. n - 1 \in 0..q /\ n - 1 \in 0..count /\ (n - 1) + 1 = n
      BY <1>1, <2>1
    <3>2. WritePacket(Filled(totalSize, n - 1), totalSize, n - 1) = Filled(totalSize, n)
      BY <1>2, <3>1
    <3>3. QED
      BY <3>1, <3>2
  <2>2. \A n \in 0..count :
          filled[n] = IF n = 0 THEN Empty ELSE WritePacket(filled[n - 1], totalSize, n - 1)
    BY <1>3, <2>1
  <2>3. QED
    BY <2>2
<1>5. ASSUME NEW f, Loop(f) PROVE f[count] = Filled(totalSize, count)
  <2> DEFINE T == {n \in 0..count : f[n] # Filled(totalSize, n)}
             G == [n \in 0..count |->
                     IF n = 0 THEN Empty ELSE WritePacket(f[n - 1], totalSize, n - 1)]
  <2>1. f[0] = Filled(totalSize, 0)
    <3>1. f = G
      BY <1>5
    <3>2. 0 \in 0..count
      BY <1>1
    <3>3. G[0] = Empty
      BY <3>2
    <3> HIDE DEF G
    <3>4. QED
      BY <1>3, <3>1, <3>3
  <2>2. ASSUME T # {} PROVE FALSE
    <3>1. T \subseteq Nat
      BY <1>1
    <3>2. PICK n \in T : \A k \in T : n <= k
      BY <2>2, <3>1, LeastNat
    <3>3. n \in 0..count /\ n # 0 /\ f[n] # Filled(totalSize, n)
      BY <2>1
    <3>4. n - 1 \in 0..q /\ n - 1 \in 0..count /\ ~(n <= n - 1) /\ (n - 1) + 1 = n
      BY <1>1, <3>3
    <3>5. f[n - 1] = Filled(totalSize, n - 1)
      BY <3>2, <3>4
    <3>6. f[n] = WritePacket(f[n - 1], totalSize, n - 1)
      BY <1>5, <3>3
    <3>7. WritePacket(Filled(totalSize, n - 1), totalSize, n - 1) = Filled(totalSize, n)
      BY <1>2, <3>4
    <3>8. QED
      BY <3>3, <3>5, <3>6, <3>7
  <2>3. count \in 0..count
    BY <1>1
  <2>4. QED
    BY <2>2, <2>3
<1>6. transferBuffer(totalSize) = (CHOOSE f : Loop(f))[count]
  BY Zenon DEF transferBuffer
<1>7. Loop(CHOOSE f : Loop(f))
  <2> HIDE DEF Loop
  <2>1. QED
    BY <1>4, Zenon
<1>8. QED
  BY <1>5, <1>6, <1>7

(***************************************************************************)
(* The device takes the command byte off every packet and is left with the *)
(* rest of the command, in order and complete.                             *)
(***************************************************************************)
LEMMA DeviceReceives ==
  ASSUME NEW totalSize \in Nat \ {0, 1}
  PROVE  LET buffer == transferBuffer(totalSize)
         IN  /\ \A i \in DOMAIN buffer : FirstOfPacket(i) <=> buffer[i] = CommandByte
             /\ Received(buffer) = [k \in 1..(totalSize - 1) |-> k]
<1> DEFINE buffer == transferBuffer(totalSize)
           m == maxPacketSize_
           d == maxPacketSize_ - 1
           size == transferBufferSize(totalSize)
           Rest == {i \in DOMAIN buffer : ~FirstOfPacket(i)}
           after(i) == i - ((i - 1) \div maxPacketSize_) - 1
<1>1. PICK q \in Nat, r \in Nat :
        /\ r < d
        /\ totalSize = d * q + r + 1
        /\ packetCount(totalSize) = q + 1
        /\ size = m * q + r + 1
  BY PacketSplit
<1>2. m \in Nat \ {0, 1} /\ d \in Nat \ {0} /\ m = d + 1
  BY PacketAssumption
<1>3. m * q \in Int /\ d * q \in Int /\ m * q = d * q + q
  BY <1>2
<1>4. ASSUME NEW i \in 1..size
      PROVE  \E p \in 0..q, j \in 0..(m - 1) :
               /\ i = m * p + j + 1 /\ p = PacketOf(i)
               /\ FirstOfPacket(i) <=> j = 0
               /\ p = q => j <= r
  <2> HIDE DEF m, d, size
  <2>1. i \in Nat \ {0}
    BY <1>1, <1>3, <1>4
  <2>2. PICK j \in 0..(m - 1) : i = m * PacketOf(i) + j + 1 /\ (FirstOfPacket(i) <=> j = 0)
    BY <2>1, ByteAt DEF m
  <2> DEFINE p == PacketOf(i)
  <2>3. p \in Nat
    BY <2>1, ByteAt
  <2> HIDE DEF p
  <2>4. m * p \in Int
    BY <1>2, <2>3
  <2>5. ~(q < p)
    <3>1. ASSUME q < p PROVE m * q + m <= m * p
      BY <1>2, <2>3, <3>1, QuotientOrder
    <3>2. i = m * p + j + 1
      BY <2>2 DEF p
    <3>3. QED
      BY <1>1, <1>2, <1>3, <1>4, <2>4, <3>1, <3>2
  <2>6. p = q => j <= r
    BY <1>1, <1>2, <1>3, <1>4, <2>2, <2>4 DEF p
  <2>7. p \in 0..q
    BY <2>3, <2>5
  <2>8. QED
    BY <2>2, <2>6, <2>7 DEF p
<1>5. DOMAIN buffer = 1..size /\ \A i \in 1..size : buffer[i] = Place(i)
  <2>1. buffer = Filled(totalSize, q + 1)
    BY <1>1, TransferBufferFilled
  <2>2. \A i \in 1..size : PacketOf(i) < q + 1
    BY <1>4
  <2>3. QED
    BY <2>1, <2>2 DEF Filled
<1> HIDE DEF buffer, size
<1>6. ASSUME NEW i \in 1..size, ~FirstOfPacket(i)
      PROVE  buffer[i] = after(i) /\ after(i) \in 1..(totalSize - 1)
  <2> HIDE DEF m, d
  <2>1. PICK p \in 0..q, j \in 0..(m - 1) :
          /\ i = m * p + j + 1 /\ p = PacketOf(i)
          /\ FirstOfPacket(i) <=> j = 0
          /\ p = q => j <= r
    BY <1>4
  <2>2. buffer[i] = after(i) /\ after(i) = i - p - 1
    BY <1>5, <1>6, <2>1 DEF Place, PacketOf
  <2>3. m * p = d * p + p /\ m * p \in Int /\ d * p \in Int
    BY <1>2
  <2>4. i - p - 1 = d * p + j /\ j >= 1
    BY <1>2, <1>6, <2>1, <2>3
  <2>5. d * p + j <= d * q + r /\ d * p >= 0
    <3>1. CASE p = q
      BY <1>2, <1>3, <2>1, <3>1
    <3>2. CASE p < q
      BY <1>1, <1>2, <1>3, <2>1, <2>3, <3>2, QuotientOrder
    <3>3. QED
      BY <3>1, <3>2
  <2>6. QED
    BY <1>1, <1>3, <2>2, <2>3, <2>4, <2>5
<1>7. ASSUME NEW k \in 1..(totalSize - 1)
      PROVE  \E i \in 1..size : ~FirstOfPacket(i) /\ after(i) = k
  <2> HIDE DEF m, d
  <2> DEFINE p == (k - 1) \div d
             j == (k - 1) % d
             i == m * p + j + 2
  <2>1. p \in Nat /\ j \in 0..(d - 1) /\ k - 1 = d * p + j
    <3>1. k - 1 \in Nat
      BY <1>7
    <3>2. QED
      BY <1>2, <3>1, Quotient
  <2> HIDE DEF p, j
  <2>2. m * p = d * p + p /\ m * p \in Nat /\ d * p \in Int
    BY <1>2, <2>1
  <2>3. i \in Nat \ {0}
    BY <2>1, <2>2
  <2>4. i \in 1..size
    <3>1. ~(q < p)
      <4>1. ASSUME q < p PROVE d * q + d <= d * p
        BY <1>2, <2>1, <4>1, QuotientOrder
      <4>2. QED
        BY <1>1, <1>2, <1>3, <2>1, <2>2, <4>1
    <3>2. CASE p = q
      BY <1>1, <1>2, <1>3, <2>1, <2>2, <3>2
    <3>3. CASE p < q
      <4>1. m * p + m <= m * q
        BY <1>2, <2>1, <3>3, QuotientOrder
      <4>2. QED
        BY <1>1, <1>2, <1>3, <2>1, <2>2, <4>1
    <3>4. QED
      BY <2>1, <3>1, <3>2, <3>3
  <2>5. PacketOf(i) = p /\ ~FirstOfPacket(i)
    <3> DEFINE u == PacketOf(i)
               x == j + 1
    <3>1. u \in Nat
      BY <2>3, ByteAt
    <3>2. PICK y \in 0..(m - 1) : i = m * u + y + 1 /\ (FirstOfPacket(i) <=> y = 0)
      BY <2>3, ByteAt DEF m
    <3>3. x \in 0..(m - 1) /\ x # 0 /\ i = m * p + x + 1
      BY <1>2, <2>1, <2>2
    <3> HIDE DEF u, x, i
    <3>4. m * u \in Int
      BY <1>2, <3>1
    <3>5. m * p + x = m * u + y
      BY <1>2, <2>2, <3>2, <3>3, <3>4
    <3>6. p = u /\ x = y
      BY <1>2, <2>1, <3>1, <3>2, <3>3, <3>5, QuotientUnique
    <3>7. QED
      BY <3>2, <3>3, <3>6 DEF u
  <2>6. after(i) = k
    <3>1. after(i) = i - p - 1
      BY <2>5 DEF PacketOf
    <3>2. QED
      BY <2>1, <2>2, <3>1
  <2>7. QED
    BY <2>4, <2>5, <2>6
<1>8. \A i \in DOMAIN buffer : FirstOfPacket(i) <=> buffer[i] = CommandByte
  <2>1. ASSUME NEW i \in 1..size, FirstOfPacket(i) PROVE buffer[i] = CommandByte
    BY <1>5, <2>1 DEF Place
  <2>2. ASSUME NEW i \in 1..size, ~FirstOfPacket(i) PROVE buffer[i] # CommandByte
    BY <1>6, <2>2 DEF CommandByte
  <2>3. QED
    BY <1>5, <2>1, <2>2
<1>9. Received(buffer) = [k \in 1..(totalSize - 1) |-> k]
  <2>1. Received(buffer) =
          [n \in {after(i) : i \in Rest} |-> buffer[CHOOSE i \in Rest : after(i) = n]]
    BY Zenon DEF Received
  <2>2. \A i \in Rest : buffer[i] = after(i) /\ after(i) \in 1..(totalSize - 1)
    BY <1>5, <1>6
  <2>3. \A k \in 1..(totalSize - 1) : \E i \in Rest : after(i) = k
    BY <1>5, <1>7
  <2> HIDE DEF Rest, after
  <2>4. {after(i) : i \in Rest} = 1..(totalSize - 1)
    BY <2>2, <2>3
  <2>5. \A k \in 1..(totalSize - 1) : buffer[CHOOSE i \in Rest : after(i) = k] = k
    BY <2>2, <2>3
  <2>6. QED
    BY <2>1, <2>4, <2>5
<1>10. QED
  BY <1>8, <1>9 DEF buffer

(***************************************************************************)
(* Every command that is submitted fits the transfer buffer, and the       *)
(* device can put it together again - for every packet size and command    *)
(* size, also those at which the last packet has no byte of payload.       *)
(***************************************************************************)
THEOREM CommandSafe == Spec => []CommandArrives
<1>1. ASSUME IInv PROVE CommandArrives
  <2> SUFFICES ASSUME NEW c \in Clients, client[c].pc \in {"submit", "wait"}
               PROVE  LET n == client[c].totalSize
                          buffer == transferBuffer(n)
                      IN  /\ \A p \in 0..(packetCount(n) - 1) :
                               /\ payloadSize(n, p) >= 0
                               /\ transferBufferOffset(p) + 1 + payloadSize(n, p)
                                    <= transferBufferSize(n)
                          /\ \A i \in DOMAIN buffer : FirstOfPacket(i) <=> buffer[i] = CommandByte
                          /\ Received(buffer) = [k \in 1..(n - 1) |-> k]
    BY Zenon DEF CommandArrives
  <2> DEFINE n == client[c].totalSize
  <2>1. n \in Nat \ {0, 1}
    BY <1>1, SdkAssumption DEF IInv, Shape, Sized, Sizes
  <2> HIDE DEF n
  <2>2. PICK q \in Nat, r \in Nat :
          /\ r < maxPacketSize_ - 1
          /\ n = (maxPacketSize_ - 1) * q + r + 1
          /\ packetCount(n) = q + 1
          /\ transferBufferSize(n) = maxPacketSize_ * q + r + 1
    BY <2>1, PacketSplit
  <2>3. ASSUME NEW p \in 0..(packetCount(n) - 1)
        PROVE  /\ payloadSize(n, p) >= 0
               /\ transferBufferOffset(p) + 1 + payloadSize(n, p) <= transferBufferSize(n)
    <3>1. p \in 0..q
      BY <2>2
    <3>2. /\ payloadSize(n, p) = IF p < q THEN maxPacketSize_ - 1 ELSE r
          /\ transferBufferOffset(p) + 1 + payloadSize(n, p) <= transferBufferSize(n)
      BY <2>1, <2>2, <3>1, PayloadFits
    <3>3. QED
      BY <3>2, PacketAssumption
  <2>4. QED
    BY <2>1, <2>3, DeviceReceives DEF n
<1>2. QED
  BY Inductive, <1>1, PTL

=============================================================================
