--------------------------- MODULE DisplaySyncProofs ---------------------------
(***************************************************************************)
(* Proofs about TicketPool, for every finite set of tickets, and about     *)
(* DisplaySync, which composes the framebuffer with it, for a display and  *)
(* rectangles of any size, any number of clients, draws and transfer       *)
(* errors.                                                                 *)
(***************************************************************************)
EXTENDS DisplaySync, FiniteSetTheorems, TLAPS

-----------------------------------------------------------------------------
(* The ticket pool.                                                        *)

(***************************************************************************)
(* TypeOK but for the range of availiable_count, which follows from        *)
(* CountMatchesList.                                                       *)
(***************************************************************************)
Shape ==
  /\ pool \subseteq Tickets
  /\ available \in Int
  /\ bundle \subseteq Tickets
  /\ flight \subseteq Tickets
  /\ done \subseteq Tickets
  /\ urb_status \in [Tickets -> {"zero", "nonzero"}]
  /\ handler \in Tickets \union {NoTicket}
  /\ all_finished \in BOOLEAN
  /\ freed \subseteq Tickets
  /\ sender \in SenderStates
  /\ holder \in {"none", "client", "work"}
  /\ required \in 0..MaxTickets
  /\ work_pending \in BOOLEAN
  /\ work_running \in BOOLEAN
  /\ is_alive \in BOOLEAN
  /\ bound \in BOOLEAN
  /\ disconnect \in DisconnectStates

(***************************************************************************)
(* What the sender's control state says about its tickets and the work.    *)
(***************************************************************************)
SenderInv ==
  /\ holder = "none" <=> sender = "idle"
  /\ bundle # {} => sender \in {"send", "abort", "cleanup"}
  /\ holder = "work" => work_running

(***************************************************************************)
(* What the disconnect callback has established before it drains the pool: *)
(* with the device dead no work starts a send, with the framebuffer        *)
(* unbound no client does.                                                 *)
(***************************************************************************)
DisconnectInv ==
  /\ disconnect \in {"dead", "unbound", "drain", "gone"} => ~is_alive
  /\ disconnect \in {"unbound", "drain", "gone"} => ~bound /\ holder = "none"
  /\ disconnect \in {"drain", "gone"} => ~work_running
  /\ disconnect = "gone" => freed = Tickets

IInv ==
  /\ Shape
  /\ SingleOwner
  /\ CountMatchesList
  /\ SenderInv
  /\ DisconnectInv

-----------------------------------------------------------------------------
(* Shape holds initially: a new device starts with well-formed state.     *)
LEMMA InitShape == Init => Shape
<1>1. Cardinality(Tickets) \in Nat
  BY FS_CardinalityType, TicketsAssumption
<1>2. Init => available \in Int /\ required \in 0..MaxTickets
  BY <1>1, TicketsAssumption DEF Init
<1>3. QED
  BY <1>2, Zenon DEF Init, Shape, SenderStates, DisconnectStates

(* Every step of the sender, the USB core, the handler, the work and the   *)
(* disconnect callback keeps the state well-formed.                        *)
LEMMA NextShape == Shape /\ [Next]_vars => Shape'
<1> SUFFICES ASSUME Shape, [Next]_vars PROVE Shape'
  OBVIOUS
<1> USE TicketsAssumption DEF Shape, SenderStates, DisconnectStates, poolVars,
      urbVars, handlerVars, senderVars, workVars, devVars
<1>1. ASSUME NEW n \in 1..MaxTickets, ClientBegin(n) PROVE Shape'
  BY <1>1 DEF ClientBegin
<1>2. CASE SellNone
  BY <1>2 DEF SellNone, ReleaseLock
<1>3. CASE Sell
  BY <1>3 DEF Sell
<1>4. ASSUME NEW t \in Tickets, SubmitFull(t) PROVE Shape'
  BY <1>4 DEF SubmitFull, SubmitAccepted
<1>5. ASSUME NEW t \in Tickets, SubmitFullRefused(t) PROVE Shape'
  BY <1>5 DEF SubmitFullRefused, FinishRefused, SubmitRefused, Return
<1>6. ASSUME NEW t \in Tickets, Flush(t) PROVE Shape'
  BY <1>6 DEF Flush, SubmitAccepted
<1>7. ASSUME NEW t \in Tickets, FlushRefused(t) PROVE Shape'
  BY <1>7 DEF FlushRefused, FinishRefused, SubmitRefused, Return, ReleaseLock
<1>8. ASSUME NEW t \in Tickets, Cleanup(t) PROVE Shape'
  BY <1>8 DEF Cleanup, Return
<1>9. CASE SendEnd
  BY <1>9 DEF SendEnd, ReleaseLock
<1>10. ASSUME NEW t \in Tickets, NEW s \in {"zero", "nonzero"}, UrbDone(t, s)
       PROVE Shape'
  BY <1>10 DEF UrbDone
<1>11. ASSUME NEW t \in Tickets, FinishReturn(t) PROVE Shape'
  <2>1. all_finished' \in BOOLEAN
    BY <1>11, Zenon DEF FinishReturn, LastOneBack
  <2>2. QED
    BY <1>11, <2>1 DEF FinishReturn, Return
<1>12. CASE FinishTail
  BY <1>12 DEF FinishTail
<1>13. CASE ScheduleByStatus
  BY <1>13 DEF ScheduleByStatus
<1>14. CASE WorkIdle
  BY <1>14 DEF WorkIdle
<1>15. CASE WorkStart
  BY <1>15 DEF WorkStart
<1>16. ASSUME NEW n \in 1..MaxTickets, WorkBegin(n) PROVE Shape'
  <2>1. n \in 0..MaxTickets
    OBVIOUS
  <2>2. CASE bound /\ is_alive
    BY <1>16, <2>1, <2>2, Zenon DEF WorkBegin
  <2>3. CASE ~(bound /\ is_alive)
    BY <1>16, <2>3, Zenon DEF WorkBegin
  <2>4. QED
    BY <2>2, <2>3
<1>17. CASE Unplug
  BY <1>17 DEF Unplug
<1>18. CASE MarkDead
  BY <1>18 DEF MarkDead
<1>19. CASE Unbind
  BY <1>19 DEF Unbind
<1>20. CASE CancelWork
  BY <1>20 DEF CancelWork
<1>21. CASE Drain
  BY <1>21 DEF Drain
<1>22. CASE FreeDevice
  BY <1>22 DEF FreeDevice
<1>23. CASE UNCHANGED vars
  BY <1>23 DEF vars
<1> QED
  BY <1>1, <1>2, <1>3, <1>4, <1>5, <1>6, <1>7, <1>8, <1>9, <1>10, <1>11,
     <1>12, <1>13, <1>14, <1>15, <1>16, <1>17, <1>18, <1>19, <1>20, <1>21,
     <1>22, <1>23
  DEF Next, SenderStep, UsbStep, HandlerStep, WorkStep, DisconnectStep


-----------------------------------------------------------------------------
(* A ticket that comes back from outside the pool keeps the counter equal  *)
(* to the length of the list.                                              *)
LEMMA ReturnCounts ==
  ASSUME Shape, CountMatchesList, NEW t \in Tickets, t \notin pool, Return(t)
  PROVE  CountMatchesList'
<1>1. IsFiniteSet(pool)
  BY FS_Subset, TicketsAssumption DEF Shape
<1>2. Cardinality(pool \union {t}) = Cardinality(pool) + 1
  BY <1>1, FS_AddElement
<1>3. QED
  BY <1>2 DEF CountMatchesList, Return

(* Selling, submitting, giving back, cleaning up and draining move a       *)
(* ticket from one place to another and never copy it.                     *)
LEMMA NextSingleOwner ==
  Shape /\ SingleOwner /\ SenderInv /\ [Next]_vars => SingleOwner'
<1> SUFFICES ASSUME Shape, SingleOwner, SenderInv, [Next]_vars PROVE SingleOwner'
  OBVIOUS
<1> USE DEF Shape, SingleOwner, SenderInv, poolVars, urbVars, handlerVars,
      senderVars, workVars, devVars
<1>1. ASSUME NEW n \in 1..MaxTickets, ClientBegin(n) PROVE SingleOwner'
  BY <1>1 DEF ClientBegin
<1>2. CASE SellNone
  BY <1>2 DEF SellNone, ReleaseLock
<1>3. CASE Sell
  BY <1>3 DEF Sell
<1>4. ASSUME NEW t \in Tickets, SubmitFull(t) PROVE SingleOwner'
  BY <1>4 DEF SubmitFull, SubmitAccepted
<1>5. ASSUME NEW t \in Tickets, SubmitFullRefused(t) PROVE SingleOwner'
  BY <1>5 DEF SubmitFullRefused, FinishRefused, SubmitRefused, Return
<1>6. ASSUME NEW t \in Tickets, Flush(t) PROVE SingleOwner'
  BY <1>6 DEF Flush, SubmitAccepted
<1>7. ASSUME NEW t \in Tickets, FlushRefused(t) PROVE SingleOwner'
  BY <1>7 DEF FlushRefused, FinishRefused, SubmitRefused, Return, ReleaseLock
<1>8. ASSUME NEW t \in Tickets, Cleanup(t) PROVE SingleOwner'
  BY <1>8 DEF Cleanup, Return
<1>9. CASE SendEnd
  BY <1>9 DEF SendEnd, ReleaseLock
<1>10. ASSUME NEW t \in Tickets, NEW s \in {"zero", "nonzero"}, UrbDone(t, s)
       PROVE SingleOwner'
  BY <1>10 DEF UrbDone
<1>11. ASSUME NEW t \in Tickets, FinishReturn(t) PROVE SingleOwner'
  BY <1>11 DEF FinishReturn, Return
<1>12. CASE FinishTail
  BY <1>12 DEF FinishTail
<1>13. CASE ScheduleByStatus
  BY <1>13 DEF ScheduleByStatus
<1>14. CASE WorkIdle
  BY <1>14 DEF WorkIdle
<1>15. CASE WorkStart
  BY <1>15 DEF WorkStart
<1>16. ASSUME NEW n \in 1..MaxTickets, WorkBegin(n) PROVE SingleOwner'
  BY <1>16 DEF WorkBegin
<1>17. CASE Unplug
  BY <1>17 DEF Unplug
<1>18. CASE MarkDead
  BY <1>18 DEF MarkDead
<1>19. CASE Unbind
  BY <1>19 DEF Unbind
<1>20. CASE CancelWork
  BY <1>20 DEF CancelWork
<1>21. CASE Drain
  BY <1>21 DEF Drain
<1>22. CASE FreeDevice
  BY <1>22 DEF FreeDevice
<1>23. CASE UNCHANGED vars
  BY <1>23 DEF vars
<1> QED
  BY <1>1, <1>2, <1>3, <1>4, <1>5, <1>6, <1>7, <1>8, <1>9, <1>10, <1>11,
     <1>12, <1>13, <1>14, <1>15, <1>16, <1>17, <1>18, <1>19, <1>20, <1>21,
     <1>22, <1>23
  DEF Next, SenderStep, UsbStep, HandlerStep, WorkStep, DisconnectStep

(* The counter follows the list through every critical section.            *)
LEMMA NextCount ==
  Shape /\ SingleOwner /\ CountMatchesList /\ [Next]_vars => CountMatchesList'
<1> SUFFICES ASSUME Shape, SingleOwner, CountMatchesList, [Next]_vars
             PROVE  CountMatchesList'
  OBVIOUS
<1>0. IsFiniteSet(pool)
  BY FS_Subset, TicketsAssumption DEF Shape
<1> USE DEF CountMatchesList, poolVars
<1>1. ASSUME NEW n \in 1..MaxTickets, ClientBegin(n) PROVE CountMatchesList'
  BY <1>1 DEF ClientBegin
<1>2. CASE SellNone
  BY <1>2 DEF SellNone, ReleaseLock
<1>3. CASE Sell
  <2>1. PICK S \in SUBSET pool : Cardinality(S) = required /\ pool' = pool \ S
    BY <1>3 DEF Sell
  <2>2. Cardinality(pool \ S) = Cardinality(pool) - Cardinality(pool \intersect S)
    BY <1>0, FS_Difference
  <2>3. pool \intersect S = S
    OBVIOUS
  <2>4. QED
    BY <1>3, <2>1, <2>2, <2>3 DEF Sell
<1>4. ASSUME NEW t \in Tickets, SubmitFull(t) PROVE CountMatchesList'
  BY <1>4 DEF SubmitFull, SubmitAccepted
<1>5. ASSUME NEW t \in Tickets, SubmitFullRefused(t) PROVE CountMatchesList'
  BY <1>5, ReturnCounts DEF SubmitFullRefused, FinishRefused, SingleOwner
<1>6. ASSUME NEW t \in Tickets, Flush(t) PROVE CountMatchesList'
  BY <1>6 DEF Flush, SubmitAccepted
<1>7. ASSUME NEW t \in Tickets, FlushRefused(t) PROVE CountMatchesList'
  BY <1>7, ReturnCounts DEF FlushRefused, FinishRefused, SingleOwner
<1>8. ASSUME NEW t \in Tickets, Cleanup(t) PROVE CountMatchesList'
  BY <1>8, ReturnCounts DEF Cleanup, SingleOwner
<1>9. CASE SendEnd
  BY <1>9 DEF SendEnd, ReleaseLock
<1>10. ASSUME NEW t \in Tickets, NEW s \in {"zero", "nonzero"}, UrbDone(t, s)
       PROVE CountMatchesList'
  BY <1>10 DEF UrbDone
<1>11. ASSUME NEW t \in Tickets, FinishReturn(t) PROVE CountMatchesList'
  BY <1>11, ReturnCounts DEF FinishReturn, SingleOwner
<1>12. CASE FinishTail
  BY <1>12 DEF FinishTail
<1>13. CASE ScheduleByStatus
  BY <1>13 DEF ScheduleByStatus
<1>14. CASE WorkIdle
  BY <1>14 DEF WorkIdle
<1>15. CASE WorkStart
  BY <1>15 DEF WorkStart
<1>16. ASSUME NEW n \in 1..MaxTickets, WorkBegin(n) PROVE CountMatchesList'
  BY <1>16 DEF WorkBegin
<1>17. CASE Unplug
  BY <1>17 DEF Unplug
<1>18. CASE MarkDead
  BY <1>18 DEF MarkDead
<1>19. CASE Unbind
  BY <1>19 DEF Unbind
<1>20. CASE CancelWork
  BY <1>20 DEF CancelWork
<1>21. CASE Drain
  <2>1. PICK t \in pool : pool' = pool \ {t}
    BY <1>21 DEF Drain
  <2>2. Cardinality(pool \ {t}) = Cardinality(pool) - 1
    BY <1>0, FS_RemoveElement
  <2>3. QED
    BY <1>21, <2>1, <2>2 DEF Drain
<1>22. CASE FreeDevice
  BY <1>22 DEF FreeDevice
<1>23. CASE UNCHANGED vars
  BY <1>23 DEF vars
<1> QED
  BY <1>1, <1>2, <1>3, <1>4, <1>5, <1>6, <1>7, <1>8, <1>9, <1>10, <1>11,
     <1>12, <1>13, <1>14, <1>15, <1>16, <1>17, <1>18, <1>19, <1>20, <1>21,
     <1>22, <1>23
  DEF Next, SenderStep, UsbStep, HandlerStep, WorkStep, DisconnectStep

(* The sender's control state tells who holds tickets.                     *)
LEMMA NextSenderInv == Shape /\ SenderInv /\ [Next]_vars => SenderInv'
<1> SUFFICES ASSUME Shape, SenderInv, [Next]_vars PROVE SenderInv'
  OBVIOUS
<1> USE DEF Shape, SenderInv, poolVars, urbVars, handlerVars, senderVars,
      workVars, devVars
<1>1. ASSUME NEW n \in 1..MaxTickets, ClientBegin(n) PROVE SenderInv'
  BY <1>1 DEF ClientBegin
<1>2. CASE SellNone
  BY <1>2 DEF SellNone, ReleaseLock
<1>3. CASE Sell
  BY <1>3 DEF Sell
<1>4. ASSUME NEW t \in Tickets, SubmitFull(t) PROVE SenderInv'
  BY <1>4 DEF SubmitFull, SubmitAccepted
<1>5. ASSUME NEW t \in Tickets, SubmitFullRefused(t) PROVE SenderInv'
  BY <1>5 DEF SubmitFullRefused, FinishRefused, SubmitRefused, Return
<1>6. ASSUME NEW t \in Tickets, Flush(t) PROVE SenderInv'
  BY <1>6 DEF Flush, SubmitAccepted
<1>7. ASSUME NEW t \in Tickets, FlushRefused(t) PROVE SenderInv'
  BY <1>7 DEF FlushRefused, FinishRefused, SubmitRefused, Return, ReleaseLock
<1>8. ASSUME NEW t \in Tickets, Cleanup(t) PROVE SenderInv'
  BY <1>8 DEF Cleanup, Return
<1>9. CASE SendEnd
  BY <1>9 DEF SendEnd, ReleaseLock
<1>10. ASSUME NEW t \in Tickets, NEW s \in {"zero", "nonzero"}, UrbDone(t, s)
       PROVE SenderInv'
  BY <1>10 DEF UrbDone
<1>11. ASSUME NEW t \in Tickets, FinishReturn(t) PROVE SenderInv'
  BY <1>11 DEF FinishReturn, Return
<1>12. CASE FinishTail
  BY <1>12 DEF FinishTail
<1>13. CASE ScheduleByStatus
  BY <1>13 DEF ScheduleByStatus
<1>14. CASE WorkIdle
  BY <1>14 DEF WorkIdle
<1>15. CASE WorkStart
  BY <1>15 DEF WorkStart
<1>16. ASSUME NEW n \in 1..MaxTickets, WorkBegin(n) PROVE SenderInv'
  BY <1>16 DEF WorkBegin
<1>17. CASE Unplug
  BY <1>17 DEF Unplug
<1>18. CASE MarkDead
  BY <1>18 DEF MarkDead
<1>19. CASE Unbind
  BY <1>19 DEF Unbind
<1>20. CASE CancelWork
  BY <1>20 DEF CancelWork
<1>21. CASE Drain
  BY <1>21 DEF Drain
<1>22. CASE FreeDevice
  BY <1>22 DEF FreeDevice
<1>23. CASE UNCHANGED vars
  BY <1>23 DEF vars
<1> QED
  BY <1>1, <1>2, <1>3, <1>4, <1>5, <1>6, <1>7, <1>8, <1>9, <1>10, <1>11,
     <1>12, <1>13, <1>14, <1>15, <1>16, <1>17, <1>18, <1>19, <1>20, <1>21,
     <1>22, <1>23
  DEF Next, SenderStep, UsbStep, HandlerStep, WorkStep, DisconnectStep

(* The order of _on_del_usb_device: dead, unbound, cancelled, drained.     *)
LEMMA NextDisconnectInv ==
  Shape /\ SenderInv /\ DisconnectInv /\ [Next]_vars => DisconnectInv'
<1> SUFFICES ASSUME Shape, SenderInv, DisconnectInv, [Next]_vars
             PROVE  DisconnectInv'
  OBVIOUS
<1> USE DEF Shape, SenderInv, DisconnectInv, poolVars, urbVars, handlerVars,
      senderVars, workVars, devVars
<1>1. ASSUME NEW n \in 1..MaxTickets, ClientBegin(n) PROVE DisconnectInv'
  BY <1>1 DEF ClientBegin
<1>2. CASE SellNone
  BY <1>2 DEF SellNone, ReleaseLock
<1>3. CASE Sell
  BY <1>3 DEF Sell
<1>4. ASSUME NEW t \in Tickets, SubmitFull(t) PROVE DisconnectInv'
  BY <1>4 DEF SubmitFull, SubmitAccepted
<1>5. ASSUME NEW t \in Tickets, SubmitFullRefused(t) PROVE DisconnectInv'
  BY <1>5 DEF SubmitFullRefused, FinishRefused, SubmitRefused, Return
<1>6. ASSUME NEW t \in Tickets, Flush(t) PROVE DisconnectInv'
  BY <1>6 DEF Flush, SubmitAccepted
<1>7. ASSUME NEW t \in Tickets, FlushRefused(t) PROVE DisconnectInv'
  BY <1>7 DEF FlushRefused, FinishRefused, SubmitRefused, Return, ReleaseLock
<1>8. ASSUME NEW t \in Tickets, Cleanup(t) PROVE DisconnectInv'
  BY <1>8 DEF Cleanup, Return
<1>9. CASE SendEnd
  BY <1>9 DEF SendEnd, ReleaseLock
<1>10. ASSUME NEW t \in Tickets, NEW s \in {"zero", "nonzero"}, UrbDone(t, s)
       PROVE DisconnectInv'
  BY <1>10 DEF UrbDone
<1>11. ASSUME NEW t \in Tickets, FinishReturn(t) PROVE DisconnectInv'
  BY <1>11 DEF FinishReturn, Return
<1>12. CASE FinishTail
  BY <1>12 DEF FinishTail
<1>13. CASE ScheduleByStatus
  BY <1>13 DEF ScheduleByStatus
<1>14. CASE WorkIdle
  BY <1>14 DEF WorkIdle
<1>15. CASE WorkStart
  BY <1>15 DEF WorkStart
<1>16. ASSUME NEW n \in 1..MaxTickets, WorkBegin(n) PROVE DisconnectInv'
  BY <1>16 DEF WorkBegin
<1>17. CASE Unplug
  BY <1>17 DEF Unplug
<1>18. CASE MarkDead
  BY <1>18 DEF MarkDead
<1>19. CASE Unbind
  BY <1>19 DEF Unbind
<1>20. CASE CancelWork
  BY <1>20 DEF CancelWork
<1>21. CASE Drain
  BY <1>21 DEF Drain
<1>22. CASE FreeDevice
  <2>1. freed = Tickets
    BY <1>22, FS_Subset, TicketsAssumption DEF FreeDevice
  <2>2. QED
    BY <1>22, <2>1 DEF FreeDevice
<1>23. CASE UNCHANGED vars
  BY <1>23 DEF vars
<1> QED
  BY <1>1, <1>2, <1>3, <1>4, <1>5, <1>6, <1>7, <1>8, <1>9, <1>10, <1>11,
     <1>12, <1>13, <1>14, <1>15, <1>16, <1>17, <1>18, <1>19, <1>20, <1>21,
     <1>22, <1>23
  DEF Next, SenderStep, UsbStep, HandlerStep, WorkStep, DisconnectStep

-----------------------------------------------------------------------------
(* The inductive invariant of the pool and the disconnect protocol.        *)
THEOREM Inductive == Spec => []IInv
<1>1. Init => IInv
  <2>1. Init => SingleOwner /\ CountMatchesList /\ SenderInv /\ DisconnectInv
    BY DEF Init, SingleOwner, CountMatchesList, SenderInv, DisconnectInv
  <2>2. QED
    BY <2>1, InitShape DEF IInv
<1>2. IInv /\ [Next]_vars => IInv'
  BY NextShape, NextSingleOwner, NextCount, NextSenderInv, NextDisconnectInv
  DEF IInv
<1>3. QED
  BY <1>1, <1>2, PTL DEF Spec

(* The pool, its counter, the URBs and the control states stay well-typed  *)
(* in every run of the driver, for any number of tickets: the counter      *)
(* never leaves 0 .. RPUSBDISP_MAX_TRANSFER_TICKETS_COUNT.                 *)
THEOREM TypeCorrect == Spec => []TypeOK
<1>1. IInv => available \in 0..MaxTickets
  <2> SUFFICES ASSUME IInv PROVE available \in 0..MaxTickets
    OBVIOUS
  <2>1. /\ Cardinality(pool) \in Nat
        /\ Cardinality(Tickets) \in Nat
        /\ Cardinality(pool) <= Cardinality(Tickets)
    BY FS_Subset, FS_CardinalityType, TicketsAssumption DEF IInv, Shape
  <2>2. QED
    BY <2>1, TicketsAssumption DEF IInv, CountMatchesList
<1>2. IInv => TypeOK
  BY <1>1, Zenon DEF IInv, Shape, TypeOK
<1>3. QED
  BY <1>2, Inductive, PTL

(* No ticket is for sale, held, submitted, completing or freed twice over, *)
(* in every run and for any number of tickets.                             *)
THEOREM OwnersSafe == Spec => []SingleOwner
<1>1. IInv => SingleOwner
  BY DEF IInv
<1>2. QED
  BY <1>1, Inductive, PTL

(* availiable_count is the length of the list whenever oplock is free: the *)
(* list.next _sell_disp_tickets and the drain loop take is a ticket.       *)
THEOREM CountSafe == Spec => []CountMatchesList
<1>1. IInv => CountMatchesList
  BY DEF IInv
<1>2. QED
  BY <1>1, Inductive, PTL

(* The disconnect callback drains the pool alone: clearing is_alive,       *)
(* unbinding under operation_lock and cancelling the work suffice.  It     *)
(* frees the device only with every ticket freed and no URB outstanding.   *)
THEOREM DrainSafe == Spec => []DrainIsExclusive
<1>1. ASSUME IInv PROVE DrainIsExclusive
  <2>1. disconnect \in {"drain", "gone"} => holder = "none" /\ bundle = {} /\ ~work_running
    BY <1>1 DEF IInv, Shape, SenderInv, DisconnectInv
  <2>2. disconnect = "gone" => freed = Tickets /\ pool \union bundle \union flight \union done = {}
    BY <1>1 DEF IInv, Shape, SingleOwner, DisconnectInv
  <2>3. QED
    BY <2>1, <2>2 DEF DrainIsExclusive
<1>2. QED
  BY <1>1, Inductive, PTL

(* Outside a refused flush every step keeps the set of lost tickets: what  *)
(* leaves one place of the driver arrives in another.                      *)
THEOREM LeakConfined == Spec => LeakOnlyInRefusedFlush
<1>1. ASSUME IInv, [Next]_vars, Leaked' # Leaked
      PROVE  \E t \in bundle : FlushRefused(t)
  <2> USE <1>1 DEF IInv, Shape, SingleOwner, SenderInv, Leaked, poolVars, urbVars,
        handlerVars, senderVars, workVars, devVars
  <2>1. ASSUME NEW n \in 1..MaxTickets, ClientBegin(n) PROVE Leaked' = Leaked
    BY <2>1 DEF ClientBegin
  <2>2. ASSUME SellNone PROVE Leaked' = Leaked
    BY <2>2 DEF SellNone
  <2>3. ASSUME Sell PROVE Leaked' = Leaked
    BY <2>3 DEF Sell
  <2>4. ASSUME NEW t \in Tickets, SubmitFull(t) PROVE Leaked' = Leaked
    BY <2>4 DEF SubmitFull, SubmitAccepted
  <2>5. ASSUME NEW t \in Tickets, SubmitFullRefused(t) PROVE Leaked' = Leaked
    BY <2>5 DEF SubmitFullRefused, FinishRefused, SubmitRefused, Return
  <2>6. ASSUME NEW t \in Tickets, Flush(t) PROVE Leaked' = Leaked
    BY <2>6 DEF Flush, SubmitAccepted
  <2>7. ASSUME NEW t \in Tickets, FlushRefused(t)
        PROVE \E u \in bundle : FlushRefused(u)
    BY <2>7 DEF FlushRefused
  <2>8. ASSUME NEW t \in Tickets, Cleanup(t) PROVE Leaked' = Leaked
    BY <2>8 DEF Cleanup, Return
  <2>9. ASSUME SendEnd PROVE Leaked' = Leaked
    BY <2>9 DEF SendEnd
  <2>10. ASSUME NEW t \in Tickets, NEW s \in {"zero", "nonzero"}, UrbDone(t, s)
        PROVE Leaked' = Leaked
    BY <2>10 DEF UrbDone
  <2>11. ASSUME NEW t \in Tickets, FinishReturn(t) PROVE Leaked' = Leaked
    BY <2>11 DEF FinishReturn, Return
  <2>12. ASSUME FinishTail PROVE Leaked' = Leaked
    BY <2>12 DEF FinishTail
  <2>13. ASSUME ScheduleByStatus PROVE Leaked' = Leaked
    BY <2>13 DEF ScheduleByStatus
  <2>14. ASSUME WorkIdle PROVE Leaked' = Leaked
    BY <2>14 DEF WorkIdle
  <2>15. ASSUME WorkStart PROVE Leaked' = Leaked
    BY <2>15 DEF WorkStart
  <2>16. ASSUME NEW n \in 1..MaxTickets, WorkBegin(n) PROVE Leaked' = Leaked
    BY <2>16 DEF WorkBegin
  <2>17. ASSUME Unplug PROVE Leaked' = Leaked
    BY <2>17 DEF Unplug
  <2>18. ASSUME MarkDead PROVE Leaked' = Leaked
    BY <2>18 DEF MarkDead
  <2>19. ASSUME Unbind PROVE Leaked' = Leaked
    BY <2>19 DEF Unbind
  <2>20. ASSUME CancelWork PROVE Leaked' = Leaked
    BY <2>20 DEF CancelWork
  <2>21. ASSUME Drain PROVE Leaked' = Leaked
    BY <2>21 DEF Drain
  <2>22. ASSUME FreeDevice PROVE Leaked' = Leaked
    BY <2>22 DEF FreeDevice
  <2>23. ASSUME UNCHANGED vars PROVE Leaked' = Leaked
    BY <2>23 DEF vars
  <2> QED
    BY <1>1, <2>1, <2>2, <2>3, <2>4, <2>5, <2>6, <2>7, <2>8, <2>9, <2>10,
       <2>11, <2>12, <2>13, <2>14, <2>15, <2>16, <2>17, <2>18, <2>19, <2>20,
       <2>21, <2>22, <2>23
    DEF Next, SenderStep, UsbStep, HandlerStep, WorkStep, DisconnectStep
<1>2. QED
  BY <1>1, Inductive, PTL DEF Spec, LeakOnlyInRefusedFlush


-----------------------------------------------------------------------------
(* Tickets are freed by the drain loop only, so none is freed before the   *)
(* disconnect callback has reached it.                                     *)
FreedOnlyInDrain == freed # {} => disconnect \in {"drain", "gone"}

(* No step frees a ticket before the drain.                                *)
LEMMA NextFreedOnlyInDrain ==
  FreedOnlyInDrain /\ [Next]_vars => FreedOnlyInDrain'
<1> SUFFICES ASSUME FreedOnlyInDrain, [Next]_vars PROVE FreedOnlyInDrain'
  OBVIOUS
<1> USE DEF FreedOnlyInDrain, poolVars, urbVars, handlerVars, senderVars,
      workVars, devVars
<1>1. ASSUME NEW n \in 1..MaxTickets, ClientBegin(n) PROVE UNCHANGED devVars
  BY <1>1 DEF ClientBegin
<1>2. ASSUME SenderStep PROVE UNCHANGED devVars
  BY <1>2 DEF SenderStep, SellNone, Sell, SubmitFull, SubmitFullRefused, Flush,
       FlushRefused, Cleanup, SendEnd
<1>3. ASSUME UsbStep PROVE UNCHANGED devVars
  BY <1>3 DEF UsbStep, UrbDone
<1>4. ASSUME HandlerStep PROVE UNCHANGED devVars
  BY <1>4 DEF HandlerStep, FinishReturn, FinishTail
<1>5. ASSUME ScheduleByStatus PROVE UNCHANGED devVars
  BY <1>5 DEF ScheduleByStatus
<1>6. ASSUME WorkStep PROVE UNCHANGED devVars
  BY <1>6 DEF WorkStep, WorkIdle, WorkStart, WorkBegin
<1>7. CASE Unplug
  BY <1>7 DEF Unplug
<1>8. CASE DisconnectStep
  BY <1>8 DEF DisconnectStep, MarkDead, Unbind, CancelWork, Drain, FreeDevice
<1>9. CASE UNCHANGED vars
  BY <1>9 DEF vars
<1> QED
  BY <1>1, <1>2, <1>3, <1>4, <1>5, <1>6, <1>7, <1>8, <1>9 DEF Next

(* Every step of the driver moves tickets as the ledger allows, or moves   *)
(* none.                                                                   *)
LEMMA LedgerStep ==
  IInv /\ FreedOnlyInDrain /\ [Next]_vars =>
    [Ledger!LedgerNext]_(Ledger!ledger)
<1> SUFFICES ASSUME IInv, FreedOnlyInDrain, [Next]_vars
             PROVE  Ledger!LedgerNext \/ UNCHANGED Ledger!ledger
  BY DEF Ledger!ledger
<1> USE DEF IInv, Shape, SingleOwner, SenderInv, DisconnectInv, poolVars,
      urbVars, handlerVars, senderVars, workVars, devVars, Ledger!ledger
<1>1. ASSUME NEW n \in 1..MaxTickets, ClientBegin(n)
      PROVE UNCHANGED Ledger!ledger
  BY <1>1 DEF ClientBegin
<1>2. ASSUME SellNone PROVE UNCHANGED Ledger!ledger
  BY <1>2 DEF SellNone
<1>3. ASSUME Sell PROVE \E S \in SUBSET Tickets : Ledger!Buy(S)
  <2>1. bundle = {} /\ freed = {}
    BY <1>3 DEF Sell, FreedOnlyInDrain
  <2>2. PICK S \in SUBSET pool : pool' = pool \ S /\ bundle' = S
    BY <1>3 DEF Sell
  <2>3. Ledger!Buy(S)
    BY <1>3, <2>1, <2>2 DEF Sell, Ledger!Buy
  <2>4. QED
    BY <2>2, <2>3
<1>4. ASSUME NEW t \in Tickets, SubmitFull(t) PROVE Ledger!Submit(t)
  BY <1>4 DEF SubmitFull, SubmitAccepted, Ledger!Submit
<1>5. ASSUME NEW t \in Tickets, SubmitFullRefused(t) PROVE Ledger!GiveBack(t)
  BY <1>5 DEF SubmitFullRefused, FinishRefused, SubmitRefused, Return,
       Ledger!GiveBack
<1>6. ASSUME NEW t \in Tickets, Flush(t) PROVE Ledger!Submit(t)
  BY <1>6 DEF Flush, SubmitAccepted, Ledger!Submit
<1>7. ASSUME NEW t \in Tickets, FlushRefused(t) PROVE Ledger!Abandon(t)
  BY <1>7 DEF FlushRefused, FinishRefused, SubmitRefused, Return, Ledger!Abandon
<1>8. ASSUME NEW t \in Tickets, Cleanup(t) PROVE Ledger!GiveBack(t)
  BY <1>8 DEF Cleanup, Return, Ledger!GiveBack
<1>9. ASSUME SendEnd PROVE UNCHANGED Ledger!ledger
  BY <1>9 DEF SendEnd
<1>10. ASSUME NEW t \in Tickets, NEW s \in {"zero", "nonzero"}, UrbDone(t, s)
       PROVE UNCHANGED Ledger!ledger
  BY <1>10 DEF UrbDone
<1>11. ASSUME NEW t \in Tickets, FinishReturn(t) PROVE Ledger!Complete(t)
  BY <1>11 DEF FinishReturn, Return, Ledger!Complete
<1>12. ASSUME FinishTail \/ ScheduleByStatus PROVE UNCHANGED Ledger!ledger
  BY <1>12 DEF FinishTail, ScheduleByStatus
<1>13. ASSUME WorkStep PROVE UNCHANGED Ledger!ledger
  BY <1>13 DEF WorkStep, WorkIdle, WorkStart, WorkBegin
<1>14. ASSUME Unplug \/ MarkDead \/ Unbind \/ CancelWork \/ FreeDevice
       PROVE UNCHANGED Ledger!ledger
  BY <1>14 DEF Unplug, MarkDead, Unbind, CancelWork, FreeDevice
<1>15. ASSUME Drain PROVE \E t \in Tickets : Ledger!Release(t)
  <2>1. bundle = {}
    BY <1>15 DEF Drain
  <2>2. PICK t \in pool : pool' = pool \ {t} /\ freed' = freed \union {t}
    BY <1>15 DEF Drain
  <2>3. Ledger!Release(t)
    BY <1>15, <2>1, <2>2 DEF Drain, Ledger!Release
  <2>4. QED
    BY <2>2, <2>3
<1>16. ASSUME UNCHANGED vars PROVE UNCHANGED Ledger!ledger
  BY <1>16 DEF vars
<1> QED
  BY <1>1, <1>2, <1>3, <1>4, <1>5, <1>6, <1>7, <1>8, <1>9, <1>10, <1>11,
     <1>12, <1>13, <1>14, <1>15, <1>16, Zenon
  DEF Next, SenderStep, UsbStep, HandlerStep, DisconnectStep, Ledger!LedgerNext

(* The pool with its counter, handler, flush work and disconnect protocol  *)
(* implements the ledger, for every finite set of tickets.                 *)
THEOREM Implementation == Spec => ImplementsLedger
<1>1. Init => Ledger!LedgerInit
  BY DEF Init, Ledger!LedgerInit
<1>2. Init => FreedOnlyInDrain
  BY DEF Init, FreedOnlyInDrain
<1>3. QED
  BY <1>1, <1>2, Inductive, NextFreedOnlyInDrain, LedgerStep, PTL
  DEF Spec, ImplementsLedger, Ledger!LedgerSpec

-----------------------------------------------------------------------------
(* The framebuffer on top of the pool.                                     *)

(* The dirty rectangles: what _clear_dirty_rect makes, and what grows.     *)
Rects == [left : 0..Width, right : -1..Width - 1,
          top : 0..Height, bottom : -1..Height - 1]

(* What a client can have drawn and not reported yet.                      *)
Reports == [area : DrawRects, kind : Hints, over : SUBSET Pixels]

(* SyncTypeOK without the pool's part and the bounds of the model.         *)
SyncShape ==
  /\ stale \subseteq Pixels
  /\ pending \in [Clients -> {NoDraw} \union Reports]
  /\ dirty_rect \in Rects
  /\ region \subseteq Pixels
  /\ carried \in [Tickets -> SUBSET Pixels]

(* A client has drawn the pixel and not reported it yet.                   *)
Drawn(p) == \E c \in Clients : pending[c] # NoDraw /\ p \in AreaPixels(pending[c].area)

(* The display is marked as a whole, or about to be by a handler.          *)
Marked == unsync_flag \/ \E t \in done : urb_status[t] = "nonzero"

(* While operation_lock is held for an image, the image is the dirty       *)
(* rectangle but for what was drawn since.                                 *)
Sending ==
  holder # "none" /\ ~hinted =>
    Marked \/ \A p \in RectPixels(dirty_rect) : p \in region \/ Drawn(p)

(* After the image's last URB nothing relies on the dirty rectangle, which *)
(* is about to be cleared.                                                 *)
Cleaned == sender = "cleanup" /\ ~hinted => Marked \/ \A p \in stale : Drawn(p)

(* The device asks for a full image, and no clear flag is on its way.      *)
Quiet == dev_dirty /\ flagged = {} /\ ~clears

(***************************************************************************)
(* A full image that is required will be asked for by the device, or the   *)
(* driver is set to send one; so also when a send that was accepted has    *)
(* yet to clear the dirty rectangle.                                       *)
(***************************************************************************)
Asked ==
  unmet /\ ~hinted => Marked \/ (dirty_flag /\ dirty_rect = FullRect) \/ Quiet

AskCleaned == sender = "cleanup" /\ unmet /\ ~hinted => Marked \/ Quiet

(* An image of the full rectangle meets the request, unless a part of it   *)
(* is lost already.                                                        *)
WholeSend == holder # "none" /\ ~hinted /\ dirty_rect = FullRect => whole \/ Marked

AskInv == Asked /\ AskCleaned /\ WholeSend

SyncInv == SyncShape /\ Sending /\ Cleaned /\ AskInv /\ ImagesForgetNothing

-----------------------------------------------------------------------------
(* Rectangles.                                                             *)

(* The areas that are reported to _display_update.                         *)
Areas == DrawRects \union {FullArea, DefioArea}

(* Every reported area has four numbers.                                   *)
LEMMA AreaNumbers ==
  ASSUME NEW a \in Areas
  PROVE  a.x \in Int /\ a.y \in Int /\ a.width \in Int /\ a.height \in Int
  BY DisplayAssumption DEF Areas, FullArea, DefioArea

(* The dirty rectangle grows by a reported area within the display: also   *)
(* by that of the deferred I/O handler, which lies below it.               *)
LEMMA GrowInside ==
  ASSUME NEW r \in Rects, NEW a \in Areas
  PROVE  Grow(r, a) \in Rects
<1> USE DisplayAssumption DEF Rects, Grow, Lower, Upper
<1>1. CASE a \in DrawRects
  <2>1. /\ a.x \in Nat /\ a.y \in Nat /\ a.width \in Nat /\ a.height \in Nat
        /\ a.x + a.width <= Width /\ a.y + a.height <= Height
    BY <1>1
  <2>2. QED
    BY <2>1
<1>2. CASE a = FullArea
  BY <1>2 DEF FullArea
<1>3. CASE a = DefioArea
  BY <1>3 DEF DefioArea
<1>4. QED
  BY <1>1, <1>2, <1>3 DEF Areas

(* The grown rectangle holds the one before and the area.                  *)
LEMMA GrowHolds ==
  ASSUME NEW r \in Rects, NEW a \in Areas
  PROVE  /\ RectPixels(r) \subseteq RectPixels(Grow(r, a))
         /\ AreaPixels(a) \subseteq RectPixels(Grow(r, a))
<1> DEFINE g == Grow(r, a)
<1>1. /\ a.x \in Int /\ a.y \in Int /\ a.width \in Int /\ a.height \in Int
      /\ r.left \in Int /\ r.right \in Int /\ r.top \in Int /\ r.bottom \in Int
  BY AreaNumbers, DisplayAssumption DEF Rects
<1>2. /\ g.left = Lower(r.left, a.x) /\ g.right = Upper(r.right, a.width + a.x - 1)
      /\ g.top = Lower(r.top, a.y) /\ g.bottom = Upper(r.bottom, a.height + a.y - 1)
  BY DEF Grow
<1> HIDE DEF g
<1>3. ASSUME NEW p \in Pixels PROVE p[1] \in Int /\ p[2] \in Int
  BY DisplayAssumption DEF Pixels
<1>4. ASSUME NEW p \in RectPixels(r) PROVE p \in RectPixels(g)
  BY <1>1, <1>2, <1>3 DEF RectPixels, Lower, Upper
<1>5. ASSUME NEW p \in AreaPixels(a) PROVE p \in RectPixels(g)
  BY <1>1, <1>2, <1>3 DEF RectPixels, AreaPixels, Lower, Upper
<1>6. QED
  BY <1>4, <1>5 DEF g

(* The full rectangle is the display, and so is any that grows by it.      *)
LEMMA FullRectIsAll ==
  /\ FullRect \in Rects /\ ~Inverted(FullRect) /\ RectPixels(FullRect) = Pixels
  /\ \A r \in Rects : /\ ~Inverted(Grow(r, FullArea))
                      /\ RectPixels(Grow(r, FullArea)) = Pixels
<1> USE DisplayAssumption
<1>1. \A p \in Pixels : p[1] \in 0..Width - 1 /\ p[2] \in 0..Height - 1
  BY DEF Pixels
<1>2. FullRect \in Rects /\ ~Inverted(FullRect)
  BY DEF FullRect, Rects, Inverted
<1>3. RectPixels(FullRect) = Pixels
  BY <1>1 DEF FullRect, RectPixels
<1>4. ASSUME NEW r \in Rects
      PROVE  ~Inverted(Grow(r, FullArea)) /\ RectPixels(Grow(r, FullArea)) = Pixels
  <2>1. AreaPixels(FullArea) = Pixels
    BY <1>1 DEF FullArea, AreaPixels
  <2>2. RectPixels(Grow(r, FullArea)) = Pixels
    BY <2>1, GrowHolds DEF Areas, RectPixels
  <2>3. ~Inverted(Grow(r, FullArea))
    BY DEF Inverted, Grow, FullArea, Rects, Lower, Upper
  <2>4. QED
    BY <2>2, <2>3
<1>5. QED
  BY <1>2, <1>3, <1>4

(* The full rectangle does not grow, and any grows to it by FullArea.      *)
LEMMA FullStaysFull ==
  /\ \A a \in Areas : Grow(FullRect, a) = FullRect
  /\ \A r \in Rects : Grow(r, FullArea) = FullRect
<1> USE DisplayAssumption DEF Grow, FullRect, FullArea, Lower, Upper
<1>1. ASSUME NEW a \in DrawRects PROVE Grow(FullRect, a) = FullRect
  <2>1. /\ a.x \in Nat /\ a.y \in Nat /\ a.width \in Nat /\ a.height \in Nat
        /\ a.x + a.width <= Width /\ a.y + a.height <= Height
    OBVIOUS
  <2>2. QED
    BY <2>1
<1>2. Grow(FullRect, FullArea) = FullRect
  OBVIOUS
<1>3. Grow(FullRect, DefioArea) = FullRect
  BY DEF DefioArea
<1>4. ASSUME NEW r \in Rects PROVE Grow(r, FullArea) = FullRect
  <2>1. /\ r.left \in 0..Width /\ r.right \in -1..Width - 1
        /\ r.top \in 0..Height /\ r.bottom \in -1..Height - 1
    BY DEF Rects
  <2>2. QED
    BY <2>1
<1>5. QED
  BY <1>1, <1>2, <1>3, <1>4 DEF Areas

(* An inverted rectangle has no pixels, any other one within the display   *)
(* has some.                                                               *)
LEMMA InvertedIsEmpty ==
  ASSUME NEW r \in Rects
  PROVE  Inverted(r) <=> RectPixels(r) = {}
<1> USE DisplayAssumption
<1>1. \A p \in Pixels : p[1] \in Int /\ p[2] \in Int
  BY DEF Pixels
<1>2. /\ r.left \in 0..Width /\ r.right \in -1..Width - 1
      /\ r.top \in 0..Height /\ r.bottom \in -1..Height - 1
  BY DEF Rects
<1>3. ASSUME Inverted(r) PROVE RectPixels(r) = {}
  BY <1>1, <1>2, <1>3 DEF Inverted, RectPixels
<1>4. ASSUME ~Inverted(r) PROVE RectPixels(r) # {}
  <2> DEFINE x == r.left
             y == r.top
             p == <<x, y>>
  <2>1. x \in 0..Width - 1 /\ y \in 0..Height - 1
    BY <1>2, <1>4 DEF Inverted
  <2>2. r.left <= x /\ x <= r.right /\ r.top <= y /\ y <= r.bottom
    BY <1>2, <1>4 DEF Inverted
  <2> HIDE DEF x, y
  <2>3. p \in Pixels /\ p[1] = x /\ p[2] = y
    BY <2>1 DEF Pixels
  <2> HIDE DEF p
  <2>4. p \in RectPixels(r)
    BY <2>2, <2>3 DEF RectPixels
  <2>5. QED
    BY <2>4
<1>5. QED
  BY <1>3, <1>4

(* Rounding up a count that is positive and fits.                          *)
LEMMA RoundUpInRange ==
  ASSUME NEW n \in Nat, n > 0, NEW d \in Nat, d > 0, NEW k \in Nat, n <= d * k
  PROVE  (n + d - 1) \div d \in 1..k
<1> DEFINE q == (n + d - 1) \div d
<1>1. q \in Int /\ d * q <= n + d - 1 /\ n + d - 1 < d * q + d
  BY SMT
<1> HIDE DEF q
<1>2. d * q \in Int /\ d * k \in Int
  BY <1>1
<1>3. q >= 1
  <2>1. ASSUME q <= 0 PROVE FALSE
    <3>1. d * q <= 0
      BY <1>1, <2>1
    <3>2. QED
      BY <1>1, <1>2, <3>1
  <2>2. QED
    BY <1>1, <2>1
<1>4. q <= k
  <2>1. ASSUME q >= k + 1 PROVE FALSE
    <3>1. d * (q - k - 1) >= 0
      BY <1>1, <2>1
    <3>2. d * (q - k - 1) = d * q - d * k - d
      BY <1>1
    <3>3. QED
      BY <1>1, <1>2, <3>1, <3>2
  <2>2. QED
    BY <1>1, <2>1
<1>5. QED
  BY <1>1, <1>3, <1>4 DEF q

(* An image of a rectangle with pixels needs a ticket, and never more than *)
(* the full image.                                                         *)
LEMMA TicketsSuffice ==
  ASSUME NEW r \in Rects, ~Inverted(r),
         NEW k \in Nat, Width * Height <= PixelsPerTicket * k
  PROVE  TicketsFor(r) \in 1..k
<1> DEFINE W == 0..Width - 1
           H == 0..Height - 1
           n == Cardinality(RectPixels(r))
<1>1. /\ IsFiniteSet(W) /\ Cardinality(W) = Width
      /\ IsFiniteSet(H) /\ Cardinality(H) = Height
  <2>1. Width - 1 \in Int /\ ~(0 > Width - 1) /\ (Width - 1) - 0 + 1 = Width
    BY DisplayAssumption
  <2>2. Height - 1 \in Int /\ ~(0 > Height - 1) /\ (Height - 1) - 0 + 1 = Height
    BY DisplayAssumption
  <2>3. IsFiniteSet(W) /\ Cardinality(W) = Width
    BY <2>1, FS_Interval
  <2>4. IsFiniteSet(H) /\ Cardinality(H) = Height
    BY <2>2, FS_Interval
  <2>5. QED
    BY <2>3, <2>4
<1>2. Pixels = W \X H
  BY DEF Pixels
<1> HIDE DEF W, H
<1>3. IsFiniteSet(Pixels) /\ Cardinality(Pixels) = Width * Height
  BY <1>1, <1>2, FS_Product
<1>4. RectPixels(r) \subseteq Pixels /\ RectPixels(r) # {}
  BY InvertedIsEmpty DEF RectPixels
<1>5. IsFiniteSet(RectPixels(r)) /\ n <= Width * Height
  BY <1>3, <1>4, FS_Subset
<1>6. n \in Nat /\ n # 0
  BY <1>4, <1>5, FS_CardinalityType, FS_EmptySet
<1>7. TicketsFor(r) = (n + PixelsPerTicket - 1) \div PixelsPerTicket
  BY DEF TicketsFor
<1> HIDE DEF n
<1>8. n <= PixelsPerTicket * k
  <2>1. Width * Height \in Int /\ PixelsPerTicket * k \in Int
    BY DisplayAssumption
  <2>2. QED
    BY <1>5, <1>6, <2>1
<1>9. QED
  BY <1>6, <1>7, <1>8, RoundUpInRange, DisplayAssumption

(* An image of a rectangle with pixels fits into the largest pool.         *)
LEMMA TicketsInRange ==
  ASSUME NEW r \in Rects, ~Inverted(r)
  PROVE  TicketsFor(r) \in 1..MaxTickets
BY TicketsSuffice, DisplayAssumption, TicketsAssumption

-----------------------------------------------------------------------------
(* What _display_update does to the dirty rectangle before it sends: it    *)
(* stays within the display and loses nothing; if the display was marked   *)
(* as a whole it becomes the display.                                      *)
LEMMA UpdateDirtyRectEffect ==
  ASSUME NEW a \in Areas, dirty_rect \in Rects, UpdateDirtyRect(a)
  PROVE  /\ dirty_rect' \in Rects
         /\ RectPixels(dirty_rect) \subseteq RectPixels(dirty_rect')
         /\ AreaPixels(a) \subseteq RectPixels(dirty_rect')
         /\ unsync_flag => ~Inverted(dirty_rect') /\ RectPixels(dirty_rect') = Pixels
         /\ a = FullArea => ~Inverted(dirty_rect') /\ RectPixels(dirty_rect') = Pixels
         /\ unsync_flag \/ a = FullArea => dirty_rect' = FullRect
         /\ dirty_rect = FullRect => dirty_rect' = FullRect
         /\ ~unsync_flag'
         /\ ~Inverted(dirty_rect') \/ dirty_flag => dirty_flag'
<1>1. ~unsync_flag' /\ (~Inverted(dirty_rect') \/ dirty_flag => dirty_flag')
  BY Zenon DEF UpdateDirtyRect
<1>2. CASE unsync_flag
  <2>1. dirty_rect' = FullRect
    BY <1>2 DEF UpdateDirtyRect
  <2>2. RectPixels(dirty_rect) \subseteq Pixels /\ AreaPixels(a) \subseteq Pixels
    BY DEF RectPixels, AreaPixels
  <2>3. QED
    BY <1>1, <2>1, <2>2, FullRectIsAll
<1>3. CASE ~unsync_flag
  <2>1. dirty_rect' = Grow(dirty_rect, a)
    BY <1>3 DEF UpdateDirtyRect
  <2>2. QED
    BY <1>1, <1>3, <2>1, GrowInside, GrowHolds, FullRectIsAll, FullStaysFull DEF Areas
<1>4. QED
  BY <1>2, <1>3

(* What a client has pending.                                              *)
LEMMA PendingDraw ==
  ASSUME SyncShape, NEW c \in Clients, pending[c] # NoDraw
  PROVE  /\ pending[c].area \in DrawRects /\ pending[c].kind \in Hints
         /\ UpdateArea(pending[c]) \in Areas
<1>1. pending[c] \in Reports
  BY DEF SyncShape
<1>2. pending[c].area \in DrawRects /\ pending[c].kind \in Hints
  BY <1>1 DEF Reports
<1>3. QED
  BY <1>2 DEF UpdateArea, Areas

(***************************************************************************)
(* Every step of the framebuffer is one of the pool or leaves it alone: in *)
(* particular it never asks for no ticket, nor for more than there may be. *)
(***************************************************************************)
LEMMA PoolStep ==
  ASSUME SyncShape, [SyncNext]_allVars
  PROVE  [Next]_vars
<1>1. ASSUME NEW c \in Clients, NEW a \in DrawRects, NEW k \in Hints, Draw(c, a, k)
      PROVE  UNCHANGED vars
  BY <1>1 DEF Draw
<1>2. ASSUME NEW c \in Clients, Update(c) PROVE Next
  <2> DEFINE n == TicketsNeeded(pending[c].kind, dirty_rect')
  <2>1. dirty_rect' \in Rects /\ ~Inverted(dirty_rect')
    BY <1>2, PendingDraw, UpdateDirtyRectEffect DEF Update, SyncShape
  <2>2. n \in 1..MaxTickets
    <3>1. MaxTickets >= 1
      <4>1. Cardinality(Tickets) \in Nat /\ Cardinality(Tickets) # 0
        BY TicketsAssumption, FS_CardinalityType, FS_EmptySet
      <4>2. QED
        BY <4>1, TicketsAssumption
    <3>2. 1 \in 1..MaxTickets
      BY <3>1, TicketsAssumption
    <3>3. TicketsFor(dirty_rect') \in 1..MaxTickets
      BY <2>1, TicketsInRange
    <3>4. QED
      BY <3>2, <3>3 DEF TicketsNeeded
  <2>3. ClientBegin(n)
    BY <1>2 DEF Update
  <2>4. QED
    BY <2>2, <2>3 DEF Next
<1>3. ASSUME NEW c \in Clients, UpdateNothing(c) PROVE UNCHANGED vars
  BY <1>3 DEF UpdateNothing
<1>4. ASSUME SyncSenderStep PROVE Next
  <2>1. SenderStep
    BY <1>4 DEF SyncSenderStep, SenderStep, NotSold, Sold, SendFull, SendLast, SendCleanup,
       SendFullRefused, SendLastRefused, SendReturns
  <2>2. QED
    BY <2>1 DEF Next
<1>5. ASSUME SyncUsbStep PROVE Next
  BY <1>5 DEF SyncUsbStep, Delivered, Lost, UsbStep, Next
<1>6. ASSUME SyncHandlerStep PROVE Next
  BY <1>6 DEF SyncHandlerStep, Handled, HandlerEnds, HandlerStep, Next
<1>7. ASSUME WorkFindsNothing \/ WorkFindsDirt PROVE Next
  BY <1>7 DEF WorkFindsNothing, WorkFindsDirt, WorkStep, Next
<1>8. ASSUME WorkUpdate PROVE Next
  <2>1. dirty_rect' \in Rects /\ ~Inverted(dirty_rect')
    BY <1>8, UpdateDirtyRectEffect DEF WorkUpdate, SyncShape, Areas
  <2>2. TicketsFor(dirty_rect') \in 1..MaxTickets
    BY <2>1, TicketsInRange
  <2>3. QED
    BY <1>8, <2>2 DEF WorkUpdate, WorkStep, Next
<1>9. ASSUME DirtyReport PROVE Next
  BY <1>9 DEF DirtyReport, Next
<1>10. ASSUME UNCHANGED allVars \/ DeviceAsks PROVE UNCHANGED vars
  BY <1>10 DEF allVars, DeviceAsks
<1>11. QED
  BY <1>1, <1>2, <1>3, <1>4, <1>5, <1>6, <1>7, <1>8, <1>9, <1>10
  DEF SyncNext, ClientUpdates, SyncWorkStep

-----------------------------------------------------------------------------
(* StaleCovered in the words of the invariant.                             *)
LEMMA CoveredMeans ==
  StaleCovered <=>
    \A p \in stale : Marked \/ (dirty_flag /\ p \in RectPixels(dirty_rect)) \/ Drawn(p)
  BY DEF StaleCovered, Marked, Drawn

(* A step that changes neither the pixels nor the draws nor the dirty      *)
(* rectangle, takes no mark away and at most ends a send.                  *)
LEMMA CalmKeeps ==
  ASSUME SyncInv,
         UNCHANGED <<stale, pending, dirty_rect, dirty_flag, hinted>>,
         region' \subseteq Pixels, carried' \in [Tickets -> SUBSET Pixels],
         Marked => Marked',
         unmet' => unmet \/ Marked' \/ Quiet', Quiet => Quiet',
         sender' = "cleanup" => sender = "cleanup",
         holder' # "none" => holder # "none" /\ UNCHANGED <<region, whole>>
  PROVE  SyncInv'
<1>1. SyncShape'
  BY DEF SyncInv, SyncShape
<1>2. \A p \in Pixels : Drawn(p)' <=> Drawn(p)
  BY DEF Drawn
<1>3. stale \subseteq Pixels
  BY DEF SyncInv, SyncShape
<1>4. RectPixels(dirty_rect) \subseteq Pixels
  BY DEF RectPixels
<1>5. Sending'
  BY <1>2, <1>4 DEF SyncInv, Sending
<1>6. Cleaned'
  BY <1>2, <1>3 DEF SyncInv, Cleaned
<1>7. ASSUME StaleCovered PROVE StaleCovered'
  <2>1. \A p \in stale : Marked \/ (dirty_flag /\ p \in RectPixels(dirty_rect)) \/ Drawn(p)
    BY <1>7, CoveredMeans
  <2>2. \A p \in stale' :
          Marked' \/ (dirty_flag' /\ p \in RectPixels(dirty_rect')) \/ Drawn(p)'
    BY <1>2, <1>3, <2>1
  <2>3. QED
    BY <2>2 DEF StaleCovered, Marked, Drawn
<1>8. ImagesForgetNothing'
  BY <1>7 DEF SyncInv, ImagesForgetNothing
<1>9. AskInv'
  BY DEF SyncInv, AskInv, Asked, AskCleaned, WholeSend
<1>10. QED
  BY <1>1, <1>5, <1>6, <1>8, <1>9 DEF SyncInv

(* No URB that waits for its handler is touched by a step that changes     *)
(* another ticket's urb->status.                                           *)
LEMMA MarkStays ==
  ASSUME Shape, NEW t \in Tickets, t \notin done, NEW s,
         urb_status' = [urb_status EXCEPT ![t] = s], done \subseteq done',
         unsync_flag => unsync_flag', Marked
  PROVE  Marked'
<1>1. CASE unsync_flag
  BY <1>1 DEF Marked
<1>2. CASE \E u \in done : urb_status[u] = "nonzero"
  <2>1. PICK u \in done : urb_status[u] = "nonzero"
    BY <1>2
  <2>2. u # t /\ u \in Tickets /\ urb_status'[u] = "nonzero"
    BY <2>1 DEF Shape
  <2>3. QED
    BY <2>1, <2>2 DEF Marked
<1>3. QED
  BY <1>1, <1>2 DEF Marked

(* The sender's steps up to the last URB.                                  *)
LEMMA SendStepsKeep ==
  ASSUME IInv, SyncInv, NEW t \in Tickets,
         \/ NotSold \/ Sold \/ SendFull(t) \/ SendFullRefused(t) \/ SendLastRefused(t)
         \/ SendCleanup(t)
  PROVE  SyncInv'
<1>1. Shape /\ region \subseteq Pixels /\ carried \in [Tickets -> SUBSET Pixels]
  BY DEF IInv, SyncInv, SyncShape
<1> USE DEF syncVars, fbVars, sendVars, wireVars, askVars, countVars, urbVars,
      SendOver, Submitted, Quiet
<1>2. CASE NotSold
  <2>1. Marked => Marked'
    BY <1>2 DEF NotSold, SellNone, Marked
  <2>2. QED
    BY <1>1, <1>2, <2>1, CalmKeeps DEF NotSold, SellNone, ReleaseLock
<1>3. CASE Sold
  <2>1. Marked => Marked'
    BY <1>3 DEF Sold, Sell, Marked
  <2>2. QED
    BY <1>1, <1>3, <2>1, CalmKeeps DEF Sold, Sell
<1>4. CASE SendFull(t)
  <2>1. t \notin done
    BY <1>4 DEF SendFull, SubmitFull, IInv, SingleOwner
  <2>2. Marked => Marked'
    BY <1>1, <1>4, <2>1, MarkStays DEF SendFull, SubmitFull, SubmitAccepted
  <2>3. carried' \in [Tickets -> SUBSET Pixels]
    BY <1>1, <1>4 DEF SendFull
  <2>4. QED
    BY <1>1, <1>4, <2>2, <2>3, CalmKeeps DEF SendFull, SubmitFull
<1>5. CASE SendFullRefused(t)
  <2>1. t \notin done
    BY <1>5 DEF SendFullRefused, SubmitFullRefused, IInv, SingleOwner
  <2>2. unsync_flag => unsync_flag'
    BY <1>5, Zenon DEF SendFullRefused, Refused
  <2>3. Marked => Marked'
    BY <1>1, <1>5, <2>1, <2>2, MarkStays
    DEF SendFullRefused, SubmitFullRefused, FinishRefused, SubmitRefused
  <2>4. QED
    BY <1>1, <1>5, <2>3, CalmKeeps DEF SendFullRefused, SubmitFullRefused, Refused
<1>6. CASE SendLastRefused(t)
  <2>1. t \notin done
    BY <1>6 DEF SendLastRefused, FlushRefused, IInv, SingleOwner
  <2>2. unsync_flag => unsync_flag'
    BY <1>6, Zenon DEF SendLastRefused, Refused
  <2>3. Marked => Marked'
    BY <1>1, <1>6, <2>1, <2>2, MarkStays
    DEF SendLastRefused, FlushRefused, FinishRefused, SubmitRefused
  <2>4. QED
    BY <1>1, <1>6, <2>3, CalmKeeps DEF SendLastRefused, FlushRefused, ReleaseLock, Refused
<1>7. CASE SendCleanup(t)
  <2>1. Marked => Marked'
    BY <1>7 DEF SendCleanup, Cleanup, Marked
  <2>2. QED
    BY <1>1, <1>7, <2>1, CalmKeeps DEF SendCleanup, Cleanup
<1>8. QED
  BY <1>2, <1>3, <1>4, <1>5, <1>6, <1>7

(* The last URB of a transfer is accepted: what the image did not carry    *)
(* was drawn meanwhile, so nothing rests on the dirty rectangle any more.  *)
LEMMA SendLastKeeps ==
  ASSUME IInv, SyncInv, NEW t \in Tickets, SendLast(t)
  PROVE  SyncInv'
<1> USE DEF syncVars, fbVars, sendVars, wireVars, askVars, countVars, urbVars,
      Submitted
<1>1. /\ Shape /\ stale \subseteq Pixels /\ region \subseteq Pixels
      /\ carried \in [Tickets -> SUBSET Pixels]
  BY DEF IInv, SyncInv, SyncShape
<1>2. /\ UNCHANGED <<pending, unsync_flag, dirty_rect, dirty_flag, region, clears, whole,
                     dev_dirty, hinted, holder>>
      /\ stale' = stale \ region /\ t \in bundle /\ sender = "send"
      /\ carried' = [carried EXCEPT ![t] = region]
      /\ ~clears => flagged' = flagged
  BY DEF SendLast, Flush
<1>3. SyncShape'
  BY <1>1, <1>2 DEF SyncInv, SyncShape
<1>4. Marked => Marked'
  <2>1. t \notin done
    BY <1>2 DEF IInv, SingleOwner
  <2>2. urb_status' = [urb_status EXCEPT ![t] = "nonzero"] /\ done' = done
    BY DEF SendLast, Flush, SubmitAccepted
  <2>3. QED
    BY <1>1, <1>2, <2>1, <2>2, MarkStays
<1>5. \A p \in Pixels : Drawn(p)' <=> Drawn(p)
  BY <1>2 DEF Drawn
<1>6. holder # "none"
  BY <1>2 DEF IInv, SenderInv
<1>7. Sending'
  <2>1. RectPixels(dirty_rect) \subseteq Pixels
    BY DEF RectPixels
  <2>2. QED
    BY <1>2, <1>4, <1>5, <1>6, <2>1 DEF SyncInv, Sending
<1>8. ASSUME ~hinted PROVE Marked' \/ \A p \in stale' : Drawn(p)'
  <2> SUFFICES ASSUME ~Marked, NEW p \in stale' PROVE Drawn(p)'
    BY <1>4
  <2>1. p \in stale /\ p \notin region /\ p \in Pixels
    BY <1>1, <1>2
  <2>2. Drawn(p) \/ p \in RectPixels(dirty_rect)
    BY <1>8, <2>1, CoveredMeans DEF SyncInv, ImagesForgetNothing
  <2>3. Drawn(p)
    BY <1>6, <1>8, <2>1, <2>2 DEF SyncInv, Sending
  <2>4. QED
    BY <1>5, <2>1, <2>3
<1>9. Cleaned'
  BY <1>2, <1>8 DEF Cleaned
<1>10. ImagesForgetNothing'
  BY <1>2, <1>8 DEF ImagesForgetNothing, StaleCovered, Marked, Drawn
<1>11. AskInv'
  <2>1. WholeSend'
    BY <1>2, <1>4 DEF SyncInv, AskInv, WholeSend
  <2>2. unmet' => unmet /\ ~whole
    BY Zenon DEF SendLast
  <2>3. Quiet => Quiet'
    BY <1>2 DEF Quiet
  <2>4. ASSUME unmet', ~hinted PROVE Marked' \/ Quiet'
    BY <1>4, <1>6, <2>2, <2>3, <2>4 DEF SyncInv, AskInv, Asked, WholeSend
  <2>5. QED
    BY <1>2, <2>1, <2>4 DEF AskInv, Asked, AskCleaned
<1>12. QED
  BY <1>3, <1>7, <1>9, <1>10, <1>11 DEF SyncInv

(* The send returns; a successful one clears the dirty rectangle.          *)
LEMMA SendReturnsKeeps ==
  ASSUME IInv, SyncInv, SendReturns
  PROVE  SyncInv'
<1> USE DEF syncVars, fbVars, sendVars, wireVars, askVars, countVars, urbVars,
      SendOver, Quiet
<1>1. /\ UNCHANGED <<stale, pending, unsync_flag, carried, flagged, dev_dirty, unmet, hinted,
                     done, urb_status>>
      /\ region' = {} /\ clears' = FALSE /\ holder' = "none" /\ sender' = "idle"
  BY DEF SendReturns, SendEnd, ReleaseLock
<1>2. Marked => Marked'
  BY <1>1 DEF Marked
<1>3. CASE sender = "cleanup"
  <2>1. dirty_rect' = EmptyRect
    BY <1>3 DEF SendReturns
  <2>2. EmptyRect \in Rects
    BY DisplayAssumption DEF EmptyRect, Rects
  <2>3. SyncShape'
    BY <1>1, <2>1, <2>2 DEF SyncInv, SyncShape
  <2>4. ~hinted => Marked \/ \A p \in stale : Drawn(p)
    BY <1>3 DEF SyncInv, Cleaned
  <2>5. ImagesForgetNothing'
    BY <1>1, <1>2, <2>4 DEF ImagesForgetNothing, StaleCovered, Marked, Drawn
  <2>6. AskInv'
    BY <1>1, <1>2, <1>3 DEF SyncInv, AskInv, Asked, AskCleaned, WholeSend, Quiet
  <2>7. QED
    BY <1>1, <2>3, <2>5, <2>6 DEF SyncInv, Sending, Cleaned
<1>4. CASE sender # "cleanup"
  BY <1>1, <1>2, <1>4, CalmKeeps DEF SendReturns, SyncInv, SyncShape
<1>5. QED
  BY <1>3, <1>4

(* The USB core, the completion handler, the start of the flush work and   *)
(* a dirty report.                                                         *)
LEMMA UsbKeeps ==
  ASSUME IInv, SyncInv, NEW t \in Tickets,
         \/ Delivered(t) \/ Handled(t) \/ HandlerEnds
         \/ WorkFindsNothing \/ WorkFindsDirt \/ DeviceAsks \/ DirtyReport
  PROVE  SyncInv'
<1>1. Shape /\ region \subseteq Pixels /\ carried \in [Tickets -> SUBSET Pixels]
  BY DEF IInv, SyncInv, SyncShape
<1> USE DEF syncVars, fbVars, sendVars, wireVars, askVars, countVars, urbVars, senderVars,
      Quiet
<1>2. CASE Delivered(t)
  <2>1. t \notin done
    BY <1>2 DEF Delivered, UrbDone, IInv, SingleOwner
  <2>2. Marked => Marked'
    BY <1>1, <1>2, <2>1, MarkStays DEF Delivered, UrbDone
  <2>3. QED
    BY <1>1, <1>2, <2>2, CalmKeeps DEF Delivered, UrbDone
<1>3. CASE Handled(t)
  <2>1. unsync_flag \/ urb_status[t] = "nonzero" => unsync_flag'
    BY <1>3, Zenon DEF Handled
  <2>2. Marked => Marked'
    BY <1>3, <2>1 DEF Handled, FinishReturn, Marked
  <2>3. carried' \in [Tickets -> SUBSET Pixels]
    BY <1>1, <1>3 DEF Handled
  <2>4. QED
    BY <1>1, <1>3, <2>2, <2>3, CalmKeeps DEF Handled, FinishReturn
<1>4. CASE HandlerEnds
  <2>1. Marked => Marked'
    BY <1>4 DEF HandlerEnds, FinishTail, Marked
  <2>2. QED
    BY <1>1, <1>4, <2>1, CalmKeeps DEF HandlerEnds, FinishTail
<1>5. CASE WorkFindsNothing \/ WorkFindsDirt
  <2>1. Marked => Marked'
    BY <1>5 DEF WorkFindsNothing, WorkFindsDirt, WorkIdle, WorkStart, Marked
  <2>2. QED
    BY <1>1, <1>5, <2>1, CalmKeeps DEF WorkFindsNothing, WorkFindsDirt, WorkIdle, WorkStart
<1>6. CASE DirtyReport
  <2>1. Marked'
    BY <1>6 DEF DirtyReport, Marked
  <2>2. QED
    BY <1>1, <1>6, <2>1, CalmKeeps DEF DirtyReport, ScheduleByStatus
<1>7. CASE DeviceAsks
  <2>1. Quiet' /\ (Marked => Marked')
    BY <1>7 DEF DeviceAsks, Marked, vars
  <2>2. QED
    BY <1>1, <1>7, <2>1, CalmKeeps DEF DeviceAsks, vars
<1>8. QED
  BY <1>2, <1>3, <1>4, <1>5, <1>6, <1>7

(* A transfer is lost: everything is covered by the handler to come.       *)
LEMMA LostKeeps ==
  ASSUME IInv, SyncInv, NEW t \in Tickets, Lost(t)
  PROVE  SyncInv'
<1> USE DEF fbVars, sendVars, senderVars
<1>1. /\ UNCHANGED <<pending, unsync_flag, dirty_rect, dirty_flag, carried, hinted>>
      /\ stale' = stale \union carried[t] /\ region' \subseteq region
      /\ done' = done \union {t} /\ urb_status' = [urb_status EXCEPT ![t] = "nonzero"]
  BY DEF Lost, UrbDone
<1>2. SyncShape'
  BY <1>1 DEF SyncInv, SyncShape
<1>3. t \in done' /\ urb_status'[t] = "nonzero"
  BY <1>1 DEF IInv, Shape
<1>4. Marked' /\ ImagesForgetNothing'
  BY <1>3 DEF Marked, ImagesForgetNothing, StaleCovered
<1>5. QED
  BY <1>2, <1>4
  DEF SyncInv, Sending, Cleaned, AskInv, Asked, AskCleaned, WholeSend

(* Having nothing to report is not a report.                               *)
LEMMA NoDrawIsNoReport == NoDraw \notin Reports
<1>1. Pixels \subseteq Nat \X Nat
  BY DisplayAssumption DEF Pixels
<1>2. Reports \subseteq [area : DrawRects, kind : DrawKinds, over : SUBSET (Nat \X Nat)]
  BY <1>1, DisplayAssumption DEF Reports
<1>3. QED
  BY <1>2, DisplayAssumption

(* Drawing over a fill that is to come changes neither its area nor its    *)
(* kind.                                                                   *)
LEMMA DrawnOverEffect ==
  ASSUME NEW d \in {NoDraw} \union Reports, NEW a
  PROVE  /\ DrawnOver(d, a) \in {NoDraw} \union Reports
         /\ d # NoDraw => DrawnOver(d, a) # NoDraw /\ DrawnOver(d, a).area = d.area
<1>1. AreaPixels(a) \subseteq Pixels
  BY DEF AreaPixels
<1>2. CASE d # NoDraw /\ d.kind = "fillrect"
  <2>1. DrawnOver(d, a) = [d EXCEPT !.over = @ \union AreaPixels(a)]
    BY <1>2, Zenon DEF DrawnOver
  <2>2. DrawnOver(d, a) \in Reports /\ DrawnOver(d, a).area = d.area
    BY <1>1, <1>2, <2>1 DEF Reports
  <2>3. QED
    BY <2>2, NoDrawIsNoReport
<1>3. CASE ~(d # NoDraw /\ d.kind = "fillrect")
  BY <1>3, Zenon DEF DrawnOver
<1>4. QED
  BY <1>2, <1>3

(* A draw: the pixels that become wrong are in the hands of the client,    *)
(* also those that a send under way had taken.                             *)
LEMMA DrawKeeps ==
  ASSUME SyncInv, NEW c \in Clients, NEW a \in DrawRects, NEW k \in Hints, Draw(c, a, k)
  PROVE  SyncInv'
<1> DEFINE d == [area |-> a, kind |-> k, over |-> {}]
<1>1. /\ pending[c] = NoDraw
      /\ pending' = [b \in Clients |-> IF b = c THEN d ELSE DrawnOver(pending[b], a)]
      /\ stale' = stale \union AreaPixels(a) /\ region' = region \ AreaPixels(a)
      /\ UNCHANGED <<unsync_flag, dirty_rect, dirty_flag, clears, whole, carried, flagged>>
      /\ UNCHANGED <<dev_dirty, unmet, hinted, sender, holder, done, urb_status>>
  BY DEF Draw, vars, fbVars, wireVars, askVars
<1>2. d \in Reports /\ d # NoDraw /\ d.area = a
  BY NoDrawIsNoReport DEF Reports
<1> HIDE DEF d
<1>3. pending \in [Clients -> {NoDraw} \union Reports]
  BY DEF SyncInv, SyncShape
<1>4. /\ pending' \in [Clients -> {NoDraw} \union Reports]
      /\ pending'[c] = d
      /\ \A b \in Clients : b # c /\ pending[b] # NoDraw =>
           pending'[b] # NoDraw /\ pending'[b].area = pending[b].area
  BY <1>1, <1>2, <1>3, DrawnOverEffect
<1>5. \A p \in AreaPixels(a) : Drawn(p)'
  BY <1>2, <1>4 DEF Drawn
<1>6. \A p \in Pixels : Drawn(p) => Drawn(p)'
  BY <1>1, <1>4 DEF Drawn
<1>7. AreaPixels(a) \subseteq Pixels /\ stale \subseteq Pixels
  BY DEF AreaPixels, SyncInv, SyncShape
<1>8. SyncShape'
  BY <1>1, <1>4, <1>7 DEF SyncInv, SyncShape
<1>9. Marked => Marked'
  BY <1>1 DEF Marked
<1>10. Sending'
  <2>1. ASSUME NEW p \in Pixels, p \in region \/ Drawn(p) PROVE p \in region' \/ Drawn(p)'
    BY <1>1, <1>5, <1>6, <2>1
  <2>2. RectPixels(dirty_rect) \subseteq Pixels
    BY DEF RectPixels
  <2>3. QED
    BY <1>1, <1>9, <2>1, <2>2 DEF SyncInv, Sending
<1>11. Cleaned'
  BY <1>1, <1>5, <1>6, <1>7, <1>9 DEF SyncInv, Cleaned
<1>12. ImagesForgetNothing'
  <2>1. ASSUME ~hinted, NEW p \in stale'
        PROVE  Marked' \/ (dirty_flag' /\ p \in RectPixels(dirty_rect')) \/ Drawn(p)'
    <3>1. CASE p \in AreaPixels(a)
      BY <1>5, <3>1
    <3>2. CASE p \in stale
      <4>1. Marked \/ (dirty_flag /\ p \in RectPixels(dirty_rect)) \/ Drawn(p)
        BY <2>1, <3>2, CoveredMeans DEF SyncInv, ImagesForgetNothing
      <4>2. QED
        BY <1>1, <1>6, <1>7, <1>9, <3>2, <4>1
    <3>3. QED
      BY <1>1, <2>1, <3>1, <3>2
  <2>2. QED
    BY <1>1, <2>1 DEF ImagesForgetNothing, StaleCovered, Marked, Drawn
<1>13. AskInv'
  BY <1>1, <1>9 DEF SyncInv, AskInv, Asked, AskCleaned, WholeSend, Quiet
<1>14. QED
  BY <1>8, <1>10, <1>11, <1>12, <1>13 DEF SyncInv

(* A client reports what it drew.  As long as it goes out as an image, the *)
(* dirty rectangle now holds what the client, and unsync_flag, held.       *)
LEMMA ReportCovers ==
  ASSUME SyncInv, NEW c \in Clients, pending[c] # NoDraw,
         UpdateDirtyRect(UpdateArea(pending[c])),
         pending' = [pending EXCEPT ![c] = NoDraw],
         hinted' = (hinted \/ IsHinted(pending[c].kind)),
         UNCHANGED <<done, urb_status>>
  PROVE  /\ pending' \in [Clients -> {NoDraw} \union Reports]
         /\ dirty_rect' \in Rects
         /\ ~hinted' => ~hinted /\ pending[c].kind \in {"image", "write"}
         /\ unsync_flag => ~Inverted(dirty_rect') /\ RectPixels(dirty_rect') = Pixels
         /\ ~Inverted(dirty_rect') \/ dirty_flag => dirty_flag'
         /\ unsync_flag => dirty_rect' = FullRect
         /\ dirty_rect = FullRect => dirty_rect' = FullRect
         /\ ~hinted' => \A p \in stale : Marked' \/ p \in RectPixels(dirty_rect') \/ Drawn(p)'
<1> DEFINE a == UpdateArea(pending[c])
<1>1. /\ pending[c].area \in DrawRects /\ pending[c].kind \in Hints /\ a \in Areas
      /\ dirty_rect \in Rects /\ stale \subseteq Pixels
      /\ pending \in [Clients -> {NoDraw} \union Reports]
  BY PendingDraw DEF SyncInv, SyncShape
<1>2. /\ dirty_rect' \in Rects
      /\ RectPixels(dirty_rect) \subseteq RectPixels(dirty_rect')
      /\ AreaPixels(a) \subseteq RectPixels(dirty_rect')
      /\ unsync_flag => ~Inverted(dirty_rect') /\ RectPixels(dirty_rect') = Pixels
      /\ a = FullArea => ~Inverted(dirty_rect') /\ RectPixels(dirty_rect') = Pixels
      /\ ~Inverted(dirty_rect') \/ dirty_flag => dirty_flag'
      /\ unsync_flag \/ a = FullArea => dirty_rect' = FullRect
      /\ dirty_rect = FullRect => dirty_rect' = FullRect
  BY <1>1, UpdateDirtyRectEffect
<1>3. /\ pending' \in [Clients -> {NoDraw} \union Reports]
      /\ \A b \in Clients : b # c => pending'[b] = pending[b]
  BY <1>1
<1>4. ~hinted' => ~hinted /\ pending[c].kind \in {"image", "write"}
  BY Zenon DEF IsHinted
<1>5. ASSUME ~hinted', NEW p \in stale
      PROVE  Marked' \/ p \in RectPixels(dirty_rect') \/ Drawn(p)'
  <2>1. Marked \/ p \in RectPixels(dirty_rect) \/ Drawn(p)
    BY <1>4, <1>5, CoveredMeans DEF SyncInv, ImagesForgetNothing
  <2>2. CASE Marked
    <3>1. CASE unsync_flag
      BY <1>1, <1>2, <3>1
    <3>2. CASE \E t \in done : urb_status[t] = "nonzero"
      BY <3>2 DEF Marked
    <3>3. QED
      BY <2>2, <3>1, <3>2 DEF Marked
  <2>3. CASE p \in RectPixels(dirty_rect)
    BY <1>2, <2>3
  <2>4. CASE Drawn(p)
    <3>1. PICK b \in Clients : pending[b] # NoDraw /\ p \in AreaPixels(pending[b].area)
      BY <2>4 DEF Drawn
    <3>2. CASE b # c
      BY <1>3, <3>1, <3>2 DEF Drawn
    <3>3. CASE b = c
      <4>1. a = FullArea \/ a = pending[c].area
        BY <1>4, <1>5 DEF UpdateArea
      <4>2. p \in Pixels
        BY <1>1
      <4>3. QED
        BY <1>2, <3>1, <3>3, <4>1, <4>2
    <3>4. QED
      BY <3>2, <3>3
  <2>5. QED
    BY <2>1, <2>2, <2>3, <2>4
<1>6. QED
  BY <1>2, <1>3, <1>4, <1>5

(* _display_update of a client.                                            *)
LEMMA UpdateKeeps ==
  ASSUME SyncInv, NEW c \in Clients, Update(c)
  PROVE  SyncInv'
<1> DEFINE k == pending[c].kind
<1>1. /\ UNCHANGED <<carried, flagged, dev_dirty, unmet, done, urb_status>>
      /\ ~Inverted(dirty_rect') /\ sender' = "sell" /\ pending[c] # NoDraw
      /\ region' \in Sends(pending[c], dirty_rect')
      /\ stale' = stale \union Spoils(pending[c])
  BY DEF Update, ClientBegin, urbVars, wireVars, askVars
<1>2. /\ ~unsync_flag => ~clears'
      /\ whole' = (dirty_rect' = FullRect /\ ~IsCommand(k))
  BY Zenon DEF Update
<1>3. /\ pending' \in [Clients -> {NoDraw} \union Reports]
      /\ dirty_rect' \in Rects /\ dirty_flag'
      /\ ~hinted' => ~hinted /\ k \in {"image", "write"}
      /\ unsync_flag => dirty_rect' = FullRect
      /\ dirty_rect = FullRect => dirty_rect' = FullRect
      /\ ~hinted' => \A p \in stale : Marked' \/ p \in RectPixels(dirty_rect') \/ Drawn(p)'
  BY <1>1, ReportCovers DEF Update
<1>4. /\ region' \subseteq Pixels /\ Spoils(pending[c]) \subseteq Pixels
      /\ ~IsCommand(k) => region' = RectPixels(dirty_rect') /\ Spoils(pending[c]) = {}
  BY <1>1 DEF Sends, Spoils, IsCommand, RectPixels, AreaPixels
<1> HIDE DEF k
<1>5. SyncShape'
  BY <1>1, <1>3, <1>4 DEF SyncInv, SyncShape
<1>6. ~hinted' => ~IsCommand(k)
  BY <1>3 DEF IsCommand
<1>7. Sending'
  BY <1>4, <1>6 DEF Sending
<1>8. ~hinted' => stale' = stale
  BY <1>1, <1>4, <1>6
<1>9. ImagesForgetNothing'
  BY <1>3, <1>8 DEF ImagesForgetNothing, StaleCovered, Marked, Drawn
<1>10. ASSUME unmet', ~hinted' PROVE Marked' \/ dirty_rect' = FullRect \/ Quiet'
  <2>1. Marked \/ dirty_rect = FullRect \/ Quiet
    BY <1>1, <1>3, <1>10 DEF SyncInv, AskInv, Asked
  <2>2. Marked => unsync_flag \/ Marked'
    BY <1>1 DEF Marked
  <2>3. QED
    BY <1>1, <1>2, <1>3, <2>1, <2>2 DEF Quiet
<1>11. AskInv'
  BY <1>1, <1>2, <1>3, <1>6, <1>10 DEF AskInv, Asked, AskCleaned, WholeSend
<1>12. QED
  BY <1>1, <1>5, <1>7, <1>9, <1>11 DEF SyncInv, Cleaned

(* _display_update of a client with nothing to send.                       *)
LEMMA UpdateNothingKeeps ==
  ASSUME IInv, SyncInv, NEW c \in Clients, UpdateNothing(c)
  PROVE  SyncInv'
<1>1. /\ UNCHANGED <<stale, region, clears, carried, flagged, dev_dirty, unmet>>
      /\ UNCHANGED <<done, urb_status, sender, holder>>
      /\ Inverted(dirty_rect') /\ holder = "none" /\ pending[c] # NoDraw
  BY DEF UpdateNothing, vars, sendVars, wireVars, askVars
<1>2. /\ pending' \in [Clients -> {NoDraw} \union Reports]
      /\ dirty_rect' \in Rects
      /\ ~hinted' => ~hinted
      /\ unsync_flag \/ dirty_rect = FullRect => dirty_rect' = FullRect
      /\ ~hinted' => \A p \in stale : Marked' \/ p \in RectPixels(dirty_rect') \/ Drawn(p)'
  BY <1>1, ReportCovers DEF UpdateNothing
<1>3. SyncShape'
  BY <1>1, <1>2 DEF SyncInv, SyncShape
<1>4. RectPixels(dirty_rect') = {}
  BY <1>1, <1>2, InvertedIsEmpty
<1>5. ImagesForgetNothing'
  BY <1>1, <1>2, <1>4 DEF ImagesForgetNothing, StaleCovered, Marked, Drawn
<1>6. sender # "cleanup"
  BY <1>1 DEF IInv, SenderInv
<1>7. ~unsync_flag /\ dirty_rect # FullRect
  BY <1>1, <1>2, FullRectIsAll
<1>8. Marked => Marked'
  BY <1>1, <1>7 DEF Marked
<1>9. AskInv'
  BY <1>1, <1>2, <1>6, <1>7, <1>8
  DEF SyncInv, AskInv, Asked, AskCleaned, WholeSend, Quiet
<1>10. QED
  BY <1>1, <1>3, <1>5, <1>6, <1>9 DEF SyncInv, Sending, Cleaned

(* _display_update of the flush work.                                      *)
LEMMA WorkUpdateKeeps ==
  ASSUME IInv, SyncInv, WorkUpdate
  PROVE  SyncInv'
<1>1. /\ UNCHANGED <<stale, pending, carried, hinted, done, urb_status>>
      /\ region' = RectPixels(dirty_rect') /\ holder = "none"
      /\ whole' = (dirty_rect' = FullRect)
      /\ sender' = "sell" \/ sender' = sender
  BY DEF WorkUpdate, WorkBegin, urbVars, wireVars
<1>2. /\ dirty_rect' \in Rects /\ dirty_flag' /\ dirty_rect' = FullRect
      /\ RectPixels(dirty_rect') = Pixels
  BY UpdateDirtyRectEffect DEF WorkUpdate, Areas, SyncInv, SyncShape
<1>3. stale \subseteq Pixels /\ sender # "cleanup"
  BY <1>1 DEF SyncInv, SyncShape, IInv, SenderInv
<1>4. SyncShape'
  BY <1>1, <1>2 DEF SyncInv, SyncShape
<1>5. Sending' /\ Cleaned'
  BY <1>1, <1>2, <1>3 DEF Sending, Cleaned
<1>6. ImagesForgetNothing'
  BY <1>1, <1>2, <1>3 DEF ImagesForgetNothing, StaleCovered
<1>7. AskInv'
  BY <1>1, <1>2, <1>3 DEF AskInv, Asked, AskCleaned, WholeSend
<1>8. QED
  BY <1>4, <1>5, <1>6, <1>7 DEF SyncInv

-----------------------------------------------------------------------------
(* A display that was just connected: marked as a whole.                   *)
LEMMA InitSyncInv ==
  SyncInit => SyncInv
<1> SUFFICES ASSUME SyncInit PROVE SyncInv
  OBVIOUS
<1>1. EmptyRect \in Rects
  BY DisplayAssumption DEF EmptyRect, Rects
<1>2. SyncShape
  BY <1>1 DEF SyncInit, SyncShape
<1>3. QED
  BY <1>2 DEF SyncInit, Init, SyncInv, Sending, Cleaned, AskInv, Asked, AskCleaned, WholeSend,
     Marked, ImagesForgetNothing, StaleCovered

(* Every step keeps the invariant, given the pool's.                       *)
LEMMA NextSyncInv ==
  ASSUME IInv, SyncInv, [SyncNext]_allVars
  PROVE  SyncInv'
<1>1. ASSUME NEW c \in Clients, NEW a \in DrawRects, NEW k \in Hints, Draw(c, a, k)
      PROVE  SyncInv'
  BY <1>1, DrawKeeps
<1>2. CASE ClientUpdates
  BY <1>2, UpdateKeeps, UpdateNothingKeeps DEF ClientUpdates
<1>3. PICK u \in Tickets : TRUE
  BY TicketsAssumption
<1>4. CASE SyncSenderStep
  BY <1>3, <1>4, SendStepsKeep, SendLastKeeps, SendReturnsKeeps DEF SyncSenderStep
<1>5. CASE SyncUsbStep
  BY <1>5, UsbKeeps, LostKeeps DEF SyncUsbStep
<1>6. CASE SyncHandlerStep
  BY <1>3, <1>6, UsbKeeps DEF SyncHandlerStep
<1>7. CASE SyncWorkStep
  BY <1>3, <1>7, UsbKeeps, WorkUpdateKeeps DEF SyncWorkStep
<1>8. CASE DeviceAsks \/ DirtyReport
  BY <1>3, <1>8, UsbKeeps
<1>9. CASE UNCHANGED allVars
  BY <1>9 DEF allVars, vars, syncVars, fbVars, sendVars, wireVars, askVars, SyncInv, SyncShape,
     Sending, Cleaned, AskInv, Asked, AskCleaned, WholeSend, Quiet, Drawn, Marked,
     ImagesForgetNothing, StaleCovered
<1>10. QED
  BY <1>1, <1>2, <1>4, <1>5, <1>6, <1>7, <1>8, <1>9 DEF SyncNext

(* The pool's invariant along the steps of the framebuffer.                *)
LEMMA NextPoolInv ==
  ASSUME IInv, [Next]_vars
  PROVE  IInv'
  BY NextShape, NextSingleOwner, NextCount, NextSenderInv, NextDisconnectInv DEF IInv

(***************************************************************************)
(* The two invariants hold of every reachable state.                       *)
(***************************************************************************)
THEOREM SyncInductive == SyncSpec => [](IInv /\ SyncInv)
<1>1. SyncInit => IInv /\ SyncInv
  <2>1. Init => SingleOwner /\ CountMatchesList /\ SenderInv /\ DisconnectInv
    BY DEF Init, SingleOwner, CountMatchesList, SenderInv, DisconnectInv
  <2>2. QED
    BY <2>1, InitShape, InitSyncInv DEF IInv, SyncInit
<1>2. ASSUME IInv, SyncInv, [SyncNext]_allVars PROVE IInv' /\ SyncInv'
  <2>1. [Next]_vars
    BY <1>2, PoolStep DEF SyncInv
  <2>2. QED
    BY <1>2, <2>1, NextPoolInv, NextSyncInv
<1>3. QED
  BY <1>1, <1>2, PTL DEF SyncSpec

(***************************************************************************)
(* The framebuffer uses the ticket pool as the pool's specification says,  *)
(* so that everything proved of the pool holds of the composition.         *)
(***************************************************************************)
THEOREM UsesPool == SyncSpec => Spec
<1>1. SyncInit => Init
  BY DEF SyncInit
<1>2. SyncInv /\ [SyncNext]_allVars => [Next]_vars
  BY PoolStep DEF SyncInv
<1>3. QED
  BY <1>1, <1>2, SyncInductive, PTL DEF SyncSpec, Spec

(***************************************************************************)
(* The driver forgets no pixel that an image update was to bring to the    *)
(* display, whatever is refused, lost or drawn meanwhile.                  *)
(***************************************************************************)
THEOREM NothingForgotten == SyncSpec => []ImagesForgetNothing
<1>1. SyncInv => ImagesForgetNothing
  BY DEF SyncInv
<1>2. QED
  BY <1>1, SyncInductive, PTL

(***************************************************************************)
(* A device that needs a full image and does not ask for it (any more),    *)
(* be it that the clear flag came with the first packet of an image cut    *)
(* short by a refused or a lost transfer, will be sent one.                *)
(***************************************************************************)
THEOREM ClearSafe == SyncSpec => []ClearKeepsRequest
<1>1. SyncInv => ClearKeepsRequest
  BY DEF SyncInv, AskInv, Asked, Quiet, Marked, ClearKeepsRequest
<1>2. QED
  BY <1>1, SyncInductive, PTL

-----------------------------------------------------------------------------
(* The driver at rest.  What it remembers in the dirty rectangle alone,    *)
(* without a work scheduled, it sends only if a ticket comes back.         *)

(* The composition has no disconnection.                                   *)
Connected == disconnect = "up" /\ bound /\ is_alive /\ freed = {}

(* No ticket is lost, and none is returned without a look at whether it    *)
(* was the last, until a submission is refused.                            *)
AllThere ==
  ~refused => sender # "abort" /\ Tickets = pool \union bundle \union flight \union done

(* Nobody asks for more tickets than there are.                            *)
Affordable == sender = "sell" => required <= Cardinality(Tickets)

(* Without errors the full display is marked by status reports only, which *)
(* schedule the work.                                                      *)
MarkScheduled ==
  errors = 0 =>
    /\ \A t \in done : urb_status[t] = "zero"
    /\ unsync_flag => work_pending \/ (work_running /\ holder # "work")

(* The work runs or will: it is queued, or the last ticket is still out.   *)
Coming ==
  \/ work_pending
  \/ work_running
  \/ flight # {}
  \/ done # {}
  \/ handler # NoTicket /\ all_finished /\ urb_status[handler] = "zero"

(* What is left in the dirty rectangle when operation_lock is free.        *)
DirtScheduled ==
  ~refused /\ holder = "none" /\ dirty_flag => unsync_flag \/ Coming

RestInv ==
  /\ errors \in Nat
  /\ Connected
  /\ AllThere
  /\ Affordable
  /\ MarkScheduled
  /\ DirtScheduled

(* _on_alloc_disp_tickets_pool got enough tickets for a full image.        *)
PoolHoldsImage == Width * Height <= PixelsPerTicket * Cardinality(Tickets)

(* No step of the composition disconnects the device.                      *)
LEMMA NextConnected ==
  ASSUME Connected, [SyncNext]_allVars
  PROVE  Connected'
<1> USE DEF Connected, devVars, vars
<1>1. CASE UNCHANGED allVars
  BY <1>1 DEF allVars
<1>2. ASSUME NEW c \in Clients, NEW a \in DrawRects, NEW k \in Hints, Draw(c, a, k)
      PROVE  Connected'
  BY <1>2 DEF Draw
<1>3. ASSUME ClientUpdates PROVE Connected'
  BY <1>3 DEF ClientUpdates, Update, UpdateNothing, ClientBegin
<1>4. ASSUME SyncSenderStep PROVE Connected'
  BY <1>4 DEF SyncSenderStep, NotSold, SellNone, Sold, Sell, SendFull, SubmitFull, SendLast,
     Flush, SendCleanup, Cleanup, SendFullRefused, SubmitFullRefused, SendLastRefused,
     FlushRefused, SendReturns, SendEnd
<1>5. ASSUME SyncUsbStep \/ SyncHandlerStep PROVE Connected'
  BY <1>5 DEF SyncUsbStep, Delivered, Lost, UrbDone, SyncHandlerStep, Handled, FinishReturn,
     HandlerEnds, FinishTail
<1>6. ASSUME SyncWorkStep \/ DeviceAsks \/ DirtyReport PROVE Connected'
  BY <1>6 DEF SyncWorkStep, WorkFindsNothing, WorkIdle, WorkFindsDirt, WorkStart, WorkUpdate,
     WorkBegin, DeviceAsks, DirtyReport, ScheduleByStatus
<1>7. QED
  BY <1>1, <1>2, <1>3, <1>4, <1>5, <1>6 DEF SyncNext

(* A refused submission stays in the record.                               *)
LEMMA RefusedStays ==
  ASSUME refused, [SyncNext]_allVars
  PROVE  refused'
<1>1. CASE UNCHANGED allVars
  BY <1>1 DEF allVars, syncVars, countVars
<1>2. CASE SyncNext
  BY <1>2 DEF SyncNext, syncVars, countVars, Submitted, DeviceAsks, Draw, ClientUpdates, Update, UpdateNothing, SyncSenderStep,
     NotSold, Sold, SendFull, SendLast, SendFullRefused, SendLastRefused, Refused, SendCleanup,
     SendReturns, SyncUsbStep, Delivered, Lost, SyncHandlerStep, Handled, HandlerEnds,
     SyncWorkStep, WorkFindsNothing, WorkFindsDirt, WorkUpdate, DirtyReport
<1>3. QED
  BY <1>1, <1>2

(* Tickets move from one place to another.                                 *)
LEMMA NextAllThere ==
  ASSUME Shape, SenderInv, Connected, AllThere, [SyncNext]_allVars
  PROVE  AllThere'
<1> SUFFICES ASSUME ~refused'
             PROVE  /\ sender' # "abort"
                    /\ Tickets = pool' \union bundle' \union flight' \union done'
  BY DEF AllThere
<1>1. /\ sender # "abort" /\ Tickets = pool \union bundle \union flight \union done
      /\ pool \subseteq Tickets /\ bundle \subseteq Tickets
      /\ flight \subseteq Tickets /\ done \subseteq Tickets
  BY RefusedStays DEF AllThere, Shape
<1> USE DEF poolVars, urbVars, senderVars, vars
<1>2. CASE UNCHANGED allVars
  BY <1>1, <1>2 DEF allVars
<1>3. ASSUME NEW c \in Clients, NEW a \in DrawRects, NEW k \in Hints, Draw(c, a, k)
      PROVE  UNCHANGED <<pool, bundle, flight, done, sender>>
  BY <1>3 DEF Draw
<1>4. ASSUME ClientUpdates
      PROVE  UNCHANGED <<pool, bundle, flight, done>> /\ sender' # "abort"
  BY <1>1, <1>4 DEF ClientUpdates, Update, UpdateNothing, ClientBegin
<1>5. CASE NotSold
  BY <1>1, <1>5 DEF NotSold, SellNone, ReleaseLock
<1>6. CASE Sold
  <2>1. bundle = {}
    BY <1>6 DEF Sold, Sell, SenderInv
  <2>2. PICK S \in SUBSET pool : pool' = pool \ S /\ bundle' = S
    BY <1>6 DEF Sold, Sell
  <2>3. UNCHANGED <<flight, done>> /\ sender' = "send"
    BY <1>6 DEF Sold, Sell
  <2>4. QED
    BY <1>1, <2>1, <2>2, <2>3
<1>7. ASSUME NEW t \in Tickets, SendFull(t) \/ SendLast(t) \/ SendCleanup(t)
      PROVE  /\ sender' # "abort"
             /\ Tickets = pool' \union bundle' \union flight' \union done'
  BY <1>1, <1>7
  DEF SendFull, SubmitFull, SendLast, Flush, SubmitAccepted, SendCleanup, Cleanup, Return
<1>8. ASSUME NEW t \in Tickets, SendFullRefused(t) \/ SendLastRefused(t) PROVE FALSE
  BY <1>8 DEF SendFullRefused, SendLastRefused, Refused
<1>9. CASE SendReturns
  BY <1>1, <1>9 DEF SendReturns, SendEnd, ReleaseLock
<1>10. CASE SyncUsbStep
  BY <1>1, <1>10 DEF SyncUsbStep, Delivered, Lost, UrbDone
<1>11. CASE SyncHandlerStep
  BY <1>1, <1>11 DEF SyncHandlerStep, Handled, FinishReturn, Return, HandlerEnds, FinishTail
<1>12. CASE SyncWorkStep \/ DeviceAsks \/ DirtyReport
  BY <1>1, <1>12
  DEF SyncWorkStep, WorkFindsNothing, WorkIdle, WorkFindsDirt, WorkStart, WorkUpdate,
      WorkBegin, DeviceAsks, DirtyReport, ScheduleByStatus
<1>13. QED
  BY <1>1, <1>2, <1>3, <1>4, <1>5, <1>6, <1>7, <1>8, <1>9, <1>10, <1>11, <1>12
  DEF SyncNext, SyncSenderStep

(* A full image fits into the tickets, and so does any other.              *)
LEMMA NextAffordable ==
  ASSUME PoolHoldsImage, SyncShape, Affordable, [SyncNext]_allVars
  PROVE  Affordable'
<1>1. Cardinality(Tickets) \in Nat /\ 1 \in 1..Cardinality(Tickets)
  BY TicketsAssumption, FS_CardinalityType, FS_EmptySet
<1>2. ASSUME NEW r \in Rects, ~Inverted(r) PROVE TicketsFor(r) \in 1..Cardinality(Tickets)
  BY <1>1, <1>2, TicketsSuffice DEF PoolHoldsImage
<1>3. ASSUME NEW c \in Clients, Update(c) PROVE required' \in 1..Cardinality(Tickets)
  <2>1. dirty_rect' \in Rects /\ ~Inverted(dirty_rect')
    BY <1>3, PendingDraw, UpdateDirtyRectEffect DEF Update, SyncShape
  <2>2. TicketsNeeded(pending[c].kind, dirty_rect') \in 1..Cardinality(Tickets)
    BY <1>1, <1>2, <2>1 DEF TicketsNeeded
  <2>3. QED
    BY <1>3, <2>2 DEF Update, ClientBegin
<1>4. ASSUME WorkUpdate
      PROVE  UNCHANGED <<sender, required>> \/ required' \in 1..Cardinality(Tickets)
  <2>1. dirty_rect' \in Rects /\ ~Inverted(dirty_rect')
    BY <1>4, UpdateDirtyRectEffect DEF WorkUpdate, SyncShape, Areas
  <2>2. TicketsFor(dirty_rect') \in 1..Cardinality(Tickets)
    BY <1>2, <2>1
  <2>3. QED
    BY <1>4, <2>2 DEF WorkUpdate, WorkBegin
<1> USE DEF Affordable, senderVars, vars
<1>5. CASE UNCHANGED allVars
  BY <1>5 DEF allVars
<1>6. ASSUME NEW c \in Clients, NEW a \in DrawRects, NEW k \in Hints, Draw(c, a, k)
      PROVE  Affordable'
  BY <1>6 DEF Draw
<1>7. ASSUME NEW c \in Clients, UpdateNothing(c) PROVE Affordable'
  BY <1>7 DEF UpdateNothing
<1>8. CASE SyncSenderStep
  BY <1>8 DEF SyncSenderStep, NotSold, SellNone, Sold, Sell, SendFull, SubmitFull, SendLast,
     Flush, SendCleanup, Cleanup, SendFullRefused, SubmitFullRefused, SendLastRefused,
     FlushRefused, SendReturns, SendEnd, ReleaseLock
<1>9. CASE SyncUsbStep \/ SyncHandlerStep \/ DeviceAsks \/ DirtyReport
  BY <1>9 DEF SyncUsbStep, Delivered, Lost, UrbDone, SyncHandlerStep, Handled, FinishReturn,
     HandlerEnds, FinishTail, DeviceAsks, DirtyReport, ScheduleByStatus
<1>10. CASE WorkFindsNothing \/ WorkFindsDirt
  BY <1>10 DEF WorkFindsNothing, WorkIdle, WorkFindsDirt, WorkStart
<1>11. ASSUME NEW c \in Clients, Update(c) PROVE Affordable'
  BY <1>1, <1>3, <1>11
<1>12. CASE WorkUpdate
  BY <1>1, <1>4, <1>12
<1>13. QED
  BY <1>5, <1>6, <1>7, <1>8, <1>9, <1>10, <1>11, <1>12
  DEF SyncNext, ClientUpdates, SyncWorkStep

(* The mark of the full display is set together with the work, and taken   *)
(* by an update of the full display, the work's own or another.            *)
LEMMA NextMarkScheduled ==
  ASSUME Shape, SingleOwner, SenderInv, Connected, MarkScheduled,
         errors \in Nat, [SyncNext]_allVars
  PROVE  MarkScheduled'
<1> USE DEF urbVars, senderVars, workVars, fbVars, countVars, Submitted, vars
<1>1. CASE UNCHANGED allVars \/ DeviceAsks
  BY <1>1 DEF MarkScheduled, allVars, syncVars, DeviceAsks
<1>2. ASSUME NEW c \in Clients, NEW a \in DrawRects, NEW k \in Hints, Draw(c, a, k)
      PROVE  MarkScheduled'
  BY <1>2 DEF MarkScheduled, Draw
<1>3. ASSUME NEW t \in Tickets, SendFullRefused(t) \/ SendLastRefused(t) \/ Lost(t)
      PROVE  MarkScheduled'
  <2>1. errors' = errors + 1
    BY <1>3 DEF SendFullRefused, SendLastRefused, Refused, Lost
  <2>2. errors' # 0
    BY <2>1
  <2>3. QED
    BY <2>2 DEF MarkScheduled
<1>4. ASSUME NEW c \in Clients, Update(c) \/ UpdateNothing(c) PROVE MarkScheduled'
  <2>1. ~unsync_flag' /\ UNCHANGED <<done, urb_status, errors>>
    BY <1>4, Zenon DEF Update, UpdateNothing, UpdateDirtyRect, ClientBegin
  <2>2. QED
    BY <2>1 DEF MarkScheduled
<1>5. CASE NotSold \/ Sold \/ SendReturns
  <2>1. /\ UNCHANGED <<done, urb_status, errors, unsync_flag, work_pending>>
        /\ \/ UNCHANGED <<work_running, holder>>
           \/ holder' = "none" /\ work_running' = (work_running /\ holder # "work")
    BY <1>5 DEF NotSold, SellNone, Sold, Sell, SendReturns, SendEnd, ReleaseLock, syncVars
  <2>2. work_running /\ holder # "work" => work_running' /\ holder' # "work"
    BY <2>1, Zenon
  <2>3. QED
    BY <2>1, <2>2 DEF MarkScheduled
<1>6. ASSUME NEW t \in Tickets, SendFull(t) \/ SendLast(t) PROVE MarkScheduled'
  <2>1. /\ t \in bundle /\ UNCHANGED <<done, errors, unsync_flag, work_pending, work_running, holder>>
        /\ urb_status' = [urb_status EXCEPT ![t] = "nonzero"]
    BY <1>6 DEF SendFull, SubmitFull, SendLast, Flush, SubmitAccepted
  <2>2. t \notin done
    BY <2>1 DEF SingleOwner
  <2>3. \A u \in done : urb_status'[u] = urb_status[u]
    BY <2>1, <2>2 DEF Shape
  <2>4. QED
    BY <2>1, <2>3 DEF MarkScheduled
<1>7. ASSUME NEW t \in Tickets, SendCleanup(t) PROVE MarkScheduled'
  BY <1>7 DEF MarkScheduled, SendCleanup, Cleanup, syncVars
<1>8. ASSUME NEW t \in Tickets, Delivered(t) PROVE MarkScheduled'
  <2>1. /\ UNCHANGED <<errors, unsync_flag, work_pending, work_running, holder>>
        /\ done' = done \union {t} /\ urb_status' = [urb_status EXCEPT ![t] = "zero"]
    BY <1>8 DEF Delivered, UrbDone, syncVars
  <2>2. \A u \in done' : urb_status'[u] = "zero" \/ (u \in done /\ urb_status'[u] = urb_status[u])
    BY <2>1 DEF Shape
  <2>3. QED
    BY <2>1, <2>2 DEF MarkScheduled
<1>9. ASSUME NEW t \in Tickets, Handled(t) PROVE MarkScheduled'
  <2>1. /\ UNCHANGED <<errors, urb_status, work_pending, work_running, holder>>
        /\ t \in done /\ done' = done \ {t}
        /\ unsync_flag' = (unsync_flag \/ urb_status[t] = "nonzero")
    BY <1>9 DEF Handled, FinishReturn
  <2>2. ASSUME errors = 0 PROVE unsync_flag' => unsync_flag
    BY <2>1, <2>2, Zenon DEF MarkScheduled
  <2>3. QED
    BY <2>1, <2>2 DEF MarkScheduled
<1>10. CASE HandlerEnds
  <2>1. /\ UNCHANGED <<errors, done, urb_status, unsync_flag, work_running, holder>>
        /\ work_pending => work_pending'
    BY <1>10 DEF HandlerEnds, FinishTail, syncVars
  <2>2. QED
    BY <2>1 DEF MarkScheduled
<1>11. CASE WorkFindsNothing
  BY <1>11 DEF MarkScheduled, WorkFindsNothing, WorkIdle, syncVars
<1>12. CASE WorkFindsDirt
  <2>1. /\ UNCHANGED <<errors, done, urb_status, unsync_flag, holder>>
        /\ ~work_running /\ work_running'
    BY <1>12 DEF WorkFindsDirt, WorkStart, syncVars
  <2>2. holder' # "work"
    BY <2>1 DEF SenderInv
  <2>3. QED
    BY <2>1, <2>2 DEF MarkScheduled
<1>13. CASE WorkUpdate
  <2>1. ~unsync_flag' /\ UNCHANGED <<done, urb_status, errors>>
    BY <1>13, Zenon DEF WorkUpdate, UpdateDirtyRect, WorkBegin
  <2>2. QED
    BY <2>1 DEF MarkScheduled
<1>14. CASE DirtyReport
  <2>1. work_pending' /\ UNCHANGED <<done, urb_status, errors>>
    BY <1>14 DEF DirtyReport, ScheduleByStatus
  <2>2. QED
    BY <2>1 DEF MarkScheduled
<1>15. QED
  BY <1>1, <1>2, <1>3, <1>4, <1>5, <1>6, <1>7, <1>8, <1>9, <1>10, <1>11, <1>12, <1>13, <1>14
  DEF SyncNext, ClientUpdates, SyncSenderStep, SyncUsbStep, SyncHandlerStep, SyncWorkStep

(* A sender that lets go of operation_lock with the dirty rectangle full   *)
(* found too few tickets, so some are out; the last to come back schedules *)
(* the work.                                                               *)
LEMMA NextDirtScheduled ==
  ASSUME IInv, SyncShape, Connected, AllThere, Affordable, DirtScheduled,
         [SyncNext]_allVars
  PROVE  DirtScheduled'
<1> SUFFICES ASSUME ~refused', holder' = "none", dirty_flag', ~unsync_flag'
             PROVE  Coming'
  BY DEF DirtScheduled
<1>1. ~refused
  BY RefusedStays
<1>2. ASSUME holder = "none", dirty_flag, ~unsync_flag PROVE Coming
  BY <1>1, <1>2 DEF DirtScheduled
<1> USE DEF urbVars, handlerVars, senderVars, workVars, fbVars, vars
<1>3. CASE UNCHANGED allVars \/ DeviceAsks
  <2>1. UNCHANGED <<vars, fbVars>>
    BY <1>3, Zenon DEF allVars, syncVars, DeviceAsks
  <2>2. Coming
    BY <1>2, <2>1
  <2>3. QED
    BY <2>1, <2>2 DEF Coming
<1>4. ASSUME NEW c \in Clients, NEW a \in DrawRects, NEW k \in Hints, Draw(c, a, k)
      PROVE  Coming'
  <2>1. Coming
    BY <1>2, <1>4 DEF Draw
  <2>2. QED
    BY <1>4, <2>1 DEF Coming, Draw
<1>5. ASSUME NEW c \in Clients, Update(c) PROVE FALSE
  BY <1>5 DEF Update, ClientBegin
<1>6. ASSUME NEW c \in Clients, UpdateNothing(c) PROVE Coming'
  <2>1. UpdateDirtyRect(UpdateArea(pending[c])) /\ Inverted(dirty_rect') /\ UNCHANGED vars
    BY <1>6 DEF UpdateNothing
  <2>2. ~unsync_flag
    BY <1>6, <2>1, PendingDraw, UpdateDirtyRectEffect DEF UpdateNothing, SyncShape
  <2>3. dirty_flag
    BY <2>1, Zenon DEF UpdateDirtyRect
  <2>4. Coming
    BY <1>2, <2>1, <2>2, <2>3
  <2>5. QED
    BY <2>1, <2>4 DEF Coming
<1>7. CASE NotSold
  <2>1. /\ sender = "sell" /\ required > available
        /\ UNCHANGED <<flight, done>>
    BY <1>7 DEF NotSold, SellNone
  <2>2. bundle = {} /\ Tickets = pool \union bundle \union flight \union done
    BY <1>1, <2>1 DEF IInv, SenderInv, AllThere
  <2>3. required <= Cardinality(Tickets) /\ available = Cardinality(pool)
    BY <2>1 DEF Affordable, IInv, CountMatchesList
  <2>4. required \in Int /\ available \in Int /\ Cardinality(Tickets) \in Nat
    BY TicketsAssumption, FS_CardinalityType DEF IInv, Shape
  <2>5. pool # Tickets
    BY <2>1, <2>3, <2>4
  <2>6. flight # {} \/ done # {}
    BY <2>2, <2>5
  <2>7. QED
    BY <2>1, <2>6 DEF Coming
<1>8. ASSUME NEW t \in Tickets, Sold \/ SendFull(t) \/ SendLast(t) \/ SendCleanup(t)
      PROVE  FALSE
  BY <1>8 DEF Sold, Sell, SendFull, SubmitFull, SendLast, Flush, SendCleanup, Cleanup,
     IInv, SenderInv
<1>9. ASSUME NEW t \in Tickets, SendFullRefused(t) \/ SendLastRefused(t) PROVE FALSE
  BY <1>9 DEF SendFullRefused, SendLastRefused, Refused
<1>10. ASSUME SendReturns PROVE FALSE
  <2>1. sender = "cleanup"
    BY <1>1, <1>10 DEF SendReturns, SendEnd, AllThere
  <2>2. QED
    BY <1>10, <2>1 DEF SendReturns
<1>11. ASSUME NEW t \in Tickets, Delivered(t) \/ Lost(t) PROVE Coming'
  <2>1. t \in done'
    BY <1>11 DEF Delivered, Lost, UrbDone
  <2>2. QED
    BY <2>1 DEF Coming
<1>12. ASSUME NEW t \in Tickets, Handled(t) PROVE Coming'
  <2> SUFFICES ASSUME flight' = {}, done' = {} PROVE Coming'
    BY DEF Coming
  <2>1. /\ t \in done /\ done' = done \ {t} /\ flight' = flight
        /\ handler' = t /\ all_finished' = LastOneBack
        /\ unsync_flag' = (unsync_flag \/ urb_status[t] = "nonzero")
        /\ UNCHANGED <<urb_status, holder>>
    BY <1>12 DEF Handled, FinishReturn
  <2>2. done = {t} /\ flight = {} /\ bundle = {}
    BY <2>1 DEF IInv, SenderInv
  <2>3. Tickets = pool \union {t} /\ t \notin pool
    BY <1>1, <2>1, <2>2 DEF AllThere, IInv, SingleOwner
  <2>4. Cardinality(Tickets) = Cardinality(pool) + 1
    BY <2>3, FS_AddElement, FS_Subset, TicketsAssumption DEF IInv, Shape
  <2>5. LastOneBack
    BY <2>4 DEF LastOneBack, IInv, CountMatchesList
  <2>6. all_finished' /\ handler' # NoTicket
    BY <2>1, <2>5, TicketsAssumption
  <2>7. urb_status[t] # "nonzero"
    BY <2>1, Zenon
  <2>8. urb_status'[handler'] = "zero"
    BY <2>1, <2>7 DEF IInv, Shape
  <2>9. QED
    BY <2>6, <2>8 DEF Coming
<1>13. CASE HandlerEnds
  <2>1. /\ UNCHANGED <<flight, done, holder, dirty_flag, unsync_flag, work_running>>
        /\ work_pending' =
             (work_pending \/ (all_finished /\ urb_status[handler] = "zero"))
    BY <1>13 DEF HandlerEnds, FinishTail, syncVars
  <2>2. Coming
    BY <1>2, <2>1
  <2>3. QED
    BY <2>1, <2>2, Zenon DEF Coming
<1>14. ASSUME WorkFindsNothing PROVE FALSE
  BY <1>14 DEF WorkFindsNothing, syncVars
<1>15. CASE WorkFindsDirt
  BY <1>15 DEF WorkFindsDirt, WorkStart, Coming
<1>16. ASSUME WorkUpdate PROVE FALSE
  BY <1>16 DEF WorkUpdate, WorkBegin, Connected
<1>17. CASE DirtyReport
  BY <1>17 DEF DirtyReport, ScheduleByStatus, Coming
<1>18. PICK u \in Tickets : TRUE
  BY TicketsAssumption
<1>19. QED
  BY <1>3, <1>4, <1>5, <1>6, <1>7, <1>8, <1>9, <1>10, <1>11, <1>12, <1>13, <1>14, <1>15,
     <1>16, <1>17, <1>18
  DEF SyncNext, ClientUpdates, SyncSenderStep, SyncUsbStep, SyncHandlerStep, SyncWorkStep

(* The bound on errors aside, they are counted.                            *)
LEMMA NextErrors ==
  ASSUME errors \in Nat, [SyncNext]_allVars
  PROVE  errors' \in Nat
<1>1. errors' = errors \/ errors' = errors + 1
  BY DEF SyncNext, allVars, syncVars, countVars, Submitted, DeviceAsks, Draw, ClientUpdates, Update, UpdateNothing, SyncSenderStep,
     NotSold, Sold, SendFull, SendLast, SendFullRefused, SendLastRefused, Refused, SendCleanup,
     SendReturns, SyncUsbStep, Delivered, Lost, SyncHandlerStep, Handled, HandlerEnds,
     SyncWorkStep, WorkFindsNothing, WorkFindsDirt, WorkUpdate, DirtyReport
<1>2. QED
  BY <1>1

(***************************************************************************)
(* _display_update, the completion handler and the flush work: whenever    *)
(* the driver comes to rest with a pixel wrong on the display, it is after *)
(* an error that says so.  No interleaving of drawing, full pools, late    *)
(* handlers and reports leaves a dropped update behind: what               *)
(* EventuallySynced needs besides fairness, for any display, tickets and   *)
(* clients.                                                                *)
(***************************************************************************)
THEOREM RestSafe ==
  ASSUME PoolHoldsImage
  PROVE  SyncSpec => []RestMeansSynced
<1>1. SyncInit => RestInv
  BY DEF SyncInit, Init, RestInv, Connected, AllThere, Affordable, MarkScheduled, DirtScheduled
<1>2. ASSUME IInv, SyncInv, RestInv, [SyncNext]_allVars PROVE RestInv'
  <2>1. errors' \in Nat /\ Connected' /\ AllThere'
    BY <1>2, NextErrors, NextConnected, NextAllThere DEF RestInv, IInv
  <2>2. Affordable' /\ MarkScheduled'
    BY <1>2, NextAffordable, NextMarkScheduled DEF RestInv, IInv, SyncInv
  <2>3. DirtScheduled'
    BY <1>2, NextDirtScheduled DEF RestInv, SyncInv
  <2>4. QED
    BY <2>1, <2>2, <2>3 DEF RestInv
<1>3. ASSUME SyncInv, RestInv PROVE RestMeansSynced
  <2> SUFFICES ASSUME AtRest, ~hinted, ~refused PROVE stale = {} \/ (unsync_flag /\ errors > 0)
    BY DEF RestMeansSynced
  <2>1. ASSUME unsync_flag PROVE errors > 0
    <3>1. errors # 0
      BY <1>3, <2>1 DEF RestInv, MarkScheduled, AtRest
    <3>2. QED
      BY <1>3, <3>1 DEF RestInv
  <2>2. ASSUME ~unsync_flag PROVE stale = {}
    <3>1. ~dirty_flag
      BY <1>3, <2>2 DEF RestInv, DirtScheduled, Coming, AtRest
    <3>2. StaleCovered
      BY <1>3 DEF SyncInv, ImagesForgetNothing
    <3>3. \A p \in stale : FALSE
      BY <2>2, <3>1, <3>2 DEF StaleCovered, AtRest
    <3>4. QED
      BY <3>3
  <2>3. QED
    BY <2>1, <2>2
<1>4. QED
  BY <1>1, <1>2, <1>3, SyncInductive, PTL DEF SyncSpec

=============================================================================
