------------------------------ MODULE TicketPool ------------------------------
(***************************************************************************)
(* The display-transfer tickets of the Linux driver (usbhandlers.c).       *)
(*                                                                         *)
(* A ticket owns one bulk URB.  The framebuffer side buys a bundle of      *)
(* tickets, submits their URBs one by one and hands the unused ones back;  *)
(* the USB core gives every submitted URB back through the completion      *)
(* handler, which puts its ticket into the pool again and, when it was the *)
(* last one out, schedules the flush work.  Disconnecting the device stops *)
(* the senders, drains the pool and frees everything.                      *)
(*                                                                         *)
(* Three contexts interleave: the holder of the framebuffer's              *)
(* operation_lock (a client or the flush work), the giveback of the USB    *)
(* core, and the disconnect callback.  An action is one critical section   *)
(* of disp_tickets_pool.oplock or one step outside of it.                  *)
(***************************************************************************)
EXTENDS Integers, FiniteSets

CONSTANTS
  Tickets,    \* the tickets _on_alloc_disp_tickets_pool managed to allocate
  MaxTickets, \* RPUSBDISP_MAX_TRANSFER_TICKETS_COUNT
  NoTicket    \* the completion handler is not running

(* _on_alloc_disp_tickets_pool fails unless it allocates at least one      *)
(* ticket, and stops at MaxTickets.                                        *)
ASSUME TicketsAssumption ==
  /\ IsFiniteSet(Tickets)
  /\ Tickets # {}
  /\ MaxTickets \in Nat
  /\ Cardinality(Tickets) <= MaxTickets
  /\ NoTicket \notin Tickets

VARIABLES
  pool,          \* disp_tickets_pool.list
  available,     \* disp_tickets_pool.availiable_count
  bundle,        \* the sender's tickets from ctx->current_node on
  flight,        \* tickets whose URB the host controller owns
  done,          \* tickets whose URB waits for its completion handler
  urb_status,    \* urb->status of each ticket, "zero" or "nonzero"
  handler,       \* the ticket whose handler ran _return_disp_tickets
  all_finished,  \* what _return_disp_tickets told that handler
  freed,         \* tickets released by _on_release_disp_tickets_pool
  sender,        \* control state of the operation_lock holder
  holder,        \* who holds operation_lock: "none", "client" or "work"
  required,      \* required_count of the sender
  work_pending,  \* completion_work is queued
  work_running,  \* completion_work executes
  is_alive,      \* dev->is_alive
  bound,         \* the framebuffer's binded_usbdev is this device
  disconnect     \* control state of _on_del_usb_device

urbVars == <<flight, done, urb_status>>
poolVars == <<pool, available>>
handlerVars == <<handler, all_finished>>
senderVars == <<sender, holder, required, bundle>>
workVars == <<work_pending, work_running>>
devVars == <<is_alive, bound, disconnect, freed>>
vars == <<pool, available, bundle, flight, done, urb_status, handler,
          all_finished, freed, sender, holder, required, work_pending,
          work_running, is_alive, bound, disconnect>>

SenderStates == {"idle", "sell", "send", "abort", "cleanup"}
DisconnectStates ==
  {"up", "unplugged", "dead", "unbound", "drain", "gone"}

(***************************************************************************)
(* Tickets no list, no URB and no context refers to any more.              *)
(***************************************************************************)
Leaked == Tickets \ (pool \union bundle \union flight \union done \union freed)

TypeOK ==
  /\ pool \subseteq Tickets
  /\ available \in 0..MaxTickets
  /\ bundle \subseteq Tickets
  /\ flight \subseteq Tickets
  /\ done \subseteq Tickets
  /\ urb_status \in [Tickets -> {"zero", "nonzero"}]
  /\ handler \in Tickets \union {NoTicket}
  /\ all_finished \in BOOLEAN
  /\ freed \subseteq Tickets
  /\ sender \in SenderStates
  /\ holder \in {"none", "client", "work"}
  /\ required \in 0..MaxTickets
  /\ work_pending \in BOOLEAN
  /\ work_running \in BOOLEAN
  /\ is_alive \in BOOLEAN
  /\ bound \in BOOLEAN
  /\ disconnect \in DisconnectStates

(***************************************************************************)
(* _on_alloc_disp_tickets_pool and _on_new_usb_device: all tickets are in  *)
(* the pool, the device is alive and bound, and the flush work is queued.  *)
(* A fresh URB's status is zero.                                           *)
(***************************************************************************)
Init ==
  /\ pool = Tickets
  /\ available = Cardinality(Tickets)
  /\ bundle = {}
  /\ flight = {}
  /\ done = {}
  /\ urb_status = [t \in Tickets |-> "zero"]
  /\ handler = NoTicket
  /\ all_finished = FALSE
  /\ freed = {}
  /\ sender = "idle"
  /\ holder = "none"
  /\ required = 0
  /\ work_pending = TRUE
  /\ work_running = FALSE
  /\ is_alive = TRUE
  /\ bound = TRUE
  /\ disconnect = "up"

-----------------------------------------------------------------------------
(* The sender, inside operation_lock.                                      *)

(* The sender leaves _display_update; when it was the work, the work ends. *)
ReleaseLock ==
  /\ holder' = "none"
  /\ sender' = "idle"
  /\ required' = 0
  /\ work_running' = (work_running /\ holder # "work")

(* _display_update of a client, up to the unlocked is_alive test of        *)
(* _sell_disp_tickets: n tickets are wanted (1 for a command).             *)
ClientBegin(n) ==
  /\ holder = "none"
  /\ bound
  /\ is_alive
  /\ holder' = "client"
  /\ sender' = "sell"
  /\ required' = n
  /\ UNCHANGED <<poolVars, urbVars, handlerVars, workVars, devVars, bundle>>

(* The locked part of _sell_disp_tickets when too few tickets are there:   *)
(* nothing is taken.  An image beyond MaxTickets, which the encoder        *)
(* refuses on its own, would be refused here too.                          *)
SellNone ==
  /\ sender = "sell"
  /\ required > available
  /\ ReleaseLock
  /\ UNCHANGED <<poolVars, urbVars, handlerVars, devVars, bundle, work_pending>>

(* Mutant: the counter is not decremented.                                 *)
SellUncounted ==
  /\ sender = "sell"
  /\ required <= available
  /\ \E S \in SUBSET pool :
       /\ Cardinality(S) = required
       /\ pool' = pool \ S
       /\ bundle' = S
  /\ sender' = "send"
  /\ UNCHANGED <<urbVars, handlerVars, workVars, devVars, holder, required, available>>

(* The locked part of _sell_disp_tickets: required_count tickets move from *)
(* the pool to the bundle.                                                 *)
Sell ==
  /\ sender = "sell"
  /\ required <= available
  /\ available' = available - required
  /\ \E S \in SUBSET pool :
       /\ Cardinality(S) = required
       /\ pool' = pool \ S
       /\ bundle' = S
  /\ sender' = "send"
  /\ UNCHANGED <<urbVars, handlerVars, workVars, devVars, holder, required>>

(* usb_submit_urb accepts: the URB is the host controller's, its status    *)
(* -EINPROGRESS.  From the unplugging on every submission is refused.      *)
SubmitAccepted(t) ==
  /\ disconnect = "up"
  /\ flight' = flight \union {t}
  /\ urb_status' = [urb_status EXCEPT ![t] = "nonzero"]
  /\ UNCHANGED done

(* usb_submit_urb refuses, before or after it writes urb->status.          *)
SubmitRefused(t) ==
  /\ \E s \in {urb_status[t], "nonzero"} :
       urb_status' = [urb_status EXCEPT ![t] = s]
  /\ UNCHANGED <<flight, done>>

(* Mutant: the counter is not incremented.                                 *)
ReturnUncounted(t) ==
  /\ pool' = pool \union {t}
  /\ UNCHANGED available

(* _return_disp_tickets, the part under oplock.                            *)
Return(t) ==
  /\ pool' = pool \union {t}
  /\ available' = available + 1

(* Mutant: one ticket too many is waited for.                              *)
LastOneBackOffByOne == available = Cardinality(Tickets)

LastOneBack == available + 1 = Cardinality(Tickets)

(* The handler as usbhandlers.c calls it for a refused submission: the     *)
(* ticket returns, and the work is scheduled when it was the last one and  *)
(* the URB carries no error.                                               *)
FinishRefused(t) ==
  /\ SubmitRefused(t)
  /\ Return(t)
  /\ work_pending' = (work_pending \/ (LastOneBack /\ urb_status'[t] = "zero"))

(* _bitblt_encode_n_transfer_data: the current URB is full and submitted;  *)
(* the encoder moves on to the next ticket of the bundle.                  *)
SubmitFull(t) ==
  /\ sender = "send"
  /\ t \in bundle
  /\ bundle # {t}
  /\ SubmitAccepted(t)
  /\ bundle' = bundle \ {t}
  /\ UNCHANGED <<poolVars, handlerVars, workVars, devVars, sender, holder, required>>

(* The same submission refused: the encoder aborts and cleans up.          *)
SubmitFullRefused(t) ==
  /\ sender = "send"
  /\ t \in bundle
  /\ bundle # {t}
  /\ FinishRefused(t)
  /\ bundle' = bundle \ {t}
  /\ sender' = "abort"
  /\ UNCHANGED <<handlerVars, devVars, work_running, holder, required>>

(* Mutant: ctx->current_node is not advanced before the submission.        *)
FlushNotAdvanced(t) ==
  /\ sender = "send"
  /\ t \in bundle
  /\ SubmitAccepted(t)
  /\ sender' = "cleanup"
  /\ UNCHANGED <<poolVars, handlerVars, workVars, devVars, holder, required, bundle>>

(* _bitblt_encoder_flush, and the one submission of try_draw_rect and      *)
(* try_copy_area: the last used URB is accepted.                           *)
Flush(t) ==
  /\ sender = "send"
  /\ t \in bundle
  /\ SubmitAccepted(t)
  /\ bundle' = bundle \ {t}
  /\ sender' = "cleanup"
  /\ UNCHANGED <<poolVars, handlerVars, workVars, devVars, holder, required>>

(* The same submission refused: return 0, and no cleanup of the bundle,    *)
(* which goes out of scope with the tickets still on it.                   *)
FlushRefused(t) ==
  /\ sender = "send"
  /\ t \in bundle
  /\ FinishRefused(t)
  /\ bundle' = {}
  /\ ReleaseLock
  /\ UNCHANGED <<handlerVars, devVars>>

(* One round of _bitblt_encoder_cleanup, which ignores all_finished.       *)
Cleanup(t) ==
  /\ sender \in {"abort", "cleanup"}
  /\ t \in bundle
  /\ bundle' = bundle \ {t}
  /\ Return(t)
  /\ UNCHANGED <<urbVars, handlerVars, workVars, devVars, sender, holder, required>>

(* Mutant: the cleanup is cut short.                                       *)
SendEndEarly ==
  /\ sender \in {"abort", "cleanup"}
  /\ bundle' = {}
  /\ ReleaseLock
  /\ UNCHANGED <<poolVars, urbVars, handlerVars, devVars, work_pending>>

(* The sender is through and releases operation_lock.                      *)
SendEnd ==
  /\ sender \in {"abort", "cleanup"}
  /\ bundle = {}
  /\ ReleaseLock
  /\ UNCHANGED <<poolVars, urbVars, handlerVars, devVars, bundle, work_pending>>

-----------------------------------------------------------------------------
(* The USB core and the completion handler.                                *)

(* External: the host controller finishes an URB, or the core unlinks it.  *)
UrbDone(t, s) ==
  /\ t \in flight
  /\ flight' = flight \ {t}
  /\ done' = done \union {t}
  /\ urb_status' = [urb_status EXCEPT ![t] = s]
  /\ UNCHANGED <<poolVars, handlerVars, senderVars, workVars, devVars>>

(* _on_display_transfer_finished up to the unlock in                       *)
(* _return_disp_tickets.  Givebacks of one host controller are serialised. *)
FinishReturn(t) ==
  /\ t \in done
  /\ handler = NoTicket
  /\ done' = done \ {t}
  /\ Return(t)
  /\ handler' = t
  /\ all_finished' = LastOneBack
  /\ UNCHANGED <<flight, urb_status, senderVars, workVars, devVars>>

(* The rest of the handler: urb->status is read again, after the ticket    *)
(* has been given away, and the work is scheduled without an is_alive test.*)
FinishTail ==
  /\ handler # NoTicket
  /\ work_pending' =
       (work_pending \/ (all_finished /\ urb_status[handler] = "zero"))
  /\ handler' = NoTicket
  /\ all_finished' = FALSE
  /\ UNCHANGED <<poolVars, urbVars, senderVars, devVars, work_running>>

-----------------------------------------------------------------------------
(* The flush work.                                                         *)

(* The status handler schedules the work on a dirty report; one that saw   *)
(* the device alive may still do so until usb_kill_urb has waited for it.  *)
ScheduleByStatus ==
  /\ disconnect \in {"up", "unplugged", "dead", "unbound"}
  /\ work_pending' = TRUE
  /\ UNCHANGED <<poolVars, urbVars, handlerVars, senderVars, devVars, work_running>>

(* _on_display_transfer_finished_delaywork starts; a dead device ends it,  *)
(* and so does a framebuffer with nothing to flush.  What a work does on   *)
(* freed memory is not modelled.                                           *)
WorkIdle ==
  /\ work_pending /\ ~work_running
  /\ disconnect # "gone"
  /\ work_pending' = FALSE
  /\ UNCHANGED <<poolVars, urbVars, handlerVars, senderVars, devVars, work_running>>

WorkStart ==
  /\ work_pending /\ ~work_running
  /\ is_alive
  /\ work_pending' = FALSE
  /\ work_running' = TRUE
  /\ UNCHANGED <<poolVars, urbVars, handlerVars, senderVars, devVars>>

(* The work's _display_update: a full image of n tickets, or nothing when  *)
(* the device has been unbound or has died meanwhile.                      *)
WorkBegin(n) ==
  /\ work_running
  /\ holder = "none"
  /\ IF bound /\ is_alive
     THEN /\ holder' = "work"
          /\ sender' = "sell"
          /\ required' = n
          /\ UNCHANGED work_running
     ELSE /\ work_running' = FALSE
          /\ UNCHANGED <<holder, sender, required>>
  /\ UNCHANGED <<poolVars, urbVars, handlerVars, devVars, bundle, work_pending>>

-----------------------------------------------------------------------------
(* Disconnection.                                                          *)

(* External: the device is unplugged or the driver unbound.  The core      *)
(* disables the endpoints first, so submissions fail from here on.         *)
Unplug ==
  /\ disconnect = "up"
  /\ disconnect' = "unplugged"
  /\ UNCHANGED <<poolVars, urbVars, handlerVars, senderVars, workVars,
                 is_alive, bound, freed>>

(* External: the core has flushed the endpoints' queues (no URB is with    *)
(* the host controller; givebacks may still be due) and calls the driver.  *)
(* _on_del_usb_device clears is_alive.                                     *)
MarkDead ==
  /\ disconnect = "unplugged"
  /\ flight = {}
  /\ is_alive' = FALSE
  /\ disconnect' = "dead"
  /\ UNCHANGED <<poolVars, urbVars, handlerVars, senderVars, workVars, bound, freed>>

(* Mutant: operation_lock is not taken.                                    *)
UnbindUnlocked ==
  /\ disconnect = "dead"
  /\ bound' = FALSE
  /\ disconnect' = "unbound"
  /\ UNCHANGED <<poolVars, urbVars, handlerVars, senderVars, workVars, is_alive, freed>>

(* fbhandler_on_remove_device, under operation_lock.                       *)
Unbind ==
  /\ disconnect = "dead"
  /\ holder = "none"
  /\ bound' = FALSE
  /\ disconnect' = "unbound"
  /\ UNCHANGED <<poolVars, urbVars, handlerVars, senderVars, workVars, is_alive, freed>>

(* Mutant: cancel_delayed_work, which does not wait for a running work.    *)
CancelWorkNoWait ==
  /\ disconnect = "unbound"
  /\ work_pending' = FALSE
  /\ disconnect' = "drain"
  /\ UNCHANGED <<poolVars, urbVars, handlerVars, senderVars, work_running,
                 is_alive, bound, freed>>

(* usb_kill_urb of the status URB and cancel_delayed_work_sync, which      *)
(* dequeues the work and waits for a running one.                          *)
CancelWork ==
  /\ disconnect = "unbound"
  /\ ~work_running
  /\ work_pending' = FALSE
  /\ disconnect' = "drain"
  /\ UNCHANGED <<poolVars, urbVars, handlerVars, senderVars, work_running,
                 is_alive, bound, freed>>

(* One round of _on_release_disp_tickets_pool that finds a ticket; a round *)
(* that finds none waits and leaves everything alone.                      *)
Drain ==
  /\ disconnect = "drain"
  /\ freed # Tickets
  /\ available # 0
  /\ available' = available - 1
  /\ \E t \in pool :
       /\ pool' = pool \ {t}
       /\ freed' = freed \union {t}
  /\ UNCHANGED <<urbVars, handlerVars, senderVars, workVars, is_alive, bound, disconnect>>

(* tickets_count is down to zero; rpusbdisp_disconnect frees the device.   *)
FreeDevice ==
  /\ disconnect = "drain"
  /\ Cardinality(freed) = Cardinality(Tickets)
  /\ disconnect' = "gone"
  /\ UNCHANGED <<poolVars, urbVars, handlerVars, senderVars, workVars,
                 is_alive, bound, freed>>

-----------------------------------------------------------------------------
SenderStep ==
  \/ SellNone
  \/ Sell
  \/ \E t \in Tickets :
       \/ SubmitFull(t)
       \/ SubmitFullRefused(t)
       \/ Flush(t)
       \/ FlushRefused(t)
       \/ Cleanup(t)
  \/ SendEnd

UsbStep == \E t \in Tickets, s \in {"zero", "nonzero"} : UrbDone(t, s)

HandlerStep == (\E t \in Tickets : FinishReturn(t)) \/ FinishTail

WorkStep == WorkIdle \/ WorkStart \/ \E n \in 1..MaxTickets : WorkBegin(n)

DisconnectStep == MarkDead \/ Unbind \/ CancelWork \/ Drain \/ FreeDevice

Next ==
  \/ \E n \in 1..MaxTickets : ClientBegin(n)
  \/ SenderStep
  \/ UsbStep
  \/ HandlerStep
  \/ ScheduleByStatus
  \/ WorkStep
  \/ Unplug
  \/ DisconnectStep

Spec == Init /\ [][Next]_vars

(***************************************************************************)
(* Threads that are not blocked go on, the USB core gives back every URB   *)
(* it accepted, queued work runs.  Nothing forces a client to draw, the    *)
(* device to report or anybody to unplug it.                               *)
(***************************************************************************)
Fairness ==
  /\ WF_vars(SenderStep)
  /\ WF_vars(UsbStep)
  /\ WF_vars(HandlerStep)
  /\ WF_vars(WorkStep)
  /\ WF_vars(DisconnectStep)

FairSpec == Spec /\ Fairness

-----------------------------------------------------------------------------
(* No ticket is in two places at once: a ticket whose URB is submitted or  *)
(* being given back is neither for sale nor held nor freed.                *)
SingleOwner ==
  /\ pool \intersect (bundle \union flight \union done \union freed) = {}
  /\ bundle \intersect (flight \union done \union freed) = {}
  /\ flight \intersect (done \union freed) = {}
  /\ done \intersect freed = {}

(* availiable_count, which _sell_disp_tickets and the drain loop trust     *)
(* before they take list.next, is the length of the list.                  *)
CountMatchesList == available = Cardinality(pool)

(* Once _on_release_disp_tickets_pool runs, no sender and no flush work    *)
(* uses the pool any more: nobody holds operation_lock or unsent tickets.  *)
(* When rpusbdisp_disconnect frees the device each ticket is freed: no URB *)
(* that would call back with this device is left.                          *)
DrainIsExclusive ==
  /\ disconnect \in {"drain", "gone"} =>
       holder = "none" /\ bundle = {} /\ ~work_running
  /\ disconnect = "gone" =>
       freed = Tickets /\ pool \union bundle \union flight \union done = {}

(* Tickets get lost in one place only: a refused submission in             *)
(* _bitblt_encoder_flush, which leaves without _bitblt_encoder_cleanup.    *)
LeakOnlyInRefusedFlush ==
  [][Leaked' # Leaked => \E t \in bundle : FlushRefused(t)]_vars

(* usbhandlers.c:841 "waiting for all tickets to be finished...": the wait *)
(* of _on_release_disp_tickets_pool ends and the device is released,       *)
(* unless tickets were lost before; with one lost it never ends.           *)
DisconnectEnds ==
  disconnect = "unplugged" ~> (disconnect = "gone" \/ Leaked # {})

(* The pool of _sell_disp_tickets, _return_disp_tickets, the completion    *)
(* handler and _on_release_disp_tickets_pool implements the ledger: a      *)
(* ticket given back by the core counts as out on the bus until its        *)
(* handler has returned it.                                                *)
Ledger == INSTANCE TicketLedger WITH
  for_sale <- pool,
  held <- bundle,
  on_bus <- flight \union done,
  gone <- freed

ImplementsLedger == Ledger!LedgerSpec

(* usbhandlers.c:1001 "kill all pending urbs": after that line and the     *)
(* cancellation no completion queues the work, so none is queued on a      *)
(* freed device.                                                           *)
NoWorkOnFreedDevice == disconnect = "gone" => ~work_pending

=============================================================================
