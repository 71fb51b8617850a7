----------------------------- MODULE TicketLedger -----------------------------
(***************************************************************************)
(* What the ticket pool of usbhandlers.c promises, without its counter,    *)
(* its locks, its URB states and its life cycle: who has each ticket.      *)
(*                                                                         *)
(* A ticket is for sale, with the one sender there may be, out on the bus  *)
(* or freed; a ticket in none of these places is lost.  Nothing that is    *)
(* lost or freed ever comes back, nothing is sold once the first ticket    *)
(* has been freed, and nothing is freed while a sender has tickets.        *)
(***************************************************************************)
CONSTANT Tickets

VARIABLES
  for_sale,  \* tickets _sell_disp_tickets may hand out
  held,      \* tickets of the sender
  on_bus,    \* tickets whose URB is the USB core's
  gone       \* freed tickets

ledger == <<for_sale, held, on_bus, gone>>

LedgerInit ==
  /\ for_sale = Tickets
  /\ held = {}
  /\ on_bus = {}
  /\ gone = {}

(* _sell_disp_tickets: all that were asked for, to one sender at a time.   *)
Buy(S) ==
  /\ held = {}
  /\ gone = {}
  /\ S \subseteq for_sale
  /\ for_sale' = for_sale \ S
  /\ held' = S
  /\ UNCHANGED <<on_bus, gone>>

(* usb_submit_urb accepts the ticket's URB.                                *)
Submit(t) ==
  /\ t \in held
  /\ held' = held \ {t}
  /\ on_bus' = on_bus \union {t}
  /\ UNCHANGED <<for_sale, gone>>

(* _return_disp_tickets from the completion handler.                       *)
Complete(t) ==
  /\ t \in on_bus
  /\ on_bus' = on_bus \ {t}
  /\ for_sale' = for_sale \union {t}
  /\ UNCHANGED <<held, gone>>

(* _return_disp_tickets of a ticket that was not submitted.                *)
GiveBack(t) ==
  /\ t \in held
  /\ held' = held \ {t}
  /\ for_sale' = for_sale \union {t}
  /\ UNCHANGED <<on_bus, gone>>

(* A refused submission that ends the sender: its other tickets are lost.  *)
Abandon(t) ==
  /\ t \in held
  /\ held' = {}
  /\ for_sale' = for_sale \union {t}
  /\ UNCHANGED <<on_bus, gone>>

(* _on_release_disp_tickets_pool frees one ticket.                         *)
Release(t) ==
  /\ held = {}
  /\ t \in for_sale
  /\ for_sale' = for_sale \ {t}
  /\ gone' = gone \union {t}
  /\ UNCHANGED <<held, on_bus>>

LedgerNext ==
  \/ \E S \in SUBSET Tickets : Buy(S)
  \/ \E t \in Tickets :
       \/ Submit(t)
       \/ Complete(t)
       \/ GiveBack(t)
       \/ Abandon(t)
       \/ Release(t)

LedgerSpec == LedgerInit /\ [][LedgerNext]_ledger

=============================================================================
