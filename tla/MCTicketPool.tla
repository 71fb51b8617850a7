---------------------------- MODULE MCTicketPool ----------------------------
(***************************************************************************)
(* TLC instance of TicketPool: three tickets are enough for an image that  *)
(* needs more than one URB to overlap with another one, and for a bundle   *)
(* whose unused part is more than one ticket.                              *)
(***************************************************************************)
EXTENDS TicketPool, TLC

TicketSymmetry == Permutations(Tickets)

=============================================================================
