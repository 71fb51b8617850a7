---------------------------- MODULE MCDisplaySync ----------------------------
(***************************************************************************)
(* TLC instance of DisplaySync: a display of two by two pixels, where one  *)
(* ticket carries half of it, so that a full image takes every ticket and  *)
(* a single pixel does not.                                                *)
(***************************************************************************)
EXTENDS DisplaySync, TLC

(* Two opposite corners: the bounding box of both is the whole display.    *)
MCDrawRects == {[x |-> 0, y |-> 0, width |-> 1, height |-> 1],
                [x |-> 1, y |-> 1, width |-> 1, height |-> 1]}

TicketSymmetry == Permutations(Tickets) \union Permutations(Clients)

=============================================================================
