----------------------------- MODULE MCImageSender -----------------------------
(***************************************************************************)
(* TLC instance of ImageSender: packets of five bytes, three to an URB.    *)
(* Four pixels at their worst and five without RLE fill one ticket to the  *)
(* last byte, eleven without RLE two; five and nine pixels stay below two  *)
(* tickets, and eleven at their worst need three.                          *)
(***************************************************************************)
EXTENDS ImageSender

SenderSymmetry == Permutations(Tickets) \union Permutations(Pixels)

=============================================================================
