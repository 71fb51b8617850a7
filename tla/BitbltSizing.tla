----------------------------- MODULE BitbltSizing -----------------------------
(***************************************************************************)
(* How many tickets _bitblt_encoder_init buys for an image, and how much   *)
(* of an encoded image they hold (usbhandlers.c).                          *)
(***************************************************************************)
EXTENDS Integers

CONSTANTS
  MaxPacket,    \* disp_out_ep_max_size, the packet size of the bulk endpoint
  MaxTransfer,  \* RPUSBDISP_MAX_TRANSFER_SIZE, the buffer of an URB
  MaxSection,   \* RPUSBDISP_RLE_BLOCKFLAG_SIZE_BIT + 1
  HeaderSize,   \* sizeof(rpusbdisp_disp_packet_header_t)
  CommandSize   \* sizeof(rpusbdisp_disp_bitblt_packet_t), header included

(* A packet holds more than the bitblt command; the encoder's unsigned     *)
(* subtractions would wrap otherwise.                                      *)
ASSUME SizingAssumption ==
  /\ {MaxPacket, MaxTransfer, MaxSection, HeaderSize, CommandSize} \subseteq Nat \ {0}
  /\ HeaderSize < CommandSize
  /\ CommandSize < MaxPacket
  /\ MaxPacket <= MaxTransfer

(* _on_alloc_disp_tickets_pool: whole packets per URB.                     *)
packet_size_factor == MaxTransfer \div MaxPacket

TicketSize == packet_size_factor * MaxPacket

RoundUpDiv(a, b) == (a + b - 1) \div b

PayloadPerPacket == MaxPacket - HeaderSize

(* What one ticket carries besides the packet headers.                     *)
PayloadPerTicket == packet_size_factor * PayloadPerPacket

(* An RLE image costs one byte more for every section it may need.         *)
PayloadEstimate(image_size, rlemode) ==
  (CommandSize - HeaderSize) + image_size
    + (IF rlemode THEN RoundUpDiv(image_size \div 2, MaxSection) ELSE 0)

(* Mutant: rounded down.                                                   *)
PacketCountRoundedDown(payload) == payload \div PayloadPerPacket

PacketCount(payload) == RoundUpDiv(payload, PayloadPerPacket)

(* Mutant: one ticket per packet.                                          *)
RequiredTicketsPerPacket(payload) == PacketCount(payload)

RequiredTickets(payload) == RoundUpDiv(PacketCount(payload), packet_size_factor)

(* Whoever fills the last packet of the last ticket makes the encoder ask  *)
(* for a further ticket, the BUG_ON of _bitblt_encode_n_transfer_data.     *)
Overruns(payload, bought) == payload >= bought * PayloadPerTicket

=============================================================================
