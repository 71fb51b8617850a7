----------------------------- MODULE BitbltEncoder -----------------------------
(***************************************************************************)
(* The packets of a display transfer (usbhandlers.c): the encoder lays a   *)
(* command and a stream of image bytes out over the packets of the tickets *)
(* it bought, submits each URB that is full and flushes the last one.      *)
(*                                                                         *)
(* Buffers and lengths of the URBs outlive a transfer: a ticket comes back *)
(* with the length its last transfer set, and with bytes left over in its  *)
(* buffer, which are all called Junk here.                                 *)
(***************************************************************************)
EXTENDS BitbltSizing, Sequences, FiniteSets, SequencesExt

CONSTANTS
  Tickets,   \* the tickets of the pool
  NoTicket,  \* the encoder has no ticket
  Payloads,  \* bound: payload estimates of the images sent
  Chunks     \* bound: byte counts of one _bitblt_encode_n_transfer_data call

ASSUME EncoderAssumption ==
  /\ IsFiniteSet(Tickets)
  /\ NoTicket \notin Tickets
  /\ Payloads \subseteq Nat \ 0..(CommandSize - HeaderSize)
  /\ Chunks \subseteq Nat \ {0}

(* A byte in a buffer: left over, of the command, a continuation header,   *)
(* or the k-th byte of the image, written k.                               *)
Junk == -3
CommandByte == -2
Continuation == -1

VARIABLES
  pool,         \* tickets for sale
  flight,       \* tickets whose URB is submitted
  buffer,       \* transfer_buffer of the URB of ctx->ticket
  length,       \* transfer_buffer_length of each ticket's URB
  bundle,       \* the encoder's tickets, from ctx->current_node on
  ticket,       \* ctx->ticket
  packet_pos,   \* ctx->packet_pos
  encoded_pos,  \* ctx->encoded_pos
  estimate,     \* the payload the tickets were bought for
  given,        \* image bytes handed to the encoder so far
  count,        \* bytes the current call still has to copy
  wire,         \* what the URBs of this transfer submitted, in order
  phase         \* "idle", "encode", "sent", "abort" or "bug"

ctxVars == <<bundle, ticket, buffer, packet_pos, encoded_pos>>
vars == <<pool, flight, buffer, length, bundle, ticket, packet_pos,
          encoded_pos, estimate, given, count, wire, phase>>

TypeOK ==
  /\ pool \subseteq Tickets
  /\ flight \subseteq Tickets
  /\ buffer \in Seq(Int) /\ Len(buffer) = TicketSize
  /\ length \in [Tickets -> 0..TicketSize]
  /\ ToSet(bundle) \subseteq Tickets
  /\ ticket \in Tickets \union {NoTicket}
  /\ packet_pos \in 0..packet_size_factor
  /\ encoded_pos \in 0..MaxPacket
  /\ estimate \in Payloads \union {0}
  /\ given \in Nat /\ count \in Nat
  /\ phase \in {"idle", "encode", "sent", "abort", "bug"}

Repeat(b, n) == [i \in 1..n |-> b]

Leftover == Repeat(Junk, TicketSize)

(* _on_alloc_disp_tickets_pool: usb_fill_bulk_urb with the whole buffer.   *)
Init ==
  /\ pool = Tickets
  /\ flight = {}
  /\ buffer = Leftover
  /\ length = [t \in Tickets |-> TicketSize]
  /\ bundle = <<>>
  /\ ticket = NoTicket
  /\ packet_pos = 0
  /\ encoded_pos = 0
  /\ estimate = 0
  /\ given = 0
  /\ count = 0
  /\ wire = <<>>
  /\ phase = "idle"

-----------------------------------------------------------------------------
(* The bytes from offset at + 1 on replaced by s.                          *)
Overwrite(buf, at, s) ==
  [i \in 1..TicketSize |-> IF i - at \in 1..Len(s) THEN s[i - at] ELSE buf[i]]

(* What usb_submit_urb sends of a buffer.                                  *)
Transmit(buf, len) == wire \o SubSeq(buf, 1, len)

(* Mutant: no reset.                                                       *)
KeepLength(t) == UNCHANGED length

(* _on_display_transfer_finished: "reset buffer size", then the return.    *)
ResetLength(t) == length' = [length EXCEPT ![t] = TicketSize]

(* ctx->urbbuffer as an offset into the buffer.                            *)
urbbuffer == packet_pos * MaxPacket

(* _bitblt_encoder_init and _bitblt_encode_command_header, for an image    *)
(* whose payload is estimated at n bytes.                                  *)
Begin(n) ==
  /\ phase = "idle"
  /\ RequiredTickets(n) <= Cardinality(pool)
  /\ \E S \in SUBSET pool :
       /\ Cardinality(S) = RequiredTickets(n)
       /\ pool' = pool \ S
       /\ bundle' \in SetToSeqs(S)
  /\ ticket' = Head(bundle')
  /\ buffer' = Overwrite(Leftover, 0, Repeat(CommandByte, CommandSize))
  /\ packet_pos' = 0
  /\ encoded_pos' = CommandSize
  /\ estimate' = n
  /\ given' = 0
  /\ count' = 0
  /\ wire' = <<>>
  /\ phase' = "encode"
  /\ UNCHANGED <<flight, length>>

(* A call of _bitblt_encode_n_transfer_data with c bytes.                  *)
Call(c) ==
  /\ phase = "encode"
  /\ count = 0
  /\ count' = c
  /\ UNCHANGED <<pool, flight, length, ctxVars, estimate, given, wire, phase>>

(* All calls of a transfer together stay within the estimate; ImageSender  *)
(* has what try_send_image does instead.                                   *)
Give(c) ==
  /\ (CommandSize - HeaderSize) + given + c <= estimate
  /\ Call(c)

-----------------------------------------------------------------------------
(* The rounds of its while loop.                                           *)

buffer_avail_length == MaxPacket - encoded_pos

size_to_copy == IF count > buffer_avail_length THEN buffer_avail_length ELSE count

(* The memcpy of the round.                                                *)
Copied ==
  Overwrite(buffer, urbbuffer + encoded_pos,
            [i \in 1..size_to_copy |-> given + i])

Copy ==
  /\ phase = "encode"
  /\ count # 0
  /\ count' = count - size_to_copy
  /\ given' = given + size_to_copy
  /\ UNCHANGED estimate

(* The packet is not full yet.                                             *)
FillPacket ==
  /\ Copy
  /\ buffer_avail_length # size_to_copy
  /\ buffer' = Copied
  /\ encoded_pos' = encoded_pos + size_to_copy
  /\ UNCHANGED <<pool, flight, length, bundle, ticket, packet_pos, wire, phase>>

(* Mutant: the image overwrites the packet header.                         *)
NextPacketNoHeader ==
  /\ Copy
  /\ buffer_avail_length = size_to_copy
  /\ packet_pos + 1 < packet_size_factor
  /\ packet_pos' = packet_pos + 1
  /\ buffer' = Copied
  /\ encoded_pos' = 0
  /\ UNCHANGED <<pool, flight, length, bundle, ticket, wire, phase>>

(* The packet is full, the URB is not: the next packet gets its header.    *)
NextPacket ==
  /\ Copy
  /\ buffer_avail_length = size_to_copy
  /\ packet_pos + 1 < packet_size_factor
  /\ packet_pos' = packet_pos + 1
  /\ buffer' = Overwrite(Copied, urbbuffer + MaxPacket, Repeat(Continuation, HeaderSize))
  /\ encoded_pos' = HeaderSize
  /\ UNCHANGED <<pool, flight, length, bundle, ticket, wire, phase>>

(* The URB is full and accepted; the next ticket of the bundle follows,    *)
(* or the BUG_ON strikes.                                                  *)
NextTicket ==
  /\ Copy
  /\ buffer_avail_length = size_to_copy
  /\ packet_pos + 1 >= packet_size_factor
  /\ flight' = flight \union {ticket}
  /\ wire' = Transmit(Copied, length[ticket])
  /\ bundle' = Tail(bundle)
  /\ packet_pos' = 0
  /\ IF bundle' = <<>>
     THEN /\ phase' = "bug"
          /\ buffer' = Leftover
          /\ ticket' = NoTicket
          /\ UNCHANGED encoded_pos
     ELSE /\ ticket' = Head(bundle')
          /\ buffer' = Overwrite(Leftover, 0, Repeat(Continuation, HeaderSize))
          /\ encoded_pos' = HeaderSize
          /\ UNCHANGED phase
  /\ UNCHANGED <<pool, length>>

(* The full URB is refused: its ticket returns, the caller cleans up.      *)
NextTicketRefused ==
  /\ Copy
  /\ buffer_avail_length = size_to_copy
  /\ packet_pos + 1 >= packet_size_factor
  /\ buffer' = Leftover
  /\ ResetLength(ticket)
  /\ pool' = pool \union ToSet(bundle)
  /\ bundle' = <<>>
  /\ ticket' = NoTicket
  /\ phase' = "abort"
  /\ UNCHANGED <<flight, packet_pos, encoded_pos, wire>>

-----------------------------------------------------------------------------
(* _bitblt_encoder_flush, when the caller has no more bytes.  The unused   *)
(* tickets return.                                                         *)
transfer_size == packet_pos * MaxPacket + encoded_pos

Flush ==
  /\ phase = "encode"
  /\ count = 0
  /\ given > 0
  /\ length' = [length EXCEPT ![ticket] = transfer_size]
  /\ wire' = Transmit(buffer, length'[ticket])
  /\ flight' = flight \union {ticket}
  /\ pool' = pool \union ToSet(Tail(bundle))
  /\ bundle' = <<>>
  /\ ticket' = NoTicket
  /\ phase' = "sent"
  /\ buffer' = Leftover
  /\ UNCHANGED <<packet_pos, encoded_pos, estimate, given, count>>

(* The last URB is refused: its ticket returns, the others stay behind.    *)
FlushRefused ==
  /\ phase = "encode"
  /\ count = 0
  /\ given > 0
  /\ ResetLength(ticket)
  /\ pool' = pool \union {ticket}
  /\ bundle' = <<>>
  /\ ticket' = NoTicket
  /\ buffer' = Leftover
  /\ phase' = "abort"
  /\ UNCHANGED <<flight, packet_pos, encoded_pos, estimate, given, count, wire>>

(* The transfer is over for the caller, whichever way it ended.            *)
End ==
  /\ phase \in {"sent", "abort"}
  /\ phase' = "idle"
  /\ packet_pos' = 0 /\ encoded_pos' = 0
  /\ estimate' = 0 /\ given' = 0 /\ count' = 0
  /\ wire' = <<>>
  /\ UNCHANGED <<pool, flight, length, bundle, ticket, buffer>>

(* rpusbdisp_usb_try_draw_rect and _copy_area: one short URB.  A refused   *)
(* one leaves the ticket as it was.                                        *)
SendCommand(t, size) ==
  /\ phase = "idle"
  /\ t \in pool
  /\ pool' = pool \ {t}
  /\ flight' = flight \union {t}
  /\ length' = [length EXCEPT ![t] = size]
  /\ UNCHANGED <<ctxVars, estimate, given, count, wire, phase>>

(* _on_display_transfer_finished of a submitted URB.                       *)
Finished(t) ==
  /\ t \in flight
  /\ flight' = flight \ {t}
  /\ pool' = pool \union {t}
  /\ ResetLength(t)
  /\ UNCHANGED <<ctxVars, estimate, given, count, wire, phase>>

-----------------------------------------------------------------------------
Next ==
  \/ \E n \in Payloads : Begin(n)
  \/ \E c \in Chunks : Give(c)
  \/ FillPacket
  \/ NextPacket
  \/ NextTicket
  \/ NextTicketRefused
  \/ Flush
  \/ FlushRefused
  \/ End
  \/ \E t \in Tickets : SendCommand(t, CommandSize)
  \/ \E t \in Tickets : Finished(t)

Spec == Init /\ [][Next]_vars

-----------------------------------------------------------------------------
(* Where the j-th byte besides the headers belongs in a stream of packets  *)
(* that start with a header each.                                          *)
WirePosition(j) == j + HeaderSize * (1 + (j - 1) \div PayloadPerPacket)

(* The device, which strips the header of every packet, gets the command   *)
(* and then every image byte exactly once and in order, whatever sizes the *)
(* encoder was called with and whatever the tickets were used for before.  *)
DeviceGetsImage ==
  phase = "sent" =>
    /\ \A i \in 1..CommandSize : wire[i] = CommandByte
    /\ \A k \in 1..given : wire[WirePosition(CommandSize - HeaderSize + k)] = k
    /\ \A i \in CommandSize + 1..Len(wire) :
         (i - 1) % MaxPacket < HeaderSize => wire[i] = Continuation
    /\ LET last == WirePosition(CommandSize - HeaderSize + given)
       IN  Len(wire) = IF last % MaxPacket = 0 THEN last + HeaderSize ELSE last

(* The BUG_ON(ctx->current_node == &ctx->bundle.ticket_list) strikes only  *)
(* when the image fills the tickets bought for it to the last byte.        *)
BugOnlyWhenFull ==
  phase = "bug" =>
    /\ given + (CommandSize - HeaderSize) = estimate
    /\ Overruns(estimate, RequiredTickets(estimate))

=============================================================================
