------------------------------ MODULE ImageSender ------------------------------
(***************************************************************************)
(* rpusbdisp_usb_try_send_image (usbhandlers.c): the pixels of an image go *)
(* one by one through the run-length encoder, or past it when the firmware *)
(* does not know RLE, and what comes out goes through the packet encoder.  *)
(* The tickets were bought before the first pixel was looked at.           *)
(***************************************************************************)
EXTENDS BitbltEncoder

CONSTANTS
  Pixels,     \* pixel values
  MaxPixels,  \* bound: pixels in an image
  Areas       \* bound: numbers of pixels of the images sent

VARIABLES
  (* rle_ctx and its output, as in RleEncoder; without RLE the output only. *)
  section_data, section_size, is_common_section, bytes, decoded, consumed,
  full_sections, finished,
  area,        \* the pixels of the image
  rlemode,     \* the firmware knows RLE
  header_next  \* the header byte of a flushed section is encoded next

R == INSTANCE RleEncoder

rleVars == <<section_data, section_size, is_common_section, bytes, decoded,
             consumed, full_sections, finished>>
imageVars == <<rleVars, area, rlemode, header_next>>

(* BitbltEncoder is instantiated for these images and their sections.      *)
ASSUME SenderAssumption ==
  /\ MaxSection > 1
  /\ MaxPixels \in Nat
  /\ Areas \subseteq 1..MaxPixels
  /\ \A n \in Areas, m \in BOOLEAN : PayloadEstimate(2 * n, m) \in Payloads
  /\ 1..2 * MaxSection \subseteq Chunks

ImageInit ==
  /\ Init
  /\ R!Init
  /\ area = 0
  /\ rlemode = FALSE
  /\ header_next = FALSE

-----------------------------------------------------------------------------
(* _rle_compress_init; both contexts are local to one image.               *)
FreshContext ==
  /\ section_data' = <<>>
  /\ section_size' = 0
  /\ is_common_section' = FALSE
  /\ bytes' = 0
  /\ decoded' = <<>>
  /\ consumed' = <<>>
  /\ full_sections' = 0
  /\ finished' = FALSE
  /\ header_next' = FALSE

(* Up to the first pixel of an image of n pixels.                          *)
SendImage(n, m) ==
  /\ Begin(PayloadEstimate(2 * n, m))
  /\ FreshContext
  /\ area' = n
  /\ rlemode' = m

(* Everything encoded so far has been given to the packet encoder.         *)
UpToDate == phase = "encode" /\ count = 0 /\ given = bytes

(* A round of the loops with RLE; a flushed section is a header byte, then *)
(* its data.                                                               *)
CompressPixel(p) ==
  /\ UpToDate
  /\ rlemode
  /\ Len(consumed) < area
  /\ R!Encode(p)
  /\ header_next' = (bytes' # bytes)
  /\ UNCHANGED <<vars, area, rlemode>>

(* A round of the loops without: the device takes the pixel as it comes.   *)
PlainPixel(p) ==
  /\ UpToDate
  /\ ~rlemode
  /\ Len(consumed) < area
  /\ consumed' = Append(consumed, p)
  /\ decoded' = Append(decoded, p)
  /\ bytes' = bytes + 2
  /\ UNCHANGED <<vars, section_data, section_size, is_common_section,
                 full_sections, finished, area, rlemode, header_next>>

(* After the loops "if (rlemode)" the last section is flushed.             *)
LastSection ==
  /\ UpToDate
  /\ rlemode
  /\ Len(consumed) = area
  /\ R!Finish
  /\ header_next' = (bytes' # bytes)
  /\ UNCHANGED <<vars, area, rlemode>>

(* The calls of _bitblt_encode_n_transfer_data; nobody compares them with  *)
(* the estimate.                                                           *)
EncodeBytes ==
  /\ given < bytes
  /\ Call(IF header_next THEN 1 ELSE bytes - given)
  /\ header_next' = FALSE
  /\ UNCHANGED <<rleVars, area, rlemode>>

CopyBytes ==
  /\ FillPacket \/ NextPacket \/ NextTicket \/ NextTicketRefused
  /\ UNCHANGED imageVars

(* Mutant: the last section stays behind.                                  *)
FlushImageEarly ==
  /\ UpToDate
  /\ Len(consumed) = area
  /\ Flush \/ FlushRefused
  /\ UNCHANGED imageVars

(* _bitblt_encoder_flush, after the last section.                          *)
FlushImage ==
  /\ UpToDate
  /\ Len(consumed) = area
  /\ rlemode => finished
  /\ Flush \/ FlushRefused
  /\ UNCHANGED imageVars

(* try_send_image returns.                                                 *)
ImageDone ==
  /\ End
  /\ FreshContext
  /\ area' = 0
  /\ rlemode' = FALSE

(* Other commands, and the completion handler.                             *)
OtherTransfer(t) ==
  /\ SendCommand(t, CommandSize) \/ Finished(t)
  /\ UNCHANGED imageVars

ImageNext ==
  \/ \E n \in Areas, m \in BOOLEAN : SendImage(n, m)
  \/ \E p \in Pixels : CompressPixel(p) \/ PlainPixel(p)
  \/ LastSection
  \/ EncodeBytes
  \/ CopyBytes
  \/ FlushImage
  \/ ImageDone
  \/ \E t \in Tickets : OtherTransfer(t)

ImageSpec == ImageInit /\ [][ImageNext]_<<vars, imageVars>>

-----------------------------------------------------------------------------
(* Whatever the pixels are, the bytes given to the packet encoder stay     *)
(* within the estimate its tickets were bought for: the packet encoder is  *)
(* used as BitbltEncoder describes it, whose properties hold here too.     *)
ImplementsEncoder == Spec

(* When the last URB was accepted, everything that was encoded is in the   *)
(* URBs, and the device decodes it to the whole image, as it was read.     *)
WholeImageSent ==
  phase = "sent" =>
    /\ given = bytes
    /\ Len(consumed) = area
    /\ decoded = consumed

=============================================================================
