------------------------------ MODULE ImageSizing ------------------------------
(***************************************************************************)
(* The tickets every image of the display needs: a dirty rectangle of      *)
(* _display_update may be of any size up to the display, and the firmware  *)
(* may or may not know RLE.                                                *)
(***************************************************************************)
EXTENDS BitbltSizing

CONSTANTS
  Width, Height,  \* RP_DISP_DEFAULT_WIDTH and _HEIGHT
  PixelSize       \* RP_DISP_DEFAULT_PIXEL_BITS / 8

ASSUME ImageAssumption == {Width, Height, PixelSize} \subseteq Nat \ {0}

(* rpusbdisp_usb_try_send_image of a rectangle of w times h pixels.        *)
ImagePayload(w, h, rlemode) == PayloadEstimate(w * h * PixelSize, rlemode)

ImageTickets(w, h, rlemode) == RequiredTickets(ImagePayload(w, h, rlemode))

(* What the whole display needs, with RLE, the dearer encoding.            *)
FullTickets == ImageTickets(Width, Height, TRUE)

Images == (1..Width) \X (1..Height) \X BOOLEAN

(* The ticket counts that occur.                                           *)
Needs == {ImageTickets(i[1], i[2], i[3]) : i \in Images}

(* Whether images could fill the tickets they buy to the last byte.        *)
CanOverrun ==
  {Overruns(ImagePayload(i[1], i[2], i[3]), ImageTickets(i[1], i[2], i[3])) :
     i \in Images}

=============================================================================
