------------------------------ MODULE DisplaySync ------------------------------
(***************************************************************************)
(* The framebuffer of a connected display (fbhandlers.c) on top of the     *)
(* ticket pool: which pixels of the device are out of date, and what       *)
(* remembers that they have to be sent.                                    *)
(*                                                                         *)
(* Every action that sends is an action of TicketPool conjoined with what  *)
(* it does to the framebuffer's private data: the dirty rectangle, its     *)
(* flag and unsync_flag.  Client threads draw into the framebuffer memory  *)
(* without a lock and only then call _display_update.                      *)
(***************************************************************************)
EXTENDS TicketPool

CONSTANTS
  Width, Height,    \* RP_DISP_DEFAULT_WIDTH and _HEIGHT
  PixelsPerTicket,  \* how much of an image fits into one URB
  Clients,          \* threads that draw
  DrawRects,        \* the rectangles they draw, [x, y, width, height]
  Hints,            \* the drawing operations in use, a subset of DrawKinds
  MaxDraws,         \* bound: draws in a behaviour
  MaxErrors,        \* bound: failing or refused URBs in a behaviour
  AsksAnew,         \* bound: whether the device may ask for an image later on
  NoDraw            \* the client has no update outstanding

(* imageblit and write send the image of the dirty rectangle; the hints of *)
(* fillrect (with ROP_XOR, "xorrect") and copyarea make _display_update    *)
(* send one command; mmap is a write through a mapping, reported by the    *)
(* deferred I/O handler.                                                   *)
DrawKinds == {"image", "write", "fillrect", "xorrect", "copyarea", "mmap"}

(* External: the framebuffer core's users draw inside of the display.      *)
ASSUME DisplayAssumption ==
  /\ Width \in Nat \ {0}
  /\ Height \in Nat \ {0}
  /\ PixelsPerTicket \in Nat \ {0}
  /\ Width * Height <= PixelsPerTicket * MaxTickets
  /\ \A a \in DrawRects : /\ {a.x, a.y, a.width, a.height} \subseteq Nat
                          /\ a.x + a.width <= Width
                          /\ a.y + a.height <= Height
  /\ Hints \subseteq DrawKinds
  /\ NoDraw \notin [area : DrawRects, kind : DrawKinds, over : SUBSET (Nat \X Nat)]
  /\ MaxDraws \in Nat
  /\ MaxErrors \in Nat
  /\ AsksAnew \in BOOLEAN

VARIABLES
  stale,        \* pixels of the framebuffer that are not on the device
                \* once every accepted URB has been delivered
  pending,      \* per client, the draw whose _display_update is to come,
                \* and the pixels that were drawn over since
  unsync_flag,  \* atomic_read(unsync_flag) == 1
  dirty_rect,   \* left, right, top, bottom
  dirty_flag,   \* dirty_rect.dirty_flag
  region,       \* pixels the current send makes right when it succeeds
  clears,       \* its header carries RPUSBDISP_CMD_FLAG_CLEARDITY
  whole,        \* it is an image of the whole display, nothing of it lost
  sent,         \* the tickets it has submitted
  carried,      \* per ticket, the pixels of the transfer its URB is part of
  flagged,      \* URBs on their way that hold a header with the clear flag
  dev_dirty,    \* the device reports RPUSBDISP_DISPLAY_STATUS_DIRTY_FLAG
  unmet,        \* history: a full image is required, as the device asked for
                \* one or a transfer failed, and none was accepted since
  hinted,       \* something else than an image or a write was reported
  draws, errors,  \* counters for the two bounds
  refused       \* a submission was refused

fbVars == <<unsync_flag, dirty_rect, dirty_flag>>
sendVars == <<region, clears, whole, sent>>
wireVars == <<carried, flagged>>
askVars == <<dev_dirty, unmet>>
countVars == <<draws, errors, refused>>
syncVars == <<stale, pending, fbVars, sendVars, wireVars, askVars, hinted, countVars>>
allVars == <<vars, syncVars>>

-----------------------------------------------------------------------------
(* Rectangles.                                                             *)

Pixels == (0..Width - 1) \X (0..Height - 1)

RectPixels(r) ==
  {p \in Pixels : /\ r.left <= p[1] /\ p[1] <= r.right
                  /\ r.top <= p[2] /\ p[2] <= r.bottom}

AreaPixels(a) ==
  {p \in Pixels : /\ a.x <= p[1] /\ p[1] < a.x + a.width
                  /\ a.y <= p[2] /\ p[2] < a.y + a.height}

(* _clear_dirty_rect.                                                      *)
EmptyRect == [left |-> Width, right |-> -1, top |-> Height, bottom |-> -1]

FullRect == [left |-> 0, right |-> Width - 1, top |-> 0, bottom |-> Height - 1]

FullArea == [x |-> 0, y |-> 0, width |-> Width, height |-> Height]

(* What _display_defio_handler reports of any set of written pages.  It    *)
(* compares their physical addresses with fix.mmio_start, which is never   *)
(* set, and skips them all: top and bottom keep their initial values.      *)
DefioArea == [x |-> 0, y |-> Height, width |-> Width, height |-> 1 - Height]

Lower(a, b) == IF a > b THEN b ELSE a
Upper(a, b) == IF a < b THEN b ELSE a

(* The bounding box _display_update grows on a synced display.             *)
Grow(r, a) ==
  [left |-> Lower(r.left, a.x), right |-> Upper(r.right, a.width + a.x - 1),
   top |-> Lower(r.top, a.y), bottom |-> Upper(r.bottom, a.height + a.y - 1)]

Inverted(r) == r.top > r.bottom \/ r.left > r.right

(* _bitblt_encoder_init: the tickets an image of the rectangle needs.      *)
TicketsFor(r) ==
  (Cardinality(RectPixels(r)) + PixelsPerTicket - 1) \div PixelsPerTicket

-----------------------------------------------------------------------------
SyncInit ==
  /\ Init
  /\ stale = Pixels
  /\ pending = [c \in Clients |-> NoDraw]
  /\ unsync_flag = TRUE
  /\ dirty_rect = EmptyRect
  /\ dirty_flag = FALSE
  /\ region = {}
  /\ clears = FALSE
  /\ whole = FALSE
  /\ sent = {}
  /\ carried = [t \in Tickets |-> {}]
  /\ flagged = {}
  /\ dev_dirty \in BOOLEAN
  /\ unmet = TRUE
  /\ hinted = FALSE
  /\ draws = 0
  /\ errors = 0
  /\ refused = FALSE

(* What the drawing function reports to _display_update: fb_sys_write's    *)
(* caller reports the whole display, whatever it wrote.                    *)
UpdateArea(d) ==
  CASE d.kind = "write" -> FullArea
    [] d.kind = "mmap" -> DefioArea
    [] OTHER -> d.area

(* A fill command that is still to come puts its color over newer pixels.  *)
DrawnOver(d, a) ==
  IF d # NoDraw /\ d.kind = "fillrect"
  THEN [d EXCEPT !.over = @ \union AreaPixels(a)]
  ELSE d

(***************************************************************************)
(* sys_fillrect, sys_imageblit, sys_copyarea, fb_sys_write, a store to the *)
(* mapped memory: the framebuffer changes with no lock held.  A pixel that *)
(* changes while a send is being encoded counts as missed by that send.    *)
(***************************************************************************)
Draw(c, a, k) ==
  /\ pending[c] = NoDraw
  /\ draws < MaxDraws
  /\ pending' = [d \in Clients |->
                  IF d = c THEN [area |-> a, kind |-> k, over |-> {}]
                           ELSE DrawnOver(pending[d], a)]
  /\ stale' = stale \union AreaPixels(a)
  /\ region' = region \ AreaPixels(a)
  /\ draws' = draws + 1
  /\ UNCHANGED <<vars, fbVars, clears, whole, sent, wireVars, askVars, hinted,
                 errors, refused>>

(* Step 1 of _display_update: the display that is not synced is dirty all  *)
(* over; otherwise the dirty rectangle grows by the drawn area.            *)
UpdateDirtyRect(a) ==
  /\ dirty_rect' = IF unsync_flag THEN FullRect ELSE Grow(dirty_rect, a)
  /\ unsync_flag' = FALSE
  /\ dirty_flag' = (dirty_flag \/ ~Inverted(dirty_rect'))

(* What the send for draw d makes right on the device: an image its whole  *)
(* rectangle r, a fill command its area but for newer pixels; an exclusive *)
(* or and a copy only the pixels whose source on the device was right.     *)
Sends(d, r) ==
  CASE d.kind = "fillrect" -> {AreaPixels(d.area) \ d.over}
    [] d.kind \in {"xorrect", "copyarea"} -> SUBSET AreaPixels(d.area)
    [] OTHER -> {RectPixels(r)}

IsCommand(k) == k \in {"fillrect", "xorrect", "copyarea"}
IsHinted(k) == k \notin {"image", "write"}

TicketsNeeded(k, r) == IF IsCommand(k) THEN 1 ELSE TicketsFor(r)

(* Until it is executed the area of a command counts as wrong.             *)
Spoils(d) == IF IsCommand(d.kind) THEN AreaPixels(d.area) ELSE {}

(* Mutant: every image carries RPUSBDISP_CMD_FLAG_CLEARDITY.               *)
UpdateAlwaysClears(c) ==
  /\ pending[c] # NoDraw
  /\ UpdateDirtyRect(UpdateArea(pending[c]))
  /\ ~Inverted(dirty_rect')
  /\ ClientBegin(TicketsNeeded(pending[c].kind, dirty_rect'))
  /\ region' \in Sends(pending[c], dirty_rect')
  /\ clears' = ~IsCommand(pending[c].kind)
  /\ whole' = (dirty_rect' = FullRect /\ ~IsCommand(pending[c].kind))
  /\ stale' = stale \union Spoils(pending[c])
  /\ pending' = [pending EXCEPT ![c] = NoDraw]
  /\ hinted' = (hinted \/ IsHinted(pending[c].kind))
  /\ UNCHANGED <<sent, wireVars, askVars, countVars>>

(* _display_update of a client, up to _sell_disp_tickets.                  *)
Update(c) ==
  /\ pending[c] # NoDraw
  /\ UpdateDirtyRect(UpdateArea(pending[c]))
  /\ ~Inverted(dirty_rect')
  /\ ClientBegin(TicketsNeeded(pending[c].kind, dirty_rect'))
  /\ region' \in Sends(pending[c], dirty_rect')
  /\ clears' = (unsync_flag /\ ~IsCommand(pending[c].kind))
  /\ whole' = (dirty_rect' = FullRect /\ ~IsCommand(pending[c].kind))
  /\ stale' = stale \union Spoils(pending[c])
  /\ pending' = [pending EXCEPT ![c] = NoDraw]
  /\ hinted' = (hinted \/ IsHinted(pending[c].kind))
  /\ UNCHANGED <<sent, wireVars, askVars, countVars>>

(* _display_update returns early when the rectangle is still inverted.     *)
UpdateNothing(c) ==
  /\ pending[c] # NoDraw
  /\ holder = "none"
  /\ UpdateDirtyRect(UpdateArea(pending[c]))
  /\ Inverted(dirty_rect')
  /\ pending' = [pending EXCEPT ![c] = NoDraw]
  /\ hinted' = (hinted \/ IsHinted(pending[c].kind))
  /\ UNCHANGED <<vars, stale, sendVars, wireVars, askVars, countVars>>

(* fbhandler_on_all_transfer_done finds nothing to flush.                  *)
WorkFindsNothing ==
  /\ ~dirty_flag /\ ~unsync_flag
  /\ WorkIdle
  /\ UNCHANGED syncVars

(* ... or something; the flags are read before operation_lock is taken.    *)
WorkFindsDirt ==
  /\ dirty_flag \/ unsync_flag
  /\ WorkStart
  /\ UNCHANGED syncVars

(* ... and calls _display_update for the full display.                     *)
WorkUpdate ==
  /\ UpdateDirtyRect(FullArea)
  /\ WorkBegin(TicketsFor(dirty_rect'))
  /\ region' = RectPixels(dirty_rect')
  /\ clears' = unsync_flag
  /\ whole' = (dirty_rect' = FullRect)
  /\ UNCHANGED <<stale, pending, sent, wireVars, askVars, hinted, countVars>>

-----------------------------------------------------------------------------
(* Sending.                                                                *)

SendOver == region' = {} /\ clears' = FALSE /\ whole' = FALSE /\ sent' = {}

(* Too few tickets: try_send_image and the commands return 0, the dirty    *)
(* rectangle and its flag stay.                                            *)
NotSold ==
  /\ SellNone
  /\ SendOver
  /\ UNCHANGED <<stale, pending, fbVars, wireVars, askVars, hinted, countVars>>

Sold ==
  /\ Sell
  /\ UNCHANGED syncVars

(* An accepted URB belongs to the transfer.  The first one holds the       *)
(* packet with the command header, and its clear flag.                     *)
Submitted(t) ==
  /\ sent' = sent \union {t}
  /\ carried' = [carried EXCEPT ![t] = region]
  /\ flagged' = IF clears /\ sent = {} THEN flagged \union {t} ELSE flagged
  /\ UNCHANGED <<pending, fbVars, region, clears, whole, dev_dirty, hinted, countVars>>

SendFull(t) ==
  /\ SubmitFull(t)
  /\ Submitted(t)
  /\ UNCHANGED <<stale, unmet>>

(* The last URB is accepted: the transfer is complete.                     *)
SendLast(t) ==
  /\ Flush(t)
  /\ Submitted(t)
  /\ stale' = stale \ region
  /\ unmet' = (unmet /\ ~whole)

(* A refused submission runs the completion handler, which sets            *)
(* unsync_flag when it finds an error in urb->status.                      *)
Refused(t) ==
  /\ errors < MaxErrors
  /\ errors' = errors + 1
  /\ unsync_flag' = (unsync_flag \/ urb_status'[t] = "nonzero")
  /\ refused' = TRUE
  /\ UNCHANGED <<stale, pending, dirty_rect, dirty_flag, wireVars, askVars, hinted, draws>>

SendFullRefused(t) ==
  /\ SubmitFullRefused(t)
  /\ Refused(t)
  /\ UNCHANGED sendVars

SendLastRefused(t) ==
  /\ FlushRefused(t)
  /\ Refused(t)
  /\ SendOver

SendCleanup(t) ==
  /\ Cleanup(t)
  /\ UNCHANGED syncVars

(* Mutant: the result is not looked at.                                    *)
SendReturnsAlwaysClears ==
  /\ SendEnd
  /\ dirty_rect' = EmptyRect /\ dirty_flag' = FALSE
  /\ SendOver
  /\ UNCHANGED <<stale, pending, unsync_flag, wireVars, askVars, hinted, countVars>>

(* try_send_image or the command returns; 1 clears the dirty rectangle.    *)
SendReturns ==
  /\ SendEnd
  /\ IF sender = "cleanup"
     THEN dirty_rect' = EmptyRect /\ dirty_flag' = FALSE
     ELSE UNCHANGED <<dirty_rect, dirty_flag>>
  /\ SendOver
  /\ UNCHANGED <<stale, pending, unsync_flag, wireVars, askVars, hinted, countVars>>

-----------------------------------------------------------------------------
(* The USB core, the completion handler and the status reports.            *)

(* The device obeys a clear flag as soon as it has the header, whatever    *)
(* becomes of the rest of the image.                                       *)
Delivered(t) ==
  /\ UrbDone(t, "zero")
  /\ dev_dirty' = (dev_dirty /\ t \notin flagged)
  /\ flagged' = flagged \ {t}
  /\ UNCHANGED <<stale, pending, fbVars, sendVars, carried, unmet, hinted, countVars>>

(* A transfer that failed has not reached the device: its image, sent or   *)
(* being sent, is not complete.                                            *)
Lost(t) ==
  /\ errors < MaxErrors
  /\ errors' = errors + 1
  /\ UrbDone(t, "nonzero")
  /\ stale' = stale \union carried[t]
  /\ unmet' = TRUE
  /\ flagged' = flagged \ {t}
  /\ IF t \in sent
     THEN region' = {} /\ whole' = FALSE
     ELSE UNCHANGED <<region, whole>>
  /\ UNCHANGED <<pending, fbVars, clears, sent, carried, dev_dirty, hinted, draws, refused>>

Handled(t) ==
  /\ FinishReturn(t)
  /\ unsync_flag' = (unsync_flag \/ urb_status[t] = "nonzero")
  /\ carried' = [carried EXCEPT ![t] = {}]
  /\ UNCHANGED <<stale, pending, dirty_rect, dirty_flag, sendVars, flagged,
                 askVars, hinted, countVars>>

HandlerEnds ==
  /\ FinishTail
  /\ UNCHANGED syncVars

(* External: "a full screen transfer is required" (protocol.h).  What is   *)
(* asked while a clear flag is on its way, its image answers.              *)
DeviceAsks ==
  /\ AsksAnew
  /\ ~clears /\ flagged = {}
  /\ dev_dirty' = TRUE
  /\ unmet' = TRUE
  /\ UNCHANGED <<vars, stale, pending, fbVars, sendVars, wireVars, hinted, countVars>>

(* _on_parse_status_packet of a report with the dirty bit.                 *)
DirtyReport ==
  /\ dev_dirty
  /\ ScheduleByStatus
  /\ unsync_flag' = TRUE
  /\ unmet' = TRUE
  /\ UNCHANGED <<stale, pending, dirty_rect, dirty_flag, sendVars, wireVars,
                 dev_dirty, hinted, countVars>>

-----------------------------------------------------------------------------
ClientUpdates == \E c \in Clients : Update(c) \/ UpdateNothing(c)

SyncSenderStep ==
  \/ NotSold
  \/ Sold
  \/ \E t \in Tickets : SendFull(t) \/ SendLast(t) \/ SendCleanup(t)
  \/ \E t \in Tickets : SendFullRefused(t) \/ SendLastRefused(t)
  \/ SendReturns

SyncUsbStep == \E t \in Tickets : Delivered(t) \/ Lost(t)

SyncHandlerStep == (\E t \in Tickets : Handled(t)) \/ HandlerEnds

SyncWorkStep == WorkFindsNothing \/ WorkFindsDirt \/ WorkUpdate

SyncNext ==
  \/ \E c \in Clients, a \in DrawRects, k \in Hints : Draw(c, a, k)
  \/ ClientUpdates
  \/ SyncSenderStep
  \/ SyncUsbStep
  \/ SyncHandlerStep
  \/ SyncWorkStep
  \/ DeviceAsks
  \/ DirtyReport

SyncSpec == SyncInit /\ [][SyncNext]_allVars

(***************************************************************************)
(* Threads that can go on do; a client that waits for operation_lock gets  *)
(* it in turn, whoever else asks (the kernel's mutexes hand over to a      *)
(* waiter that starves).  Nothing forces a draw or a dirty report.         *)
(***************************************************************************)
SyncFairness ==
  /\ SF_allVars(ClientUpdates)
  /\ WF_allVars(SyncSenderStep)
  /\ WF_allVars(SyncUsbStep)
  /\ WF_allVars(SyncHandlerStep)
  /\ SF_allVars(SyncWorkStep)

FairSyncSpec == SyncSpec /\ SyncFairness

-----------------------------------------------------------------------------
SyncTypeOK ==
  /\ TypeOK
  /\ stale \subseteq Pixels
  /\ \A c \in Clients :
       pending[c] \in {NoDraw} \union [area : DrawRects, kind : Hints, over : SUBSET Pixels]
  /\ unsync_flag \in BOOLEAN
  /\ dirty_rect \in [left : 0..Width, right : -1..Width - 1,
                     top : 0..Height, bottom : -1..Height - 1]
  /\ dirty_flag \in BOOLEAN
  /\ region \subseteq Pixels
  /\ clears \in BOOLEAN
  /\ whole \in BOOLEAN
  /\ sent \subseteq Tickets
  /\ flagged \subseteq Tickets
  /\ unmet \in BOOLEAN
  /\ carried \in [Tickets -> SUBSET Pixels]
  /\ dev_dirty \in BOOLEAN
  /\ hinted \in BOOLEAN
  /\ draws \in 0..MaxDraws
  /\ errors \in 0..MaxErrors
  /\ refused \in BOOLEAN

(* The driver never forgets a pixel: whatever is wrong on the display is   *)
(* in the dirty rectangle, or the full display is marked, or the client    *)
(* that drew it is about to mark it, or the handler of the URB that lost   *)
(* it is.                                                                  *)
StaleCovered ==
  \A p \in stale :
    \/ unsync_flag
    \/ dirty_flag /\ p \in RectPixels(dirty_rect)
    \/ \E c \in Clients : pending[c] # NoDraw /\ p \in AreaPixels(pending[c].area)
    \/ \E t \in done : urb_status[t] = "nonzero"

(* As long as every update goes out as an image, the driver forgets no     *)
(* pixel, whatever is dropped, refused, lost or drawn meanwhile.           *)
ImagesForgetNothing == hinted \/ StaleCovered

(* Nothing is under way that could still send: no update, no work, no      *)
(* transfer, no completion handler.                                        *)
AtRest ==
  /\ holder = "none"
  /\ ~work_pending /\ ~work_running
  /\ flight = {} /\ done = {} /\ handler = NoTicket
  /\ \A c \in Clients : pending[c] = NoDraw

(* When the driver comes to rest the display shows the framebuffer: no     *)
(* update that found too few tickets waits for somebody to draw again, for *)
(* the last ticket to come back has scheduled the work.  After a lost      *)
(* transfer the full display may still be marked, with no work scheduled;  *)
(* a refused submission returns the rest of the bundle without the work.   *)
RestMeansSynced ==
  AtRest =>
    stale = {} \/ hinted \/ refused \/ (unsync_flag /\ errors > 0)

(* Without transfer errors and commands the flush work picks up what a     *)
(* shortage of tickets left behind: once the drawing stops the display     *)
(* comes to match the framebuffer.                                         *)
EventuallySynced == <>[](stale = {} \/ hinted \/ errors > 0)

(* The clear flag goes out with the first packet of an image, whose other  *)
(* packets may then be refused or lost.  A device that needs a full image  *)
(* and does not ask for it (any more) gets one: the display is marked, or  *)
(* dirty all over, or the handler of a lost URB is about to mark it.  So   *)
(* no flag is spent on an image of less than the display, and none on an   *)
(* image cut short that the driver takes for sent.                         *)
ClearKeepsRequest ==
  unmet /\ ~dev_dirty /\ ~hinted =>
    \/ unsync_flag
    \/ dirty_flag /\ dirty_rect = FullRect
    \/ \E t \in done : urb_status[t] = "nonzero"

=============================================================================
