------------------------------ MODULE StatusQuery ------------------------------
(***************************************************************************)
(* The status polling of one device (usbhandlers.c): an interrupt URB that *)
(* resubmits itself from its completion handler, the reports it delivers   *)
(* to the framebuffer and to the input device, and its races with          *)
(* rpusbdisp_probe on one side, rpusbdisp_disconnect on the other, and     *)
(* with the clients that draw, who use up the mark a report has left.      *)
(*                                                                         *)
(* Of what is drawn only the extent is kept; which pixels are sent and how *)
(* the tickets circulate are the subjects of DisplaySync and TicketPool.   *)
(***************************************************************************)
EXTENDS Naturals

CONSTANT RetryCount  \* RPUSBDISP_STATUS_QUERY_RETRY_COUNT

ASSUME RetryAssumption == RetryCount \in Nat \ {0}

VARIABLES
  query,         \* the URB: "idle", "submitted" or "completed" (handler due)
  report,        \* what the completed URB holds: a report or a failure
  handler,       \* control state of _on_status_query_finished
  fail_count,    \* dev->urb_status_fail_count
  endpoint,      \* usb_pipe_endpoint finds the status endpoint
  probe,         \* control state of _on_new_usb_device
  teardown,      \* control state of _on_del_usb_device
  is_alive,      \* dev->is_alive
  bound,         \* dev->fb_handle is set
  ample,         \* the pool holds the tickets of a full image
  unsync_flag,   \* the framebuffer's unsync_flag is 1
  dirty_rect,    \* "none", a "part" or the "full" display
  in_flight,     \* some ticket is not in the pool
  work_pending,  \* completion_work is queued
  touched,       \* BTN_TOUCH of the input device
  owed,          \* whether a dirty report read still needs its full image
  refused        \* history: a submission was refused

urbVars == <<query, report, handler, fail_count>>
lifeVars == <<endpoint, probe, teardown, is_alive, bound, ample>>
markVars == <<unsync_flag, dirty_rect>>
sendVars == <<in_flight, refused>>
vars == <<urbVars, lifeVars, markVars, sendVars, work_pending, touched, owed>>

(* urb->status is zero, the packet is a normal status packet, its dirty    *)
(* bit and its touch state; other packets and failures carry neither.      *)
Normal == [ok : {TRUE}, normal : {TRUE}, dirty : BOOLEAN, pressed : BOOLEAN]
Other == [ok |-> TRUE, normal |-> FALSE, dirty |-> FALSE, pressed |-> FALSE]
Failure == [ok |-> FALSE, normal |-> FALSE, dirty |-> FALSE, pressed |-> FALSE]
Results == Normal \union {Other, Failure}

TypeOK ==
  /\ query \in {"idle", "submitted", "completed"}
  /\ report \in Results
  /\ handler \in {"none", "parse", "schedule", "touch", "resubmit"}
  /\ fail_count \in 0..RetryCount
  /\ probe \in {"query", "bind", "unsync", "schedule", "ready"}
  /\ teardown \in {"up", "dead", "unbound", "killed", "cancelled", "freed"}
  /\ {endpoint, is_alive, bound, ample, unsync_flag, in_flight, work_pending,
      touched, refused} \subseteq BOOLEAN
  /\ dirty_rect \in {"none", "part", "full"}
  /\ owed \in {"none", "due", "late", "void"}

(* _on_new_usb_device has set is_alive and is about to start the query.    *)
(* The framebuffer is as it was made or as another display has left it.    *)
Init ==
  /\ query = "idle"
  /\ report = Failure
  /\ handler = "none"
  /\ fail_count = 0
  /\ endpoint = TRUE
  /\ probe = "query"
  /\ teardown = "up"
  /\ is_alive = TRUE
  /\ bound = FALSE
  /\ ample \in BOOLEAN
  /\ unsync_flag \in BOOLEAN
  /\ dirty_rect \in {"none", "part", "full"}
  /\ in_flight = FALSE
  /\ work_pending = FALSE
  /\ touched = FALSE
  /\ owed = "none"
  /\ refused = FALSE

-----------------------------------------------------------------------------
(* _status_start_querying: a dead device, a device with too many failures  *)
(* or without the endpoint is not asked; a refused submission counts as a  *)
(* failure.                                                                *)
MayQuery == is_alive /\ fail_count < RetryCount /\ endpoint

StartQuerying ==
  \/ ~MayQuery /\ UNCHANGED <<query, fail_count>>
  \/ MayQuery /\ query' = "submitted" /\ UNCHANGED fail_count
  \/ MayQuery /\ fail_count' = fail_count + 1 /\ UNCHANGED query

(* External: the URB completes with a report, or fails.                    *)
UrbDone(r) ==
  /\ query = "submitted"
  /\ query' = "completed"
  /\ report' = r
  /\ UNCHANGED <<handler, fail_count, lifeVars, markVars, sendVars,
                 work_pending, touched, owed>>

-----------------------------------------------------------------------------
(* _on_status_query_finished.                                              *)

(* Entry: a dead device ends it; an error exhausts the retries at once.    *)
HandlerEnter ==
  /\ query = "completed"
  /\ query' = "idle"
  /\ handler' = IF is_alive /\ report.ok THEN "parse" ELSE "none"
  /\ fail_count' = IF is_alive /\ ~report.ok THEN RetryCount ELSE fail_count
  /\ UNCHANGED <<report, lifeVars, markVars, sendVars, work_pending, touched, owed>>

(* Whether the handler asks again.                                         *)
AfterParse == IF fail_count < RetryCount THEN "resubmit" ELSE "none"

(* Mutant: the mark is set and no work is scheduled.                       *)
HandlerMarkOnly ==
  /\ handler = "parse"
  /\ handler' = "touch"
  /\ unsync_flag' = (unsync_flag \/ (report.dirty /\ bound))
  /\ owed' = IF report.dirty THEN "due" ELSE owed
  /\ UNCHANGED <<query, report, fail_count, lifeVars, dirty_rect, sendVars,
                 work_pending, touched>>

(* _on_parse_status_packet: a dirty report marks the framebuffer, if the   *)
(* device has one; a packet of another type is passed over.                *)
HandlerMark ==
  /\ handler = "parse"
  /\ handler' = CASE ~report.normal -> AfterParse
                  [] report.dirty -> "schedule"
                  [] OTHER -> "touch"
  /\ unsync_flag' = (unsync_flag \/ (report.dirty /\ bound))
  /\ owed' = IF report.dirty THEN "due" ELSE owed
  /\ UNCHANGED <<query, report, fail_count, lifeVars, dirty_rect, sendVars,
                 work_pending, touched>>

(* Mutant: the handler returns before it resubmits.                        *)
HandlerScheduleReturns ==
  /\ handler = "schedule"
  /\ handler' = "none"
  /\ work_pending' = TRUE
  /\ UNCHANGED <<query, report, fail_count, lifeVars, markVars, sendVars,
                 touched, owed>>

(* ... and schedules the flush work.                                       *)
HandlerSchedule ==
  /\ handler = "schedule"
  /\ handler' = "touch"
  /\ work_pending' = TRUE
  /\ UNCHANGED <<query, report, fail_count, lifeVars, markVars, sendVars,
                 touched, owed>>

(* touchhandler_send_ts_event.                                             *)
HandlerTouch ==
  /\ handler = "touch"
  /\ handler' = AfterParse
  /\ touched' = report.pressed
  /\ UNCHANGED <<query, report, fail_count, lifeVars, markVars, sendVars,
                 work_pending, owed>>

HandlerResubmit ==
  /\ handler = "resubmit"
  /\ StartQuerying
  /\ handler' = "none"
  /\ UNCHANGED <<report, lifeVars, markVars, sendVars, work_pending, touched, owed>>

-----------------------------------------------------------------------------
(* _on_new_usb_device, from the start of the query on.                     *)

ProbeQuery ==
  /\ probe = "query"
  /\ StartQuerying
  /\ probe' = "bind"
  /\ UNCHANGED <<report, handler, endpoint, teardown, is_alive, bound, ample,
                 markVars, sendVars, work_pending, touched, owed>>

(* fbhandler_on_new_device: the framebuffer may be another display's.      *)
ProbeBind ==
  /\ probe = "bind"
  /\ bound' \in BOOLEAN
  /\ probe' = "unsync"
  /\ UNCHANGED <<urbVars, endpoint, teardown, is_alive, ample, markVars,
                 sendVars, work_pending, touched, owed>>

(* "force all the image to be flush": fbhandler_set_unsync_flag ...        *)
ProbeUnsync ==
  /\ probe = "unsync"
  /\ unsync_flag' = (unsync_flag \/ bound)
  /\ probe' = "schedule"
  /\ UNCHANGED <<urbVars, endpoint, teardown, is_alive, bound, ample, dirty_rect,
                 sendVars, work_pending, touched, owed>>

(* ... and schedule_delayed_work.                                          *)
ProbeSchedule ==
  /\ probe = "schedule"
  /\ work_pending' = TRUE
  /\ probe' = "ready"
  /\ UNCHANGED <<urbVars, endpoint, teardown, is_alive, bound, ample, markVars,
                 sendVars, touched, owed>>

-----------------------------------------------------------------------------
(* _display_update of the bound display, with an image or with a fill or   *)
(* copy command.  It uses up unsync_flag; what is not sent stays in the    *)
(* dirty rectangle, what is sent clears it, also when it was a command     *)
(* that sent nothing but its own area.                                     *)

Widest(r, s) == IF "full" \in {r, s} THEN "full" ELSE "part"

(* A dead device sells no tickets, a busy pool or a small one may hold too *)
(* few; a command is content with one.  From the unplugging on every       *)
(* submission is refused.                                                  *)
Outcomes(command) ==
  (IF is_alive /\ endpoint THEN {"sent"} ELSE {})
    \union (IF is_alive THEN {"refused"} ELSE {})
    \union (IF is_alive /\ ~in_flight /\ (ample \/ command) THEN {} ELSE {"short"})

(* A report is answered by an image of the whole display.  A command       *)
(* clears the rectangle with it, which makes it void; a refused            *)
(* submission leaves it remembered, with nobody to wake the work.          *)
Answer(command, rect, outcome) ==
  CASE outcome = "sent" /\ ~command /\ rect = "full" -> "none"
    [] outcome = "sent" /\ command /\ owed # "none" -> "void"
    [] outcome = "refused" /\ owed = "due" -> "late"
    [] OTHER -> owed

(* The tickets a refused submission leaves over are returned or lost; the  *)
(* refused URB may carry an error, or queue the work.                      *)
DisplayUpdate(command, r, queued) ==
  LET rect == IF unsync_flag THEN "full" ELSE Widest(r, dirty_rect)
  IN  \E outcome \in Outcomes(command) :
        /\ dirty_rect' = IF outcome = "sent" THEN "none" ELSE rect
        /\ owed' = Answer(command, rect, outcome)
        /\ IF outcome = "refused"
           THEN /\ refused' = TRUE
                /\ unsync_flag' \in BOOLEAN
                /\ in_flight' \in BOOLEAN
                /\ work_pending' \in {queued, TRUE}
           ELSE /\ refused' = refused
                /\ unsync_flag' = FALSE
                /\ in_flight' = (in_flight \/ outcome = "sent")
                /\ work_pending' = queued

(* A client draws, on a part of the display or on all of it.               *)
Draw(command, r) ==
  /\ bound
  /\ DisplayUpdate(command, r, work_pending)
  /\ UNCHANGED <<urbVars, lifeVars, touched>>

(* Mutant: only a dirty rectangle is flushed.                              *)
RunWorkIfDirty ==
  /\ work_pending
  /\ teardown # "freed"
  /\ IF is_alive /\ bound /\ dirty_rect # "none"
     THEN DisplayUpdate(FALSE, "full", FALSE)
     ELSE work_pending' = FALSE /\ UNCHANGED <<markVars, sendVars, owed>>
  /\ UNCHANGED <<urbVars, lifeVars, touched>>

(* completion_work: the framebuffer of a live display is flushed if it is  *)
(* not synced or has a dirty rectangle.                                    *)
RunWork ==
  /\ work_pending
  /\ teardown # "freed"
  /\ IF is_alive /\ bound /\ (unsync_flag \/ dirty_rect # "none")
     THEN DisplayUpdate(FALSE, "full", FALSE)
     ELSE work_pending' = FALSE /\ UNCHANGED <<markVars, sendVars, owed>>
  /\ UNCHANGED <<urbVars, lifeVars, touched>>

(* _on_display_transfer_finished: the last ticket comes back and queues    *)
(* the work, the device dead or alive.                                     *)
TransfersDone ==
  /\ in_flight
  /\ in_flight' = FALSE
  /\ work_pending' = TRUE
  /\ UNCHANGED <<urbVars, lifeVars, markVars, refused, touched, owed>>

(* A ticket comes back with an error.  When it is the last one it queues   *)
(* nothing, and what was owed waits for the next draw or report.           *)
TransferFails ==
  /\ in_flight
  /\ in_flight' \in BOOLEAN
  /\ unsync_flag' = (unsync_flag \/ (is_alive /\ bound))
  /\ owed' = IF owed = "due" /\ ~in_flight' THEN "late" ELSE owed
  /\ UNCHANGED <<urbVars, lifeVars, dirty_rect, refused, work_pending, touched>>

-----------------------------------------------------------------------------
(* External: the device is unplugged or the driver unbound, after probe    *)
(* has returned.  The core disables the endpoints, which gives a submitted *)
(* URB back, before it calls the driver.                                   *)
Unplug ==
  /\ endpoint
  /\ probe = "ready"
  /\ endpoint' = FALSE
  /\ IF query = "submitted"
     THEN query' = "completed" /\ report' = Failure
     ELSE UNCHANGED <<query, report>>
  /\ UNCHANGED <<handler, fail_count, probe, teardown, is_alive, bound, ample,
                 markVars, sendVars, work_pending, touched, owed>>

(* _on_del_usb_device.                                                     *)
MarkDead ==
  /\ teardown = "up"
  /\ ~endpoint
  /\ is_alive' = FALSE
  /\ teardown' = "dead"
  /\ UNCHANGED <<urbVars, endpoint, probe, bound, ample, markVars, sendVars,
                 work_pending, touched, owed>>

(* fbhandler_on_remove_device.                                             *)
Unbind ==
  /\ teardown = "dead"
  /\ bound' = FALSE
  /\ teardown' = "unbound"
  /\ UNCHANGED <<urbVars, endpoint, probe, is_alive, ample, markVars, sendVars,
                 work_pending, touched, owed>>

(* Mutant: usb_unlink_urb, which does not wait.                            *)
KillUrbNoWait ==
  /\ teardown = "unbound"
  /\ teardown' = "killed"
  /\ UNCHANGED <<urbVars, endpoint, probe, is_alive, bound, ample, markVars,
                 sendVars, work_pending, touched, owed>>

(* usb_kill_urb waits for the URB and for its handler.                     *)
KillUrb ==
  /\ teardown = "unbound"
  /\ query = "idle" /\ handler = "none"
  /\ teardown' = "killed"
  /\ UNCHANGED <<urbVars, endpoint, probe, is_alive, bound, ample, markVars,
                 sendVars, work_pending, touched, owed>>

(* cancel_delayed_work_sync.                                               *)
CancelWork ==
  /\ teardown = "killed"
  /\ teardown' = "cancelled"
  /\ work_pending' = FALSE
  /\ UNCHANGED <<urbVars, endpoint, probe, is_alive, bound, ample, markVars,
                 sendVars, touched, owed>>

(* The tickets are waited for and freed, then the status URB and the       *)
(* device.                                                                 *)
FreeDevice ==
  /\ teardown = "cancelled"
  /\ ~in_flight
  /\ teardown' = "freed"
  /\ UNCHANGED <<urbVars, endpoint, probe, is_alive, bound, ample, markVars,
                 sendVars, work_pending, touched, owed>>

-----------------------------------------------------------------------------
HandlerStep ==
  \/ HandlerEnter
  \/ HandlerMark
  \/ HandlerSchedule
  \/ HandlerTouch
  \/ HandlerResubmit

ProbeStep == ProbeQuery \/ ProbeBind \/ ProbeUnsync \/ ProbeSchedule

TeardownStep == MarkDead \/ Unbind \/ KillUrb \/ CancelWork \/ FreeDevice

Next ==
  \/ \E r \in Results : UrbDone(r)
  \/ HandlerStep
  \/ ProbeStep
  \/ \E command \in BOOLEAN, r \in {"part", "full"} : Draw(command, r)
  \/ RunWork
  \/ TransfersDone
  \/ TransferFails
  \/ Unplug
  \/ TeardownStep

Spec == Init /\ [][Next]_vars

(* Handlers, probe, teardown and queued work go on when they can, and the  *)
(* tickets in flight come back, unless a refused submission has lost some. *)
(* Nothing forces the device to answer, clients to draw or anybody to      *)
(* unplug it.                                                              *)
Fairness ==
  /\ WF_vars(HandlerStep)
  /\ WF_vars(ProbeStep)
  /\ WF_vars(RunWork)
  /\ WF_vars(~refused /\ TransfersDone)
  /\ WF_vars(TeardownStep)

FairSpec == Spec /\ Fairness

-----------------------------------------------------------------------------
(* When probe has returned, a dirty report of the display that has the     *)
(* framebuffer, read and not yet answered by a full image, is remembered,  *)
(* whatever clients have used up its mark: the framebuffer is not synced   *)
(* or all of it is dirty.  And the work that will flush it is queued or    *)
(* about to be, or tickets are out whose return queues it.  Reports from   *)
(* before the framebuffer is bound are made up for by the end of probe.    *)
(* A report is "void" when a sent command has cleared the rectangle with   *)
(* it, "late" when a refused submission or a failed last transfer has left *)
(* nobody to queue the work; the next report makes it due again.           *)
DirtyReportNotLost ==
  bound /\ probe = "ready" /\ teardown = "up" =>
    /\ owed \in {"due", "late"} => unsync_flag \/ dirty_rect = "full"
    /\ owed = "due" => work_pending \/ handler = "schedule" \/ in_flight
                        \/ ~ample

(* After usb_kill_urb the status URB is never in use again, so that it can *)
(* be freed with the device, whatever reports and retries were under way.  *)
QuietAfterKill ==
  teardown \in {"killed", "cancelled", "freed"} =>
    query = "idle" /\ handler = "none"

(* A connected device is polled until something fails: the URB is out, its *)
(* handler is due or running, or a failure has been counted.               *)
PollingStopsOnlyAfterFailure ==
  probe # "query" /\ endpoint /\ query = "idle" /\ handler = "none" =>
    fail_count > 0

(* A dirty report of the display that has the framebuffer is answered by a *)
(* full image, if the pool can hold one, although clients draw all the     *)
(* time: unless the report becomes void or late, a submission is refused   *)
(* (which may lose tickets for good) or the device goes.                   *)
DirtyReportFlushed ==
  owed = "due" /\ bound /\ ample ~> owed # "due" \/ refused \/ teardown # "up"

=============================================================================
