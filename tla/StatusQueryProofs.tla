--------------------------- MODULE StatusQueryProofs ---------------------------
(***************************************************************************)
(* Proofs about StatusQuery, for every number of retries.                  *)
(***************************************************************************)
EXTENDS StatusQuery, TLAPS

(***************************************************************************)
(* The order of the life cycle: nobody unplugs before probe has returned,  *)
(* and the teardown starts with is_alive cleared.                          *)
(***************************************************************************)
LifeOrder ==
  /\ is_alive <=> teardown = "up"
  /\ ~endpoint => probe = "ready"
  /\ teardown # "up" => ~endpoint

(***************************************************************************)
(* Before probe has started the query there is nothing to poll or to fail; *)
(* while the handler runs its URB is nowhere else.                         *)
(***************************************************************************)
OneUrb ==
  /\ probe = "query" => query = "idle" /\ handler = "none" /\ fail_count = 0
  /\ handler # "none" => query = "idle"

(***************************************************************************)
(* What a dirty report has left behind, each part from the step of probe   *)
(* on that makes up for the reports before: the memory of the whole        *)
(* display, in the mark or in the dirty rectangle, and whatever will queue *)
(* the work.  The first part is why a work that finds nothing to flush, or *)
(* a draw that finds the mark used up, may do no more than they do.        *)
(***************************************************************************)
MarksOfReport ==
  bound /\ probe \in {"schedule", "ready"} /\ teardown = "up" =>
    /\ owed \in {"due", "late"} => unsync_flag \/ dirty_rect = "full"
    /\ owed = "due" /\ probe = "ready" =>
         work_pending \/ handler = "schedule" \/ in_flight \/ ~ample

IInv ==
  /\ TypeOK
  /\ LifeOrder
  /\ OneUrb
  /\ MarksOfReport
  /\ QuietAfterKill
  /\ PollingStopsOnlyAfterFailure

-----------------------------------------------------------------------------
(* A report with the dirty bit is a normal status packet.                  *)
LEMMA DirtyIsNormal ==
  ASSUME NEW r \in Results
  PROVE  /\ {r.ok, r.normal, r.dirty, r.pressed} \subseteq BOOLEAN
         /\ r.dirty => r.normal
<1>1. CASE r \in Normal
  BY <1>1 DEF Normal
<1>2. CASE r = Other
  BY <1>2 DEF Other
<1>3. CASE r = Failure
  BY <1>3 DEF Failure
<1>4. QED
  BY <1>1, <1>2, <1>3 DEF Results

(* What a call of _status_start_querying does to the URB and the failure   *)
(* counter: if the device could be asked and is not, a failure is counted. *)
LEMMA StartQueryingEffect ==
  ASSUME TypeOK, StartQuerying
  PROVE  /\ query' \in {query, "submitted"}
         /\ fail_count' \in 0..RetryCount
         /\ is_alive /\ endpoint => query' = "submitted" \/ fail_count' > 0
         /\ ~is_alive => query' = query
  BY RetryAssumption DEF TypeOK, StartQuerying, MayQuery

(* The types of what _display_update assigns.                              *)
LEMMA UpdateTypes ==
  ASSUME TypeOK, NEW command \in BOOLEAN, NEW r \in {"part", "full"},
         NEW queued \in BOOLEAN, DisplayUpdate(command, r, queued)
  PROVE  /\ {unsync_flag', in_flight', refused', work_pending'} \subseteq BOOLEAN
         /\ dirty_rect' \in {"none", "part", "full"}
         /\ owed' \in {"none", "due", "late", "void"}
<1>1. PICK outcome \in Outcomes(command) :
        /\ dirty_rect' \in {"none", "part", "full"}
        /\ owed' \in {"none", "void", "late", owed}
        /\ IF outcome = "refused"
           THEN /\ refused' = TRUE
                /\ unsync_flag' \in BOOLEAN
                /\ in_flight' \in BOOLEAN
                /\ work_pending' \in {queued, TRUE}
           ELSE /\ refused' = refused
                /\ unsync_flag' = FALSE
                /\ in_flight' = (in_flight \/ outcome = "sent")
                /\ work_pending' = queued
  BY DEF DisplayUpdate, Widest, Answer
<1>2. {unsync_flag', in_flight', refused', work_pending'} \subseteq BOOLEAN
  BY <1>1 DEF TypeOK
<1>3. QED
  BY <1>1, <1>2 DEF TypeOK

(* No update makes a report due that was not.                              *)
LEMMA UpdateOwes ==
  ASSUME NEW command \in BOOLEAN, NEW r \in {"part", "full"}, NEW queued \in BOOLEAN,
         DisplayUpdate(command, r, queued), owed' \in {"due", "late"}
  PROVE  owed \in {"due", "late"}
  BY DEF DisplayUpdate, Answer

(* The whole display, once remembered for a report, is either sent or      *)
(* remembered still; and a report that stays due found too few tickets,    *)
(* which an image does only with some in flight or in a pool too small.    *)
LEMMA UpdateKeepsReport ==
  ASSUME TypeOK, is_alive, NEW command \in BOOLEAN, NEW r \in {"part", "full"},
         NEW queued \in BOOLEAN, DisplayUpdate(command, r, queued),
         unsync_flag \/ dirty_rect = "full", owed' \in {"due", "late"}
  PROVE  /\ dirty_rect' = "full"
         /\ owed \in {"due", "late"}
         /\ owed' = "due" => /\ owed = "due"
                             /\ in_flight' = in_flight
                             /\ work_pending' = queued
                             /\ command \/ in_flight \/ ~ample
<1> DEFINE rect == IF unsync_flag THEN "full" ELSE Widest(r, dirty_rect)
<1>1. rect = "full"
  BY DEF Widest
<1>2. PICK outcome \in Outcomes(command) :
        /\ dirty_rect' = IF outcome = "sent" THEN "none" ELSE rect
        /\ owed' = Answer(command, rect, outcome)
        /\ outcome # "refused" => /\ in_flight' = (in_flight \/ outcome = "sent")
                                  /\ work_pending' = queued
  BY DEF DisplayUpdate
<1>3. outcome # "sent" /\ owed \in {"due", "late"}
  BY <1>1, <1>2 DEF Answer, TypeOK
<1>4. owed' = "due" => owed = "due" /\ outcome = "short"
  BY <1>2, <1>3 DEF Answer, Outcomes
<1>5. outcome = "short" => command \/ in_flight \/ ~ample
  BY <1>2 DEF Outcomes
<1>6. outcome = "short" => in_flight' = in_flight
  BY <1>2 DEF TypeOK
<1>7. QED
  BY <1>1, <1>2, <1>3, <1>4, <1>5, <1>6

(* A device whose query is about to be started satisfies the invariant.    *)
LEMMA InitIInv == Init => IInv
<1> SUFFICES ASSUME Init PROVE IInv
  OBVIOUS
<1>1. TypeOK
  <2>1. report \in Results /\ fail_count \in 0..RetryCount
    BY RetryAssumption DEF Init, Results
  <2>2. QED
    BY <2>1 DEF Init, TypeOK
<1>2. LifeOrder /\ OneUrb /\ MarksOfReport
  BY DEF Init, LifeOrder, OneUrb, MarksOfReport
<1>3. QuietAfterKill /\ PollingStopsOnlyAfterFailure
  BY DEF Init, QuietAfterKill, PollingStopsOnlyAfterFailure
<1>4. QED
  BY <1>1, <1>2, <1>3 DEF IInv

(* Drawing keeps the types.                                                *)
LEMMA DrawTypeOK ==
  ASSUME TypeOK, NEW command \in BOOLEAN, NEW r \in {"part", "full"}, Draw(command, r)
  PROVE  TypeOK'
<1>1. work_pending \in BOOLEAN
  BY DEF TypeOK
<1>2. DisplayUpdate(command, r, work_pending)
  BY Zenon DEF Draw
<1>3. /\ {unsync_flag', in_flight', refused', work_pending'} \subseteq BOOLEAN
      /\ dirty_rect' \in {"none", "part", "full"}
      /\ owed' \in {"none", "due", "late", "void"}
  BY <1>1, <1>2, UpdateTypes, Zenon
<1>4. UNCHANGED <<urbVars, lifeVars, touched>>
  BY DEF Draw
<1>5. QED
  BY <1>3, <1>4 DEF TypeOK, urbVars, lifeVars

(* A flush leaves a report due only when it finds too few tickets.         *)
LEMMA FlushKeepsReport ==
  ASSUME TypeOK, is_alive, DisplayUpdate(FALSE, "full", FALSE),
         unsync_flag \/ dirty_rect = "full", owed' \in {"due", "late"}
  PROVE  /\ dirty_rect' = "full"
         /\ owed' = "due" => in_flight' = in_flight /\ (in_flight \/ ~ample)
  BY UpdateKeepsReport, Zenon

(* The variables keep their types.                                         *)
LEMMA NextTypeOK == IInv /\ [Next]_vars => TypeOK'
<1> SUFFICES ASSUME IInv, [Next]_vars PROVE TypeOK'
  OBVIOUS
<1> USE RetryAssumption DEF IInv, TypeOK, urbVars, lifeVars, markVars, sendVars
<1>1. ASSUME NEW r \in Results, UrbDone(r) PROVE TypeOK'
  BY <1>1 DEF UrbDone
<1>2. CASE HandlerEnter
  BY <1>2 DEF HandlerEnter
<1>3. CASE HandlerMark
  <2>1. unsync_flag' \in BOOLEAN /\ owed' \in {owed, "due"}
    BY <1>3, DirtyIsNormal DEF HandlerMark
  <2>2. handler' \in {"none", "schedule", "touch", "resubmit"}
    BY <1>3 DEF HandlerMark, AfterParse
  <2>3. QED
    BY <1>3, <2>1, <2>2 DEF HandlerMark
<1>4. CASE HandlerSchedule
  BY <1>4 DEF HandlerSchedule
<1>5. CASE HandlerTouch
  BY <1>5, DirtyIsNormal DEF HandlerTouch, AfterParse
<1>6. CASE HandlerResubmit
  BY <1>6, StartQueryingEffect DEF HandlerResubmit
<1>7. CASE ProbeQuery
  BY <1>7, StartQueryingEffect DEF ProbeQuery
<1>8. CASE ProbeBind
  BY <1>8 DEF ProbeBind
<1>9. CASE ProbeUnsync
  BY <1>9 DEF ProbeUnsync
<1>10. CASE ProbeSchedule
  BY <1>10 DEF ProbeSchedule
<1>11. CASE RunWork
  <2>1. CASE DisplayUpdate(FALSE, "full", FALSE)
    <3>1. UNCHANGED <<urbVars, lifeVars, touched>>
      BY <1>11 DEF RunWork
    <3>2. QED
      BY <2>1, <3>1, UpdateTypes
  <2>2. CASE work_pending' = FALSE /\ UNCHANGED <<markVars, sendVars, owed>>
    BY <1>11, <2>2 DEF RunWork
  <2>3. QED
    BY <1>11, <2>1, <2>2 DEF RunWork
<1>12. CASE Unplug
  BY <1>12 DEF Unplug, Results
<1>16. ASSUME NEW command \in BOOLEAN, NEW r \in {"part", "full"}, Draw(command, r)
       PROVE TypeOK'
  BY <1>16, DrawTypeOK, Zenon
<1>17. CASE TransfersDone
  <2>1. in_flight' = FALSE /\ work_pending' = TRUE
    BY <1>17 DEF TransfersDone
  <2>2. UNCHANGED <<urbVars, lifeVars, markVars, refused, touched, owed>>
    BY <1>17 DEF TransfersDone
  <2>3. {endpoint', is_alive', bound', ample', unsync_flag', in_flight',
         work_pending', touched', refused'} \subseteq BOOLEAN
    BY <2>1, <2>2
  <2>4. QED
    BY <2>2, <2>3
<1>18. CASE TransferFails
  <2>1. {in_flight', unsync_flag'} \subseteq BOOLEAN
    BY <1>18 DEF TransferFails
  <2>2. owed' \in {"late", owed}
    BY <1>18 DEF TransferFails
  <2>3. UNCHANGED <<urbVars, lifeVars, dirty_rect, refused, work_pending, touched>>
    BY <1>18 DEF TransferFails
  <2>4. {endpoint', is_alive', bound', ample', unsync_flag', in_flight',
         work_pending', touched', refused'} \subseteq BOOLEAN
    BY <2>1, <2>3
  <2>5. QED
    BY <2>2, <2>3, <2>4
<1>13. CASE TeardownStep
  <2>1. CASE MarkDead
    BY <2>1 DEF MarkDead
  <2>2. CASE Unbind
    BY <2>2 DEF Unbind
  <2>3. CASE KillUrb
    BY <2>3 DEF KillUrb
  <2>4. CASE CancelWork
    BY <2>4 DEF CancelWork
  <2>5. CASE FreeDevice
    BY <2>5 DEF FreeDevice
  <2>6. QED
    BY <1>13, <2>1, <2>2, <2>3, <2>4, <2>5 DEF TeardownStep
<1>14. CASE UNCHANGED vars
  BY <1>14 DEF vars
<1>15. QED
  BY <1>1, <1>2, <1>3, <1>4, <1>5, <1>6, <1>7, <1>8, <1>9, <1>10, <1>11, <1>12,
     <1>13, <1>14, <1>16, <1>17, <1>18 DEF Next, HandlerStep, ProbeStep

(* Every step keeps the other parts of the inductive invariant.            *)
LEMMA NextIInv == IInv /\ [Next]_vars => IInv'
<1> SUFFICES ASSUME IInv, [Next]_vars PROVE IInv'
  OBVIOUS
<1>0. TypeOK'
  BY NextTypeOK
<1> USE <1>0, RetryAssumption DEF IInv, TypeOK, LifeOrder, OneUrb, MarksOfReport,
      QuietAfterKill, PollingStopsOnlyAfterFailure,
      urbVars, lifeVars, markVars, sendVars
<1>1. ASSUME NEW r \in Results, UrbDone(r) PROVE IInv'
  BY <1>1 DEF UrbDone
<1>2. CASE HandlerEnter
  <2>1. is_alive /\ handler' = "none" => fail_count' = RetryCount
    BY <1>2, DirtyIsNormal, Zenon DEF HandlerEnter
  <2>2. is_alive' = is_alive /\ teardown' = teardown /\ probe' = probe /\ probe # "query"
    BY <1>2 DEF HandlerEnter
  <2>3. PollingStopsOnlyAfterFailure'
    BY <1>2, <2>1, <2>2 DEF HandlerEnter
  <2>4. QED
    BY <1>2, <2>2, <2>3 DEF HandlerEnter
<1>3. CASE HandlerMark
  <2>1. report.dirty => handler' = "schedule"
    BY <1>3, DirtyIsNormal DEF HandlerMark
  <2>2. handler' = "none" => fail_count > 0
    BY <1>3 DEF HandlerMark, AfterParse
  <2>3. QED
    BY <1>3, <2>1, <2>2 DEF HandlerMark
<1>4. CASE HandlerSchedule
  BY <1>4 DEF HandlerSchedule
<1>5. CASE HandlerTouch
  BY <1>5 DEF HandlerTouch, AfterParse
<1>6. CASE HandlerResubmit
  BY <1>6, StartQueryingEffect DEF HandlerResubmit
<1>7. CASE ProbeQuery
  BY <1>7, StartQueryingEffect DEF ProbeQuery
<1>8. CASE ProbeBind
  BY <1>8 DEF ProbeBind
<1>9. CASE ProbeUnsync
  BY <1>9 DEF ProbeUnsync
<1>10. CASE ProbeSchedule
  BY <1>10 DEF ProbeSchedule
<1>11. CASE RunWork
  <2>1. /\ UNCHANGED <<urbVars, lifeVars, touched>>
        /\ work_pending
        /\ \/ is_alive /\ bound /\ DisplayUpdate(FALSE, "full", FALSE)
           \/ /\ ~(is_alive /\ bound /\ (unsync_flag \/ dirty_rect # "none"))
              /\ UNCHANGED <<markVars, sendVars, owed>>
    BY <1>11 DEF RunWork
  <2>2. ASSUME bound, probe \in {"schedule", "ready"}, teardown = "up",
               owed' \in {"due", "late"}
        PROVE  /\ unsync_flag' \/ dirty_rect' = "full"
               /\ owed' = "due" /\ probe = "ready" => in_flight' \/ ~ample
    <3>1. CASE is_alive /\ DisplayUpdate(FALSE, "full", FALSE)
      <4>1. owed \in {"due", "late"}
        BY <2>2, <3>1, UpdateOwes, Zenon
      <4>2. unsync_flag \/ dirty_rect = "full"
        BY <2>2, <4>1
      <4>3. dirty_rect' = "full" /\ (owed' = "due" => in_flight' = in_flight
                                                     /\ (in_flight \/ ~ample))
        BY <2>2, <3>1, <4>2, FlushKeepsReport
      <4>4. QED
        BY <2>1, <4>3
    <3>2. CASE /\ ~(is_alive /\ bound /\ (unsync_flag \/ dirty_rect # "none"))
               /\ UNCHANGED <<markVars, sendVars, owed>>
      BY <2>2, <3>2
    <3>3. QED
      BY <2>1, <2>2, <3>1, <3>2
  <2>3. MarksOfReport'
    BY <2>1, <2>2
  <2>4. QED
    BY <2>1, <2>3
<1>12. CASE Unplug
  BY <1>12 DEF Unplug
<1>16. ASSUME NEW command \in BOOLEAN, NEW r \in {"part", "full"}, Draw(command, r)
       PROVE IInv'
  <2>1. /\ UNCHANGED <<urbVars, lifeVars, touched>>
        /\ bound /\ DisplayUpdate(command, r, work_pending)
    BY <1>16 DEF Draw
  <2>2. ASSUME probe \in {"schedule", "ready"}, teardown = "up", owed' \in {"due", "late"}
        PROVE  /\ unsync_flag' \/ dirty_rect' = "full"
               /\ owed' = "due" => owed = "due" /\ in_flight' = in_flight
                                   /\ work_pending' = work_pending
    BY <2>1, <2>2, UpdateOwes, UpdateKeepsReport
  <2>3. MarksOfReport'
    BY <2>1, <2>2
  <2>4. QED
    BY <2>1, <2>3
<1>17. CASE TransfersDone
  BY <1>17 DEF TransfersDone
<1>18. CASE TransferFails
  BY <1>18 DEF TransferFails
<1>13. CASE TeardownStep
  BY <1>13 DEF TeardownStep, MarkDead, Unbind, KillUrb, CancelWork, FreeDevice
<1>14. CASE UNCHANGED vars
  BY <1>14 DEF vars
<1>15. QED
  BY <1>1, <1>2, <1>3, <1>4, <1>5, <1>6, <1>7, <1>8, <1>9, <1>10, <1>11, <1>12,
     <1>13, <1>14, <1>16, <1>17, <1>18 DEF Next, HandlerStep, ProbeStep

(* The inductive invariant holds in every behaviour of probe, polling,     *)
(* handler, work and disconnect.                                           *)
THEOREM Inductive == Spec => []IInv
  BY InitIInv, NextIInv, PTL DEF Spec

(* For every number of retries: a dirty report of the display that has the *)
(* framebuffer, read and not yet answered, stays remembered, and until a   *)
(* submission is refused or a last transfer fails something will flush it. *)
THEOREM ReportKept == Spec => []DirtyReportNotLost
<1>1. IInv => DirtyReportNotLost
  BY DEF IInv, MarksOfReport, DirtyReportNotLost
<1>2. QED
  BY <1>1, Inductive, PTL

(* For every number of retries: nothing uses the status URB after          *)
(* usb_kill_urb.                                                           *)
THEOREM KillSafe == Spec => []QuietAfterKill
<1>1. IInv => QuietAfterKill
  BY DEF IInv
<1>2. QED
  BY <1>1, Inductive, PTL

(* For every number of retries: a connected device is polled until         *)
(* something fails.                                                        *)
THEOREM PollingKept == Spec => []PollingStopsOnlyAfterFailure
<1>1. IInv => PollingStopsOnlyAfterFailure
  BY DEF IInv
<1>2. QED
  BY <1>1, Inductive, PTL

=============================================================================
