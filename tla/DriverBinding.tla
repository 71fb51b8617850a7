----------------------------- MODULE DriverBinding -----------------------------
(***************************************************************************)
(* The Linux driver as a whole: loading and unloading the module (main.c), *)
(* probing and disconnecting several displays (usbhandlers.c), and the one *)
(* framebuffer they compete for (fbhandlers.c).                            *)
(*                                                                         *)
(* Every allocation may fail.  A display's tickets are either all in the   *)
(* pool or some are in flight, and of areas only their extent is kept: how *)
(* tickets circulate, how a send is cut short and which pixels are sent    *)
(* are the subjects of TicketPool and DisplaySync.                         *)
(***************************************************************************)
EXTENDS ImageSizing

CONSTANTS
  Devices,      \* the displays that come and go
  NoDevice,     \* binded_usbdev is NULL
  PoolSizes,    \* how many tickets the allocator may yield
  MaxTickets    \* RPUSBDISP_MAX_TRANSFER_TICKETS_COUNT

ASSUME BindingAssumption ==
  /\ NoDevice \notin Devices
  /\ MaxTickets \in Nat
  /\ PoolSizes \subseteq 0..MaxTickets

VARIABLES
  module,         \* how far usb_disp_init or usb_disp_exit is
  input_dev,      \* _default_input_dev is registered
  input_memory,   \* an input device is allocated
  default_fb,     \* _default_fb is registered
  fb_memory,      \* what _on_create_new_fb holds
  binded_usbdev,  \* of the framebuffer
  unsync_flag,    \* the framebuffer's unsync_flag is 1
  dirty_rect,     \* "none", a "part" or the "full" display
  life,           \* of each display, from probe to disconnect
  memory,         \* what a display's probe holds
  tickets,        \* disp_urb_count
  fb_handle,      \* dev->fb_handle is set
  work_pending,   \* completion_work is queued
  in_flight,      \* some ticket of the display is not in its pool
  stale,          \* how much of the panel may differ from the framebuffer
  failed,         \* history: a transfer of the display was refused or lost
  forgot          \* history: a command cleared a rectangle not its own

moduleVars == <<module, input_dev, input_memory, default_fb, fb_memory>>
fbVars == <<binded_usbdev, unsync_flag, dirty_rect>>
probeVars == <<memory, tickets>>
panelVars == <<in_flight, stale, failed, forgot>>
vars == <<moduleVars, fbVars, probeVars, life, fb_handle, work_pending, panelVars>>

Init ==
  /\ module = "unloaded"
  /\ input_dev = FALSE
  /\ input_memory = FALSE
  /\ default_fb = FALSE
  /\ fb_memory = {}
  /\ binded_usbdev = NoDevice
  /\ unsync_flag = FALSE
  /\ dirty_rect = "none"
  /\ life = [d \in Devices |-> "away"]
  /\ memory = [d \in Devices |-> {}]
  /\ tickets = [d \in Devices |-> 0]
  /\ fb_handle = [d \in Devices |-> FALSE]
  /\ work_pending = [d \in Devices |-> FALSE]
  /\ in_flight = [d \in Devices |-> FALSE]
  /\ stale = [d \in Devices |-> "full"]
  /\ failed = [d \in Devices |-> FALSE]
  /\ forgot = [d \in Devices |-> FALSE]

-----------------------------------------------------------------------------
(* usb_disp_init: three registrations; a failure ends the load and leaves  *)
(* the earlier ones registered.                                            *)

(* register_touch_handler.  Without memory for the input device            *)
(* _on_create_input_dev tests the wrong pointer and dereferences NULL; one *)
(* that cannot be registered is not freed.                                 *)
RegisterTouch ==
  /\ module = "unloaded"
  /\ \/ module' = "register_fb" /\ input_dev' = TRUE /\ input_memory' = TRUE
     \/ module' = "failed" /\ input_memory' = TRUE /\ UNCHANGED input_dev
     \/ module' = "oops" /\ UNCHANGED <<input_dev, input_memory>>
  /\ UNCHANGED <<default_fb, fb_memory, fbVars, probeVars, life, fb_handle,
                 work_pending, panelVars>>

(* The resources of _on_create_new_fb in the order it takes them, and what *)
(* its labels free, from the one it jumps to when the k-th one fails.      *)
FbResources == <<"fb_info", "screen", "cmap", "defio", "registered">>
Taken(k) == {FbResources[i] : i \in 1..(k - 1)}
Labels == <<"defio", "cmap", "screen", "fb_info">>

(* Mutant: every jump goes one label too far.                              *)
FreedByLabelsOneShort(k) == {Labels[i] : i \in (7 - k)..4}

FreedByLabels(k) == {Labels[i] : i \in (6 - k)..4}

(* register_fb_handlers.  _reset_fb_private leaves the framebuffer without *)
(* a display, clean and not synced.                                        *)
RegisterFb ==
  /\ module = "register_fb"
  /\ \/ /\ module' = "register_usb"
        /\ default_fb' = TRUE
        /\ fb_memory' = Taken(6)
        /\ binded_usbdev' = NoDevice
        /\ unsync_flag' = TRUE
        /\ dirty_rect' = "none"
     \/ \E k \in 1..5 :
          /\ module' = "failed"
          /\ fb_memory' = Taken(k) \ FreedByLabels(k)
          /\ UNCHANGED <<default_fb, fbVars>>
  /\ UNCHANGED <<input_dev, input_memory, probeVars, life, fb_handle,
                 work_pending, panelVars>>

(* register_usb_handlers.                                                  *)
RegisterUsb ==
  /\ module = "register_usb"
  /\ module' \in {"loaded", "failed"}
  /\ UNCHANGED <<input_dev, input_memory, default_fb, fb_memory, fbVars,
                 probeVars, life, fb_handle, work_pending, panelVars>>

(* usb_disp_exit: usb_deregister disconnects every display before it       *)
(* returns, then the framebuffer (_on_release_fb) and the input device go. *)
DeregisterUsb ==
  /\ module = "loaded"
  /\ module' = "unregister_usb"
  /\ UNCHANGED <<input_dev, input_memory, default_fb, fb_memory, fbVars,
                 probeVars, life, fb_handle, work_pending, panelVars>>

UnregisterFb ==
  /\ module = "unregister_usb"
  /\ \A d \in Devices : life[d] = "away"
  /\ module' = "unregister_touch"
  /\ default_fb' = FALSE
  /\ fb_memory' = fb_memory \ (FreedByLabels(5) \union {"registered"})
  /\ UNCHANGED <<input_dev, input_memory, fbVars, probeVars, life, fb_handle,
                 work_pending, panelVars>>

UnregisterTouch ==
  /\ module = "unregister_touch"
  /\ module' = "unloaded"
  /\ input_dev' = FALSE
  /\ input_memory' = FALSE
  /\ UNCHANGED <<default_fb, fb_memory, fbVars, probeVars, life, fb_handle,
                 work_pending, panelVars>>

-----------------------------------------------------------------------------
(* rpusbdisp_probe and _on_new_usb_device.                                 *)

Lives(d, from, to) == life[d] = from /\ life' = [life EXCEPT ![d] = to]

(* The device state is allocated, a reference to the USB device is taken   *)
(* (usb_get_dev, for which there is no usb_put_dev) and both endpoints are *)
(* found.                                                                  *)
ProbeScan(d) ==
  /\ module = "loaded"
  /\ Lives(d, "away", "scanned")
  /\ memory' = [memory EXCEPT ![d] = {"dev", "udev"}]
  /\ UNCHANGED <<moduleVars, fbVars, tickets, fb_handle, work_pending, panelVars>>

AllocStatusUrb(d) ==
  /\ \/ /\ Lives(d, "scanned", "queryable")
        /\ memory' = [memory EXCEPT ![d] = @ \union {"urb"}]
     \/ /\ Lives(d, "scanned", "away")
        /\ memory' = [memory EXCEPT ![d] = @ \ {"dev"}]
  /\ UNCHANGED <<moduleVars, fbVars, tickets, fb_handle, work_pending, panelVars>>

(* _on_alloc_disp_tickets_pool accepts any number of tickets but zero;     *)
(* with them the display is listed, alive and queried for its status.      *)
AllocTickets(d, n) ==
  /\ IF n > 0
     THEN /\ Lives(d, "queryable", "listed")
          /\ memory' = [memory EXCEPT ![d] = @ \union {"pool"}]
     ELSE /\ Lives(d, "queryable", "away")
          /\ memory' = [memory EXCEPT ![d] = @ \ {"urb", "dev"}]
  /\ tickets' = [tickets EXCEPT ![d] = n]
  /\ UNCHANGED <<moduleVars, fbVars, fb_handle, work_pending, panelVars>>

(* fbhandler_on_new_device, whose result nobody looks at: a display that   *)
(* finds the framebuffer taken stays without one.                          *)
BindDevice(d) ==
  /\ Lives(d, "listed", "offered")
  /\ IF binded_usbdev = NoDevice
     THEN /\ binded_usbdev' = d
          /\ fb_handle' = [fb_handle EXCEPT ![d] = TRUE]
     ELSE UNCHANGED <<binded_usbdev, fb_handle>>
  /\ UNCHANGED <<moduleVars, probeVars, unsync_flag, dirty_rect, work_pending, panelVars>>

(* Mutant: the framebuffer is taken for synced.                            *)
ForceFlushSynced(d) ==
  /\ Lives(d, "offered", "ready")
  /\ work_pending' = [work_pending EXCEPT ![d] = TRUE]
  /\ UNCHANGED <<moduleVars, probeVars, binded_usbdev, dirty_rect, fb_handle,
                 panelVars, unsync_flag>>

(* "force all the image to be flush".                                      *)
ForceFlush(d) ==
  /\ Lives(d, "offered", "ready")
  /\ unsync_flag' = (unsync_flag \/ fb_handle[d])
  /\ work_pending' = [work_pending EXCEPT ![d] = TRUE]
  /\ UNCHANGED <<moduleVars, probeVars, binded_usbdev, dirty_rect, fb_handle,
                 panelVars>>

-----------------------------------------------------------------------------
(* _display_update of the bound display d by an update of extent r, "part" *)
(* or "full": an image that needs n tickets, or a fill or copy command.  A *)
(* display that is not synced gets all of its image, and what was refused  *)
(* before goes with what is new.                                           *)
Widest(r, s) == IF "full" \in {r, s} THEN "full" ELSE "part"

(* A dead display sells no tickets, nor does one with too few; one with    *)
(* some in flight may have too few left.  A submission may be refused: the *)
(* update then counts as not sent, and the refused URB's ticket comes back *)
(* through its handler as any other does.                                  *)
Outcomes(d, need) ==
  (IF life[d] # "dead" /\ need <= tickets[d] THEN {"sent", "refused"} ELSE {})
  \union
  (IF life[d] = "dead" \/ need > tickets[d] \/ in_flight[d] THEN {"short"} ELSE {})

DisplayUpdate(d, command, r, n) ==
  LET remembered == unsync_flag \/ dirty_rect # "none"
      rect == IF unsync_flag THEN "full" ELSE Widest(r, dirty_rect)
      need == CASE command        -> 1
                [] rect = "full"  -> FullTickets
                [] OTHER          -> n
      right == IF command THEN stale[d] = "none" ELSE rect = "full" \/ stale[d] # "full"
  IN  \E outcome \in Outcomes(d, need) :
        /\ unsync_flag' = FALSE
        /\ dirty_rect' = IF outcome = "sent" THEN "none" ELSE rect
        /\ in_flight' = [in_flight EXCEPT ![d] = @ \/ outcome # "short"]
        /\ stale' = [stale EXCEPT ![d] =
                       CASE outcome = "sent"    -> IF right THEN "none" ELSE "full"
                         [] outcome = "refused" -> "full"
                         [] outcome = "short"   -> Widest(@, r)]
        /\ failed' = [failed EXCEPT ![d] = @ \/ outcome = "refused"]
        /\ forgot' = [forgot EXCEPT ![d] =
                        @ \/ (command /\ outcome = "sent" /\ remembered)]

(* A client's image, fill or copy changes part of the framebuffer, a write *)
(* has all of it updated.                                                  *)
(* Without a bound display the change is recorded nowhere.                 *)
Draw(command) ==
  /\ default_fb
  /\ IF binded_usbdev = NoDevice
     THEN UNCHANGED <<unsync_flag, dirty_rect, panelVars>>
     ELSE \E r \in {"part", "full"}, n \in 1..FullTickets :
            DisplayUpdate(binded_usbdev, command, r, n)
  /\ UNCHANGED <<moduleVars, probeVars, binded_usbdev, life, fb_handle, work_pending>>

(* completion_work: fbhandler_on_all_transfer_done, unless the display is  *)
(* dead, has no framebuffer or nothing is left to show.  It runs with the  *)
(* work no longer queued.                                                  *)
FlushDue(d) ==
  /\ life[d] \notin {"dead", "unbound"}
  /\ fb_handle[d]
  /\ unsync_flag \/ dirty_rect # "none"

FlushWork(d) ==
  /\ work_pending[d]
  /\ work_pending' = [work_pending EXCEPT ![d] = FALSE]
  /\ IF FlushDue(d)
     THEN DisplayUpdate(d, FALSE, "full", FullTickets)
     ELSE UNCHANGED <<unsync_flag, dirty_rect, panelVars>>
  /\ UNCHANGED <<moduleVars, probeVars, binded_usbdev, life, fb_handle>>

(* Mutant: the last ticket back does not queue the work.                   *)
TransfersDoneQuietly(d) ==
  /\ in_flight[d]
  /\ in_flight' = [in_flight EXCEPT ![d] = FALSE]
  /\ UNCHANGED <<moduleVars, fbVars, probeVars, life, fb_handle, work_pending,
                 stale, failed, forgot>>

(* _on_display_transfer_finished: the last ticket comes back.              *)
TransfersDone(d) ==
  /\ in_flight[d]
  /\ in_flight' = [in_flight EXCEPT ![d] = FALSE]
  /\ work_pending' = [work_pending EXCEPT ![d] = TRUE]
  /\ UNCHANGED <<moduleVars, fbVars, probeVars, life, fb_handle, stale, failed, forgot>>

(* A ticket comes back with an error.  The framebuffer of a display that   *)
(* is alive is no longer synced; if that was the last ticket no work is    *)
(* queued.                                                                 *)
TransferFails(d) ==
  /\ in_flight[d]
  /\ in_flight' \in {in_flight, [in_flight EXCEPT ![d] = FALSE]}
  /\ unsync_flag' = (unsync_flag \/ (fb_handle[d] /\ life[d] # "dead"))
  /\ stale' = [stale EXCEPT ![d] = "full"]
  /\ failed' = [failed EXCEPT ![d] = TRUE]
  /\ UNCHANGED <<moduleVars, probeVars, binded_usbdev, dirty_rect, life, fb_handle,
                 work_pending, forgot>>

-----------------------------------------------------------------------------
(* rpusbdisp_disconnect and _on_del_usb_device, for an unplugged display   *)
(* or from usb_deregister.                                                 *)
Unplug(d) ==
  /\ Lives(d, "ready", "dead")
  /\ UNCHANGED <<moduleVars, fbVars, probeVars, fb_handle, work_pending, panelVars>>

(* Mutant: the framebuffer is unbound from whatever display it has.        *)
UnbindDeviceAny(d) ==
  /\ Lives(d, "dead", "unbound")
  /\ binded_usbdev' = NoDevice
  /\ fb_handle' = [fb_handle EXCEPT ![d] = FALSE]
  /\ UNCHANGED <<moduleVars, probeVars, unsync_flag, dirty_rect, work_pending, panelVars>>

(* fbhandler_on_remove_device.  No other display takes the framebuffer.    *)
UnbindDevice(d) ==
  /\ Lives(d, "dead", "unbound")
  /\ binded_usbdev' = IF fb_handle[d] THEN NoDevice ELSE binded_usbdev
  /\ fb_handle' = [fb_handle EXCEPT ![d] = FALSE]
  /\ UNCHANGED <<moduleVars, probeVars, unsync_flag, dirty_rect, work_pending, panelVars>>

(* The status URB is killed, the work cancelled, the display unlisted, its *)
(* tickets are waited for and freed, and so is the rest of its memory.     *)
(* The next display to come shows its own logo.                            *)
FreeDevice(d) ==
  /\ Lives(d, "unbound", "away")
  /\ work_pending' = [work_pending EXCEPT ![d] = FALSE]
  /\ in_flight' = [in_flight EXCEPT ![d] = FALSE]
  /\ memory' = [memory EXCEPT ![d] = @ \ {"pool", "urb", "dev"}]
  /\ tickets' = [tickets EXCEPT ![d] = 0]
  /\ stale' = [stale EXCEPT ![d] = "full"]
  /\ failed' = [failed EXCEPT ![d] = FALSE]
  /\ forgot' = [forgot EXCEPT ![d] = FALSE]
  /\ UNCHANGED <<moduleVars, fbVars, fb_handle>>

-----------------------------------------------------------------------------
LoadStep == RegisterTouch \/ RegisterFb \/ RegisterUsb

ExitStep == UnregisterFb \/ UnregisterTouch

ProbeStep(d) ==
  \/ AllocStatusUrb(d)
  \/ \E n \in PoolSizes : AllocTickets(d, n)
  \/ BindDevice(d)
  \/ ForceFlush(d)

TeardownStep(d) == UnbindDevice(d) \/ FreeDevice(d)

Next ==
  \/ LoadStep
  \/ DeregisterUsb
  \/ ExitStep
  \/ \E command \in BOOLEAN : Draw(command)
  \/ \E d \in Devices :
       \/ ProbeScan(d)
       \/ ProbeStep(d)
       \/ FlushWork(d)
       \/ TransfersDone(d)
       \/ TransferFails(d)
       \/ Unplug(d)
       \/ TeardownStep(d)

Spec == Init /\ [][Next]_vars

(* Probe, disconnect, queued work and module exit go on; usb_deregister    *)
(* disconnects the displays.  The tickets in flight come back as long as   *)
(* none was lost by a refused submission.  Nothing forces a load, a plug   *)
(* or a client.                                                            *)
Fairness ==
  /\ WF_vars(ExitStep)
  /\ \A d \in Devices :
       /\ WF_vars(ProbeStep(d))
       /\ WF_vars(FlushWork(d))
       /\ WF_vars(~failed[d] /\ TransfersDone(d))
       /\ WF_vars(TeardownStep(d))
       /\ WF_vars(module = "unregister_usb" /\ Unplug(d))

FairSpec == Spec /\ Fairness

-----------------------------------------------------------------------------
(* binded_usbdev of the framebuffer and fb_handle of the displays point at *)
(* each other, whatever displays come and go: the framebuffer never uses a *)
(* display that is not its own or that has been freed.  While a display    *)
(* can still report touches or take images, the input device and the       *)
(* framebuffer are registered (the order of usb_disp_init and _exit).      *)
BindingConsistent ==
  \A d \in Devices :
    /\ fb_handle[d] <=> binded_usbdev = d
    /\ fb_handle[d] => {"dev", "urb", "pool"} \subseteq memory[d]
    /\ life[d] # "away" => input_dev /\ default_fb

(* Whatever step of probe, of _on_create_new_fb or of the registrations    *)
(* fails, and after every disconnect, nothing stays allocated that no      *)
(* pointer leads to, but for two things that are never given back: the     *)
(* probe's reference to the USB device, and an input device that could not *)
(* be registered.                                                          *)
LittleLeftBehind ==
  /\ fb_memory # {} => default_fb
  /\ input_memory => input_dev \/ (module = "failed" /\ ~default_fb)
  /\ \A d \in Devices : life[d] = "away" => memory[d] \subseteq {"udev"}

(* A display with all its tickets can be sent every image: its pool covers *)
(* the ticket count of every rectangle, with and without RLE.              *)
EnoughTickets ==
  \A d \in Devices :
    life[d] = "ready" /\ tickets[d] = MaxTickets =>
      Needs \subseteq 1..tickets[d]

(* The worst encoding of an image leaves room in the tickets it bought:    *)
(* the BUG_ON of _bitblt_encode_n_transfer_data is out of reach.           *)
WorstCaseFits ==
  \A d \in Devices : life[d] = "ready" => TRUE \notin CanOverrun

(* A display with the framebuffer and tickets enough for a full image,     *)
(* none of whose transfers failed and none of whose commands cleared a     *)
(* rectangle that was not its own (fbhandlers.c:145 and :159 do).          *)
WellServed(d) ==
  /\ life[d] = "ready" /\ fb_handle[d] /\ tickets[d] >= FullTickets
  /\ ~failed[d] /\ ~forgot[d]

(* Such a display shows the framebuffer whenever its tickets are back and  *)
(* its work is not queued: what the panel showed before, what was drawn    *)
(* before it came, what was dropped for want of tickets, and what another  *)
(* display's short pool, lost transfers or commands left behind, is on the *)
(* panel or will be.                                                       *)
BoundShownAtRest ==
  \A d \in Devices :
    WellServed(d) /\ ~in_flight[d] /\ ~work_pending[d] => stale[d] = "none"

(* A display with the framebuffer and tickets enough comes to show the     *)
(* framebuffer, also what was drawn before it came, however many updates   *)
(* find too few tickets: only a pool cut short by failed allocations, a    *)
(* failed transfer or a command that forgets can starve it.                *)
BoundDisplayShown ==
  \A d \in Devices : WellServed(d) ~> (stale[d] = "none" \/ ~WellServed(d))

=============================================================================
