-------------------------- MODULE DriverBindingProofs --------------------------
(***************************************************************************)
(* Proofs about DriverBinding, for any number of displays and any pool     *)
(* sizes, and about the ticket counts of ImageSizing, for any display.     *)
(***************************************************************************)
EXTENDS DriverBinding, TLAPS

ModuleStates == {"unloaded", "register_fb", "register_usb", "loaded",
                 "unregister_usb", "unregister_touch", "failed", "oops"}

LifeStates == {"away", "scanned", "queryable", "listed", "offered", "ready",
               "dead", "unbound"}

(* What a display's probe has allocated by each point of its life.         *)
Allocated(l) ==
  CASE l = "scanned" -> {"dev", "udev"}
    [] l = "queryable" -> {"dev", "udev", "urb"}
    [] OTHER -> {"dev", "udev", "urb", "pool"}

Shape ==
  /\ module \in ModuleStates
  /\ life \in [Devices -> LifeStates]
  /\ memory \in [Devices -> SUBSET {"dev", "udev", "urb", "pool"}]
  /\ fb_handle \in [Devices -> BOOLEAN]
  /\ binded_usbdev \in Devices \union {NoDevice}

(***************************************************************************)
(* Which registrations are there at each point of loading and unloading.   *)
(***************************************************************************)
Registered ==
  /\ module \in {"register_fb", "register_usb", "loaded", "unregister_usb"} => input_dev
  /\ module \in {"register_usb", "loaded", "unregister_usb"} => default_fb
  /\ module \in {"unloaded", "register_fb", "unregister_touch"} => ~default_fb
  /\ fb_memory \subseteq Taken(6)
  /\ fb_memory # {} => default_fb
  /\ input_memory => input_dev \/ (module = "failed" /\ ~default_fb)

(***************************************************************************)
(* What a display has at each point of its life: displays exist only while *)
(* the USB driver is registered.                                           *)
(***************************************************************************)
LifeInv ==
  \A d \in Devices :
    /\ life[d] # "away" => module \in {"loaded", "unregister_usb"}
    /\ IF life[d] = "away" THEN memory[d] \subseteq {"udev"}
                          ELSE memory[d] = Allocated(life[d])
    /\ fb_handle[d] => life[d] \in {"offered", "ready", "dead"}

(***************************************************************************)
(* The two ends of the binding.                                            *)
(***************************************************************************)
TwoEnds == \A d \in Devices : fb_handle[d] <=> binded_usbdev = d

IInv == Shape /\ Registered /\ LifeInv /\ TwoEnds

-----------------------------------------------------------------------------
(* The labels of _on_create_new_fb free exactly what was taken before the  *)
(* step that failed, and _on_release_fb everything.                        *)
LEMMA LabelsFreeAll ==
  /\ \A k \in 1..5 : Taken(k) \ FreedByLabels(k) = {}
  /\ Taken(6) \ (FreedByLabels(5) \union {"registered"}) = {}
<1>1. ASSUME NEW k \in 1..6, NEW x \in Taken(k)
      PROVE  \/ x = "fb_info" /\ k > 1
             \/ x = "screen" /\ k > 2
             \/ x = "cmap" /\ k > 3
             \/ x = "defio" /\ k > 4
             \/ x = "registered" /\ k > 5
  <2>1. PICK i \in 1..(k - 1) : x = FbResources[i]
    BY <1>1 DEF Taken
  <2>2. i = 1 \/ i = 2 \/ i = 3 \/ i = 4 \/ i = 5
    BY <1>1
  <2>3. QED
    BY <2>1, <2>2, <1>1 DEF FbResources
<1>2. ASSUME NEW k \in 1..5
      PROVE  /\ k > 1 => "fb_info" \in FreedByLabels(k)
             /\ k > 2 => "screen" \in FreedByLabels(k)
             /\ k > 3 => "cmap" \in FreedByLabels(k)
             /\ k > 4 => "defio" \in FreedByLabels(k)
  <2>1. Labels[1] = "defio" /\ Labels[2] = "cmap" /\ Labels[3] = "screen" /\ Labels[4] = "fb_info"
    BY DEF Labels
  <2>2. /\ k > 1 => 4 \in (6 - k)..4
        /\ k > 2 => 3 \in (6 - k)..4
        /\ k > 3 => 2 \in (6 - k)..4
        /\ k > 4 => 1 \in (6 - k)..4
    OBVIOUS
  <2>3. QED
    BY <2>1, <2>2, Zenon DEF FreedByLabels
<1>3. ASSUME NEW k \in 1..5 PROVE Taken(k) \ FreedByLabels(k) = {}
  <2>1. k \in 1..6 /\ ~(k > 5)
    OBVIOUS
  <2>2. QED
    BY <1>1, <1>2, <2>1
<1>4. Taken(6) \ (FreedByLabels(5) \union {"registered"}) = {}
  BY <1>1, <1>2
<1>5. QED
  BY <1>3, <1>4

(* Before the module is loaded nothing is registered and nothing is held.  *)
LEMMA InitIInv == Init => IInv
  BY BindingAssumption DEF Init, IInv, Shape, Registered, LifeInv, TwoEnds, Allocated,
     ModuleStates, LifeStates, Taken

(* Loading and unloading the module.                                       *)
LEMMA ModuleSteps ==
  ASSUME IInv, LoadStep \/ DeregisterUsb \/ ExitStep
  PROVE  IInv'
<1> USE DEF IInv, Shape, Registered, LifeInv, TwoEnds, ModuleStates, fbVars, probeVars
<1>1. CASE RegisterTouch
  BY <1>1 DEF RegisterTouch
<1>2. CASE RegisterFb
  <2>1. ASSUME module' = "register_usb", default_fb', fb_memory' = Taken(6),
               binded_usbdev' = NoDevice
        PROVE  IInv'
    BY <1>2, <2>1, BindingAssumption DEF RegisterFb
  <2>2. ASSUME NEW k \in 1..5, module' = "failed",
               fb_memory' = Taken(k) \ FreedByLabels(k),
               UNCHANGED <<default_fb, fbVars>>
        PROVE  IInv'
    BY <1>2, <2>2, LabelsFreeAll DEF RegisterFb
  <2>3. QED
    BY <1>2, <2>1, <2>2 DEF RegisterFb
<1>3. CASE RegisterUsb
  BY <1>3 DEF RegisterUsb
<1>4. CASE DeregisterUsb
  BY <1>4 DEF DeregisterUsb
<1>5. CASE UnregisterFb
  <2>1. fb_memory' = {}
    BY <1>5, LabelsFreeAll DEF UnregisterFb
  <2>2. QED
    BY <1>5, <2>1 DEF UnregisterFb
<1>6. CASE UnregisterTouch
  BY <1>6 DEF UnregisterTouch
<1>7. QED
  BY <1>1, <1>2, <1>3, <1>4, <1>5, <1>6 DEF LoadStep, ExitStep

(* Probing a display.                                                      *)
LEMMA ProbeSteps ==
  ASSUME IInv, NEW d \in Devices, ProbeScan(d) \/ ProbeStep(d)
  PROVE  IInv'
<1> USE DEF IInv, Shape, Registered, LifeInv, TwoEnds, LifeStates, Allocated, Lives,
      moduleVars, fbVars, probeVars
<1>1. CASE ProbeScan(d)
  BY <1>1 DEF ProbeScan
<1>2. CASE AllocStatusUrb(d)
  <2>1. ASSUME Lives(d, "scanned", "queryable"),
               memory' = [memory EXCEPT ![d] = @ \union {"urb"}]
        PROVE  IInv'
    BY <1>2, <2>1 DEF AllocStatusUrb
  <2>2. ASSUME Lives(d, "scanned", "away"),
               memory' = [memory EXCEPT ![d] = @ \ {"dev"}]
        PROVE  IInv'
    BY <1>2, <2>2 DEF AllocStatusUrb
  <2>3. QED
    BY <1>2, <2>1, <2>2 DEF AllocStatusUrb
<1>3. ASSUME NEW n \in PoolSizes, AllocTickets(d, n) PROVE IInv'
  <2>1. CASE n > 0
    BY <1>3, <2>1 DEF AllocTickets
  <2>2. CASE ~(n > 0)
    BY <1>3, <2>2 DEF AllocTickets
  <2>3. QED
    BY <2>1, <2>2
<1>4. CASE BindDevice(d)
  <2>1. CASE binded_usbdev = NoDevice
    <3>1. /\ life[d] = "listed" /\ life' = [life EXCEPT ![d] = "offered"]
          /\ binded_usbdev' = d /\ fb_handle' = [fb_handle EXCEPT ![d] = TRUE]
          /\ UNCHANGED <<module, input_dev, input_memory, default_fb, fb_memory, memory>>
      BY <1>4, <2>1 DEF BindDevice
    <3>2. Shape' /\ Registered'
      BY <3>1
    <3>3. LifeInv'
      BY <3>1
    <3>4. TwoEnds'
      BY <2>1, <3>1, BindingAssumption
    <3>5. QED
      BY <3>2, <3>3, <3>4
  <2>2. CASE binded_usbdev # NoDevice
    BY <1>4, <2>2 DEF BindDevice
  <2>3. QED
    BY <2>1, <2>2
<1>5. CASE ForceFlush(d)
  BY <1>5 DEF ForceFlush
<1>6. QED
  BY <1>1, <1>2, <1>3, <1>4, <1>5 DEF ProbeStep

(* Drawing, flushing and completions leave the binding alone.              *)
UpdateStep ==
  \/ \E command \in BOOLEAN : Draw(command)
  \/ \E d \in Devices : FlushWork(d) \/ TransfersDone(d) \/ TransferFails(d)

(* Updates and completions leave the binding and the memory alone.         *)
LEMMA UpdateSteps ==
  ASSUME IInv, UpdateStep
  PROVE  IInv'
<1>1. UNCHANGED <<moduleVars, probeVars, binded_usbdev, life, fb_handle>>
  BY DEF UpdateStep, Draw, FlushWork, TransfersDone, TransferFails, fbVars
<1>2. QED
  BY <1>1 DEF IInv, Shape, Registered, LifeInv, TwoEnds, moduleVars, probeVars

(* Disconnecting a display.                                                *)
LEMMA DisconnectSteps ==
  ASSUME IInv, NEW d \in Devices, Unplug(d) \/ TeardownStep(d)
  PROVE  IInv'
<1> USE DEF IInv, Shape, Registered, LifeInv, TwoEnds, LifeStates, Allocated, Lives,
      moduleVars, fbVars, probeVars
<1>1. CASE Unplug(d)
  BY <1>1 DEF Unplug
<1>2. CASE UnbindDevice(d)
  BY <1>2, BindingAssumption DEF UnbindDevice
<1>3. CASE FreeDevice(d)
  BY <1>3 DEF FreeDevice
<1>4. QED
  BY <1>1, <1>2, <1>3 DEF TeardownStep

(* Every step keeps the invariant.                                         *)
LEMMA NextIInv == IInv /\ [Next]_vars => IInv'
<1> SUFFICES ASSUME IInv, [Next]_vars PROVE IInv'
  OBVIOUS
<1>1. CASE LoadStep \/ DeregisterUsb \/ ExitStep
  BY <1>1, ModuleSteps
<1>2. CASE UpdateStep
  BY <1>2, UpdateSteps
<1>3. ASSUME NEW d \in Devices, ProbeScan(d) \/ ProbeStep(d) PROVE IInv'
  BY <1>3, ProbeSteps
<1>4. ASSUME NEW d \in Devices, Unplug(d) \/ TeardownStep(d) PROVE IInv'
  BY <1>4, DisconnectSteps
<1>5. CASE UNCHANGED vars
  BY <1>5 DEF vars, moduleVars, fbVars, probeVars, IInv, Shape, Registered, LifeInv, TwoEnds
<1>6. QED
  BY <1>1, <1>2, <1>3, <1>4, <1>5 DEF Next, UpdateStep

(* The inductive invariant holds in every behaviour of the module and of   *)
(* the displays.                                                           *)
THEOREM Inductive == Spec => []IInv
  BY InitIInv, NextIInv, PTL DEF Spec

(* For any number of displays: the framebuffer and the displays agree on   *)
(* who is bound, the bound display is fully allocated, and the handlers    *)
(* are registered before the first display is probed and until the last    *)
(* one is gone.                                                            *)
THEOREM BindingSafe == Spec => []BindingConsistent
<1>1. ASSUME IInv, NEW d \in Devices
      PROVE  /\ fb_handle[d] <=> binded_usbdev = d
             /\ fb_handle[d] => {"dev", "urb", "pool"} \subseteq memory[d]
  BY <1>1 DEF IInv, LifeInv, TwoEnds, Allocated
<1>2. ASSUME IInv, NEW d \in Devices, life[d] # "away" PROVE input_dev /\ default_fb
  BY <1>2 DEF IInv, LifeInv, Registered
<1>3. IInv => BindingConsistent
  BY <1>1, <1>2 DEF BindingConsistent
<1>4. QED
  BY <1>3, Inductive, PTL

(* For any number of displays: whichever allocation or registration fails, *)
(* nothing that was taken before it stays allocated, but for the reference *)
(* to the USB device and an input device that could not be registered.     *)
THEOREM LittleLeaks == Spec => []LittleLeftBehind
<1>1. IInv => LittleLeftBehind
  BY DEF IInv, LifeInv, Registered, LittleLeftBehind
<1>2. QED
  BY <1>1, Inductive, PTL

-----------------------------------------------------------------------------
(* The tickets of images, for a display, an endpoint and an URB buffer of  *)
(* any size.                                                               *)

(* Rounding up is at least one for something, and monotonic.               *)
LEMMA RoundUpMonotonic ==
  ASSUME NEW a \in Nat, NEW b \in Nat, a <= b, NEW m \in Nat, m > 0
  PROVE  /\ RoundUpDiv(a, m) \in Nat
         /\ a > 0 => RoundUpDiv(a, m) > 0
         /\ RoundUpDiv(a, m) <= RoundUpDiv(b, m)
<1> DEFINE q == (a + m - 1) \div m
           r == (b + m - 1) \div m
<1>1. q \in Int /\ m * q <= a + m - 1 /\ a + m - 1 < m * q + m
  BY SMT
<1>2. r \in Int /\ m * r <= b + m - 1 /\ b + m - 1 < m * r + m
  BY SMT
<1>3. RoundUpDiv(a, m) = q /\ RoundUpDiv(b, m) = r
  BY DEF RoundUpDiv
<1> HIDE DEF q, r
<1>4. q >= 0
  <2>1. ASSUME q < 0 PROVE FALSE
    <3>1. m * (q + 1) <= 0
      BY <1>1, <2>1
    <3>2. m * (q + 1) = m * q + m
      BY <1>1
    <3>3. QED
      BY <1>1, <3>1, <3>2
  <2>2. QED
    BY <1>1, <2>1
<1>5. ASSUME a > 0 PROVE q > 0
  <2>1. ASSUME q = 0 PROVE FALSE
    <3>1. m * q = 0
      BY <2>1
    <3>2. QED
      BY <1>1, <1>5, <3>1
  <2>2. QED
    BY <1>1, <1>4, <2>1
<1>6. q <= r
  <2>1. ASSUME r < q PROVE FALSE
    <3>1. m * (r + 1) <= m * q
      BY <1>1, <1>2, <2>1
    <3>2. m * (r + 1) = m * r + m
      BY <1>2
    <3>3. QED
      BY <1>1, <1>2, <3>1, <3>2
  <2>2. QED
    BY <1>1, <1>2, <2>1
<1>7. QED
  BY <1>1, <1>3, <1>4, <1>5, <1>6

(* A URB holds at least one packet, and a packet at least one byte.        *)
LEMMA PacketSizes ==
  /\ packet_size_factor \in Nat /\ packet_size_factor > 0
  /\ PayloadPerPacket \in Nat /\ PayloadPerPacket > 0
<1>1. /\ MaxPacket \in Nat /\ MaxTransfer \in Nat /\ MaxPacket > 0
      /\ MaxPacket <= MaxTransfer /\ HeaderSize \in Nat /\ HeaderSize < MaxPacket
  BY SizingAssumption
<1> DEFINE q == MaxTransfer \div MaxPacket
<1>2. q \in Int /\ MaxPacket * q <= MaxTransfer /\ MaxTransfer < MaxPacket * q + MaxPacket
  BY <1>1, SMT
<1> HIDE DEF q
<1>3. q > 0
  <2>1. ASSUME q <= 0 PROVE FALSE
    <3>1. MaxPacket * q <= 0
      BY <1>1, <1>2, <2>1
    <3>2. QED
      BY <1>1, <1>2, <3>1
  <2>2. QED
    BY <1>2, <2>1
<1>4. QED
  BY <1>1, <1>2, <1>3 DEF packet_size_factor, PayloadPerPacket, q

(* A larger payload never needs fewer tickets, and each one needs some.    *)
LEMMA TicketsMonotonic ==
  ASSUME NEW a \in Nat, NEW b \in Nat, 0 < a, a <= b
  PROVE  /\ RequiredTickets(a) \in Nat /\ RequiredTickets(a) > 0
         /\ RequiredTickets(a) <= RequiredTickets(b)
<1>1. /\ PacketCount(a) \in Nat /\ PacketCount(a) > 0
      /\ PacketCount(a) <= PacketCount(b)
  BY RoundUpMonotonic, PacketSizes DEF PacketCount
<1>2. PacketCount(b) \in Nat
  BY RoundUpMonotonic, PacketSizes DEF PacketCount
<1>3. QED
  BY <1>1, <1>2, RoundUpMonotonic, PacketSizes DEF RequiredTickets

(* The payload grows with the image, and RLE may only add to it.           *)
LEMMA PayloadMonotonic ==
  ASSUME NEW a \in Nat, NEW b \in Nat, a <= b, NEW rlemode \in BOOLEAN
  PROVE  /\ PayloadEstimate(a, rlemode) \in Nat /\ PayloadEstimate(a, rlemode) > 0
         /\ PayloadEstimate(b, TRUE) \in Nat
         /\ PayloadEstimate(a, rlemode) <= PayloadEstimate(b, TRUE)
<1> DEFINE x == a \div 2
           y == b \div 2
           pa == PayloadEstimate(a, rlemode)
           pb == PayloadEstimate(b, TRUE)
<1>1. x \in Nat /\ y \in Nat /\ x <= y
  BY SMT
<1>2. /\ CommandSize \in Nat /\ HeaderSize \in Nat /\ HeaderSize < CommandSize
      /\ MaxSection \in Nat /\ MaxSection > 0
  BY SizingAssumption
<1>3. pb = (CommandSize - HeaderSize) + b + RoundUpDiv(y, MaxSection)
  BY Zenon DEF PayloadEstimate
<1>4. /\ rlemode => pa = (CommandSize - HeaderSize) + a + RoundUpDiv(x, MaxSection)
      /\ ~rlemode => pa = (CommandSize - HeaderSize) + a + 0
  BY Zenon DEF PayloadEstimate
<1> HIDE DEF x, y, pa, pb
<1>5. /\ RoundUpDiv(x, MaxSection) \in Nat /\ RoundUpDiv(y, MaxSection) \in Nat
      /\ RoundUpDiv(x, MaxSection) <= RoundUpDiv(y, MaxSection)
  BY <1>1, <1>2, RoundUpMonotonic
<1>6. pa \in Nat /\ pa > 0 /\ pb \in Nat /\ pa <= pb
  BY <1>2, <1>3, <1>4, <1>5
<1>7. QED
  BY <1>6 DEF pa, pb

(* No rectangle of the display, with or without RLE, needs more tickets    *)
(* than the full display with RLE.                                         *)
LEMMA FullNeedsMost == Needs \subseteq 1..FullTickets
<1> SUFFICES ASSUME NEW w \in 1..Width, NEW h \in 1..Height, NEW m \in BOOLEAN
             PROVE  ImageTickets(w, h, m) \in 1..FullTickets
  BY DEF Needs, Images
<1>1. /\ Width \in Nat /\ Height \in Nat /\ PixelSize \in Nat
      /\ Width > 0 /\ Height > 0 /\ PixelSize > 0
  BY ImageAssumption
<1> DEFINE a == w * h * PixelSize
           b == Width * Height * PixelSize
<1>2. a \in Nat /\ b \in Nat /\ a <= b
  <2>1. w * h \in Nat /\ Width * h \in Nat /\ Width * Height \in Nat
    BY <1>1
  <2>2. w * h <= Width * h
    BY <1>1
  <2>3. Width * h <= Width * Height
    BY <1>1
  <2>4. w * h <= Width * Height
    BY <2>1, <2>2, <2>3
  <2>5. QED
    BY <1>1, <2>1, <2>4
<1> DEFINE pa == PayloadEstimate(a, m)
           pb == PayloadEstimate(b, TRUE)
<1>3. ImageTickets(w, h, m) = RequiredTickets(pa)
  BY Zenon DEF ImageTickets, ImagePayload
<1>4. FullTickets = RequiredTickets(pb)
  BY Zenon DEF FullTickets, ImageTickets, ImagePayload
<1>5. pa \in Nat /\ pa > 0 /\ pb \in Nat /\ pa <= pb
  <2> HIDE DEF a, b
  <2>1. QED
    BY <1>2, PayloadMonotonic, Zenon
<1> HIDE DEF a, b, pa, pb
<1>6. /\ RequiredTickets(pa) \in Nat /\ RequiredTickets(pa) > 0
      /\ RequiredTickets(pa) <= RequiredTickets(pb)
      /\ RequiredTickets(pb) \in Nat
  BY <1>5, TicketsMonotonic
<1> DEFINE n == ImageTickets(w, h, m)
<1> HIDE DEF n
<1>7. n \in 1..FullTickets
  BY <1>3, <1>4, <1>6 DEF n
<1>8. QED
  BY <1>7 DEF n

(* There is a full image.                                                  *)
LEMMA FullTicketsType == FullTickets \in Nat /\ FullTickets \in 1..FullTickets
<1>1. Width \in 1..Width /\ Height \in 1..Height
  BY ImageAssumption
<1> DEFINE full == <<Width, Height, TRUE>>
<1>2. full \in Images
  BY <1>1, Zenon DEF Images
<1>3. full[1] = Width /\ full[2] = Height /\ full[3] = TRUE
  OBVIOUS
<1> HIDE DEF full
<1>4. ImageTickets(full[1], full[2], full[3]) \in Needs
  BY <1>2, Zenon DEF Needs
<1>5. FullTickets \in Needs
  BY <1>3, <1>4, Zenon DEF FullTickets
<1>6. QED
  BY <1>5, FullNeedsMost

(* If the pool can hold the tickets of one full image with RLE, which is   *)
(* what RPUSBDISP_MAX_TRANSFER_TICKETS_COUNT is chosen for, then a display *)
(* with all its tickets can be sent every image.                           *)
THEOREM PoolSuffices ==
  ASSUME FullTickets <= MaxTickets
  PROVE  Spec => []EnoughTickets
<1>1. FullTickets \in Nat
  BY FullTicketsType
<1>2. Needs \subseteq 1..MaxTickets
  BY <1>1, FullNeedsMost, BindingAssumption
<1>3. EnoughTickets
  BY <1>2 DEF EnoughTickets
<1>4. QED
  BY <1>3, PTL

-----------------------------------------------------------------------------
(* That no image fills its tickets to the last byte depends on the very    *)
(* numbers of the driver, which are those of the run: a display of at most *)
(* 320 by 240 pixels of 16 bits, packets of 64 bytes, URBs of 65024.       *)
DriverConstants ==
  /\ MaxPacket = 64 /\ MaxTransfer = 65024
  /\ MaxSection = 128
  /\ HeaderSize = 1 /\ CommandSize = 10
  /\ Width <= 320 /\ Height <= 240 /\ PixelSize = 2

(* The only image that would do so has 251 * 254 pixels: no rectangle of   *)
(* at most 240 lines and 320 columns has as many.                          *)
LEMMA NoSuchRectangle ==
  ASSUME NEW w \in 1..320, NEW h \in 1..240
  PROVE  w * h # 63754
<1> SUFFICES ASSUME w * h = 63754 PROVE FALSE
  OBVIOUS
<1>1. h > 199
  <2>1. ASSUME h <= 199 PROVE FALSE
    <3>1. w * h <= 320 * h
      OBVIOUS
    <3>2. QED
      BY <2>1, <3>1
  <2>2. QED
    BY <2>1
<1>2. ASSUME NEW d \in 0..40, h = 200 + d PROVE FALSE
  <2>1. /\ w * 200 # 63754 /\ w * 201 # 63754 /\ w * 202 # 63754 /\ w * 203 # 63754
        /\ w * 204 # 63754 /\ w * 205 # 63754 /\ w * 206 # 63754 /\ w * 207 # 63754
        /\ w * 208 # 63754 /\ w * 209 # 63754 /\ w * 210 # 63754 /\ w * 211 # 63754
        /\ w * 212 # 63754 /\ w * 213 # 63754 /\ w * 214 # 63754 /\ w * 215 # 63754
        /\ w * 216 # 63754 /\ w * 217 # 63754 /\ w * 218 # 63754 /\ w * 219 # 63754
        /\ w * 220 # 63754
    OBVIOUS
  <2>2. /\ w * 221 # 63754 /\ w * 222 # 63754 /\ w * 223 # 63754 /\ w * 224 # 63754
        /\ w * 225 # 63754 /\ w * 226 # 63754 /\ w * 227 # 63754 /\ w * 228 # 63754
        /\ w * 229 # 63754 /\ w * 230 # 63754 /\ w * 231 # 63754 /\ w * 232 # 63754
        /\ w * 233 # 63754 /\ w * 234 # 63754 /\ w * 235 # 63754 /\ w * 236 # 63754
        /\ w * 237 # 63754 /\ w * 238 # 63754 /\ w * 239 # 63754 /\ w * 240 # 63754
    OBVIOUS
  <2>3. \/ h = 200 \/ h = 201 \/ h = 202 \/ h = 203 \/ h = 204 \/ h = 205 \/ h = 206
        \/ h = 207 \/ h = 208 \/ h = 209 \/ h = 210 \/ h = 211 \/ h = 212 \/ h = 213
        \/ h = 214 \/ h = 215 \/ h = 216 \/ h = 217 \/ h = 218 \/ h = 219 \/ h = 220
        \/ h = 221 \/ h = 222 \/ h = 223 \/ h = 224 \/ h = 225 \/ h = 226 \/ h = 227
        \/ h = 228 \/ h = 229 \/ h = 230 \/ h = 231 \/ h = 232 \/ h = 233 \/ h = 234
        \/ h = 235 \/ h = 236 \/ h = 237 \/ h = 238 \/ h = 239 \/ h = 240
    BY <1>2
  <2>4. QED
    BY <2>1, <2>2, <2>3
<1>3. h - 200 \in 0..40 /\ h = 200 + (h - 200)
  BY <1>1
<1>4. QED
  BY <1>2, <1>3

(* An overrun is an exact fit: the tickets hold at least the payload.      *)
LEMMA OverrunIsExact ==
  ASSUME DriverConstants, NEW n \in Nat, Overruns(n, RequiredTickets(n))
  PROVE  RequiredTickets(n) \in Int /\ n = 64008 * RequiredTickets(n)
<1>1. packet_size_factor = 1016 /\ PayloadPerPacket = 63
  BY DEF DriverConstants, packet_size_factor, PayloadPerPacket
<1>2. PayloadPerTicket = 64008
  BY <1>1 DEF PayloadPerTicket
<1> DEFINE q == (n + 63 - 1) \div 63
<1>3. q \in Int /\ n <= 63 * q
  BY SMT
<1>4. PacketCount(n) = q
  BY <1>1 DEF PacketCount, RoundUpDiv
<1> HIDE DEF q
<1> DEFINE k == (q + 1016 - 1) \div 1016
<1>5. k \in Int /\ q <= 1016 * k
  BY <1>3, SMT
<1>6. RequiredTickets(n) = k
  BY <1>1, <1>4 DEF RequiredTickets, RoundUpDiv
<1> HIDE DEF k
<1>7. n >= k * 64008
  BY <1>2, <1>6 DEF Overruns
<1>8. QED
  BY <1>3, <1>5, <1>6, <1>7

(* No rectangle of the display, with or without RLE, is an exact fit.      *)
LEMMA NoExactFit ==
  ASSUME DriverConstants, NEW w \in 1..Width, NEW h \in 1..Height, NEW m \in BOOLEAN
  PROVE  ~Overruns(ImagePayload(w, h, m), ImageTickets(w, h, m))
<1> SUFFICES ASSUME Overruns(ImagePayload(w, h, m), ImageTickets(w, h, m)) PROVE FALSE
  OBVIOUS
<1>1. w \in 1..320 /\ h \in 1..240
  BY ImageAssumption DEF DriverConstants
<1> DEFINE a == w * h
<1>2. a \in Nat /\ a > 0 /\ a <= 76800 /\ a # 63754
  <2>1. w * h <= 320 * h
    BY <1>1
  <2>2. w * h \in Nat /\ w * h > 0
    BY <1>1
  <2>3. QED
    BY <1>1, <2>1, <2>2, NoSuchRectangle
<1> HIDE DEF a
<1> DEFINE s == (a + 128 - 1) \div 128
           n == ImagePayload(w, h, m)
<1>3. s \in Int /\ 128 * s <= a + 127 /\ a + 127 < 128 * s + 128
  BY <1>2, SMT
<1>4. /\ m => n = 9 + 2 * a + s
      /\ ~m => n = 9 + 2 * a
  <2>1. w * h * PixelSize = 2 * a /\ (2 * a) \div 2 = a
    BY <1>1, <1>2 DEF DriverConstants, a
  <2>2. n = PayloadEstimate(2 * a, m)
    BY <2>1, Zenon DEF ImagePayload, n
  <2>3. PayloadEstimate(2 * a, m)
          = (CommandSize - HeaderSize) + 2 * a
              + (IF m THEN RoundUpDiv(a, MaxSection) ELSE 0)
    BY <2>1, Zenon DEF PayloadEstimate
  <2>4. RoundUpDiv(a, MaxSection) = s /\ CommandSize - HeaderSize = 9
    BY DEF RoundUpDiv, DriverConstants, s
  <2>5. QED
    BY <1>2, <1>3, <2>2, <2>3, <2>4
<1> HIDE DEF s, n
<1>5. n \in Nat /\ n > 0 /\ n <= 154209
  BY <1>2, <1>3, <1>4
<1> DEFINE k == RequiredTickets(n)
<1>6. k \in Int /\ n = 64008 * k
  BY <1>5, OverrunIsExact DEF ImageTickets, n
<1> HIDE DEF k
<1>7. k = 1 \/ k = 2
  BY <1>5, <1>6
<1>8. m
  BY <1>2, <1>4, <1>6
<1>9. k # 1
  BY <1>2, <1>3, <1>4, <1>6, <1>8
<1>10. a = 63754
  BY <1>2, <1>3, <1>4, <1>6, <1>7, <1>8, <1>9
<1>11. QED
  BY <1>2, <1>10

(* With the constants of the driver the BUG_ON of                          *)
(* _bitblt_encode_n_transfer_data is out of the reach of every image, even *)
(* of one that RLE makes as long as it can (ImageSenderProofs shows that   *)
(* nothing but an exact fit leads there).                                  *)
THEOREM BugOutOfReach ==
  ASSUME DriverConstants
  PROVE  Spec => []WorstCaseFits
<1>1. TRUE \notin CanOverrun
  <2>1. ASSUME NEW i \in Images
        PROVE  Overruns(ImagePayload(i[1], i[2], i[3]),
                        ImageTickets(i[1], i[2], i[3])) # TRUE
    <3>1. i[1] \in 1..Width /\ i[2] \in 1..Height /\ i[3] \in BOOLEAN
      BY DEF Images
    <3>2. QED
      BY <3>1, NoExactFit
  <2>2. QED
    BY <2>1 DEF CanOverrun
<1>2. WorstCaseFits
  BY <1>1 DEF WorstCaseFits
<1>3. QED
  BY <1>2, PTL

-----------------------------------------------------------------------------
(* What is wrong on a well served display the framebuffer remembers, and   *)
(* what it remembers has a work or a last ticket to come.                  *)
Remembered(d) ==
  /\ stale[d] = "full" => unsync_flag \/ dirty_rect = "full"
  /\ stale[d] = "part" => unsync_flag \/ dirty_rect # "none"
  /\ unsync_flag \/ dirty_rect # "none" => work_pending[d] \/ in_flight[d]

PanelTypes ==
  /\ tickets \in [Devices -> Nat]
  /\ dirty_rect \in {"none", "part", "full"}
  /\ stale \in [Devices -> {"none", "part", "full"}]
  /\ work_pending \in [Devices -> BOOLEAN]
  /\ in_flight \in [Devices -> BOOLEAN]
  /\ failed \in [Devices -> BOOLEAN]
  /\ forgot \in [Devices -> BOOLEAN]

ShownInv ==
  /\ PanelTypes
  /\ \A d \in Devices : WellServed(d) => Remembered(d)

(* _display_update of the display with the framebuffer: if the display is  *)
(* well served afterwards, the update was sent, and it made everything     *)
(* right, or it waits for the tickets in flight, and is remembered.        *)
LEMMA UpdateShows ==
  ASSUME IInv, ShownInv, NEW d \in Devices, fb_handle[d],
         NEW command \in BOOLEAN, NEW r \in {"part", "full"}, NEW n \in 1..FullTickets,
         DisplayUpdate(d, command, r, n),
         work_pending' \in [Devices -> BOOLEAN],
         UNCHANGED <<life, fb_handle, tickets>>
  PROVE  ShownInv'
<1> DEFINE remembered == unsync_flag \/ dirty_rect # "none"
           rect == IF unsync_flag THEN "full" ELSE Widest(r, dirty_rect)
           need == CASE command        -> 1
                     [] rect = "full"  -> FullTickets
                     [] OTHER          -> n
           right == IF command THEN stale[d] = "none" ELSE rect = "full" \/ stale[d] # "full"
           left(outcome) ==
             CASE outcome = "sent"    -> IF right THEN "none" ELSE "full"
               [] outcome = "refused" -> "full"
               [] outcome = "short"   -> Widest(stale[d], r)
<1>1. PICK outcome \in Outcomes(d, need) :
        /\ unsync_flag' = FALSE
        /\ dirty_rect' = IF outcome = "sent" THEN "none" ELSE rect
        /\ in_flight' = [in_flight EXCEPT ![d] = @ \/ outcome # "short"]
        /\ stale' = [stale EXCEPT ![d] = left(outcome)]
        /\ failed' = [failed EXCEPT ![d] = @ \/ outcome = "refused"]
        /\ forgot' = [forgot EXCEPT ![d] = @ \/ (command /\ outcome = "sent" /\ remembered)]
  BY DEF DisplayUpdate
<1>2. outcome \in {"sent", "refused", "short"}
  BY DEF Outcomes
<1>3. rect \in {"part", "full"} /\ left(outcome) \in {"none", "part", "full"}
  BY <1>2 DEF Widest, ShownInv, PanelTypes
<1>4. PanelTypes'
  <2> HIDE DEF left, rect, remembered
  <2>1. QED
    BY <1>1, <1>2, <1>3 DEF ShownInv, PanelTypes
<1>5. ASSUME WellServed(d)'
      PROVE  /\ WellServed(d) /\ outcome # "refused"
             /\ ~(command /\ outcome = "sent" /\ remembered)
  <2> HIDE DEF left, rect, remembered
  <2>1. QED
    BY <1>1, <1>5 DEF WellServed, ShownInv, PanelTypes
<1>6. ASSUME WellServed(d)' PROVE Remembered(d)'
  <2>1. WellServed(d) /\ Remembered(d)
    BY <1>5, <1>6 DEF ShownInv
  <2>2. CASE outcome = "sent"
    <3>1. stale[d] = "full" => rect = "full"
      BY <2>1 DEF Remembered, Widest
    <3>2. command => stale[d] = "none"
      BY <1>5, <1>6, <2>1, <2>2 DEF Remembered, ShownInv, PanelTypes
    <3>3. right
      BY <3>1, <3>2
    <3>4. stale'[d] = "none" /\ dirty_rect' = "none" /\ unsync_flag' = FALSE
      <4> HIDE DEF right, rect, remembered
      <4>1. left(outcome) = "none"
        BY <2>2, <3>3
      <4> HIDE DEF left
      <4>2. QED
        BY <1>1, <2>2, <4>1 DEF ShownInv, PanelTypes
    <3>5. QED
      BY <3>4 DEF Remembered
  <2>3. CASE outcome = "short"
    <3>1. need \in Nat /\ need <= FullTickets
      BY FullTicketsType
    <3> HIDE DEF need
    <3>2. in_flight[d]
      BY <2>1, <2>3, <3>1, FullTicketsType DEF Outcomes, WellServed, ShownInv, PanelTypes
    <3>3. in_flight'[d]
      <4> HIDE DEF left, rect, remembered
      <4>1. QED
        BY <1>1, <3>2 DEF ShownInv, PanelTypes
    <3>4. dirty_rect' = rect
      BY <1>1, <2>3
    <3>5. stale'[d] = Widest(stale[d], r)
      <4>1. left(outcome) = Widest(stale[d], r)
        BY <2>3
      <4> HIDE DEF left, rect, remembered
      <4>2. QED
        BY <1>1, <4>1 DEF ShownInv, PanelTypes
    <3>6. stale'[d] = "full" => rect = "full"
      BY <2>1, <3>5 DEF Remembered, Widest
    <3>7. QED
      BY <1>3, <3>3, <3>4, <3>6 DEF Remembered
  <2>4. QED
    BY <1>2, <1>5, <1>6, <2>2, <2>3
<1>7. ASSUME NEW e \in Devices, WellServed(e)' PROVE Remembered(e)'
  <2>1. fb_handle[e]
    BY <1>7 DEF WellServed
  <2>2. e = d
    BY <2>1 DEF IInv, TwoEnds
  <2>3. QED
    BY <1>6, <1>7, <2>2
<1>8. QED
  BY <1>4, <1>7 DEF ShownInv

(* Drawing, the flush work and the completions.                            *)
LEMMA UpdatesShow ==
  ASSUME IInv, ShownInv, UpdateStep
  PROVE  ShownInv'
<1>1. UNCHANGED <<life, fb_handle, tickets, binded_usbdev>>
  BY DEF UpdateStep, Draw, FlushWork, TransfersDone, TransferFails, probeVars, fbVars
<1>2. ASSUME NEW command \in BOOLEAN, Draw(command) PROVE ShownInv'
  <2>1. CASE binded_usbdev \in Devices
    <3> DEFINE d == binded_usbdev
    <3>1. PICK r \in {"part", "full"}, n \in 1..FullTickets : DisplayUpdate(d, command, r, n)
      BY <1>2, <2>1, BindingAssumption DEF Draw
    <3>2. fb_handle[d] /\ work_pending' \in [Devices -> BOOLEAN]
      BY <1>2, <2>1 DEF Draw, IInv, TwoEnds, ShownInv, PanelTypes
    <3>3. QED
      BY <1>1, <2>1, <3>1, <3>2, UpdateShows
  <2>2. CASE binded_usbdev = NoDevice
    BY <1>1, <1>2, <2>2 DEF Draw, panelVars, ShownInv, PanelTypes, WellServed, Remembered
  <2>3. QED
    BY <2>1, <2>2 DEF IInv, Shape
<1>3. ASSUME NEW d \in Devices, FlushWork(d) PROVE ShownInv'
  <2>1. work_pending' = [work_pending EXCEPT ![d] = FALSE]
    BY <1>3 DEF FlushWork
  <2>2. CASE FlushDue(d)
    <3>1. fb_handle[d] /\ DisplayUpdate(d, FALSE, "full", FullTickets)
      BY <1>3, <2>2 DEF FlushDue, FlushWork
    <3>2. work_pending' \in [Devices -> BOOLEAN]
      BY <2>1 DEF ShownInv, PanelTypes
    <3>3. QED
      BY <1>1, <3>1, <3>2, UpdateShows, FullTicketsType
  <2>3. CASE ~FlushDue(d)
    <3>1. UNCHANGED <<unsync_flag, dirty_rect, in_flight, stale, failed, forgot>>
      BY <1>3, <2>3 DEF FlushWork, panelVars
    <3>2. WellServed(d) => ~unsync_flag /\ dirty_rect = "none"
      BY <2>3 DEF FlushDue, WellServed
    <3>3. QED
      BY <1>1, <2>1, <3>1, <3>2 DEF ShownInv, PanelTypes, WellServed, Remembered
  <2>4. QED
    BY <2>2, <2>3
<1>4. ASSUME NEW d \in Devices, TransfersDone(d) PROVE ShownInv'
  <2>1. /\ in_flight' = [in_flight EXCEPT ![d] = FALSE]
        /\ work_pending' = [work_pending EXCEPT ![d] = TRUE]
        /\ UNCHANGED <<unsync_flag, dirty_rect, stale, failed, forgot>>
    BY <1>4 DEF TransfersDone, fbVars
  <2>2. QED
    BY <1>1, <2>1 DEF ShownInv, PanelTypes, WellServed, Remembered
<1>5. ASSUME NEW d \in Devices, TransferFails(d) PROVE ShownInv'
  <2>1. /\ in_flight' \in {in_flight, [in_flight EXCEPT ![d] = FALSE]}
        /\ unsync_flag' = (unsync_flag \/ (fb_handle[d] /\ life[d] # "dead"))
        /\ stale' = [stale EXCEPT ![d] = "full"]
        /\ failed' = [failed EXCEPT ![d] = TRUE]
        /\ UNCHANGED <<dirty_rect, work_pending, forgot>>
    BY <1>5 DEF TransferFails
  <2>2. PanelTypes'
    BY <1>1, <2>1 DEF ShownInv, PanelTypes
  <2>3. ASSUME NEW e \in Devices, WellServed(e)' PROVE Remembered(e)'
    <3>1. e # d /\ WellServed(e)
      BY <1>1, <2>1, <2>3 DEF ShownInv, PanelTypes, WellServed
    <3>2. ~fb_handle[d]
      BY <3>1 DEF WellServed, IInv, TwoEnds
    <3>3. unsync_flag' <=> unsync_flag
      BY <2>1, <3>2, Zenon
    <3>4. in_flight'[e] = in_flight[e] /\ stale'[e] = stale[e]
      BY <2>1, <3>1 DEF ShownInv, PanelTypes
    <3>5. QED
      BY <2>1, <3>1, <3>3, <3>4 DEF ShownInv, Remembered
  <2>4. QED
    BY <2>2, <2>3 DEF ShownInv
<1>6. QED
  BY <1>2, <1>3, <1>4, <1>5 DEF UpdateStep

(* Loading and unloading: no display is there.                             *)
LEMMA ModuleShows ==
  ASSUME IInv, ShownInv, LoadStep \/ DeregisterUsb \/ ExitStep
  PROVE  ShownInv'
<1>1. UNCHANGED <<tickets, panelVars, work_pending, life, fb_handle>>
  BY DEF LoadStep, RegisterTouch, RegisterFb, RegisterUsb, DeregisterUsb, ExitStep,
     UnregisterFb, UnregisterTouch, probeVars
<1>2. CASE module = "register_fb"
  <2>1. \A d \in Devices : life[d] # "ready"
    BY <1>2 DEF IInv, LifeInv
  <2>2. dirty_rect' \in {"none", dirty_rect}
    BY <1>2 DEF LoadStep, RegisterTouch, RegisterFb, RegisterUsb, DeregisterUsb, ExitStep,
       UnregisterFb, UnregisterTouch, fbVars
  <2>3. QED
    BY <1>1, <2>1, <2>2 DEF ShownInv, PanelTypes, WellServed, panelVars
<1>3. CASE module # "register_fb"
  <2>1. UNCHANGED <<unsync_flag, dirty_rect>>
    BY <1>3 DEF LoadStep, RegisterTouch, RegisterFb, RegisterUsb, DeregisterUsb, ExitStep,
       UnregisterFb, UnregisterTouch, fbVars
  <2>2. QED
    BY <1>1, <2>1 DEF ShownInv, PanelTypes, WellServed, Remembered, panelVars
<1>4. QED
  BY <1>2, <1>3

(* Probing and disconnecting.                                              *)
LEMMA DeviceShows ==
  ASSUME IInv, ShownInv, NEW d \in Devices,
         ProbeScan(d) \/ ProbeStep(d) \/ Unplug(d) \/ TeardownStep(d)
  PROVE  ShownInv'
<1> USE DEF Lives, moduleVars, fbVars, probeVars, panelVars, IInv, Shape
<1>1. CASE ForceFlush(d)
  <2>1. /\ life' = [life EXCEPT ![d] = "ready"] /\ life[d] = "offered"
        /\ work_pending' = [work_pending EXCEPT ![d] = TRUE]
        /\ unsync_flag' = (unsync_flag \/ fb_handle[d])
        /\ UNCHANGED <<tickets, fb_handle, panelVars, dirty_rect>>
    BY <1>1 DEF ForceFlush
  <2>2. ASSUME NEW e \in Devices, WellServed(e)' PROVE Remembered(e)'
    <3>1. CASE e = d
      <4>1. work_pending'[e] /\ unsync_flag'
        BY <2>1, <2>2, <3>1 DEF WellServed, ShownInv, PanelTypes
      <4>2. QED
        BY <4>1 DEF Remembered
    <3>2. CASE e # d
      <4>1. WellServed(e) /\ ~fb_handle[d]
        BY <2>1, <2>2, <3>2 DEF WellServed, TwoEnds
      <4>2. unsync_flag' <=> unsync_flag
        BY <2>1, <4>1, Zenon
      <4>3. QED
        BY <2>1, <3>2, <4>1, <4>2 DEF ShownInv, PanelTypes, Remembered
    <3>3. QED
      BY <3>1, <3>2
  <2>3. PanelTypes'
    BY <2>1 DEF ShownInv, PanelTypes
  <2>4. QED
    BY <2>2, <2>3 DEF ShownInv
<1>2. ASSUME NEW n \in PoolSizes, AllocTickets(d, n) PROVE ShownInv'
  <2>1. n \in Nat
    BY BindingAssumption
  <2>2. /\ life[d] = "queryable" /\ life' \in [Devices -> LifeStates]
        /\ life'[d] \in {"listed", "away"} /\ \A e \in Devices : e # d => life'[e] = life[e]
        /\ tickets' = [tickets EXCEPT ![d] = n]
        /\ UNCHANGED <<unsync_flag, dirty_rect, fb_handle, work_pending, panelVars>>
    BY <1>2 DEF AllocTickets, LifeStates
  <2>3. \A e \in Devices : WellServed(e)' => WellServed(e)
    BY <2>2 DEF WellServed, ShownInv, PanelTypes
  <2>4. QED
    BY <2>1, <2>2, <2>3 DEF ShownInv, PanelTypes, Remembered
<1>3. CASE ProbeScan(d)
  <2>1. \A e \in Devices : WellServed(e)' => WellServed(e)
    BY <1>3 DEF ProbeScan, WellServed
  <2>2. QED
    BY <1>3, <2>1 DEF ProbeScan, ShownInv, PanelTypes, Remembered
<1>4. CASE AllocStatusUrb(d)
  <2>1. \A e \in Devices : WellServed(e)' => WellServed(e)
    BY <1>4 DEF AllocStatusUrb, WellServed
  <2>2. QED
    BY <1>4, <2>1 DEF AllocStatusUrb, ShownInv, PanelTypes, Remembered
<1>5. CASE BindDevice(d)
  <2>1. \A e \in Devices : WellServed(e)' => WellServed(e)
    BY <1>5 DEF BindDevice, WellServed
  <2>2. QED
    BY <1>5, <2>1 DEF BindDevice, ShownInv, PanelTypes, Remembered
<1>6. CASE Unplug(d) \/ UnbindDevice(d)
  <2>1. \A e \in Devices : WellServed(e)' => WellServed(e)
    BY <1>6 DEF Unplug, UnbindDevice, WellServed
  <2>2. QED
    BY <1>6, <2>1 DEF Unplug, UnbindDevice, ShownInv, PanelTypes, Remembered
<1>7. CASE FreeDevice(d)
  <2>1. /\ tickets' = [tickets EXCEPT ![d] = 0] /\ stale' = [stale EXCEPT ![d] = "full"]
        /\ failed' = [failed EXCEPT ![d] = FALSE] /\ forgot' = [forgot EXCEPT ![d] = FALSE]
        /\ in_flight' = [in_flight EXCEPT ![d] = FALSE]
        /\ work_pending' = [work_pending EXCEPT ![d] = FALSE]
        /\ life' = [life EXCEPT ![d] = "away"]
        /\ UNCHANGED <<unsync_flag, dirty_rect, fb_handle>>
    BY <1>7 DEF FreeDevice
  <2>2. PanelTypes'
    BY <2>1 DEF ShownInv, PanelTypes
  <2>3. \A e \in Devices : WellServed(e)' => e # d /\ WellServed(e)
    BY <2>1 DEF WellServed, ShownInv, PanelTypes
  <2>4. QED
    BY <2>1, <2>2, <2>3 DEF ShownInv, PanelTypes, Remembered
<1>8. QED
  BY <1>1, <1>2, <1>3, <1>4, <1>5, <1>6, <1>7 DEF ProbeStep, TeardownStep

(* fbhandler_on_new_device, _display_update, the completions and the flush *)
(* work: a display that has the framebuffer and a sufficient pool shows it *)
(* whenever its tickets are back and its work is not queued, whatever      *)
(* displays were bound, starved or unplugged before, unless a transfer of  *)
(* its own failed or a command of its own forgot.                          *)
THEOREM ShownSafe == Spec => []BoundShownAtRest
<1>1. Init => ShownInv
  BY DEF Init, ShownInv, PanelTypes, WellServed
<1>2. ASSUME IInv, ShownInv, [Next]_vars PROVE ShownInv'
  <2>1. CASE UNCHANGED vars
    BY <1>2, <2>1 DEF vars, fbVars, probeVars, panelVars, ShownInv, PanelTypes,
       WellServed, Remembered
  <2>2. CASE Next
    BY <1>2, <2>2, ModuleShows, UpdatesShow, DeviceShows DEF Next, UpdateStep
  <2>3. QED
    BY <1>2, <2>1, <2>2
<1>3. ASSUME ShownInv PROVE BoundShownAtRest
  <2>1. ASSUME NEW d \in Devices, WellServed(d), ~in_flight[d], ~work_pending[d]
        PROVE  stale[d] = "none"
    BY <1>3, <2>1 DEF ShownInv, PanelTypes, Remembered
  <2>2. QED
    BY <2>1 DEF BoundShownAtRest
<1>4. QED
  BY <1>1, <1>2, <1>3, Inductive, PTL DEF Spec

=============================================================================
