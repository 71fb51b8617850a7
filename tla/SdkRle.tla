-------------------------------- MODULE SdkRle --------------------------------
(***************************************************************************)
(* The run-length encoder of the user-mode SDK (rleCompress in rle.cc) on  *)
(* the same pixels as the kernel's.  It writes each section in place and   *)
(* keeps its header byte up to date, so that the output is complete after  *)
(* every pixel.  The last section is the one sectionHeader points to.      *)
(***************************************************************************)
EXTENDS RleEncoder, SequencesExt

VARIABLES
  sections,       \* the output: header bits, size bits, pixels
  lastPixelValue  \* the last pixel of the last section

sdkVars == <<sections, lastPixelValue>>

(* Nothing has been read yet.                                              *)
SdkInit == sections = <<>> /\ lastPixelValue \in Pixels

header == Last(sections)

NewSection(is_common, size_bits, p) ==
  [common |-> is_common, size |-> size_bits, data |-> <<p>>]

(* The initial set-up: a section of the first pixel, size bits 0 for one.  *)
(* rleCompress does it whatever the size of the buffer: of an empty image  *)
(* it takes the value that is in memory where a first pixel would be.      *)
SdkFirst(p) ==
  /\ sections = <<>>
  /\ sections' = <<NewSection(FALSE, 0, p)>>
  /\ lastPixelValue' = p

(* Mutant: a full common section goes on.                                  *)
SdkCommonRepeatUnbounded(p) ==
  /\ sections # <<>> /\ header.common
  /\ p = lastPixelValue
  /\ sections' = ReplaceAt(sections, Len(sections),
                           [header EXCEPT !.size = (@ + 1) % MaxSection])
  /\ UNCHANGED lastPixelValue

(* A common section grows; a full one is followed by another of one pixel. *)
SdkCommonRepeat(p) ==
  /\ sections # <<>> /\ header.common
  /\ p = lastPixelValue
  /\ sections' = IF header.size = MaxSection - 1
                 THEN Append(sections, NewSection(TRUE, 0, p))
                 ELSE ReplaceAt(sections, Len(sections),
                                [header EXCEPT !.size = @ + 1])
  /\ UNCHANGED lastPixelValue

SdkCommonEnds(p) ==
  /\ sections # <<>> /\ header.common
  /\ p # lastPixelValue
  /\ sections' = Append(sections, NewSection(FALSE, 0, p))
  /\ lastPixelValue' = p

(* Mutant: the pixel that repeats is not taken back.                       *)
SdkRepeatKeepsLast(p) ==
  /\ sections # <<>> /\ ~header.common
  /\ p = lastPixelValue
  /\ sections' = IF header.size = 0
                 THEN ReplaceAt(sections, Len(sections), NewSection(TRUE, 1, p))
                 ELSE Append(sections, NewSection(TRUE, 1, p))
  /\ UNCHANGED lastPixelValue

(* "find two common pixels": a section of one pixel becomes a common one;  *)
(* a longer one loses its last pixel to a new common section.              *)
SdkRepeat(p) ==
  /\ sections # <<>> /\ ~header.common
  /\ p = lastPixelValue
  /\ sections' = IF header.size = 0
                 THEN ReplaceAt(sections, Len(sections), NewSection(TRUE, 1, p))
                 ELSE Append(ReplaceAt(sections, Len(sections),
                               [header EXCEPT !.size = @ - 1, !.data = Front(@)]),
                             NewSection(TRUE, 1, p))
  /\ UNCHANGED lastPixelValue

(* Mutant: a full section is left one pixel early.                         *)
SdkDifferentEarly(p) ==
  /\ sections # <<>> /\ ~header.common
  /\ p # lastPixelValue
  /\ sections' = IF header.size >= MaxSection - 2
                 THEN Append(sections, NewSection(FALSE, 0, p))
                 ELSE ReplaceAt(sections, Len(sections),
                        [header EXCEPT !.size = @ + 1, !.data = Append(@, p)])
  /\ lastPixelValue' = p

(* A section of different pixels grows; a full one is followed by another. *)
SdkDifferent(p) ==
  /\ sections # <<>> /\ ~header.common
  /\ p # lastPixelValue
  /\ sections' = IF header.size = MaxSection - 1
                 THEN Append(sections, NewSection(FALSE, 0, p))
                 ELSE ReplaceAt(sections, Len(sections),
                        [header EXCEPT !.size = @ + 1, !.data = Append(@, p)])
  /\ lastPixelValue' = p

SdkEncode(p) ==
  \/ SdkFirst(p)
  \/ SdkCommonRepeat(p)
  \/ SdkCommonEnds(p)
  \/ SdkRepeat(p)
  \/ SdkDifferent(p)

(* At the end of the image the SDK has nothing left to write; the set-up   *)
(* is all it does of an image without a pixel.                             *)
SdkEnd ==
  IF consumed = <<>>
  THEN \E p \in Pixels : SdkFirst(p)
  ELSE UNCHANGED sdkVars

(* Both encoders take the image pixel by pixel.                            *)
BothInit == Init /\ SdkInit

BothNext ==
  \/ \E p \in Pixels : Encode(p) /\ SdkEncode(p)
  \/ Finish /\ SdkEnd

BothSpec == BothInit /\ [][BothNext]_<<vars, sdkVars>>

-----------------------------------------------------------------------------
(* What the device makes of the SDK's output, and its length.              *)
SdkDecoded ==
  FlattenSeq([i \in 1..Len(sections) |->
    LET s == sections[i] IN DecodeSection(s.data, s.size + 1, s.common)])

SdkBytes ==
  LET outputPos[i \in 0..Len(sections)] ==
        IF i = 0 THEN 0
        ELSE outputPos[i - 1] + SectionBytes(sections[i].size + 1, sections[i].common)
  IN  outputPos[Len(sections)]

(* A bitblt of width or height 0 hands rleCompress an empty buffer.        *)
EmptyImage == finished /\ consumed = <<>>

(* After every pixel the device would decode exactly the pixels read so    *)
(* far from what rleCompress has written: nothing is lost when a pixel is  *)
(* taken back, a section is full or a literal turns into a common one.  Of *)
(* an empty image it decodes a pixel that is not there.                    *)
SdkLossless == EmptyImage \/ SdkDecoded = consumed

(* "the worst case is 1 extra byte with each 128 pixels": rleCompress      *)
(* writes past the end of an output buffer of that size for an image of no *)
(* pixels and for no other one, not with a part of the image either.       *)
SdkWithinEstimate == SdkBytes > Estimate(Len(consumed)) <=> EmptyImage

=============================================================================
