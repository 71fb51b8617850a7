------------------------------ MODULE RleEncoder ------------------------------
(***************************************************************************)
(* The run-length encoder of try_send_image (usbhandlers.c), one action    *)
(* per pixel.  The output is kept as what the device decodes from it and   *)
(* as its length in bytes, which must not exceed what _bitblt_encoder_init *)
(* bought tickets for.                                                     *)
(***************************************************************************)
EXTENDS Integers, Sequences

CONSTANTS
  Pixels,      \* pixel values
  MaxSection,  \* RPUSBDISP_RLE_BLOCKFLAG_SIZE_BIT + 1, the longest section
  MaxPixels    \* bound: pixels in an image

ASSUME RleAssumption ==
  /\ MaxSection \in Nat \ {0, 1}
  /\ MaxPixels \in Nat

VARIABLES
  section_data,       \* rle_ctx->section_data, the part in use
  section_size,       \* rle_ctx->section_size
  is_common_section,  \* rle_ctx->is_common_section
  bytes,              \* length of the encoded data so far
  decoded,            \* the pixels the device makes of it
  consumed,           \* the pixels encoded so far
  full_sections,      \* full sections of different pixels flushed so far
  finished            \* the last section has been flushed

vars == <<section_data, section_size, is_common_section, bytes, decoded,
          consumed, full_sections, finished>>

TypeOK ==
  /\ section_data \in Seq(Pixels)
  /\ section_size \in 0..MaxSection
  /\ is_common_section \in BOOLEAN
  /\ bytes \in Nat
  /\ decoded \in Seq(Pixels)
  /\ consumed \in Seq(Pixels)
  /\ full_sections \in Nat
  /\ finished \in BOOLEAN

(* _rle_compress_init.                                                     *)
Init ==
  /\ section_data = <<>>
  /\ section_size = 0
  /\ is_common_section = FALSE
  /\ bytes = 0
  /\ decoded = <<>>
  /\ consumed = <<>>
  /\ full_sections = 0
  /\ finished = FALSE

-----------------------------------------------------------------------------
(* The seven size bits of a section's header byte, and the pixel count the *)
(* device reads from them.                                                 *)
SectionHeader(size) == (size - 1) % MaxSection
HeaderCount(header) == header + 1

(* External: the device repeats the one pixel of a common section and      *)
(* takes the others as they come.                                          *)
DecodeSection(data, size, common) ==
  [i \in 1..HeaderCount(SectionHeader(size)) |-> IF common THEN data[1] ELSE data[i]]

(* A header byte and two bytes per pixel, one pixel in a common section.   *)
SectionBytes(size, common) == 1 + 2 * (IF common THEN 1 ELSE size)

(* _rle_flush_section of a section with size pixels; an empty one is       *)
(* skipped.                                                                *)
FlushSection(size) ==
  IF size = 0
  THEN UNCHANGED <<bytes, decoded, full_sections>>
  ELSE /\ bytes' = bytes + SectionBytes(size, is_common_section)
       /\ decoded' = decoded \o DecodeSection(section_data, size, is_common_section)
       /\ full_sections' =
            IF ~is_common_section /\ size = MaxSection
            THEN full_sections + 1
            ELSE full_sections

-----------------------------------------------------------------------------
(* _rle_compress_n_encode, by its branches.                                *)

Consume(p) ==
  /\ ~finished
  /\ Len(consumed) < MaxPixels
  /\ consumed' = Append(consumed, p)
  /\ UNCHANGED finished

StartSection(p) ==
  /\ section_data' = <<p>>
  /\ section_size' = 1
  /\ is_common_section' = FALSE

(* A common section ends, at another pixel or because it is full.          *)
EndCommon(p) ==
  /\ Consume(p)
  /\ is_common_section
  /\ p # section_data[1] \/ section_size = MaxSection
  /\ FlushSection(section_size)
  /\ StartSection(p)

ExtendCommon(p) ==
  /\ Consume(p)
  /\ is_common_section
  /\ p = section_data[1]
  /\ section_size # MaxSection
  /\ section_size' = section_size + 1
  /\ UNCHANGED <<section_data, is_common_section, bytes, decoded, full_sections>>

Repeats(p) == section_size # 0 /\ p = section_data[section_size]

(* Mutant: the repeated pixel stays in the flushed section.                *)
StartCommonKeepsLast(p) ==
  /\ Consume(p)
  /\ ~is_common_section
  /\ Repeats(p)
  /\ FlushSection(section_size)
  /\ section_data' = <<p>>
  /\ section_size' = 2
  /\ is_common_section' = TRUE

(* The pixel repeats the last one of a section of different pixels: that   *)
(* one leaves the section, the rest is flushed, a common section begins.   *)
StartCommon(p) ==
  /\ Consume(p)
  /\ ~is_common_section
  /\ Repeats(p)
  /\ FlushSection(section_size - 1)
  /\ section_data' = <<p>>
  /\ section_size' = 2
  /\ is_common_section' = TRUE

(* Mutant: a section is taken for full one pixel early.                    *)
ExtendSectionEarly(p) ==
  /\ Consume(p)
  /\ ~is_common_section
  /\ ~Repeats(p)
  /\ IF section_size + 1 = MaxSection
     THEN /\ FlushSection(section_size)
          /\ StartSection(p)
     ELSE /\ section_data' = Append(section_data, p)
          /\ section_size' = section_size + 1
          /\ UNCHANGED <<is_common_section, bytes, decoded, full_sections>>

(* A different pixel; a full section is flushed before.                    *)
ExtendSection(p) ==
  /\ Consume(p)
  /\ ~is_common_section
  /\ ~Repeats(p)
  /\ IF section_size = MaxSection
     THEN /\ FlushSection(section_size)
          /\ StartSection(p)
     ELSE /\ section_data' = Append(section_data, p)
          /\ section_size' = section_size + 1
          /\ UNCHANGED <<is_common_section, bytes, decoded, full_sections>>

(* The end of the image: try_send_image flushes what is left.              *)
Finish ==
  /\ ~finished
  /\ FlushSection(section_size)
  /\ section_data' = <<>>
  /\ section_size' = 0
  /\ is_common_section' = FALSE
  /\ finished' = TRUE
  /\ UNCHANGED consumed

Encode(p) == EndCommon(p) \/ ExtendCommon(p) \/ StartCommon(p) \/ ExtendSection(p)

Next == (\E p \in Pixels : Encode(p)) \/ Finish

Spec == Init /\ [][Next]_vars

-----------------------------------------------------------------------------
(* Mutant: rounded down.                                                   *)
EstimateRoundedDown(n) == 2 * n + (n \div MaxSection)

(* _bitblt_encoder_init, "the worst case for RLE is 1 extra byte with each *)
(* 128 pixels": the bytes it expects n pixels to need.                     *)
Estimate(n) == 2 * n + ((n + (MaxSection - 1)) \div MaxSection)

(* The pixels still in the section.                                        *)
Buffered(i) == IF is_common_section THEN section_data[1] ELSE section_data[i]

(* What the device has been sent, followed by what the section still       *)
(* holds, is exactly the pixels taken from the framebuffer, in order.      *)
Lossless ==
  /\ Len(consumed) = Len(decoded) + section_size
  /\ \A i \in 1..Len(decoded) : decoded[i] = consumed[i]
  /\ \A i \in 1..section_size : Buffered(i) = consumed[Len(decoded) + i]

(* The finished encoding never needs more than the tickets were bought     *)
(* for, whatever the image.                                                *)
WithinEstimate == finished => bytes <= Estimate(Len(consumed))

=============================================================================
