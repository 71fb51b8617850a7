--------------------------- MODULE RleEncoderProofs ---------------------------
(***************************************************************************)
(* Proofs about RleEncoder and SdkRle, for images of any length, any pixel *)
(* values and any maximal section length.                                  *)
(***************************************************************************)
EXTENDS SdkRle, SequenceTheorems, WellFoundedInduction, TLAPS

(***************************************************************************)
(* The section holds its pixels once, or one pixel for all of them.        *)
(***************************************************************************)
SectionInv ==
  /\ is_common_section => section_size >= 2 /\ Len(section_data) = 1
  /\ ~is_common_section => Len(section_data) = section_size

(***************************************************************************)
(* The account of the header bytes: a full section pays for its own header *)
(* with its length, and the header of a shorter one is paid back by the    *)
(* common section that ended it, which saves at least one byte.            *)
(***************************************************************************)
Budget ==
  /\ MaxSection * full_sections <= Len(decoded)
  /\ ~finished =>
       bytes <= 2 * Len(decoded) + full_sections + (IF is_common_section THEN 1 ELSE 0)
  /\ finished => section_size = 0 /\ ~is_common_section

IInv == TypeOK /\ SectionInv /\ Lossless /\ Budget /\ WithinEstimate

-----------------------------------------------------------------------------
(* The rounding of the estimate: n pixels that hold f full sections and a  *)
(* further pixel are charged f + 1 headers.                                *)
LEMMA CeilingAbove ==
  ASSUME NEW m \in Nat, m > 0, NEW f \in Nat, NEW n \in Nat, NEW q \in Int,
         q = (n + (m - 1)) \div m
  PROVE  /\ m * f <= n => f <= q
         /\ m * f < n => f + 1 <= q
<1>1. m * q <= n + (m - 1) /\ n + (m - 1) < m * q + m
  BY SMT
<1>2. ASSUME m * f <= n, q < f PROVE FALSE
  <2>1. m * (q + 1) <= m * f
    BY <1>2, SMT
  <2>2. m * (q + 1) = m * q + m
    BY SMT
  <2>3. QED
    BY <1>1, <1>2, <2>1, <2>2, SMT
<1>3. ASSUME m * f < n, q < f + 1 PROVE FALSE
  <2>1. m * q <= m * f
    BY <1>3, SMT
  <2>2. QED
    BY <1>1, <1>3, <2>1, SMT
<1>4. QED
  BY <1>2, <1>3, SMT

(* What the device decodes from a section is the section: the size bits of *)
(* the header are wide enough.                                             *)
LEMMA DecodeIsSection ==
  ASSUME TypeOK, SectionInv, NEW size \in 1..section_size,
         is_common_section => size = section_size
  PROVE  LET D == DecodeSection(section_data, size, is_common_section)
         IN  /\ D \in Seq(Pixels)
             /\ Len(D) = size
             /\ \A i \in 1..size : D[i] = Buffered(i)
<1>1. HeaderCount(SectionHeader(size)) = size
  BY RleAssumption, SMT DEF HeaderCount, SectionHeader, TypeOK
<1>2. \A i \in 1..size : Buffered(i) \in Pixels
  BY SMT DEF TypeOK, SectionInv, Buffered
<1>3. DecodeSection(section_data, size, is_common_section)
        = [i \in 1..size |-> Buffered(i)]
  BY <1>1 DEF DecodeSection, Buffered
<1>4. [i \in 1..size |-> Buffered(i)] \in Seq(Pixels)
  BY <1>2, SMT DEF TypeOK
<1>5. QED
  BY <1>3, <1>4, SMT DEF TypeOK

(* The effect of _rle_flush_section on what the device has.                *)
LEMMA FlushEffect ==
  ASSUME TypeOK, SectionInv, Lossless, NEW size \in 0..section_size,
         is_common_section => size = section_size, FlushSection(size)
  PROVE  /\ decoded' \in Seq(Pixels)
         /\ Len(decoded') = Len(decoded) + size
         /\ \A i \in 1..Len(decoded') : decoded'[i] = consumed[i]
<1>1. CASE size = 0
  BY <1>1 DEF FlushSection, TypeOK, Lossless
<1>2. CASE size # 0
  <2> DEFINE D == DecodeSection(section_data, size, is_common_section)
  <2>1. /\ D \in Seq(Pixels)
        /\ Len(D) = size
        /\ \A i \in 1..size : D[i] = Buffered(i)
    BY <1>2, DecodeIsSection DEF TypeOK
  <2>2. decoded' = decoded \o D
    BY <1>2 DEF FlushSection
  <2> HIDE DEF D
  <2>3. decoded' \in Seq(Pixels) /\ Len(decoded') = Len(decoded) + size
    BY <2>1, <2>2, ConcatProperties DEF TypeOK
  <2>4. ASSUME NEW i \in 1..Len(decoded') PROVE decoded'[i] = consumed[i]
    <3>1. CASE i <= Len(decoded)
      BY <2>1, <2>2, <3>1 DEF TypeOK, Lossless
    <3>2. CASE i > Len(decoded)
      <4>1. i - Len(decoded) \in 1..size
        BY <2>3, <3>2 DEF TypeOK
      <4>2. decoded'[i] = D[i - Len(decoded)]
        BY <2>1, <2>2, <2>3, <3>2 DEF TypeOK
      <4>3. Buffered(i - Len(decoded)) = consumed[Len(decoded) + (i - Len(decoded))]
        BY <4>1 DEF Lossless, TypeOK
      <4>4. Len(decoded) + (i - Len(decoded)) = i
        BY DEF TypeOK
      <4>5. QED
        BY <2>1, <4>1, <4>2, <4>3, <4>4
    <3>3. QED
      BY <3>1, <3>2 DEF TypeOK
  <2>5. QED
    BY <2>3, <2>4
<1>3. QED
  BY <1>1, <1>2

(* The effect of _rle_flush_section on the length of the encoding.         *)
LEMMA FlushBytes ==
  ASSUME TypeOK, NEW size \in 0..section_size, FlushSection(size)
  PROVE  /\ bytes' \in Nat
         /\ full_sections' \in Nat
         /\ size = 0 => bytes' = bytes /\ full_sections' = full_sections
         /\ size # 0 /\ is_common_section =>
              bytes' = bytes + 3 /\ full_sections' = full_sections
         /\ size # 0 /\ ~is_common_section =>
              /\ bytes' = bytes + 1 + 2 * size
              /\ full_sections' =
                   IF size = MaxSection THEN full_sections + 1 ELSE full_sections
BY DEF TypeOK, FlushSection, SectionBytes

(* Taking a pixel from the framebuffer.                                    *)
LEMMA ConsumeEffect ==
  ASSUME TypeOK, NEW p \in Pixels, Consume(p)
  PROVE  /\ consumed' \in Seq(Pixels)
         /\ Len(consumed') = Len(consumed) + 1
         /\ \A i \in 1..Len(consumed) : consumed'[i] = consumed[i]
         /\ consumed'[Len(consumed) + 1] = p
         /\ finished = FALSE /\ finished' = FALSE
BY AppendProperties DEF TypeOK, Consume

(* What the budget says of an encoder that is still at work, as plain      *)
(* arithmetic.                                                             *)
LEMMA BudgetFacts ==
  ASSUME IInv, finished = FALSE
  PROVE  /\ Len(decoded) \in Nat /\ bytes \in Nat /\ full_sections \in Nat
         /\ MaxSection * full_sections <= Len(decoded)
         /\ is_common_section = TRUE => bytes <= 2 * Len(decoded) + full_sections + 1
         /\ is_common_section = FALSE => bytes <= 2 * Len(decoded) + full_sections
<1>1. Len(decoded) \in Nat /\ bytes \in Nat /\ full_sections \in Nat
  BY DEF IInv, TypeOK
<1>2. MaxSection * full_sections <= Len(decoded)
  BY Zenon DEF IInv, Budget
<1>3. bytes <= 2 * Len(decoded) + full_sections + (IF is_common_section THEN 1 ELSE 0)
  BY Zenon DEF IInv, Budget
<1>4. is_common_section = TRUE => bytes <= 2 * Len(decoded) + full_sections + 1
  BY <1>3, Zenon
<1>5. is_common_section = FALSE => bytes <= 2 * Len(decoded) + full_sections
  BY <1>1, <1>3, SMT
<1>6. QED
  BY <1>1, <1>2, <1>4, <1>5, Zenon

(* The converse, for the state after a step that does not end the image.   *)
LEMMA BudgetKept ==
  ASSUME finished' = FALSE,
         MaxSection * full_sections' <= Len(decoded'),
         \/ /\ is_common_section' = TRUE
            /\ bytes' <= 2 * Len(decoded') + full_sections' + 1
         \/ /\ is_common_section' = FALSE
            /\ bytes' <= 2 * Len(decoded') + full_sections' + 0
  PROVE  Budget' /\ WithinEstimate'
<1>1. bytes' <= 2 * Len(decoded') + full_sections' + (IF is_common_section' THEN 1 ELSE 0)
  BY Zenon
<1>2. Budget'
  BY <1>1, Zenon DEF Budget
<1>3. WithinEstimate'
  BY Zenon DEF WithinEstimate
<1>4. QED
  BY <1>2, <1>3

-----------------------------------------------------------------------------
(* A common section ends and a section of one pixel begins.                *)
LEMMA EndCommonStep ==
  ASSUME IInv, NEW p \in Pixels, EndCommon(p)
  PROVE  IInv'
<1> USE RleAssumption DEF EndCommon, StartSection
<1>1. /\ section_size \in 0..section_size
      /\ section_size \in 2..MaxSection
  BY DEF IInv, TypeOK, SectionInv
<1>2. /\ decoded' \in Seq(Pixels)
      /\ Len(decoded') = Len(decoded) + section_size
      /\ \A i \in 1..Len(decoded') : decoded'[i] = consumed[i]
  BY <1>1, FlushEffect DEF IInv
<1>3. bytes' = bytes + 3 /\ full_sections' = full_sections
  BY <1>1, FlushBytes DEF IInv
<1>4. /\ consumed' \in Seq(Pixels)
      /\ Len(consumed') = Len(consumed) + 1
      /\ \A i \in 1..Len(consumed) : consumed'[i] = consumed[i]
      /\ consumed'[Len(consumed) + 1] = p
      /\ finished = FALSE /\ finished' = FALSE
  BY ConsumeEffect DEF IInv
<1>5. section_data' = <<p>> /\ section_size' = 1 /\ is_common_section' = FALSE
  OBVIOUS
<1>6. TypeOK'
  <2>1. section_data' \in Seq(Pixels) /\ section_size' \in 0..MaxSection
    BY <1>5, SMT
  <2>2. bytes' \in Nat /\ full_sections' \in Nat
    BY <1>3, SMT DEF IInv, TypeOK
  <2>3. is_common_section' \in BOOLEAN /\ finished' \in BOOLEAN
    BY <1>4, <1>5, Zenon
  <2>4. QED
    BY <1>2, <1>4, <2>1, <2>2, <2>3, Zenon DEF TypeOK
<1>7. SectionInv'
  BY <1>5 DEF SectionInv
<1>8. Lossless'
  BY <1>1, <1>2, <1>4, <1>5 DEF IInv, TypeOK, Lossless, Buffered
<1>9. Budget' /\ WithinEstimate'
  <2>1. /\ Len(decoded) \in Nat /\ bytes \in Nat /\ full_sections \in Nat
        /\ MaxSection * full_sections <= Len(decoded)
        /\ bytes <= 2 * Len(decoded) + full_sections + 1
    <3>1. is_common_section = TRUE
      BY Zenon DEF IInv, TypeOK
    <3>2. QED
      BY <1>4, <3>1, BudgetFacts, Zenon
  <2>2. MaxSection * full_sections' <= Len(decoded')
    BY <1>1, <1>2, <1>3, <2>1
  <2>3. bytes' <= 2 * Len(decoded') + full_sections' + 0
    BY <1>1, <1>2, <1>3, <2>1
  <2>4. QED
    BY <1>4, <1>5, <2>2, <2>3, BudgetKept, Zenon
<1>10. QED
  BY <1>6, <1>7, <1>8, <1>9 DEF IInv

(* A common section grows.                                                 *)
LEMMA ExtendCommonStep ==
  ASSUME IInv, NEW p \in Pixels, ExtendCommon(p)
  PROVE  IInv'
<1> USE RleAssumption DEF ExtendCommon
<1>1. /\ consumed' \in Seq(Pixels)
      /\ Len(consumed') = Len(consumed) + 1
      /\ \A i \in 1..Len(consumed) : consumed'[i] = consumed[i]
      /\ consumed'[Len(consumed) + 1] = p
      /\ finished = FALSE /\ finished' = FALSE
  BY ConsumeEffect DEF IInv
<1>2. TypeOK'
  <2>1. section_size' \in 0..MaxSection
    BY SMT DEF IInv, TypeOK
  <2>2. finished' \in BOOLEAN
    BY <1>1, Zenon
  <2>3. QED
    BY <1>1, <2>1, <2>2, Zenon DEF IInv, TypeOK
<1>3. SectionInv'
  BY DEF IInv, TypeOK, SectionInv
<1>4. Lossless'
  <2>1. /\ is_common_section = TRUE /\ is_common_section' = TRUE
        /\ section_data' = section_data /\ decoded' = decoded
        /\ section_size' = section_size + 1
        /\ section_data[1] = p
    BY Zenon DEF IInv, TypeOK
  <2>2. /\ Len(decoded) \in Nat /\ section_size \in Nat
        /\ Len(consumed) = Len(decoded) + section_size
        /\ \A i \in 1..Len(decoded) : decoded[i] = consumed[i]
    BY DEF IInv, TypeOK, Lossless
  <2>3. \A i \in 1..section_size : consumed[Len(decoded) + i] = p
    BY <2>1 DEF IInv, Lossless, Buffered
  <2>4. ASSUME NEW i \in 1..section_size + 1 PROVE consumed'[Len(decoded) + i] = p
    <3>1. CASE i = section_size + 1
      BY <1>1, <2>2, <3>1
    <3>2. CASE i # section_size + 1
      <4>1. i \in 1..section_size /\ Len(decoded) + i \in 1..Len(consumed)
        BY <2>2, <3>2, SMT
      <4>2. QED
        BY <1>1, <2>3, <4>1, Zenon
    <3>3. QED
      BY <3>1, <3>2
  <2>5. QED
    BY <1>1, <2>1, <2>2, <2>4 DEF Lossless, Buffered
<1>5. Budget' /\ WithinEstimate'
  <2>1. /\ is_common_section' = TRUE /\ is_common_section = TRUE
        /\ bytes' = bytes /\ decoded' = decoded /\ full_sections' = full_sections
    BY Zenon DEF IInv, TypeOK
  <2>2. /\ MaxSection * full_sections <= Len(decoded)
        /\ bytes <= 2 * Len(decoded) + full_sections + 1
    BY <1>1, <2>1, BudgetFacts, Zenon
  <2>3. QED
    BY <1>1, <2>1, <2>2, BudgetKept, Zenon
<1>6. QED
  BY <1>2, <1>3, <1>4, <1>5 DEF IInv

(* A pixel repeats: the section without its last pixel is flushed and a    *)
(* common section of two begins.                                           *)
LEMMA StartCommonStep ==
  ASSUME IInv, NEW p \in Pixels, StartCommon(p)
  PROVE  IInv'
<1> USE RleAssumption DEF StartCommon
<1>1. /\ section_size - 1 \in 0..section_size
      /\ section_size \in 1..MaxSection
      /\ p = section_data[section_size]
  BY DEF IInv, TypeOK, Repeats
<1>2. /\ decoded' \in Seq(Pixels)
      /\ Len(decoded') = Len(decoded) + (section_size - 1)
      /\ \A i \in 1..Len(decoded') : decoded'[i] = consumed[i]
  BY <1>1, FlushEffect DEF IInv
<1>3. /\ bytes' \in Nat
      /\ bytes' <= bytes + 1 + 2 * (section_size - 1)
      /\ full_sections' = full_sections
  <2>1. section_size - 1 # MaxSection
    BY <1>1 DEF IInv, TypeOK
  <2>2. QED
    BY <1>1, <2>1, FlushBytes DEF IInv, TypeOK
<1>4. /\ consumed' \in Seq(Pixels)
      /\ Len(consumed') = Len(consumed) + 1
      /\ \A i \in 1..Len(consumed) : consumed'[i] = consumed[i]
      /\ consumed'[Len(consumed) + 1] = p
      /\ finished = FALSE /\ finished' = FALSE
  BY ConsumeEffect DEF IInv
<1>5. section_data' = <<p>> /\ section_size' = 2 /\ is_common_section' = TRUE
  OBVIOUS
<1>6. TypeOK'
  <2>1. section_data' \in Seq(Pixels) /\ section_size' \in 0..MaxSection
    BY <1>5, SMT
  <2>2. bytes' \in Nat /\ full_sections' \in Nat
    BY <1>3, SMT DEF IInv, TypeOK
  <2>3. is_common_section' \in BOOLEAN /\ finished' \in BOOLEAN
    BY <1>4, <1>5, Zenon
  <2>4. QED
    BY <1>2, <1>4, <2>1, <2>2, <2>3, Zenon DEF TypeOK
<1>7. SectionInv'
  BY <1>5 DEF SectionInv
<1>8. Lossless'
  <2> HIDE DEF StartCommon
  <2>0. /\ Len(decoded) \in Nat /\ section_size \in Nat
        /\ Len(consumed) = Len(decoded) + section_size
        /\ consumed[Len(decoded) + section_size] = p
    <3>1. Buffered(section_size) = p
      BY <1>1, Zenon DEF Buffered, StartCommon
    <3>2. QED
      BY <1>1, <3>1 DEF IInv, TypeOK, Lossless
  <2>1. consumed'[Len(decoded') + 1] = p
    <3>1. Len(decoded') + 1 = Len(decoded) + section_size
      BY <1>2, <2>0
    <3>2. Len(decoded) + section_size \in 1..Len(consumed)
      BY <1>1, <2>0
    <3>3. QED
      BY <1>4, <2>0, <3>1, <3>2, Zenon
  <2>2. Len(consumed') = Len(decoded') + 2 /\ consumed'[Len(decoded') + 2] = p
    <3>1. Len(decoded') + 2 = Len(consumed) + 1
      BY <1>2, <2>0
    <3>2. QED
      BY <1>4, <3>1, Zenon
  <2>3. \A i \in 1..Len(decoded') : decoded'[i] = consumed'[i]
    <3>1. \A i \in 1..Len(decoded') : i \in 1..Len(consumed)
      BY <1>2, <2>0
    <3>2. QED
      BY <1>2, <1>4, <3>1, Zenon
  <2>4. \A i \in 1..section_size' : Buffered(i)' = consumed'[Len(decoded') + i]
    <3>1. \A i \in 1..section_size' : Buffered(i)' = p
      BY <1>5 DEF Buffered
    <3>2. section_size' = 2
      BY <1>5
    <3>3. \A i \in 1..2 : i = 1 \/ i = 2
      BY SMT
    <3>4. QED
      BY <2>1, <2>2, <3>1, <3>2, <3>3
  <2>5. QED
    BY <1>5, <2>2, <2>3, <2>4 DEF Lossless
<1>9. Budget' /\ WithinEstimate'
  <2>1. is_common_section = FALSE
    BY Zenon DEF IInv, TypeOK
  <2>2. /\ Len(decoded) \in Nat /\ bytes \in Nat /\ full_sections \in Nat
        /\ MaxSection * full_sections <= Len(decoded)
        /\ bytes <= 2 * Len(decoded) + full_sections
    BY <1>4, <2>1, BudgetFacts, Zenon
  <2>3. MaxSection * full_sections' <= Len(decoded')
    BY <1>1, <1>2, <1>3, <2>2
  <2>4. bytes' <= 2 * Len(decoded') + full_sections' + 1
    BY <1>1, <1>2, <1>3, <2>2
  <2>5. QED
    BY <1>4, <1>5, <2>3, <2>4, BudgetKept, Zenon
<1>10. QED
  BY <1>6, <1>7, <1>8, <1>9 DEF IInv

(* A different pixel joins the section, or starts the next one.            *)
LEMMA ExtendSectionStep ==
  ASSUME IInv, NEW p \in Pixels, ExtendSection(p)
  PROVE  IInv'
<1> USE RleAssumption DEF ExtendSection
<1>1. /\ consumed' \in Seq(Pixels)
      /\ Len(consumed') = Len(consumed) + 1
      /\ \A i \in 1..Len(consumed) : consumed'[i] = consumed[i]
      /\ consumed'[Len(consumed) + 1] = p
      /\ finished = FALSE /\ finished' = FALSE
  BY ConsumeEffect DEF IInv
<1>2. CASE section_size = MaxSection
  <2>1. section_size \in 0..section_size /\ section_size # 0
    BY <1>2 DEF IInv, TypeOK
  <2>2. /\ decoded' \in Seq(Pixels)
        /\ Len(decoded') = Len(decoded) + MaxSection
        /\ \A i \in 1..Len(decoded') : decoded'[i] = consumed[i]
    BY <1>2, <2>1, FlushEffect DEF IInv
  <2>3. /\ bytes' = bytes + 1 + 2 * MaxSection
        /\ full_sections' = full_sections + 1
    BY <1>2, <2>1, FlushBytes DEF IInv
  <2>4. section_data' = <<p>> /\ section_size' = 1 /\ is_common_section' = FALSE
    BY <1>2 DEF StartSection
  <2>5. TypeOK'
    <3>1. section_data' \in Seq(Pixels) /\ section_size' \in 0..MaxSection
      BY <2>4, SMT
    <3>2. bytes' \in Nat /\ full_sections' \in Nat
      BY <2>3, SMT DEF IInv, TypeOK
    <3>3. is_common_section' \in BOOLEAN /\ finished' \in BOOLEAN
      BY <1>1, <2>4, Zenon
    <3>4. QED
      BY <1>1, <2>2, <3>1, <3>2, <3>3, Zenon DEF TypeOK
  <2>6. SectionInv'
    BY <2>4 DEF SectionInv
  <2>7. Lossless'
    BY <1>1, <1>2, <2>2, <2>4 DEF IInv, TypeOK, Lossless, Buffered
  <2>8. MaxSection * full_sections' = MaxSection * full_sections + MaxSection
    BY <2>3, SMT DEF IInv, TypeOK
  <2>9. Budget' /\ WithinEstimate'
    <3>1. is_common_section = FALSE
      BY Zenon DEF IInv, TypeOK
    <3>2. /\ Len(decoded) \in Nat /\ bytes \in Nat /\ full_sections \in Nat
          /\ MaxSection * full_sections <= Len(decoded)
          /\ bytes <= 2 * Len(decoded) + full_sections
      BY <1>1, <3>1, BudgetFacts, Zenon
    <3>3. MaxSection * full_sections' <= Len(decoded')
      BY <2>2, <2>8, <3>2
    <3>4. bytes' <= 2 * Len(decoded') + full_sections' + 0
      BY <2>2, <2>3, <3>2
    <3>5. QED
      BY <1>1, <2>4, <3>3, <3>4, BudgetKept, Zenon
  <2>10. QED
    BY <2>5, <2>6, <2>7, <2>9 DEF IInv
<1>3. CASE section_size # MaxSection
  <2>1. /\ section_data' = Append(section_data, p)
        /\ section_size' = section_size + 1
        /\ UNCHANGED <<is_common_section, bytes, decoded, full_sections>>
    BY <1>3
  <2>2. /\ section_data' \in Seq(Pixels)
        /\ Len(section_data') = Len(section_data) + 1
        /\ \A i \in 1..Len(section_data) : section_data'[i] = section_data[i]
        /\ section_data'[Len(section_data) + 1] = p
    BY <2>1, AppendProperties DEF IInv, TypeOK
  <2>3. TypeOK'
    <3>1. section_size' \in 0..MaxSection
      BY <1>3, <2>1, SMT DEF IInv, TypeOK
    <3>2. finished' \in BOOLEAN
      BY <1>1, Zenon
    <3>3. QED
      BY <1>1, <2>1, <2>2, <3>1, <3>2, Zenon DEF IInv, TypeOK
  <2>4. SectionInv'
    BY <2>1, <2>2 DEF IInv, TypeOK, SectionInv
  <2>5. Lossless'
    <3>1. /\ Len(decoded) \in Nat /\ section_size \in Nat
          /\ Len(consumed) = Len(decoded) + section_size
          /\ \A i \in 1..Len(decoded) : decoded[i] = consumed[i]
          /\ \A i \in 1..section_size : section_data[i] = consumed[Len(decoded) + i]
          /\ Len(section_data) = section_size
      BY DEF IInv, TypeOK, SectionInv, Lossless, Buffered
    <3>2. ASSUME NEW i \in 1..section_size + 1
          PROVE  section_data'[i] = consumed'[Len(decoded) + i]
      <4>1. CASE i = section_size + 1
        BY <1>1, <2>2, <3>1, <4>1
      <4>2. CASE i # section_size + 1
        <5>1. i \in 1..section_size /\ Len(decoded) + i \in 1..Len(consumed)
          BY <3>1, <4>2, SMT
        <5>2. QED
          BY <1>1, <2>2, <3>1, <5>1
      <4>3. QED
        BY <4>1, <4>2
    <3>3. is_common_section' = FALSE
      BY <2>1, Zenon DEF IInv, TypeOK
    <3>4. QED
      BY <1>1, <2>1, <3>1, <3>2, <3>3 DEF Lossless, Buffered
  <2>6. Budget' /\ WithinEstimate'
    <3>1. is_common_section = FALSE
      BY Zenon DEF IInv, TypeOK
    <3>2. /\ Len(decoded) \in Nat /\ bytes \in Nat /\ full_sections \in Nat
          /\ MaxSection * full_sections <= Len(decoded)
          /\ bytes <= 2 * Len(decoded) + full_sections
      BY <1>1, <3>1, BudgetFacts, Zenon
    <3>3. bytes <= 2 * Len(decoded) + full_sections + 0
      BY <3>2, SMT
    <3>4. QED
      BY <1>1, <2>1, <3>1, <3>2, <3>3, BudgetKept, Zenon
  <2>7. QED
    BY <2>3, <2>4, <2>5, <2>6 DEF IInv
<1>4. QED
  BY <1>2, <1>3

(* The last section is flushed: its header is the last one the estimate    *)
(* has to cover.                                                           *)
LEMMA FinishStep ==
  ASSUME IInv, Finish
  PROVE  IInv'
<1> USE RleAssumption DEF Finish
<1>1. section_size \in 0..section_size
  BY DEF IInv, TypeOK
<1>2. /\ decoded' \in Seq(Pixels)
      /\ Len(decoded') = Len(decoded) + section_size
      /\ \A i \in 1..Len(decoded') : decoded'[i] = consumed[i]
  BY <1>1, FlushEffect DEF IInv
<1>3. TypeOK'
  <2>1. bytes' \in Nat /\ full_sections' \in Nat
    BY <1>1, FlushBytes DEF IInv
  <2>2. section_data' \in Seq(Pixels) /\ section_size' \in 0..MaxSection
    BY SMT
  <2>3. is_common_section' \in BOOLEAN /\ finished' \in BOOLEAN
    BY Zenon
  <2>4. consumed' \in Seq(Pixels)
    BY DEF IInv, TypeOK
  <2>5. QED
    BY <1>2, <2>1, <2>2, <2>3, <2>4, Zenon DEF TypeOK
<1>4. SectionInv'
  BY DEF SectionInv
<1>5. Lossless'
  BY <1>2 DEF IInv, TypeOK, Lossless, Buffered
<1>6. Len(consumed') = Len(decoded')
  BY <1>2 DEF IInv, TypeOK, Lossless
<1>7. /\ Len(decoded) \in Nat /\ section_size \in 0..MaxSection
      /\ bytes \in Nat /\ full_sections \in Nat
      /\ MaxSection * full_sections <= Len(decoded)
      /\ bytes <= 2 * Len(decoded) + full_sections + (IF is_common_section THEN 1 ELSE 0)
  BY DEF IInv, TypeOK, Budget
<1> DEFINE n == Len(decoded) + section_size
           q == (n + (MaxSection - 1)) \div MaxSection
<1>8. n \in Nat /\ q \in Int /\ MaxSection \in Nat /\ MaxSection > 0
  BY <1>7, SMT
<1>9. /\ MaxSection * full_sections' <= n
      /\ bytes' <= 2 * n + q
  <2>1. /\ MaxSection * full_sections <= n => full_sections <= q
        /\ MaxSection * full_sections < n => full_sections + 1 <= q
    BY <1>7, <1>8, CeilingAbove
  <2> HIDE DEF q
  <2>2. CASE section_size = 0
    <3>1. bytes' = bytes /\ full_sections' = full_sections
      BY <1>1, <2>2, FlushBytes DEF IInv
    <3>2. is_common_section = FALSE
      BY <2>2 DEF IInv, TypeOK, SectionInv
    <3>3. QED
      BY <1>7, <1>8, <2>1, <2>2, <3>1, <3>2
  <2>3. CASE section_size # 0 /\ is_common_section
    <3>1. bytes' = bytes + 3 /\ full_sections' = full_sections
      BY <1>1, <2>3, FlushBytes DEF IInv
    <3>2. section_size >= 2
      BY <2>3 DEF IInv, SectionInv
    <3>3. QED
      BY <1>7, <1>8, <2>1, <2>3, <3>1, <3>2
  <2>4. CASE section_size # 0 /\ ~is_common_section
    <3>1. /\ bytes' = bytes + 1 + 2 * section_size
          /\ full_sections' =
               IF section_size = MaxSection THEN full_sections + 1 ELSE full_sections
      BY <1>1, <2>4, FlushBytes DEF IInv
    <3>2. bytes <= 2 * Len(decoded) + full_sections
      BY <1>7, <2>4
    <3>3. MaxSection * (full_sections + 1) = MaxSection * full_sections + MaxSection
      BY <1>7, <1>8, SMT
    <3>4. QED
      BY <1>7, <1>8, <2>1, <2>4, <3>1, <3>2, <3>3
  <2>5. QED
    BY <2>2, <2>3, <2>4
<1>10. Len(consumed') = n
  BY <1>2, <1>6
<1>11. Budget'
  BY <1>2, <1>9 DEF Budget
<1>12. WithinEstimate'
  BY <1>9, <1>10 DEF WithinEstimate, Estimate
<1>13. QED
  BY <1>3, <1>4, <1>5, <1>11, <1>12 DEF IInv

-----------------------------------------------------------------------------
(* What try_send_image, which bought its tickets first, relies on.         *)

(* A step writes nothing, or a section: a header byte and at least a pixel.*)
LEMMA SectionOutput ==
  ASSUME IInv, (\E p \in Pixels : Encode(p)) \/ Finish
  PROVE  /\ bytes' \in Nat
         /\ \/ bytes' = bytes
            \/ bytes' >= bytes + 3 /\ bytes' <= bytes + (1 + 2 * MaxSection)
<1>1. TypeOK /\ bytes \in Nat /\ section_size \in 0..MaxSection /\ MaxSection \in Nat
  BY RleAssumption DEF IInv, TypeOK
<1>2. ASSUME NEW size \in 0..section_size, FlushSection(size)
      PROVE  /\ bytes' \in Nat
             /\ \/ bytes' = bytes
                \/ bytes' >= bytes + 3 /\ bytes' <= bytes + (1 + 2 * MaxSection)
  <2>1. /\ size = 0 => bytes' = bytes
        /\ size # 0 /\ is_common_section => bytes' = bytes + 3
        /\ size # 0 /\ ~is_common_section => bytes' = bytes + 1 + 2 * size
    BY <1>1, <1>2, FlushBytes
  <2>2. MaxSection >= 1
    BY RleAssumption
  <2>3. CASE size = 0
    BY <1>1, <2>1, <2>3
  <2>4. CASE size # 0 /\ is_common_section
    BY <1>1, <2>1, <2>2, <2>4
  <2>5. CASE size # 0 /\ ~is_common_section
    <3>1. bytes' = bytes + 1 + 2 * size
      BY <2>1, <2>5
    <3>2. size >= 1 /\ size <= MaxSection
      BY <1>1, <1>2, <2>5
    <3>3. QED
      BY <1>1, <1>2, <3>1, <3>2
  <2>6. QED
    BY <2>3, <2>4, <2>5
<1>3. section_size \in 0..section_size
  BY <1>1
<1>4. ASSUME NEW p \in Pixels, EndCommon(p) PROVE FlushSection(section_size)
  BY <1>4 DEF EndCommon
<1>5. ASSUME NEW p \in Pixels, ExtendCommon(p) PROVE bytes' = bytes
  BY <1>5 DEF ExtendCommon
<1>6. ASSUME NEW p \in Pixels, StartCommon(p)
      PROVE  section_size - 1 \in 0..section_size /\ FlushSection(section_size - 1)
  BY <1>1, <1>6 DEF StartCommon, Repeats
<1>7. ASSUME NEW p \in Pixels, ExtendSection(p)
      PROVE  bytes' = bytes \/ FlushSection(section_size)
  BY <1>7 DEF ExtendSection
<1>8. Finish => FlushSection(section_size)
  BY DEF Finish
<1>9. QED
  BY <1>1, <1>2, <1>3, <1>4, <1>5, <1>6, <1>7, <1>8 DEF Encode

(* At no time is the output longer than the estimate for the whole image.  *)
LEMMA OutputWithin ==
  ASSUME IInv, NEW n \in Nat, Len(consumed) <= n, finished => Len(consumed) = n
  PROVE  bytes <= Estimate(n)
<1> DEFINE q == (n + (MaxSection - 1)) \div MaxSection
<1>1. Estimate(n) = 2 * n + q
  BY DEF Estimate
<1>2. MaxSection \in Nat /\ MaxSection > 0 /\ q \in Int
  BY RleAssumption, SMT
<1>3. CASE finished
  BY <1>3 DEF IInv, WithinEstimate
<1>4. CASE ~finished
  <2>1. finished = FALSE
    BY <1>4 DEF IInv, TypeOK
  <2>2. /\ Len(decoded) \in Nat /\ bytes \in Nat /\ full_sections \in Nat
        /\ MaxSection * full_sections <= Len(decoded)
        /\ is_common_section = TRUE => bytes <= 2 * Len(decoded) + full_sections + 1
        /\ is_common_section = FALSE => bytes <= 2 * Len(decoded) + full_sections
    BY <2>1, BudgetFacts
  <2>3. /\ section_size \in Nat /\ is_common_section \in BOOLEAN
        /\ Len(consumed) = Len(decoded) + section_size
        /\ is_common_section => section_size >= 2
    BY DEF IInv, TypeOK, SectionInv, Lossless
  <2>4. MaxSection * full_sections <= n
    BY <1>2, <2>2, <2>3
  <2>5. full_sections <= q
    BY <1>2, <2>2, <2>4, CeilingAbove
  <2> HIDE DEF q
  <2>6. CASE is_common_section
    <3>1. bytes <= 2 * Len(decoded) + full_sections + 1 /\ Len(decoded) + 2 <= n
      BY <2>2, <2>3, <2>6
    <3>2. QED
      BY <1>1, <1>2, <2>2, <2>5, <3>1
  <2>7. CASE ~is_common_section
    <3>1. bytes <= 2 * Len(decoded) + full_sections /\ Len(decoded) <= n
      BY <2>2, <2>3, <2>7
    <3>2. QED
      BY <1>1, <1>2, <2>2, <2>5, <3>1
  <2>8. QED
    BY <2>6, <2>7
<1>5. QED
  BY <1>3, <1>4

-----------------------------------------------------------------------------
(* The encoder's inductive invariant.                                      *)
LEMMA InitIInv == Init => IInv
<1> SUFFICES ASSUME Init PROVE IInv
  OBVIOUS
<1>1. TypeOK
  <2>1. section_data \in Seq(Pixels) /\ section_size \in 0..MaxSection
    BY RleAssumption, SMT DEF Init
  <2>2. QED
    BY <2>1 DEF Init, TypeOK
<1>2. SectionInv /\ Lossless
  BY DEF Init, SectionInv, Lossless
<1>3. MaxSection * full_sections <= Len(decoded)
  BY RleAssumption, SMT DEF Init
<1>4. Budget /\ WithinEstimate
  BY <1>3 DEF Init, Budget, WithinEstimate
<1>5. QED
  BY <1>1, <1>2, <1>4 DEF IInv

(* Every pixel and the end of the image keep the invariant.                *)
LEMMA NextIInv == IInv /\ [Next]_vars => IInv'
<1> SUFFICES ASSUME IInv, [Next]_vars PROVE IInv'
  OBVIOUS
<1>1. ASSUME NEW p \in Pixels, Encode(p) PROVE IInv'
  BY <1>1, EndCommonStep, ExtendCommonStep, StartCommonStep, ExtendSectionStep
     DEF Encode
<1>2. CASE Finish
  BY <1>2, FinishStep
<1>3. CASE UNCHANGED vars
  BY <1>3 DEF vars, IInv, TypeOK, SectionInv, Lossless, Buffered, Budget,
              WithinEstimate, Estimate
<1>4. QED
  BY <1>1, <1>2, <1>3 DEF Next

(* The inductive invariant holds for images of any length.                 *)
THEOREM Inductive == Spec => []IInv
BY InitIInv, NextIInv, PTL DEF Spec

(* Type correctness.                                                       *)
THEOREM TypeCorrect == Spec => []TypeOK
<1>1. IInv => TypeOK
  BY DEF IInv
<1>2. QED
  BY <1>1, Inductive, PTL

(* No image is garbled by the encoder: what the device decodes, with what  *)
(* the section still holds, is what was taken from the framebuffer.        *)
THEOREM EncoderLossless == Spec => []Lossless
<1>1. IInv => Lossless
  BY DEF IInv
<1>2. QED
  BY <1>1, Inductive, PTL

(* No image needs more bytes than _bitblt_encoder_init bought tickets for. *)
THEOREM EncoderWithinEstimate == Spec => []WithinEstimate
<1>1. IInv => WithinEstimate
  BY DEF IInv
<1>2. QED
  BY <1>1, Inductive, PTL

-----------------------------------------------------------------------------
(***************************************************************************)
(* The SDK's encoder.  A section in its output, and the pixels it stands   *)
(* for.                                                                    *)
(***************************************************************************)
SectionType ==
  {s \in [common : BOOLEAN, size : 0..(MaxSection - 1), data : Seq(Pixels)] :
     Len(s.data) = IF s.common THEN 1 ELSE s.size + 1}

PixelsOf(s) == [k \in 1..(s.size + 1) |-> IF s.common THEN s.data[1] ELSE s.data[k]]

BytesOf(s) == SectionBytes(s.size + 1, s.common)

(***************************************************************************)
(* The account of the header bytes again: each full section brings a byte  *)
(* of the estimate with it.  A short section of different pixels owes a    *)
(* byte, which the run after it saves; a full run saves one more, which    *)
(* pays for a run of one pixel after it, where two pixels would be cheaper *)
(* otherwise.                                                              *)
(***************************************************************************)
Slack(s) ==
  IF s.size + 1 = MaxSection THEN (IF s.common THEN -1 ELSE 0)
  ELSE IF s.common THEN 0 ELSE 1

SlackAfter(secs) == IF Len(secs) = 0 THEN 0 ELSE Slack(secs[Len(secs)])

(* Which section can follow others.                                        *)
MayFollow(secs, s) ==
  IF s.common THEN s.size = 0 => SlackAfter(secs) = -1 ELSE SlackAfter(secs) <= 0

(***************************************************************************)
(* The sections encode the pixels within the budget; flat and pos are what *)
(* the first i sections decode to and the bytes they take.                 *)
(***************************************************************************)
Decodes(secs, flat) ==
  /\ flat \in [0..Len(secs) -> Seq(Pixels)]
  /\ flat[0] = <<>>
  /\ \A i \in 1..Len(secs) : flat[i] = flat[i - 1] \o PixelsOf(secs[i])

Takes(secs, pos) ==
  /\ pos \in [0..Len(secs) -> Nat]
  /\ pos[0] = 0
  /\ \A i \in 1..Len(secs) : pos[i] = pos[i - 1] + BytesOf(secs[i])

Affordable(secs, n, b) ==
  \E full \in Nat :
    /\ MaxSection * full <= n
    /\ SlackAfter(secs) = 1 => MaxSection * full < n
    /\ b <= 2 * n + full + SlackAfter(secs)

WellCoded(secs, pixels) ==
  /\ secs \in Seq(SectionType)
  /\ pixels \in Seq(Pixels)
  /\ \E flat : Decodes(secs, flat) /\ flat[Len(secs)] = pixels
  /\ \E pos : Takes(secs, pos) /\ Affordable(secs, Len(pixels), pos[Len(secs)])

(***************************************************************************)
(* All sections but the last are closed; the last one, which may still     *)
(* change, holds the pixels read since.                                    *)
(***************************************************************************)
Open(closed, before, s) ==
  /\ WellCoded(closed, before)
  /\ s \in SectionType
  /\ MayFollow(closed, s)
  /\ sections = Append(closed, s)
  /\ consumed = before \o PixelsOf(s)
  /\ lastPixelValue = PixelsOf(s)[s.size + 1]

SdkInv ==
  \/ sections = <<>> /\ consumed = <<>> /\ ~finished
  \/ \E closed, before, s : Open(closed, before, s)
  \/ EmptyImage /\ \E p \in Pixels : sections = <<NewSection(FALSE, 0, p)>>

(* The pixels of a section.                                                *)
LEMMA SectionPixels ==
  ASSUME NEW s \in SectionType
  PROVE  /\ s.size \in Nat /\ s.size + 1 \in 1..MaxSection /\ s.common \in BOOLEAN
         /\ PixelsOf(s) \in Seq(Pixels)
         /\ Len(PixelsOf(s)) = s.size + 1
         /\ \A k \in 1..(s.size + 1) : PixelsOf(s)[k] = IF s.common THEN s.data[1] ELSE s.data[k]
         /\ BytesOf(s) \in Nat
         /\ Slack(s) \in {-1, 0, 1}
<1>0. /\ s \in [common : BOOLEAN, size : 0..(MaxSection - 1), data : Seq(Pixels)]
      /\ Len(s.data) = IF s.common THEN 1 ELSE s.size + 1
  BY DEF SectionType
<1>1. s.size \in Nat /\ s.size + 1 \in 1..MaxSection /\ s.common \in BOOLEAN
  <2>1. s.size \in 0..(MaxSection - 1) /\ s.common \in BOOLEAN
    BY <1>0
  <2>2. QED
    BY <2>1, RleAssumption
<1>2. \A k \in 1..(s.size + 1) : (IF s.common THEN s.data[1] ELSE s.data[k]) \in Pixels
  BY <1>0, <1>1
<1>3. PixelsOf(s) \in Seq(Pixels) /\ Len(PixelsOf(s)) = s.size + 1
  BY <1>1, <1>2 DEF PixelsOf
<1>4. QED
  BY <1>1, <1>3 DEF PixelsOf, BytesOf, SectionBytes, Slack

(* What the device makes of a section of the SDK: its size bits suffice.   *)
LEMMA DecodeSdkSection ==
  ASSUME NEW s \in SectionType
  PROVE  DecodeSection(s.data, s.size + 1, s.common) = PixelsOf(s)
<1>1. HeaderCount(SectionHeader(s.size + 1)) = s.size + 1
  <2>1. s.size \in Nat /\ s.size < MaxSection /\ MaxSection \in Nat
    BY RleAssumption, SectionPixels
  <2>2. \A a, m \in Nat : a < m => (a + 1 - 1) % m = a
    OBVIOUS
  <2>3. QED
    BY <2>1, <2>2 DEF HeaderCount, SectionHeader
<1>2. QED
  BY <1>1 DEF DecodeSection, PixelsOf

(* The bytes b of l pixels are within the budget that f full sections and  *)
(* the slack leave; so are those of the pixels with a further section.     *)
LEMMA HeaderCharged ==
  ASSUME NEW b \in Nat, NEW l \in Nat, NEW f \in Nat, NEW size \in Nat,
         NEW slack \in {-1, 0, 1}, NEW common \in BOOLEAN,
         b <= 2 * l + f + slack,
         common /\ size = 0 => slack = -1,
         ~common => slack <= 0
  PROVE  LET more == IF common THEN 3 ELSE 1 + 2 * (size + 1)
         IN  /\ (common => size >= 1)
                  => b + more <= 2 * (l + size + 1) + (f + 1) + (IF common THEN -1 ELSE 0)
             /\ b + more <= 2 * (l + size + 1) + f + (IF common THEN 0 ELSE 1)
<1>1. CASE common
  BY <1>1
<1>2. CASE ~common
  BY <1>2
<1>3. QED
  BY <1>1, <1>2

(* A section that may follow is closed.                                    *)
LEMMA CloseSection ==
  ASSUME NEW secs, NEW pixels, WellCoded(secs, pixels),
         NEW s \in SectionType, MayFollow(secs, s)
  PROVE  WellCoded(Append(secs, s), pixels \o PixelsOf(s))
<1> DEFINE n == Len(secs)
           new == Append(secs, s)
           image == pixels \o PixelsOf(s)
<1>1. /\ secs \in Seq(SectionType) /\ n \in Nat
      /\ new \in Seq(SectionType) /\ Len(new) = n + 1
      /\ \A i \in 1..n : new[i] = secs[i]
      /\ new[n + 1] = s
  BY AppendProperties, LenProperties DEF WellCoded
<1>2. /\ pixels \in Seq(Pixels) /\ PixelsOf(s) \in Seq(Pixels)
      /\ image \in Seq(Pixels) /\ Len(image) = Len(pixels) + s.size + 1
      /\ Len(pixels) \in Nat /\ s.size \in Nat /\ s.common \in BOOLEAN
      /\ BytesOf(s) \in Nat /\ Slack(s) \in {-1, 0, 1}
  <2>1. /\ PixelsOf(s) \in Seq(Pixels) /\ Len(PixelsOf(s)) = s.size + 1
        /\ s.size \in Nat /\ s.common \in BOOLEAN
        /\ BytesOf(s) \in Nat /\ Slack(s) \in {-1, 0, 1}
    BY SectionPixels
  <2>2. pixels \in Seq(Pixels) /\ Len(pixels) \in Nat
    BY LenProperties DEF WellCoded
  <2>3. image \in Seq(Pixels) /\ Len(image) = Len(pixels) + (s.size + 1)
    BY <2>1, <2>2, ConcatProperties
  <2>4. QED
    BY <2>1, <2>2, <2>3
<1>3. \E flat : Decodes(new, flat) /\ flat[n + 1] = image
  <2>1. PICK flat : Decodes(secs, flat) /\ flat[n] = pixels
    BY DEF WellCoded
  <2> DEFINE more == [i \in 0..(n + 1) |-> IF i = n + 1 THEN image ELSE flat[i]]
  <2>2. more \in [0..(n + 1) -> Seq(Pixels)]
    BY <1>1, <1>2, <2>1 DEF Decodes
  <2>3. more[0] = <<>> /\ more[n + 1] = image
    BY <1>1, <2>1 DEF Decodes
  <2>4. ASSUME NEW i \in 1..(n + 1) PROVE more[i] = more[i - 1] \o PixelsOf(new[i])
    <3>1. CASE i = n + 1
      <4>1. more[i - 1] = pixels
        BY <1>1, <2>1, <3>1
      <4>2. QED
        BY <1>1, <2>3, <3>1, <4>1
    <3>2. CASE i # n + 1
      <4>1. i \in 1..n /\ more[i] = flat[i] /\ more[i - 1] = flat[i - 1] /\ new[i] = secs[i]
        BY <1>1, <3>2
      <4>2. QED
        BY <2>1, <4>1 DEF Decodes
    <3>3. QED
      BY <3>1, <3>2
  <2> HIDE DEF more
  <2>5. Decodes(new, more)
    BY <1>1, <2>2, <2>3, <2>4 DEF Decodes
  <2>6. QED
    BY <2>3, <2>5
<1>4. \E pos : Takes(new, pos) /\ Affordable(new, Len(image), pos[n + 1])
  <2>1. PICK pos : Takes(secs, pos) /\ Affordable(secs, Len(pixels), pos[n])
    BY DEF WellCoded
  <2> DEFINE b == pos[n] + BytesOf(s)
             more == [i \in 0..(n + 1) |-> IF i = n + 1 THEN b ELSE pos[i]]
  <2>2. b \in Nat /\ pos[n] \in Nat
    <3>1. pos \in [0..n -> Nat] /\ n \in 0..n
      BY <1>1, <2>1 DEF Takes
    <3>2. pos[n] \in Nat
      BY <3>1
    <3>3. BytesOf(s) \in Nat
      BY <1>2
    <3>4. QED
      BY <3>2, <3>3
  <2>3. more \in [0..(n + 1) -> Nat]
    BY <1>1, <2>1, <2>2 DEF Takes
  <2>4. more[0] = 0 /\ more[n + 1] = b
    BY <1>1, <2>1 DEF Takes
  <2>5. ASSUME NEW i \in 1..(n + 1) PROVE more[i] = more[i - 1] + BytesOf(new[i])
    <3>1. CASE i = n + 1
      BY <1>1, <2>4, <3>1
    <3>2. CASE i # n + 1
      <4>1. i \in 1..n /\ more[i] = pos[i] /\ more[i - 1] = pos[i - 1] /\ new[i] = secs[i]
        BY <1>1, <3>2
      <4>2. QED
        BY <2>1, <4>1 DEF Takes
    <3>3. QED
      BY <3>1, <3>2
  <2>6. Affordable(new, Len(image), b)
    <3>1. PICK full \in Nat :
            /\ MaxSection * full <= Len(pixels)
            /\ SlackAfter(secs) = 1 => MaxSection * full < Len(pixels)
            /\ pos[n] <= 2 * Len(pixels) + full + SlackAfter(secs)
      BY <2>1 DEF Affordable
    <3> DEFINE charged == MaxSection * full
    <3>2. SlackAfter(secs) \in {-1, 0, 1} /\ SlackAfter(new) = Slack(s)
      <4>1. n # 0 => secs[n] \in SectionType
        BY <1>1
      <4>2. n # 0 => Slack(secs[n]) \in {-1, 0, 1}
        BY <4>1, SectionPixels
      <4>3. QED
        BY <1>1, <4>2 DEF SlackAfter
    <3>5. /\ s.common /\ s.size = 0 => SlackAfter(secs) = -1
          /\ ~s.common => SlackAfter(secs) <= 0
      BY DEF MayFollow
    <3>3. charged \in Nat /\ MaxSection * (full + 1) = charged + MaxSection
      BY RleAssumption
    <3>4. BytesOf(s) = IF s.common THEN 3 ELSE 1 + 2 * (s.size + 1)
      BY <1>2 DEF BytesOf, SectionBytes
    <3> HIDE DEF charged
    <3>6. CASE s.size + 1 = MaxSection
      <4>1. charged + MaxSection <= Len(image)
        BY <1>2, <3>1, <3>3, <3>6, RleAssumption DEF charged
      <4>2. Slack(s) = IF s.common THEN -1 ELSE 0
        BY <3>6 DEF Slack
      <4>3. s.common => s.size >= 1
        BY <1>2, <3>6, RleAssumption
      <4>4. b <= 2 * Len(image) + (full + 1) + Slack(s)
        <5>1. pos[n] + BytesOf(s) <= 2 * (Len(pixels) + s.size + 1) + (full + 1) + Slack(s)
          BY <1>2, <2>2, <3>1, <3>2, <3>5, <3>4, <4>2, <4>3, HeaderCharged
        <5>2. QED
          BY <1>2, <5>1
      <4>5. SlackAfter(new) # 1 /\ full + 1 \in Nat
        BY <3>2, <4>2
      <4>6. QED
        BY <3>2, <3>3, <4>1, <4>4, <4>5 DEF Affordable
    <3>7. CASE s.size + 1 # MaxSection
      <4>1. charged < Len(image)
        BY <1>2, <3>1, <3>3 DEF charged
      <4>2. Slack(s) = IF s.common THEN 0 ELSE 1
        BY <3>7 DEF Slack
      <4>3. b <= 2 * Len(image) + full + Slack(s)
        <5>1. pos[n] + BytesOf(s) <= 2 * (Len(pixels) + s.size + 1) + full + Slack(s)
          BY <1>2, <2>2, <3>1, <3>2, <3>5, <3>4, <4>2, HeaderCharged
        <5>2. QED
          BY <1>2, <5>1
      <4>4. MaxSection * full <= Len(image) /\ MaxSection * full < Len(image)
        BY <1>2, <3>3, <4>1 DEF charged
      <4>5. b <= 2 * Len(image) + full + SlackAfter(new)
        BY <3>2, <4>3
      <4>6. QED
        BY <4>4, <4>5, Zenon DEF Affordable
    <3>8. QED
      BY <3>6, <3>7
  <2> HIDE DEF more, b
  <2>7. Takes(new, more)
    BY <1>1, <2>3, <2>4, <2>5 DEF Takes
  <2>8. QED
    BY <2>4, <2>6, <2>7
<1>5. QED
  BY <1>1, <1>2, <1>3, <1>4 DEF WellCoded

(* Nothing encodes nothing.                                                *)
LEMMA EmptyWellCoded == WellCoded(<<>>, <<>>)
<1>1. <<>> \in Seq(SectionType) /\ <<>> \in Seq(Pixels) /\ Len(<<>>) = 0
  BY EmptySeq
<1> DEFINE flat == [i \in 0..0 |-> <<>>]
           pos == [i \in 0..0 |-> 0]
<1>2. Decodes(<<>>, flat) /\ flat[0] = <<>>
  BY <1>1 DEF Decodes
<1>3. Takes(<<>>, pos) /\ pos[0] = 0
  BY <1>1 DEF Takes
<1>4. Affordable(<<>>, 0, 0)
  BY RleAssumption DEF Affordable, SlackAfter
<1> HIDE DEF flat, pos
<1>5. QED
  BY <1>1, <1>2, <1>3, <1>4 DEF WellCoded

(* A set of natural numbers that is not empty has a least element.         *)
LEMMA LeastOf ==
  ASSUME NEW T, T \subseteq Nat, T # {}
  PROVE  \E x \in T : \A y \in T : x <= y
<1> DEFINE R == OpToRel(<, Nat)
<1>1. IsWellFoundedOn(R, Nat)
  BY NatLessThanWellFounded
<1> HIDE DEF R
<1>2. PICK x \in T : \A y \in T : ~(<<y, x>> \in R)
  BY <1>1, WFMin
<1>3. ASSUME NEW y \in T PROVE x <= y
  <2>1. ~(y < x)
    BY <1>2 DEF R, OpToRel
  <2>2. QED
    BY <2>1
<1>4. QED
  BY <1>3

(* What FlattenSeq makes of the sections.  Its recursive function exists,  *)
(* since flat is one, and there is no other: consider the first section    *)
(* after which it differs.                                                 *)
LEMMA Flattened ==
  ASSUME NEW secs \in Seq(SectionType), NEW flat, Decodes(secs, flat)
  PROVE  FlattenSeq([i \in 1..Len(secs) |-> PixelsOf(secs[i])]) = flat[Len(secs)]
<1> DEFINE n == Len(secs)
           seqs == [i \in 1..n |-> PixelsOf(secs[i])]
           Loop(f) == f = [i \in 1..n |-> IF i = 1 THEN seqs[i] ELSE f[i - 1] \o seqs[i]]
           decoded_to == [i \in 1..n |-> flat[i]]
<1>1. n \in Nat /\ Len(seqs) = n
  BY LenProperties
<1>2. CASE n = 0
  <2>1. seqs = <<>>
    BY <1>2
  <2>2. FlattenSeq(seqs) = seqs
    BY <1>1, <1>2 DEF FlattenSeq
  <2>3. QED
    BY <1>2, <2>1, <2>2 DEF Decodes
<1>3. CASE n # 0
  <2>1. flat[1] = seqs[1]
    <3>1. flat[1] = <<>> \o seqs[1] /\ seqs[1] = PixelsOf(secs[1]) /\ secs[1] \in SectionType
      <4>1. 1 \in 1..n /\ 1 - 1 = 0
        BY <1>1, <1>3
      <4>2. seqs[1] = PixelsOf(secs[1])
        BY <4>1
      <4>3. secs[1] \in SectionType
        BY <4>1, ElementOfSeq
      <4>4. flat[1] = flat[0] \o PixelsOf(secs[1]) /\ flat[0] = <<>>
        BY <4>1 DEF Decodes
      <4>5. QED
        BY <4>2, <4>3, <4>4
    <3>2. seqs[1] \in Seq(Pixels)
      BY <3>1, SectionPixels
    <3>3. QED
      BY <3>1, <3>2, ConcatEmptySeq
  <2>2. \A i \in 1..n : i # 1 => i - 1 \in 1..n /\ flat[i] = flat[i - 1] \o seqs[i]
    BY <1>1 DEF Decodes
  <2> HIDE DEF seqs, n
  <2>3. Loop(decoded_to)
    <3>1. \A i \in 1..n : decoded_to[i] = IF i = 1 THEN seqs[i] ELSE decoded_to[i - 1] \o seqs[i]
      BY <2>1, <2>2
    <3>2. QED
      BY <3>1
  <2>4. ASSUME NEW f, Loop(f) PROVE f[n] = flat[n]
    <3> DEFINE T == {i \in 1..n : f[i] # flat[i]}
    <3>1. \A i \in 1..n : f[i] = IF i = 1 THEN seqs[i] ELSE f[i - 1] \o seqs[i]
      BY <2>4
    <3>2. ASSUME T # {} PROVE FALSE
      <4>1. T \subseteq Nat
        BY <1>1
      <4>2. PICK i \in T : \A k \in T : i <= k
        BY <3>2, <4>1, LeastOf
      <4>3. i \in 1..n /\ i # 1 /\ f[i] # flat[i]
        BY <1>1, <2>1, <3>1
      <4>4. i - 1 \in 1..n /\ ~(i <= i - 1)
        BY <1>1, <4>3
      <4>5. f[i - 1] = flat[i - 1]
        BY <4>2, <4>4
      <4>6. QED
        BY <2>2, <3>1, <4>3, <4>5
    <3>3. n \in 1..n
      BY <1>1, <1>3
    <3>4. QED
      BY <3>2, <3>3
  <2>5. FlattenSeq(seqs) = (CHOOSE f : Loop(f))[n]
    <3>1. Len(seqs) # 0
      BY <1>1, <1>3
    <3>2. QED
      BY <1>1, <3>1, Zenon DEF FlattenSeq
  <2>6. Loop(CHOOSE f : Loop(f))
    <3> HIDE DEF Loop
    <3>1. QED
      BY <2>3, Zenon
  <2>7. QED
    BY <2>4, <2>5, <2>6 DEF seqs, n
<1>4. QED
  BY <1>2, <1>3

(* The bytes that rleCompress has written, in the same way.                *)
LEMMA BytesWritten ==
  ASSUME sections \in Seq(SectionType), NEW pos, Takes(sections, pos)
  PROVE  SdkBytes = pos[Len(sections)]
<1> DEFINE n == Len(sections)
           Loop(f) == f = [i \in 0..n |-> IF i = 0 THEN 0
                             ELSE f[i - 1] + SectionBytes(sections[i].size + 1, sections[i].common)]
<1>1. n \in Nat
  BY LenProperties
<1>2. \A i \in 0..n : i # 0 =>
        /\ i - 1 \in 0..n
        /\ pos[i] = pos[i - 1] + SectionBytes(sections[i].size + 1, sections[i].common)
  BY <1>1 DEF Takes, BytesOf
<1>3. pos \in [0..n -> Nat] /\ pos[0] = 0
  BY DEF Takes
<1>4. SdkBytes = (CHOOSE f : Loop(f))[n]
  BY Zenon DEF SdkBytes
<1> HIDE DEF n
<1>5. Loop(pos)
  <2>1. \A i \in 0..n : pos[i] = IF i = 0 THEN 0
          ELSE pos[i - 1] + SectionBytes(sections[i].size + 1, sections[i].common)
    BY <1>2, <1>3
  <2>2. QED
    BY <1>3, <2>1
<1>6. ASSUME NEW f, Loop(f) PROVE f[n] = pos[n]
  <2> DEFINE T == {i \in 0..n : f[i] # pos[i]}
  <2>1. \A i \in 0..n : f[i] = IF i = 0 THEN 0
          ELSE f[i - 1] + SectionBytes(sections[i].size + 1, sections[i].common)
    BY <1>6
  <2>2. ASSUME T # {} PROVE FALSE
    <3>1. T \subseteq Nat
      BY <1>1
    <3>2. PICK i \in T : \A k \in T : i <= k
      BY <2>2, <3>1, LeastOf
    <3>3. i \in 0..n /\ i # 0 /\ f[i] # pos[i]
      BY <1>1, <1>3, <2>1
    <3>4. i - 1 \in 0..n /\ ~(i <= i - 1)
      BY <1>1, <3>3
    <3>5. f[i - 1] = pos[i - 1]
      BY <3>2, <3>4
    <3>6. QED
      BY <1>2, <2>1, <3>3, <3>5
  <2>3. n \in 0..n
    BY <1>1
  <2>4. QED
    BY <2>2, <2>3
<1>7. Loop(CHOOSE f : Loop(f))
  <2> HIDE DEF Loop
  <2>1. QED
    BY <1>5, Zenon
<1>8. QED
  BY <1>4, <1>6, <1>7 DEF n

(* Sections that encode what was read are decoded to it and fit.           *)
LEMMA CodedProperties ==
  ASSUME WellCoded(sections, consumed)
  PROVE  /\ SdkDecoded = consumed
         /\ SdkBytes \in Nat /\ Estimate(Len(consumed)) \in Nat
         /\ SdkBytes <= Estimate(Len(consumed))
<1>1. /\ sections \in Seq(SectionType) /\ consumed \in Seq(Pixels)
      /\ Len(sections) \in Nat /\ Len(consumed) \in Nat
      /\ \A i \in 1..Len(sections) : sections[i] \in SectionType
  BY LenProperties, ElementOfSeq DEF WellCoded
<1>2. SdkDecoded = consumed
  <2>1. PICK flat : Decodes(sections, flat) /\ flat[Len(sections)] = consumed
    BY DEF WellCoded
  <2>2. [i \in 1..Len(sections) |->
           LET s == sections[i] IN DecodeSection(s.data, s.size + 1, s.common)]
          = [i \in 1..Len(sections) |-> PixelsOf(sections[i])]
    BY <1>1, DecodeSdkSection
  <2>3. SdkDecoded = FlattenSeq([i \in 1..Len(sections) |-> PixelsOf(sections[i])])
    BY <2>2, Zenon DEF SdkDecoded
  <2>4. QED
    BY <1>1, <2>1, <2>3, Flattened
<1>3. /\ SdkBytes \in Nat /\ Estimate(Len(consumed)) \in Nat
      /\ SdkBytes <= Estimate(Len(consumed))
  <2>1. PICK pos : Takes(sections, pos) /\ Affordable(sections, Len(consumed), pos[Len(sections)])
    BY DEF WellCoded
  <2>2. SdkBytes = pos[Len(sections)] /\ pos[Len(sections)] \in Nat
    <3>1. SdkBytes = pos[Len(sections)]
      BY <1>1, <2>1, BytesWritten
    <3>2. pos \in [0..Len(sections) -> Nat] /\ Len(sections) \in 0..Len(sections)
      BY <1>1, <2>1 DEF Takes
    <3>3. QED
      BY <3>1, <3>2
  <2>3. PICK full \in Nat :
          /\ MaxSection * full <= Len(consumed)
          /\ SlackAfter(sections) = 1 => MaxSection * full < Len(consumed)
          /\ SdkBytes <= 2 * Len(consumed) + full + SlackAfter(sections)
    BY <2>1, <2>2 DEF Affordable
  <2> DEFINE sections_paid == (Len(consumed) + (MaxSection - 1)) \div MaxSection
  <2>4. sections_paid \in Int /\ MaxSection \in Nat /\ MaxSection > 0
    BY <1>1, RleAssumption
  <2>5. /\ MaxSection * full <= Len(consumed) => full <= sections_paid
        /\ MaxSection * full < Len(consumed) => full + 1 <= sections_paid
    BY <1>1, <2>4, CeilingAbove
  <2>6. SlackAfter(sections) \in {-1, 0, 1}
    <3>1. Len(sections) # 0 => sections[Len(sections)] \in SectionType
      BY <1>1
    <3>2. QED
      BY <3>1, SectionPixels DEF SlackAfter
  <2>7. Estimate(Len(consumed)) = 2 * Len(consumed) + sections_paid
    BY DEF Estimate
  <2> HIDE DEF sections_paid
  <2>8. full + SlackAfter(sections) <= sections_paid
    BY <2>3, <2>4, <2>5, <2>6
  <2>9. QED
    BY <1>1, <2>2, <2>3, <2>4, <2>5, <2>6, <2>7, <2>8
<1>4. QED
  BY <1>2, <1>3

-----------------------------------------------------------------------------
(* What the actions find of an open section: the header is the last one,   *)
(* and it is overwritten in place.                                         *)
LEMMA OpenFacts ==
  ASSUME NEW closed, NEW before, NEW s, Open(closed, before, s)
  PROVE  /\ closed \in Seq(SectionType) /\ before \in Seq(Pixels) /\ s \in SectionType
         /\ sections # <<>> /\ header = s
         /\ \A t \in SectionType : ReplaceAt(sections, Len(sections), t) = Append(closed, t)
<1>1. /\ closed \in Seq(SectionType) /\ before \in Seq(Pixels) /\ s \in SectionType
      /\ sections = Append(closed, s)
  BY DEF Open, WellCoded
<1>2. sections # <<>> /\ Len(sections) = Len(closed) + 1 /\ header = s
  BY <1>1, AppendProperties DEF header, Last
<1>3. ASSUME NEW t \in SectionType
      PROVE  ReplaceAt(sections, Len(sections), t) = Append(closed, t)
  <2>1. sections \in Seq(SectionType) /\ Len(sections) \in 1..Len(sections)
    BY <1>1, <1>2, AppendProperties, LenProperties
  <2>2. /\ ReplaceAt(sections, Len(sections), t) \in Seq(SectionType)
        /\ Len(ReplaceAt(sections, Len(sections), t)) = Len(sections)
        /\ \A j \in 1..Len(sections) : ReplaceAt(sections, Len(sections), t)[j]
                                          = IF j = Len(sections) THEN t ELSE sections[j]
    BY <2>1, ExceptSeq DEF ReplaceAt
  <2>3. /\ Append(closed, t) \in Seq(SectionType) /\ Len(Append(closed, t)) = Len(sections)
        /\ \A j \in 1..Len(sections) : Append(closed, t)[j]
                                          = IF j = Len(sections) THEN t ELSE sections[j]
    BY <1>1, <1>2
  <2>4. QED
    BY <2>2, <2>3, SeqEqual
<1>4. QED
  BY <1>1, <1>2, <1>3

(* A pixel read is a pixel of the open section.                            *)
LEMMA OpenTakesPixel ==
  ASSUME NEW before \in Seq(Pixels), NEW had \in Seq(Pixels), NEW p \in Pixels
  PROVE  Append(before \o had, p) = before \o Append(had, p)
<1>1. /\ before \o had \in Seq(Pixels) /\ <<p>> \in Seq(Pixels)
      /\ Append(before \o had, p) = (before \o had) \o <<p>>
      /\ Append(had, p) = had \o <<p>>
  BY ConcatProperties, AppendIsConcat
<1>2. QED
  BY <1>1, ConcatAssociative

(* The sections that the actions begin.                                    *)
LEMMA NewSections ==
  ASSUME NEW p \in Pixels
  PROVE  /\ \A c \in BOOLEAN : LET s == NewSection(c, 0, p)
                               IN  /\ s \in SectionType /\ s.common = c /\ s.size = 0
                                   /\ PixelsOf(s) = <<p>> /\ PixelsOf(s)[s.size + 1] = p
         /\ LET s == NewSection(TRUE, 1, p)
            IN  /\ s \in SectionType /\ s.common /\ s.size = 1
                /\ PixelsOf(s) = <<p, p>> /\ PixelsOf(s)[s.size + 1] = p
<1>1. ASSUME NEW c \in BOOLEAN
      PROVE  LET s == NewSection(c, 0, p)
             IN  /\ s \in SectionType /\ s.common = c /\ s.size = 0
                 /\ PixelsOf(s) = <<p>> /\ PixelsOf(s)[s.size + 1] = p
  <2>1. 0 \in 0..(MaxSection - 1) /\ <<p>> \in Seq(Pixels) /\ Len(<<p>>) = 1
    BY RleAssumption
  <2>2. NewSection(c, 0, p) \in SectionType
    <3> DEFINE s == NewSection(c, 0, p)
    <3>1. /\ s \in [common : BOOLEAN, size : 0..(MaxSection - 1), data : Seq(Pixels)]
          /\ s.data = <<p>> /\ s.size = 0
      BY <2>1 DEF NewSection
    <3> HIDE DEF s
    <3>2. Len(s.data) = 1 /\ s.size + 1 = 1
      BY <2>1, <3>1
    <3>3. s \in SectionType
      BY <3>1, <3>2, Zenon DEF SectionType
    <3>4. QED
      BY <3>3 DEF s
  <2>3. PixelsOf(NewSection(c, 0, p)) = <<p>>
    BY DEF NewSection, PixelsOf
  <2>4. QED
    BY <2>2, <2>3 DEF NewSection
<1>2. LET s == NewSection(TRUE, 1, p)
      IN  /\ s \in SectionType /\ s.common /\ s.size = 1
          /\ PixelsOf(s) = <<p, p>> /\ PixelsOf(s)[s.size + 1] = p
  <2>1. 1 \in 0..(MaxSection - 1) /\ <<p>> \in Seq(Pixels) /\ Len(<<p>>) = 1
    BY RleAssumption
  <2>2. NewSection(TRUE, 1, p) \in SectionType
    BY <2>1 DEF NewSection, SectionType
  <2>3. PixelsOf(NewSection(TRUE, 1, p)) = <<p, p>>
    BY DEF NewSection, PixelsOf
  <2>4. QED
    BY <2>2, <2>3 DEF NewSection
<1>3. QED
  BY <1>1, <1>2

(* A section takes another pixel: a run the same one again, a section of   *)
(* different pixels any.                                                   *)
LEMMA GrownSection ==
  ASSUME NEW s \in SectionType, s.size # MaxSection - 1, NEW p \in Pixels
  PROVE  /\ s.common /\ p = s.data[1] =>
              LET t == [s EXCEPT !.size = @ + 1]
              IN  /\ t \in SectionType /\ t.common /\ t.size = s.size + 1
                  /\ PixelsOf(t) = Append(PixelsOf(s), p)
         /\ ~s.common =>
              LET t == [s EXCEPT !.size = @ + 1, !.data = Append(@, p)]
              IN  /\ t \in SectionType /\ ~t.common /\ t.size = s.size + 1
                  /\ PixelsOf(t) = Append(PixelsOf(s), p)
<1>1. /\ s \in [common : BOOLEAN, size : 0..(MaxSection - 1), data : Seq(Pixels)]
      /\ Len(s.data) = IF s.common THEN 1 ELSE s.size + 1
      /\ s.size \in Nat /\ s.size + 1 \in 0..(MaxSection - 1)
  BY RleAssumption, SectionPixels DEF SectionType
<1>2. ASSUME s.common, p = s.data[1]
      PROVE  LET t == [s EXCEPT !.size = @ + 1]
             IN  /\ t \in SectionType /\ t.common /\ t.size = s.size + 1
                 /\ PixelsOf(t) = Append(PixelsOf(s), p)
  <2> DEFINE t == [s EXCEPT !.size = @ + 1]
  <2>1. t.common /\ t.size = s.size + 1 /\ t.data = s.data
        /\ t \in [common : BOOLEAN, size : 0..(MaxSection - 1), data : Seq(Pixels)]
    BY <1>1, <1>2
  <2> HIDE DEF t
  <2>2. t \in SectionType
    BY <1>1, <1>2, <2>1 DEF SectionType
  <2>3. PixelsOf(t) = Append(PixelsOf(s), p)
    BY <1>1, <1>2, <2>1 DEF PixelsOf
  <2>4. QED
    BY <2>1, <2>2, <2>3 DEF t
<1>3. ASSUME ~s.common
      PROVE  LET t == [s EXCEPT !.size = @ + 1, !.data = Append(@, p)]
             IN  /\ t \in SectionType /\ ~t.common /\ t.size = s.size + 1
                 /\ PixelsOf(t) = Append(PixelsOf(s), p)
  <2> DEFINE t == [s EXCEPT !.size = @ + 1, !.data = Append(@, p)]
  <2>1. ~t.common /\ t.size = s.size + 1 /\ t.data = Append(s.data, p)
        /\ t \in [common : BOOLEAN, size : 0..(MaxSection - 1), data : Seq(Pixels)]
    <3>1. Append(s.data, p) \in Seq(Pixels)
      BY <1>1, AppendProperties
    <3>2. QED
      BY <1>1, <1>3, <3>1
  <2> HIDE DEF t
  <2>2. t \in SectionType
    BY <1>1, <1>3, <2>1 DEF SectionType
  <2>3. PixelsOf(t) = Append(PixelsOf(s), p)
    BY <1>1, <1>3, <2>1 DEF PixelsOf
  <2>4. QED
    BY <2>1, <2>2, <2>3 DEF t
<1>4. QED
  BY <1>2, <1>3

(* A section of different pixels gives its last one back.                  *)
LEMMA ShrunkSection ==
  ASSUME NEW s \in SectionType, ~s.common, s.size # 0
  PROVE  LET t == [s EXCEPT !.size = @ - 1, !.data = Front(@)]
         IN  /\ t \in SectionType /\ ~t.common
             /\ PixelsOf(s) = Append(PixelsOf(t), s.data[s.size + 1])
<1> DEFINE t == [s EXCEPT !.size = @ - 1, !.data = Front(@)]
<1>1. /\ s \in [common : BOOLEAN, size : 0..(MaxSection - 1), data : Seq(Pixels)]
      /\ Len(s.data) = s.size + 1
      /\ s.size \in Nat /\ s.size - 1 \in 0..(MaxSection - 1)
  BY RleAssumption, SectionPixels DEF SectionType
<1>2. /\ Front(s.data) \in Seq(Pixels) /\ Len(Front(s.data)) = s.size
      /\ \A k \in 1..s.size : Front(s.data)[k] = s.data[k]
  BY <1>1 DEF Front
<1>3. ~t.common /\ t.size = s.size - 1 /\ t.data = Front(s.data)
      /\ t \in [common : BOOLEAN, size : 0..(MaxSection - 1), data : Seq(Pixels)]
  BY <1>1, <1>2
<1> HIDE DEF t
<1>4. t \in SectionType
  BY <1>1, <1>2, <1>3 DEF SectionType
<1>5. PixelsOf(s) = Append(PixelsOf(t), s.data[s.size + 1])
  BY <1>1, <1>2, <1>3 DEF PixelsOf
<1>6. QED
  BY <1>3, <1>4, <1>5 DEF t

(* An action leaves the output with an open section again.                 *)
LEMMA Reopened ==
  ASSUME NEW closed, NEW before, WellCoded(closed, before),
         NEW s \in SectionType, MayFollow(closed, s),
         sections' = Append(closed, s),
         consumed' = before \o PixelsOf(s),
         lastPixelValue' = PixelsOf(s)[s.size + 1]
  PROVE  SdkInv'
<1>1. Open(closed, before, s)'
  BY DEF Open
<1>2. QED
  BY <1>1, Zenon DEF SdkInv

(* One pixel in the SDK's encoder.                                         *)
LEMMA SdkEncodeStep ==
  ASSUME SdkInv, ~finished, NEW p \in Pixels, SdkEncode(p), consumed' = Append(consumed, p)
  PROVE  SdkInv'
<1>1. CASE SdkFirst(p)
  <2>1. sections = <<>> /\ consumed = <<>>
    <3>1. ASSUME NEW closed, NEW before, NEW s, Open(closed, before, s) PROVE sections # <<>>
      BY <3>1, OpenFacts
    <3>2. QED
      BY <1>1, <3>1 DEF SdkFirst, SdkInv, EmptyImage
  <2> DEFINE s == NewSection(FALSE, 0, p)
  <2>2. s \in SectionType /\ ~s.common /\ PixelsOf(s) = <<p>> /\ PixelsOf(s)[s.size + 1] = p
    BY NewSections
  <2>3. sections' = <<s>> /\ lastPixelValue' = p
    BY <1>1 DEF SdkFirst
  <2> HIDE DEF s
  <2>4. sections' = Append(<<>>, s) /\ consumed' = <<>> \o PixelsOf(s)
    BY <2>1, <2>2, <2>3
  <2>5. MayFollow(<<>>, s)
    BY <2>2 DEF MayFollow, SlackAfter
  <2>6. QED
    BY <2>2, <2>3, <2>4, <2>5, EmptyWellCoded, Reopened
<1>2. CASE sections # <<>>
  <2>1. PICK closed, before, s : Open(closed, before, s)
    BY <1>2 DEF SdkInv, EmptyImage
  <2>2. /\ closed \in Seq(SectionType) /\ before \in Seq(Pixels) /\ s \in SectionType
        /\ header = s
        /\ \A t \in SectionType : ReplaceAt(sections, Len(sections), t) = Append(closed, t)
    BY <2>1, OpenFacts
  <2>3. /\ WellCoded(closed, before) /\ MayFollow(closed, s)
        /\ sections = Append(closed, s) /\ consumed = before \o PixelsOf(s)
        /\ lastPixelValue = PixelsOf(s)[s.size + 1]
    BY <2>1 DEF Open
  <2>4. /\ s.size \in Nat /\ s.common \in BOOLEAN
        /\ PixelsOf(s) \in Seq(Pixels) /\ Len(PixelsOf(s)) = s.size + 1
        /\ lastPixelValue = IF s.common THEN s.data[1] ELSE s.data[s.size + 1]
    <3>1. s.size + 1 \in 1..(s.size + 1)
      BY <2>2, SectionPixels
    <3>2. QED
      BY <2>2, <2>3, <3>1, SectionPixels
  <2>5. WellCoded(sections, consumed) /\ consumed' = before \o Append(PixelsOf(s), p)
    <3>1. Append(before \o PixelsOf(s), p) = before \o Append(PixelsOf(s), p)
      BY <2>2, <2>4, OpenTakesPixel, Zenon
    <3>2. consumed' = before \o Append(PixelsOf(s), p)
      BY <2>3, <3>1, Zenon
    <3>3. QED
      BY <2>2, <2>3, <3>2, CloseSection
  <2>6. SlackAfter(sections) = Slack(s)
    <3>1. Len(sections) # 0 /\ sections[Len(sections)] = s
      BY <2>2, <2>3, AppendProperties
    <3>2. QED
      BY <3>1 DEF SlackAfter
  <2>7. ASSUME NEW t \in SectionType, t.size = s.size + 1,
               PixelsOf(t) = Append(PixelsOf(s), p)
        PROVE  PixelsOf(t)[t.size + 1] = p
    <3> DEFINE had == PixelsOf(s)
    <3>1. had \in Seq(Pixels) /\ Len(had) = s.size + 1
      BY <2>4
    <3>2. PixelsOf(t) = Append(had, p) /\ t.size + 1 = Len(had) + 1
      BY <2>4, <2>7
    <3> HIDE DEF had
    <3>3. Append(had, p)[Len(had) + 1] = p
      BY <3>1, AppendProperties
    <3>4. QED
      BY <3>2, <3>3
  <2>8. ASSUME NEW c \in BOOLEAN, sections' = Append(sections, NewSection(c, 0, p)),
               lastPixelValue' = p,
               IF c THEN Slack(s) = -1 ELSE Slack(s) <= 0
        PROVE  SdkInv'
    <3> DEFINE t == NewSection(c, 0, p)
    <3>1. /\ t \in SectionType /\ t.common = c /\ t.size = 0
          /\ PixelsOf(t) = <<p>> /\ PixelsOf(t)[t.size + 1] = p
      BY NewSections
    <3>2. sections' = Append(sections, t)
      BY <2>8
    <3> HIDE DEF t
    <3>3. MayFollow(sections, t)
      BY <2>6, <2>8, <3>1 DEF MayFollow
    <3>4. consumed \in Seq(Pixels)
      BY <2>5 DEF WellCoded
    <3>5. consumed' = consumed \o PixelsOf(t)
      BY <3>1, <3>4, AppendIsConcat
    <3>6. QED
      BY <2>5, <2>8, <3>1, <3>2, <3>3, <3>5, Reopened
  <2>9. CASE SdkCommonRepeat(p)
    <3>1. s.common /\ p = lastPixelValue /\ lastPixelValue' = p
      BY <2>2, <2>9 DEF SdkCommonRepeat
    <3>2. CASE s.size = MaxSection - 1
      <4>1. sections' = Append(sections, NewSection(TRUE, 0, p))
        BY <2>2, <2>9, <3>2 DEF SdkCommonRepeat
      <4>2. Slack(s) = -1
        BY <3>1, <3>2, RleAssumption DEF Slack
      <4>3. QED
        BY <2>8, <3>1, <4>1, <4>2
    <3>3. CASE s.size # MaxSection - 1
      <4> DEFINE t == [s EXCEPT !.size = @ + 1]
      <4>1. /\ t \in SectionType /\ t.common /\ t.size = s.size + 1
            /\ PixelsOf(t) = Append(PixelsOf(s), p)
        BY <2>2, <2>4, <3>1, <3>3, GrownSection
      <4>2. sections' = ReplaceAt(sections, Len(sections), t)
        BY <2>2, <2>9, <3>3 DEF SdkCommonRepeat
      <4> HIDE DEF t
      <4>3. sections' = Append(closed, t) /\ consumed' = before \o PixelsOf(t)
        BY <2>2, <2>5, <4>1, <4>2
      <4>4. MayFollow(closed, t)
        BY <2>4, <4>1 DEF MayFollow
      <4>5. QED
        BY <2>3, <2>7, <3>1, <4>1, <4>3, <4>4, Reopened
    <3>4. QED
      BY <3>2, <3>3
  <2>10. CASE SdkCommonEnds(p)
    <3>1. s.common /\ lastPixelValue' = p /\ sections' = Append(sections, NewSection(FALSE, 0, p))
      BY <2>2, <2>10 DEF SdkCommonEnds
    <3>2. Slack(s) <= 0
      BY <3>1 DEF Slack
    <3>3. QED
      BY <2>8, <3>1, <3>2
  <2>11. CASE SdkRepeat(p)
    <3> DEFINE t == NewSection(TRUE, 1, p)
    <3>1. ~s.common /\ p = lastPixelValue /\ lastPixelValue' = p
      BY <2>2, <2>11 DEF SdkRepeat
    <3>2. /\ t \in SectionType /\ t.common /\ t.size = 1
          /\ PixelsOf(t) = <<p, p>> /\ PixelsOf(t)[t.size + 1] = p
      BY NewSections
    <3>3. CASE s.size = 0
      <4>1. sections' = ReplaceAt(sections, Len(sections), t)
        BY <2>2, <2>11, <3>3 DEF SdkRepeat
      <4> HIDE DEF t
      <4>2. sections' = Append(closed, t)
        BY <2>2, <3>2, <4>1
      <4>3. PixelsOf(s) = <<p>>
        <5>1. PixelsOf(s)[1] = p
          BY <2>3, <3>1, <3>3
        <5>2. QED
          BY <2>4, <3>3, <5>1
      <4>4. consumed' = before \o PixelsOf(t)
        BY <2>2, <2>5, <3>2, <4>3
      <4>5. MayFollow(closed, t)
        BY <3>2 DEF MayFollow
      <4>6. QED
        BY <2>3, <3>1, <3>2, <4>2, <4>4, <4>5, Reopened
    <3>4. CASE s.size # 0
      <4> DEFINE u == [s EXCEPT !.size = @ - 1, !.data = Front(@)]
      <4>1. u \in SectionType /\ ~u.common /\ PixelsOf(s) = Append(PixelsOf(u), p)
        BY <2>2, <2>4, <3>1, <3>4, ShrunkSection
      <4>2. sections' = Append(ReplaceAt(sections, Len(sections), u), t)
        BY <2>2, <2>11, <3>4 DEF SdkRepeat
      <4> HIDE DEF t, u
      <4>3. sections' = Append(Append(closed, u), t)
        BY <2>2, <4>1, <4>2
      <4>4. WellCoded(Append(closed, u), before \o PixelsOf(u))
        <5>1. MayFollow(closed, u)
          BY <2>3, <3>1, <4>1 DEF MayFollow
        <5>2. QED
          BY <2>3, <4>1, <5>1, CloseSection
      <4>5. consumed' = (before \o PixelsOf(u)) \o PixelsOf(t)
        <5>1. PixelsOf(u) \in Seq(Pixels) /\ <<p, p>> \in Seq(Pixels)
          BY <4>1, SectionPixels
        <5>2. Append(Append(PixelsOf(u), p), p) = PixelsOf(u) \o <<p, p>>
          BY <5>1
        <5>3. consumed' = before \o (PixelsOf(u) \o <<p, p>>)
          BY <2>2, <2>5, <4>1, <5>2
        <5>4. QED
          BY <2>2, <3>2, <5>1, <5>3, ConcatAssociative
      <4>6. MayFollow(Append(closed, u), t)
        BY <3>2 DEF MayFollow
      <4>7. QED
        BY <3>1, <3>2, <4>3, <4>4, <4>5, <4>6, Reopened
    <3>5. QED
      BY <3>3, <3>4
  <2>12. CASE SdkDifferent(p)
    <3>1. ~s.common /\ lastPixelValue' = p
      BY <2>2, <2>12 DEF SdkDifferent
    <3>2. CASE s.size = MaxSection - 1
      <4>1. sections' = Append(sections, NewSection(FALSE, 0, p))
        BY <2>2, <2>12, <3>2 DEF SdkDifferent
      <4>2. Slack(s) <= 0
        BY <3>1, <3>2, RleAssumption DEF Slack
      <4>3. QED
        BY <2>8, <3>1, <4>1, <4>2
    <3>3. CASE s.size # MaxSection - 1
      <4> DEFINE t == [s EXCEPT !.size = @ + 1, !.data = Append(@, p)]
      <4>1. /\ t \in SectionType /\ ~t.common /\ t.size = s.size + 1
            /\ PixelsOf(t) = Append(PixelsOf(s), p)
        BY <2>2, <3>1, <3>3, GrownSection
      <4>2. sections' = ReplaceAt(sections, Len(sections), t)
        BY <2>2, <2>12, <3>3 DEF SdkDifferent
      <4> HIDE DEF t
      <4>3. sections' = Append(closed, t) /\ consumed' = before \o PixelsOf(t)
        BY <2>2, <2>5, <4>1, <4>2
      <4>4. MayFollow(closed, t)
        BY <2>3, <3>1, <4>1 DEF MayFollow
      <4>5. QED
        BY <2>3, <2>7, <3>1, <4>1, <4>3, <4>4, Reopened
    <3>4. QED
      BY <3>2, <3>3
  <2>13. QED
    BY <1>2, <2>9, <2>10, <2>11, <2>12 DEF SdkEncode, SdkFirst
<1>3. QED
  BY <1>1, <1>2 DEF SdkEncode, SdkCommonRepeat, SdkCommonEnds, SdkRepeat, SdkDifferent

(* The SDK's output always ends in an open section that holds what the     *)
(* closed ones do not.                                                     *)
THEOREM SdkInductive == BothSpec => []SdkInv
<1>1. BothInit => SdkInv
  BY DEF BothInit, Init, SdkInit, SdkInv
<1>2. SdkInv /\ [BothNext]_<<vars, sdkVars>> => SdkInv'
  <2> SUFFICES ASSUME SdkInv, [BothNext]_<<vars, sdkVars>> PROVE SdkInv'
    OBVIOUS
  <2>1. ASSUME NEW p \in Pixels, Encode(p), SdkEncode(p) PROVE SdkInv'
    <3>1. consumed' = Append(consumed, p) /\ ~finished
      BY <2>1 DEF Encode, EndCommon, ExtendCommon, StartCommon, ExtendSection, Consume
    <3>2. QED
      BY <2>1, <3>1, SdkEncodeStep
  <2>2. ASSUME NEW closed, NEW before, NEW s, Open(closed, before, s),
               UNCHANGED <<sections, lastPixelValue, consumed>>
        PROVE  SdkInv'
    <3>1. Open(closed, before, s)'
      BY <2>2 DEF Open
    <3>2. QED
      BY <3>1, Zenon DEF SdkInv
  <2>3. ASSUME Finish, SdkEnd PROVE SdkInv'
    <3>1. consumed' = consumed /\ finished' /\ ~finished
      BY <2>3 DEF Finish
    <3>2. CASE consumed = <<>>
      <4>1. \E p \in Pixels : sections' = <<NewSection(FALSE, 0, p)>>
        BY <2>3, <3>2 DEF SdkEnd, SdkFirst
      <4>2. QED
        BY <3>1, <3>2, <4>1 DEF SdkInv, EmptyImage
    <3>3. CASE consumed # <<>>
      <4>1. UNCHANGED <<sections, lastPixelValue, consumed>>
        BY <2>3, <3>1, <3>3 DEF SdkEnd, sdkVars
      <4>2. PICK closed, before, s : Open(closed, before, s)
        BY <3>3, Zenon DEF SdkInv, EmptyImage
      <4>3. QED
        BY <2>2, <4>1, <4>2
    <3>4. QED
      BY <3>2, <3>3
  <2>4. CASE UNCHANGED <<vars, sdkVars>>
    <3>1. UNCHANGED <<sections, lastPixelValue, consumed>> /\ finished' = finished
      BY <2>4 DEF vars, sdkVars
    <3>2. CASE \E closed, before, s : Open(closed, before, s)
      BY <2>2, <3>1, <3>2
    <3>3. CASE ~(\E closed, before, s : Open(closed, before, s))
      BY <3>1, <3>3 DEF SdkInv, EmptyImage
    <3>4. QED
      BY <3>2, <3>3
  <2>5. QED
    BY <2>1, <2>3, <2>4 DEF BothNext
<1>3. QED
  BY <1>1, <1>2, PTL DEF BothSpec

(* Of an empty image rleCompress has written the three bytes of one pixel  *)
(* into a buffer of no bytes.                                              *)
LEMMA EmptyImageTooLong ==
  ASSUME consumed = <<>>, NEW p \in Pixels, sections = <<NewSection(FALSE, 0, p)>>
  PROVE  SdkBytes = 3 /\ Estimate(Len(consumed)) = 0
<1> DEFINE s == NewSection(FALSE, 0, p)
           pos == [i \in 0..1 |-> IF i = 0 THEN 0 ELSE 3]
<1>1. s \in SectionType /\ s.common = FALSE /\ s.size = 0
  BY NewSections
<1> HIDE DEF s
<1>2. sections = <<s>>
  BY DEF s
<1>3. sections \in Seq(SectionType) /\ Len(sections) = 1 /\ sections[1] = s
  <2>1. \A S : \A e \in S : <<e>> \in Seq(S) /\ Len(<<e>>) = 1 /\ <<e>>[1] = e
    OBVIOUS
  <2>2. QED
    BY <1>1, <1>2, <2>1, Zenon
<1>4. BytesOf(s) = 3
  BY <1>1 DEF BytesOf, SectionBytes
<1>5. Takes(sections, pos)
  <2>1. /\ pos \in [0..1 -> Nat] /\ pos[0] = 0
        /\ pos[1] = pos[1 - 1] + 3
    OBVIOUS
  <2>2. \A i \in 1..1 : i = 1
    OBVIOUS
  <2> HIDE DEF pos
  <2>3. QED
    BY <1>3, <1>4, <2>1, <2>2 DEF Takes
<1>6. pos[1] = 3
  OBVIOUS
<1> HIDE DEF pos
<1>7. SdkBytes = 3
  BY <1>3, <1>5, <1>6, BytesWritten
<1>8. Estimate(Len(consumed)) = 0
  <2>1. Len(consumed) = 0
    OBVIOUS
  <2>2. \A m \in Nat : m > 0 => (0 + (m - 1)) \div m = 0
    BY SMT
  <2>3. QED
    BY <2>1, <2>2, RleAssumption DEF Estimate
<1>9. QED
  BY <1>7, <1>8

(* What the invariant says about the output after every pixel.             *)
LEMMA SdkInvProperties == SdkInv => SdkLossless /\ SdkWithinEstimate
<1> SUFFICES ASSUME SdkInv PROVE SdkLossless /\ SdkWithinEstimate
  OBVIOUS
<1>1. CASE EmptyImage /\ \E p \in Pixels : sections = <<NewSection(FALSE, 0, p)>>
  <2>1. SdkBytes = 3 /\ Estimate(Len(consumed)) = 0
    BY <1>1, EmptyImageTooLong DEF EmptyImage
  <2>2. QED
    BY <1>1, <2>1 DEF SdkLossless, SdkWithinEstimate
<1>2. ASSUME WellCoded(sections, consumed), ~EmptyImage
      PROVE  SdkLossless /\ SdkWithinEstimate
  <2>1. /\ SdkDecoded = consumed
        /\ SdkBytes \in Nat /\ Estimate(Len(consumed)) \in Nat
        /\ SdkBytes <= Estimate(Len(consumed))
    BY <1>2, CodedProperties
  <2>2. QED
    BY <1>2, <2>1 DEF SdkLossless, SdkWithinEstimate
<1>3. CASE sections = <<>> /\ consumed = <<>> /\ ~finished
  BY <1>2, <1>3, EmptyWellCoded DEF EmptyImage
<1>4. ASSUME NEW closed, NEW before, NEW s, Open(closed, before, s)
      PROVE  SdkLossless /\ SdkWithinEstimate
  <2>1. WellCoded(sections, consumed)
    BY <1>4, CloseSection DEF Open
  <2>2. consumed # <<>>
    <3>1. /\ before \in Seq(Pixels) /\ s \in SectionType
          /\ consumed = before \o PixelsOf(s)
      BY <1>4 DEF Open, WellCoded
    <3>2. /\ PixelsOf(s) \in Seq(Pixels) /\ s.size \in Nat
          /\ Len(PixelsOf(s)) = s.size + 1
      BY <3>1, SectionPixels
    <3> DEFINE had == PixelsOf(s)
    <3>3. had \in Seq(Pixels) /\ Len(had) > 0 /\ consumed = before \o had
      BY <3>1, <3>2
    <3> HIDE DEF had
    <3>4. Len(consumed) = Len(before) + Len(had) /\ Len(before) \in Nat /\ Len(had) \in Nat
      BY <3>1, <3>3, ConcatProperties, LenProperties
    <3>5. Len(<<>>) = 0
      OBVIOUS
    <3>6. QED
      BY <3>3, <3>4, <3>5
  <2>3. QED
    BY <1>2, <2>1, <2>2 DEF EmptyImage
<1>5. QED
  BY <1>1, <1>3, <1>4, Zenon DEF SdkInv

(* After every pixel the device decodes what rleCompress has written to    *)
(* the pixels read so far, unless the image has none.                      *)
THEOREM SdkEncoderLossless == BothSpec => []SdkLossless
<1>1. QED
  BY SdkInductive, SdkInvProperties, PTL

(* rleCompress writes past the end of its output buffer for an image of no *)
(* pixels, and for no other.                                               *)
THEOREM SdkEncoderWithinEstimate == BothSpec => []SdkWithinEstimate
<1>1. QED
  BY SdkInductive, SdkInvProperties, PTL

=============================================================================
