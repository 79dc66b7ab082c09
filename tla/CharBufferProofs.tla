-------------------------- MODULE CharBufferProofs --------------------------
(***************************************************************************)
(* Proofs about CharBuffer for every initial size, every limit on doubling *)
(* and every sequence of copies and resets: buff_pos stays inside, what    *)
(* precedes it was written, and what doubling loses is accounted for.      *)
(***************************************************************************)
EXTENDS CharBuffer, SequenceTheorems, FiniteSetTheorems, WellFoundedInduction, TLAPS

(* The inductive invariant: the three parts need each other, since a cell  *)
(* before buff_pos survives realloc() only because buff_pos is inside.     *)
BufferInv == TypeOK /\ PrefixDefined /\ LossAccounted

(* What makes CopiesText inductive: the buffer's length is the one its     *)
(* doublings account for, and once it has doubled, buff_pos stays behind   *)
(* every cell that lost a character, until the next reset.                 *)
PastLastCells ==
  /\ buff_len = LengthAfter[times_doubled]
  /\ ~looped => \A k \in doubled_before .. times_doubled - 1 : LengthAfter[k] - 1 <= buff_pos

CopyInv == BufferInv /\ PastLastCells /\ CopiesText

(* A freshly allocated buffer satisfies the invariant.                     *)
LEMMA InitEstablishesBufferInv == Init => BufferInv
<1> SUFFICES ASSUME Init PROVE BufferInv
  OBVIOUS
<1> USE SizesAssumption, CharsAssumption
<1>1. Len(<<>>) = 0 /\ <<>> \in Seq(Chars)
  BY EmptySeq, Zenon
<1>2. TypeOK
  BY <1>1 DEF Init, TypeOK
<1>3. PrefixDefined
  BY DEF Init, PrefixDefined
<1>4. LossAccounted
  BY <1>1 DEF Init, LossAccounted
<1>5. QED BY <1>2, <1>3, <1>4 DEF BufferInv

(* Copying a character makes the history one longer.                       *)
LEMMA CopiedExtends ==
  ASSUME TypeOK, NEW ch \in Chars, Copied(ch)
  PROVE  text' \in Seq(Chars) /\ Len(text') = Len(text) + 1 /\ Len(text') <= MaxText
<1>1. text \in Seq(Chars)
  BY DEF TypeOK
<1>2. Len(text) \in Nat /\ text' = Append(text, ch) /\ Len(text) < MaxText
  BY <1>1 DEF Copied
<1>3. text' \in Seq(Chars) /\ Len(text') = Len(text) + 1
  BY <1>1, <1>2, AppendProperties
<1>4. QED BY <1>2, <1>3, SizesAssumption

(* Copying and resetting preserve the invariant.                           *)
LEMMA NextPreservesBufferInv == BufferInv /\ [Next]_vars => BufferInv'
<1> SUFFICES ASSUME BufferInv, [Next]_vars PROVE BufferInv'
  OBVIOUS
<1> USE SizesAssumption, CharsAssumption DEF BufferInv
<1>1. ASSUME NEW ch \in Chars, Advance(ch) PROVE BufferInv'
  <2>1. text' \in Seq(Chars) /\ Len(text') = Len(text) + 1 /\ Len(text') <= MaxText
    BY <1>1, CopiedExtends DEF Advance
  <2>2. TypeOK'
    BY <1>1, <2>1 DEF Advance, Written, TypeOK
  <2>3. PrefixDefined'
    BY <1>1 DEF Advance, Written, TypeOK, PrefixDefined
  <2>4. LossAccounted'
    BY <1>1, <2>1 DEF Advance, TypeOK, LossAccounted
  <2>5. QED BY <2>2, <2>3, <2>4
<1>2. ASSUME NEW ch \in Chars, DoubleBuffer(ch) PROVE BufferInv'
  <2>1. text' \in Seq(Chars) /\ Len(text') = Len(text) + 1 /\ Len(text') <= MaxText
    BY <1>2, CopiedExtends DEF DoubleBuffer
  <2>2. Written(ch) \in [0 .. buff_len -> Chars \cup {Nul, Undefined}]
    BY DEF Written, TypeOK
  <2>3. TypeOK'
    BY <1>2, <2>1, <2>2 DEF DoubleBuffer, TypeOK
  <2>4. PrefixDefined'
    BY <1>2 DEF DoubleBuffer, Written, TypeOK, PrefixDefined
  <2>5. LossAccounted'
    <3>1. /\ buff_pos' = buff_pos /\ times_doubled' = times_doubled + 1
          /\ doubled_before' = doubled_before /\ looped' = looped
      BY <1>2 DEF DoubleBuffer
    <3>2. buff_pos \in Int /\ times_doubled \in Int /\ doubled_before \in Int
      BY DEF TypeOK
    <3>3. QED BY <2>1, <3>1, <3>2 DEF LossAccounted
  <2>6. QED BY <2>3, <2>4, <2>5
<1>3. ASSUME NEW ch \in Chars, LoopBack(ch) PROVE BufferInv'
  <2>1. text' \in Seq(Chars) /\ Len(text') = Len(text) + 1 /\ Len(text') <= MaxText
    BY <1>3, CopiedExtends DEF LoopBack
  <2>2. TypeOK'
    BY <1>3, <2>1 DEF LoopBack, Written, TypeOK
  <2>3. PrefixDefined'
    BY <1>3 DEF LoopBack, PrefixDefined
  <2>4. LossAccounted'
    BY <1>3 DEF LoopBack, LossAccounted
  <2>5. QED BY <2>2, <2>3, <2>4
<1>4. CASE Reset
  <2>1. Len(<<>>) = 0 /\ <<>> \in Seq(Chars)
    BY EmptySeq, Zenon
  <2>2. TypeOK'
    BY <1>4, <2>1 DEF Reset, TypeOK
  <2>3. PrefixDefined'
    BY <1>4 DEF Reset, PrefixDefined
  <2>4. LossAccounted'
    BY <1>4, <2>1 DEF Reset, TypeOK, LossAccounted
  <2>5. QED BY <2>2, <2>3, <2>4
<1>5. CASE UNCHANGED vars
  BY <1>5 DEF vars, TypeOK, PrefixDefined, LossAccounted
<1>6. QED
  BY <1>1, <1>2, <1>3, <1>4, <1>5 DEF Next, cp_wchar

(* The invariant holds throughout.                                         *)
THEOREM BufferInvariant == Spec => []BufferInv
<1>1. QED
  BY InitEstablishesBufferInv, NextPreservesBufferInv, PTL DEF Spec

(* cp_wchar() never leaves buff_pos outside the allocation.                *)
THEOREM BufferTypeCorrect == Spec => []TypeOK
<1>1. BufferInv => TypeOK
  BY DEF BufferInv
<1>2. QED BY <1>1, BufferInvariant, PTL

(* What precedes buff_pos was always written by a copy.                    *)
THEOREM PrefixAlwaysDefined == Spec => []PrefixDefined
<1>1. BufferInv => PrefixDefined
  BY DEF BufferInv
<1>2. QED BY <1>1, BufferInvariant, PTL

(* Doubling the buffer loses one character, and nothing else does.         *)
THEOREM LossIsOnePerDoubling == Spec => []LossAccounted
<1>1. BufferInv => LossAccounted
  BY DEF BufferInv
<1>2. QED BY <1>1, BufferInvariant, PTL

-----------------------------------------------------------------------------
(* What the buffer holds.                                                  *)

(* Every non-empty set of natural numbers has a least element.             *)
LEMMA LeastNumber ==
  ASSUME NEW T \in SUBSET Nat, T # {}
  PROVE  \E x \in T : \A y \in T : x <= y
<1> DEFINE Less == {pair \in Nat \X Nat : pair[1] < pair[2]}
<1>1. IsWellFoundedOn(Less, Nat)
  BY NatLessThanWellFounded DEF OpToRel
<1> HIDE DEF Less
<1>2. PICK x \in T : \A y \in T : <<y, x>> \notin Less
  BY <1>1, WFMin
<1>3. \A y \in T : ~ (y < x)
  BY <1>2 DEF Less
<1>4. QED BY <1>3

(* Induction over the natural numbers, for a property stated as a set: the *)
(* least number outside it is neither 0 nor a successor.                   *)
LEMMA Induction ==
  ASSUME NEW S, 0 \in S, \A n \in Nat : n \in S => n + 1 \in S
  PROVE  Nat \subseteq S
<1> SUFFICES ASSUME Nat \ S # {} PROVE FALSE
  OBVIOUS
<1>1. PICK n \in Nat \ S : \A y \in Nat \ S : n <= y
  BY LeastNumber
<1>2. n # 0 /\ n - 1 \in Nat
  BY <1>1
<1>3. n - 1 \in S
  BY <1>1, <1>2
<1>4. (n - 1) + 1 \in S
  BY <1>2, <1>3
<1>5. QED BY <1>1, <1>4

(* The length doubles with every doubling: LengthAfter is the function its *)
(* recursion describes.                                                    *)
LEMMA LengthDoubles ==
  /\ LengthAfter[0] = OrigBufLen
  /\ \A n \in 0 .. MaxDoubleTimes - 1 : LengthAfter[n + 1] = 2 * LengthAfter[n]
<1> DEFINE Step(f, n) == IF n = 0 THEN OrigBufLen ELSE 2 * f[n - 1]
           Solved == {n \in Nat : \E f : f = [k \in 0 .. n |-> Step(f, k)]}
<1>1. 0 \in Solved
  <2> DEFINE g == [k \in 0 .. 0 |-> OrigBufLen]
  <2>1. g = [k \in 0 .. 0 |-> Step(g, k)]
    OBVIOUS
  <2>2. QED BY <2>1
<1>2. ASSUME NEW n \in Nat, n \in Solved PROVE n + 1 \in Solved
  <2>1. PICK f : f = [k \in 0 .. n |-> Step(f, k)]
    BY <1>2
  <2>2. ASSUME NEW k \in 0 .. n PROVE f[k] = Step(f, k)
    <3> DEFINE h == [j \in 0 .. n |-> Step(f, j)]
    <3>1. f = h
      BY <2>1
    <3> HIDE DEF Step
    <3>2. h[k] = Step(f, k)
      OBVIOUS
    <3> HIDE DEF h
    <3>3. QED BY <3>1, <3>2
  <2> DEFINE g == [k \in 0 .. n + 1 |-> IF k = n + 1 THEN Step(f, k) ELSE f[k]]
  <2>3. ASSUME NEW k \in 0 .. n + 1 PROVE g[k] = Step(g, k)
    <3>1. CASE k = 0
      <4>1. 0 \in 0 .. n
        OBVIOUS
      <4>2. g[k] = f[0] /\ f[0] = Step(f, 0)
        BY <2>2, <3>1, <4>1
      <4>3. QED BY <3>1, <4>2
    <3>2. CASE k \in 1 .. n
      <4>1. g[k] = f[k] /\ g[k - 1] = f[k - 1]
        BY <3>2
      <4>2. f[k] = Step(f, k)
        BY <2>2, <3>2
      <4>3. QED BY <3>2, <4>1, <4>2
    <3>3. CASE k = n + 1
      <4>1. g[k] = Step(f, k) /\ g[k - 1] = f[k - 1]
        BY <3>3
      <4>2. QED BY <3>3, <4>1
    <3>4. QED BY <3>1, <3>2, <3>3
  <2>4. g = [k \in 0 .. n + 1 |-> g[k]]
    OBVIOUS
  <2> HIDE DEF g
  <2>5. g = [k \in 0 .. n + 1 |-> Step(g, k)]
    BY <2>3, <2>4
  <2>6. QED BY <2>5
<1>3. MaxDoubleTimes \in Solved
  <2> HIDE DEF Solved
  <2>1. QED BY <1>1, <1>2, Induction, SizesAssumption
<1>4. LengthAfter = [n \in 0 .. MaxDoubleTimes |-> Step(LengthAfter, n)]
  BY <1>3 DEF LengthAfter
<1>5. ASSUME NEW n \in 0 .. MaxDoubleTimes PROVE LengthAfter[n] = Step(LengthAfter, n)
  <2> DEFINE h == [k \in 0 .. MaxDoubleTimes |-> Step(LengthAfter, k)]
  <2>1. LengthAfter = h
    BY <1>4
  <2> HIDE DEF Step
  <2>2. h[n] = Step(LengthAfter, n)
    OBVIOUS
  <2> HIDE DEF h
  <2>3. QED BY <2>1, <2>2
<1>6. 0 \in 0 .. MaxDoubleTimes /\ \A n \in 0 .. MaxDoubleTimes - 1 : /\ n + 1 \in 0 .. MaxDoubleTimes
                                                                   /\ n + 1 # 0 /\ (n + 1) - 1 = n
  BY SizesAssumption
<1>7. QED BY <1>5, <1>6

(* Every one of these lengths is a number.                                 *)
LEMMA LengthsAreNumbers == \A n \in 0 .. MaxDoubleTimes : LengthAfter[n] \in Nat
<1> DEFINE Good == {n \in Nat : n <= MaxDoubleTimes => LengthAfter[n] \in Nat}
<1> USE SizesAssumption
<1>1. 0 \in Good
  BY LengthDoubles
<1>2. ASSUME NEW n \in Nat, n \in Good PROVE n + 1 \in Good
  <2> SUFFICES ASSUME n + 1 <= MaxDoubleTimes PROVE LengthAfter[n + 1] \in Nat
    OBVIOUS
  <2>1. n \in 0 .. MaxDoubleTimes - 1 /\ LengthAfter[n] \in Nat
    BY <1>2
  <2>2. QED BY <2>1, LengthDoubles
<1> HIDE DEF Good
<1>3. Nat \subseteq Good
  BY <1>1, <1>2, Induction
<1>4. QED BY <1>3 DEF Good

(* No more characters were lost before a cell than there were doublings,   *)
(* and that many before a cell behind all that lost one.                   *)
LEMMA DroppedBeforeCounts ==
  ASSUME times_doubled \in Nat, doubled_before \in 0 .. times_doubled, NEW i
  PROVE  /\ DroppedBefore(i) \in 0 .. times_doubled - doubled_before
         /\ (\A k \in doubled_before .. times_doubled - 1 : LengthAfter[k] - 1 <= i)
               => DroppedBefore(i) = times_doubled - doubled_before
<1> DEFINE All == doubled_before .. times_doubled - 1
           Lost == {k \in All : LengthAfter[k] - 1 <= i}
<1>1. IsFiniteSet(All) /\ Cardinality(All) = times_doubled - doubled_before
  <2>1. doubled_before \in Int /\ times_doubled - 1 \in Int
    OBVIOUS
  <2>2. IsFiniteSet(All) /\ Cardinality(All) = IF doubled_before > times_doubled - 1 THEN 0
                                               ELSE (times_doubled - 1) - doubled_before + 1
    BY <2>1, FS_Interval
  <2>3. QED BY <2>2
<1>2. Lost \subseteq All
  OBVIOUS
<1> HIDE DEF All
<1>3. Cardinality(Lost) \in Nat /\ Cardinality(Lost) <= Cardinality(All)
  BY <1>1, <1>2, FS_Subset, FS_CardinalityType
<1>4. DroppedBefore(i) = Cardinality(Lost)
  BY DEF DroppedBefore, All
<1>5. (\A k \in All : LengthAfter[k] - 1 <= i) => Lost = All
  OBVIOUS
<1> HIDE DEF Lost
<1>6. QED BY <1>1, <1>3, <1>4, <1>5 DEF All

(* Copying and resetting keep the text, but for what doubling loses.       *)
LEMMA NextPreservesCopyInv == CopyInv /\ [Next]_vars => PastLastCells' /\ CopiesText'
<1> SUFFICES ASSUME CopyInv, [Next]_vars PROVE PastLastCells' /\ CopiesText'
  OBVIOUS
<1> USE SizesAssumption
<1>0. TypeOK /\ LossAccounted /\ PastLastCells /\ CopiesText
  BY DEF CopyInv, BufferInv
<1>t. /\ buff_len \in Nat \ {0} /\ buff_pos \in 0 .. buff_len - 1
      /\ times_doubled \in 0 .. MaxDoubleTimes /\ doubled_before \in 0 .. times_doubled
      /\ text \in Seq(Chars) /\ Len(text) \in Nat
      /\ buff \in [0 .. buff_len -> Chars \cup {Nul, Undefined}]
  BY <1>0, LenProperties DEF TypeOK
<1>d. \A i : DroppedBefore(i) \in 0 .. times_doubled - doubled_before
  BY <1>t, DroppedBeforeCounts
<1>a. ASSUME NEW ch \in Chars, Copied(ch)
      PROVE  /\ \A j \in 1 .. Len(text) : text'[j] = text[j]
             /\ text'[Len(text) + 1] = ch
  <2>1. text' = Append(text, ch)
    BY <1>a DEF Copied
  <2>2. QED BY <1>t, <2>1, AppendProperties
<1>w. ASSUME NEW ch \in Chars
      PROVE  /\ Written(ch)[buff_pos] = ch
             /\ \A i \in 0 .. buff_pos - 1 : Written(ch)[i] = buff[i]
  BY <1>t DEF Written
(* The place of a cell's character in the text.                            *)
<1>i. ASSUME ~looped, NEW i \in 0 .. buff_pos - 1
      PROVE  i + 1 + DroppedBefore(i) \in 1 .. Len(text)
  <2>1. buff_pos + (times_doubled - doubled_before) = Len(text)
    BY <1>0, <1>i DEF LossAccounted
  <2>2. DroppedBefore(i) \in 0 .. times_doubled - doubled_before
    BY <1>d
  <2>3. QED BY <1>t, <2>1, <2>2
<1>1. ASSUME NEW ch \in Chars, Advance(ch) PROVE PastLastCells' /\ CopiesText'
  <2>1. /\ Copied(ch) /\ buff' = Written(ch) /\ buff_pos' = buff_pos + 1
        /\ UNCHANGED <<buff_len, times_doubled, doubled_before, looped>>
    BY <1>1 DEF Advance
  <2>2. PastLastCells'
    <3>1. \A k \in doubled_before .. times_doubled - 1 :
            LengthAfter[k] - 1 <= buff_pos => LengthAfter[k] - 1 <= buff_pos + 1
      <4>1. \A k \in 0 .. MaxDoubleTimes : LengthAfter[k] \in Int
        BY LengthsAreNumbers
      <4>2. QED BY <1>t, <4>1
    <3>2. QED BY <1>0, <2>1, <3>1 DEF PastLastCells
  <2>3. \A i : DroppedBefore(i)' = DroppedBefore(i)
    BY <2>1 DEF DroppedBefore
  <2>4. ASSUME ~looped, NEW i \in 0 .. buff_pos PROVE buff'[i] = text'[i + 1 + DroppedBefore(i)]
    <3>1. CASE i = buff_pos
      <4>1. DroppedBefore(buff_pos) = times_doubled - doubled_before
        BY <1>0, <1>t, <2>4, DroppedBeforeCounts DEF PastLastCells
      <4>2. buff_pos + 1 + (times_doubled - doubled_before) = Len(text) + 1
        BY <1>0, <1>t, <2>4 DEF LossAccounted
      <4>3. QED BY <1>a, <1>w, <2>1, <3>1, <4>1, <4>2
    <3>2. CASE i \in 0 .. buff_pos - 1
      <4>1. buff[i] = text[i + 1 + DroppedBefore(i)]
        BY <1>0, <2>4, <3>2 DEF CopiesText
      <4>2. QED BY <1>a, <1>i, <1>w, <2>1, <2>4, <3>2, <4>1
    <3>3. QED BY <1>t, <3>1, <3>2
  <2>5. (0 .. buff_pos - 1)' = 0 .. buff_pos
    BY <1>t, <2>1
  <2>6. QED BY <2>1, <2>2, <2>3, <2>4, <2>5 DEF CopiesText
<1>2. ASSUME NEW ch \in Chars, DoubleBuffer(ch) PROVE PastLastCells' /\ CopiesText'
  <2>1. /\ Copied(ch) /\ buff_pos >= buff_len - 1 /\ times_doubled < MaxDoubleTimes
        /\ buff_len' = 2 * buff_len /\ times_doubled' = times_doubled + 1
        /\ \A i \in 0 .. buff_len - 1 : buff'[i] = Written(ch)[i]
        /\ UNCHANGED <<buff_pos, doubled_before, looped>>
    BY <1>2, <1>t DEF DoubleBuffer
  <2>2. buff_pos = buff_len - 1 /\ times_doubled \in 0 .. MaxDoubleTimes - 1
    BY <1>t, <2>1
  <2>3. buff_len = LengthAfter[times_doubled]
    BY <1>0 DEF PastLastCells
  <2>4. PastLastCells'
    <3>1. LengthAfter[times_doubled + 1] = 2 * buff_len
      BY <2>2, <2>3, LengthDoubles
    <3>2. ASSUME ~looped, NEW k \in doubled_before .. times_doubled PROVE LengthAfter[k] - 1 <= buff_pos
      <4>1. CASE k = times_doubled
        BY <1>t, <2>2, <2>3, <4>1
      <4>2. CASE k \in doubled_before .. times_doubled - 1
        BY <1>0, <3>2, <4>2 DEF PastLastCells
      <4>3. QED BY <1>t, <4>1, <4>2
    <3>3. (doubled_before .. times_doubled - 1)' = doubled_before .. times_doubled
      BY <1>t, <2>1
    <3>4. QED BY <2>1, <3>1, <3>2, <3>3 DEF PastLastCells
  <2>5. ASSUME NEW i \in 0 .. buff_pos - 1 PROVE DroppedBefore(i)' = DroppedBefore(i)
    <3>1. ~ (LengthAfter[times_doubled] - 1 <= i)
      BY <1>t, <2>2, <2>3
    <3>2. (doubled_before .. times_doubled - 1)' = (doubled_before .. times_doubled - 1) \cup {times_doubled}
      BY <1>t, <2>1
    <3>3. QED BY <3>1, <3>2 DEF DroppedBefore
  <2>6. ASSUME ~looped, NEW i \in 0 .. buff_pos - 1 PROVE buff'[i] = text'[i + 1 + DroppedBefore(i)]
    <3>1. buff[i] = text[i + 1 + DroppedBefore(i)]
      BY <1>0, <2>6 DEF CopiesText
    <3>2. buff'[i] = buff[i]
      BY <1>t, <1>w, <2>1
    <3>3. QED BY <1>a, <1>i, <2>1, <2>6, <3>1, <3>2
  <2>7. QED BY <2>1, <2>4, <2>5, <2>6 DEF CopiesText
<1>3. ASSUME NEW ch \in Chars, LoopBack(ch) PROVE PastLastCells' /\ CopiesText'
  BY <1>0, <1>3 DEF LoopBack, PastLastCells, CopiesText
<1>4. ASSUME Reset PROVE PastLastCells' /\ CopiesText'
  BY <1>0, <1>t, <1>4 DEF Reset, PastLastCells, CopiesText
<1>5. ASSUME UNCHANGED vars PROVE PastLastCells' /\ CopiesText'
  BY <1>0, <1>5 DEF vars, PastLastCells, CopiesText, DroppedBefore
<1>6. QED BY <1>1, <1>2, <1>3, <1>4, <1>5 DEF Next, cp_wchar

(* The buffer holds the text it was given, but for the one character every *)
(* doubling loses (cp_wchar), through any number of resets.                *)
THEOREM TextIsCopied == Spec => []CopiesText
<1>1. Init => CopyInv
  BY InitEstablishesBufferInv, LengthDoubles, SizesAssumption
     DEF Init, CopyInv, PastLastCells, CopiesText
<1>2. CopyInv /\ [Next]_vars => CopyInv'
  BY NextPreservesBufferInv, NextPreservesCopyInv DEF CopyInv
<1>3. CopyInv => CopiesText
  BY DEF CopyInv
<1>4. QED BY <1>1, <1>2, <1>3, PTL DEF Spec
=============================================================================
