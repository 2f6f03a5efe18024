--------------------------- MODULE DPFilterProofs ---------------------------
(***************************************************************************)
(* Proofs about the disk protection filter for any volume, any sizes of    *)
(* byte and region, any set of requests and any faults but those named by  *)
(* a theorem.                                                              *)
(*                                                                         *)
(* First what DPBitmapSet does to the bitmap: it stays in the array of     *)
(* regions, and marks the sectors of its range and no other, although it   *)
(* goes bit by bit only at the ends.  Then the filter, with the invariant  *)
(* of the worker's place: which request it has, of which kind, and with    *)
(* what in its buffer.                                                     *)
(***************************************************************************)
EXTENDS DPFilter, WellFoundedInduction, TLAPS

-----------------------------------------------------------------------------
(* The bitmap                                                              *)

\* A division with remainder, for any divisor.
LEMMA Division ==
    ASSUME NEW a \in Nat, NEW d \in Nat, d > 0
    PROVE  /\ a \div d \in Nat
           /\ a % d \in 0..d-1
           /\ a = d * (a \div d) + (a % d)
  BY SMT

\* Products are monotonic.
LEMMA Product ==
    ASSUME NEW a \in Nat, NEW b \in Nat, NEW c \in Nat, a <= b
    PROVE  c * a <= c * b /\ c * a \in Nat /\ c * b \in Nat
  BY SMT

\* The quotient decides.
LEMMA Quotient ==
    ASSUME NEW d \in Nat, NEW p \in Nat, NEW q \in Nat, NEW r \in Nat, NEW t \in Nat,
           r < d, p < q
    PROVE  d * p + r < d * q + t
<1>1. d * (p + 1) <= d * q /\ d * q \in Nat /\ d * p \in Nat
  BY Product
<1>2. d * (p + 1) = d * p + d
  BY SMT
<1> QED BY <1>1, <1>2

\* A product of naturals is a natural.
LEMMA Times == \A a, b \in Nat : a * b \in Nat
  BY SMT

\* A region refers to some sectors (DPBitmapInit).
LEMMA Sizes == RegionReferSize \in Nat /\ RegionReferSize > 0
  BY SizeAssumption, SMT DEF RegionReferSize

\* A nonempty set of naturals has a least element.
LEMMA LeastNatural ==
    ASSUME NEW S, S \subseteq Nat, S # {}
    PROVE  \E x \in S : \A y \in S : x <= y
<1> DEFINE less == {p \in Nat \X Nat : p[1] < p[2]}
<1>1. less = OpToRel(<, Nat)
  BY Zenon DEF OpToRel
<1>2. IsWellFoundedOn(less, Nat)
  BY <1>1, NatLessThanWellFounded
<1>3. \A x, y \in S : <<y, x>> \in less <=> y < x
  OBVIOUS
<1> HIDE DEF less
<1>4. \E x \in S : \A y \in S : ~ (<<y, x>> \in less)
  BY <1>2, WFMin, Zenon
<1>5. PICK x \in S : \A y \in S : ~ (<<y, x>> \in less)
  BY <1>4
<1>6. ASSUME NEW y \in S
      PROVE  x <= y
  <2>1. ~ (y < x)
    BY <1>3, <1>5
  <2>2. x \in Nat /\ y \in Nat
    OBVIOUS
  <2> QED BY <2>1, <2>2
<1> QED BY <1>6

-----------------------------------------------------------------------------
(* Where a sector is kept                                                  *)

\* Region, byte and bit are in their bounds, and give the sector back.
LEMMA Position ==
    ASSUME NEW s \in Nat
    PROVE  /\ RegionOf(s) \in Nat
           /\ ByteOf(s) \in 0..RegionSize-1
           /\ BitOf(s) \in 0..ByteSize-1
           /\ RegionOffset(s) \in 0..RegionReferSize-1
           /\ s = RegionReferSize * RegionOf(s) + RegionOffset(s)
           /\ RegionOffset(s) = ByteSize * ByteOf(s) + BitOf(s)
<1>1. /\ RegionOf(s) \in Nat
      /\ RegionOffset(s) \in 0..RegionReferSize-1
      /\ s = RegionReferSize * RegionOf(s) + RegionOffset(s)
  BY Sizes, Division DEF RegionOf, RegionOffset
<1>2. /\ ByteOf(s) \in Nat
      /\ BitOf(s) \in 0..ByteSize-1
      /\ RegionOffset(s) = ByteSize * ByteOf(s) + BitOf(s)
  <2>1. RegionOffset(s) \in Nat
    BY <1>1, Sizes
  <2>2. ByteSize \in Nat /\ ByteSize > 0
    BY SizeAssumption
  <2>3. \A a \in Nat : /\ a \div ByteSize \in Nat
                       /\ a % ByteSize \in 0..ByteSize-1
                       /\ a = ByteSize * (a \div ByteSize) + (a % ByteSize)
    BY <2>2, Division
  <2> QED BY <2>1, <2>3 DEF ByteOf, BitOf
<1>3. ByteOf(s) < RegionSize
  <2> SUFFICES ASSUME RegionSize <= ByteOf(s) PROVE FALSE
    BY <1>2, SizeAssumption
  <2>1. ByteSize * RegionSize <= ByteSize * ByteOf(s)
    BY <1>2, SizeAssumption, Product
  <2> QED BY <2>1, <1>1, <1>2, Sizes, SizeAssumption DEF RegionReferSize
<1> QED BY <1>1, <1>2, <1>3, SizeAssumption

\* Sectors are ordered by region, then byte, then bit.
LEMMA RegionOrder ==
    ASSUME NEW s \in Nat, NEW t \in Nat, RegionOf(s) < RegionOf(t)
    PROVE  s < t
<1> DEFINE R == RegionReferSize
<1>1. /\ RegionOf(s) \in Nat /\ RegionOffset(s) \in Nat /\ RegionOffset(s) < R
      /\ s = R * RegionOf(s) + RegionOffset(s)
  BY Position, Sizes
<1>2. /\ RegionOf(t) \in Nat /\ RegionOffset(t) \in Nat
      /\ t = R * RegionOf(t) + RegionOffset(t)
  BY Position, Sizes
<1>3. R * RegionOf(s) + RegionOffset(s) < R * RegionOf(t) + RegionOffset(t)
  BY <1>1, <1>2, Sizes, Quotient
<1> QED BY <1>1, <1>2, <1>3

\* Within a region, sectors are in the order of their bytes ...
LEMMA ByteOrder ==
    ASSUME NEW s \in Nat, NEW t \in Nat,
           RegionOf(s) = RegionOf(t), ByteOf(s) < ByteOf(t)
    PROVE  s < t
<1> DEFINE base == RegionReferSize * RegionOf(s)
<1>1. base \in Nat
  <2>1. RegionOf(s) \in Nat
    BY Position
  <2> QED BY <2>1, Sizes, Times
<1>2. /\ ByteOf(s) \in Nat /\ BitOf(s) \in Nat /\ BitOf(s) < ByteSize
      /\ s = base + RegionOffset(s)
      /\ RegionOffset(s) = ByteSize * ByteOf(s) + BitOf(s)
      /\ RegionOffset(s) \in Nat
  BY Position, Sizes, SizeAssumption
<1>3. /\ ByteOf(t) \in Nat /\ BitOf(t) \in Nat
      /\ t = base + RegionOffset(t)
      /\ RegionOffset(t) = ByteSize * ByteOf(t) + BitOf(t)
      /\ RegionOffset(t) \in Nat
  BY Position, Sizes, SizeAssumption
<1> HIDE DEF base
<1>4. ByteSize * ByteOf(s) + BitOf(s) < ByteSize * ByteOf(t) + BitOf(t)
  <2>1. ByteSize \in Nat
    BY SizeAssumption
  <2> QED BY <1>2, <1>3, <2>1, Quotient
<1> QED BY <1>1, <1>2, <1>3, <1>4

\* ... and within a byte in the order of their bits.
LEMMA BitOrder ==
    ASSUME NEW s \in Nat, NEW t \in Nat,
           RegionOf(s) = RegionOf(t), ByteOf(s) = ByteOf(t)
    PROVE  s <= t <=> BitOf(s) <= BitOf(t)
<1> DEFINE base == RegionReferSize * RegionOf(s) + ByteSize * ByteOf(s)
<1>1. RegionReferSize * RegionOf(s) \in Nat /\ ByteSize * ByteOf(s) \in Nat
  <2>1. RegionOf(s) \in Nat /\ ByteOf(s) \in Nat /\ ByteSize \in Nat
    BY Position, SizeAssumption
  <2> QED BY <2>1, Sizes, Times
<1>2. s = base + BitOf(s) /\ BitOf(s) \in Nat
  BY <1>1, Position
<1>3. t = base + BitOf(t) /\ BitOf(t) \in Nat
  BY <1>1, Position
<1>4. base \in Nat
  BY <1>1
<1> HIDE DEF base
<1> QED BY <1>2, <1>3, <1>4

\* The regions of a request on the volume are all in the array, and so is
\* the one its exclusive end falls into: that is what the + 1 in the number
\* of regions is for.
THEOREM RegionsAreThere ==
    ASSUME NEW offset \in Nat, NEW length \in Nat,
           offset + length <= VolumeSectors
    PROVE  RegionsUsed(offset, length) \subseteq RegionIndex
<1>1. RegionOf(offset + length) <= VolumeSectors \div RegionReferSize
  <2>1. RegionOf(offset + length) <= RegionOf(VolumeSectors)
    <3>2. RegionOf(offset + length) \in Nat /\ RegionOf(VolumeSectors) \in Nat
      <4>1. offset + length \in Nat /\ VolumeSectors \in Nat
        BY SizeAssumption
      <4> QED BY <4>1, Position
    <3> SUFFICES ASSUME RegionOf(VolumeSectors) < RegionOf(offset + length)
                 PROVE  FALSE
      BY <3>2
    <3>1. VolumeSectors < offset + length
      BY RegionOrder, SizeAssumption
    <3> QED BY <3>1, SizeAssumption
  <2> QED BY <2>1 DEF RegionOf
<1>2. VolumeSectors \div RegionReferSize \in Nat
  BY Division, Sizes, SizeAssumption
<1>3. RegionOf(offset) \in Nat /\ RegionOf(offset + length) \in Nat
  BY Position
<1> QED BY <1>1, <1>2, <1>3 DEF RegionsUsed, RegionIndex, RegionNumber

-----------------------------------------------------------------------------
(* DPBitmapSet                                                             *)

\* A finite set of naturals below n has a greatest element.
LEMMA GreatestNatural ==
    ASSUME NEW n \in Nat, NEW S, S \subseteq 0..n, S # {}
    PROVE  \E x \in S : \A y \in S : y <= x
<1> DEFINE T == {n - y : y \in S}
<1>1. T \subseteq Nat /\ T # {}
  <2>1. \A y \in S : n - y \in Nat
    OBVIOUS
  <2>2. PICK y \in S : TRUE
    OBVIOUS
  <2>3. n - y \in T
    BY <2>2
  <2> QED BY <2>1, <2>3
<1>2. PICK m \in T : \A k \in T : m <= k
  BY <1>1, LeastNatural
<1>3. PICK x \in S : m = n - x
  BY <1>2
<1>4. ASSUME NEW y \in S
      PROVE  y <= x
  <2>1. n - x <= n - y
    BY <1>2, <1>3
  <2>2. x \in Nat /\ y \in Nat
    OBVIOUS
  <2> QED BY <2>1, <2>2
<1> QED BY <1>4

\* setBegin is the first sector of a byte, setEnd the last of one.
LEMMA BeginBit ==
    ASSUME NEW offset \in Nat, NEW length \in Nat, NEW i,
           IsSetBegin(offset, length, i)
    PROVE  i \in Nat /\ i \in Span(offset, length) /\ BitOf(i) = 0
<1>1. i \in Nat /\ i \in Span(offset, length)
  BY DEF IsSetBegin, Span
<1>2. PICK t \in offset..i : BitOf(t) = 0
  BY <1>1 DEF IsSetBegin, LeadingSectors
<1>3. t \in Span(offset, length) \ LeadingSectors(offset, length)
  BY <1>1, <1>2 DEF Span, LeadingSectors
<1>4. i <= t
  BY <1>3 DEF IsSetBegin
<1>5. t = i
  BY <1>1, <1>2, <1>4
<1> QED BY <1>1, <1>2, <1>5

\* The loop that looks for the end of the run of whole bytes stops at a last bit of the span.
LEMMA EndBit ==
    ASSUME NEW offset \in Nat, NEW length \in Nat, NEW i,
           IsSetEnd(offset, length, i)
    PROVE  i \in Nat /\ i \in Span(offset, length) /\ BitOf(i) = ByteSize - 1
<1>1. i \in Nat /\ i \in Span(offset, length)
  BY DEF IsSetEnd, Span
<1>2. PICK t \in i..(offset + length - 1) : BitOf(t) = ByteSize - 1
  BY <1>1 DEF IsSetEnd, TrailingSectors
<1>3. t \in Span(offset, length) \ TrailingSectors(offset, length)
  BY <1>1, <1>2 DEF Span, TrailingSectors
<1>4. t <= i
  BY <1>3 DEF IsSetEnd
<1>5. t = i
  BY <1>1, <1>2, <1>4
<1> QED BY <1>1, <1>2, <1>5

\* The bytes filled at once hold sectors of the range only ...
LEMMA FilledInSpan ==
    ASSUME NEW offset \in Nat, NEW length \in Nat, NEW s \in Nat,
           <<RegionOf(s), ByteOf(s)>> \in MiddleBytes(offset, length)
    PROVE  s \in Span(offset, length)
<1>1. PICK i \in Span(offset, length), j \in Span(offset, length) :
        /\ IsSetBegin(offset, length, i)
        /\ IsSetEnd(offset, length, j)
        /\ <<RegionOf(s), ByteOf(s)>> \in FilledBytes(i, j)
  BY DEF MiddleBytes
<1>2. /\ RegionOf(i) <= RegionOf(s) /\ RegionOf(s) <= RegionOf(j)
      /\ RegionOf(s) = RegionOf(i) => ByteOf(i) <= ByteOf(s)
      /\ RegionOf(s) = RegionOf(j) => ByteOf(s) <= ByteOf(j)
  BY <1>1, Zenon DEF FilledBytes
<1>3. /\ i \in Nat /\ BitOf(i) = 0
      /\ j \in Nat /\ BitOf(j) = ByteSize - 1
  BY <1>1, BeginBit, EndBit
<1>4. /\ RegionOf(i) \in Nat /\ RegionOf(j) \in Nat /\ RegionOf(s) \in Nat
      /\ ByteOf(i) \in Int /\ ByteOf(j) \in Int /\ ByteOf(s) \in Int
      /\ BitOf(s) \in 0..ByteSize-1
  BY <1>3, Position
<1>5. i <= s
  <2>1. CASE RegionOf(i) < RegionOf(s)
    BY <2>1, <1>3, RegionOrder
  <2>2. CASE RegionOf(i) = RegionOf(s) /\ ByteOf(i) < ByteOf(s)
    BY <2>2, <1>3, ByteOrder
  <2>3. CASE RegionOf(i) = RegionOf(s) /\ ByteOf(i) = ByteOf(s)
    BY <2>3, <1>3, <1>4, BitOrder, SizeAssumption
  <2> QED BY <2>1, <2>2, <2>3, <1>2, <1>4
<1>6. s <= j
  <2>1. CASE RegionOf(s) < RegionOf(j)
    BY <2>1, <1>3, RegionOrder
  <2>2. CASE RegionOf(s) = RegionOf(j) /\ ByteOf(s) < ByteOf(j)
    BY <2>2, <1>3, ByteOrder
  <2>3. CASE RegionOf(s) = RegionOf(j) /\ ByteOf(s) = ByteOf(j)
    BY <2>3, <1>3, <1>4, BitOrder, SizeAssumption
  <2> QED BY <2>1, <2>2, <2>3, <1>2, <1>4
<1> QED BY <1>1, <1>5, <1>6 DEF Span

\* ... and all of those that the two loops over single bits have left.
LEMMA SpanIsMarked ==
    ASSUME NEW offset \in Nat, NEW length \in Nat,
           offset + length <= VolumeSectors,
           NEW s \in Span(offset, length),
           s \notin LeadingSectors(offset, length),
           s \notin TrailingSectors(offset, length)
    PROVE  <<RegionOf(s), ByteOf(s)>> \in MiddleBytes(offset, length)
<1> DEFINE B == Span(offset, length) \ LeadingSectors(offset, length)
           E == Span(offset, length) \ TrailingSectors(offset, length)
<1>1. s \in Nat /\ s \in B /\ s \in E /\ B \subseteq Nat /\ E \subseteq 0..(offset + length)
  BY DEF Span
<1>2. PICK i \in B : \A t \in B : i <= t
  <2>1. B \subseteq Nat /\ B # {}
    BY <1>1
  <2> HIDE DEF B
  <2> QED BY <2>1, LeastNatural
<1>3. PICK j \in E : \A t \in E : t <= j
  <2>1. E \subseteq 0..(offset + length) /\ E # {} /\ offset + length \in Nat
    BY <1>1
  <2> HIDE DEF E
  <2> QED BY <2>1, GreatestNatural
<1>4. IsSetBegin(offset, length, i) /\ IsSetEnd(offset, length, j)
  BY <1>2, <1>3 DEF IsSetBegin, IsSetEnd
<1>5. /\ i \in Nat /\ i \in Span(offset, length) /\ BitOf(i) = 0
      /\ j \in Nat /\ j \in Span(offset, length) /\ BitOf(j) = ByteSize - 1
  BY <1>4, BeginBit, EndBit
<1>6. i <= s /\ s <= j
  BY <1>1, <1>2, <1>3
<1>7. i < j
  <2>1. i # j
    BY <1>5, SizeAssumption
  <2> QED BY <2>1, <1>1, <1>5, <1>6
<1>8. /\ RegionOf(i) \in Nat /\ RegionOf(j) \in Nat /\ RegionOf(s) \in Nat
      /\ ByteOf(i) \in Int /\ ByteOf(j) \in Int /\ ByteOf(s) \in 0..RegionSize-1
  BY <1>1, <1>5, Position
<1>9. RegionOf(i) <= RegionOf(s) /\ RegionOf(s) <= RegionOf(j)
  <2>1. ~ (RegionOf(s) < RegionOf(i))
    <3>1. ~ (s < i)
      BY <1>1, <1>5, <1>6
    <3> QED BY <3>1, <1>1, <1>5, RegionOrder
  <2>2. ~ (RegionOf(j) < RegionOf(s))
    <3>1. ~ (j < s)
      BY <1>1, <1>5, <1>6
    <3> QED BY <3>1, <1>1, <1>5, RegionOrder
  <2> QED BY <2>1, <2>2, <1>8
<1>10. /\ RegionOf(s) = RegionOf(i) => ByteOf(i) <= ByteOf(s)
       /\ RegionOf(s) = RegionOf(j) => ByteOf(s) <= ByteOf(j)
  <2>1. ASSUME RegionOf(s) = RegionOf(i) PROVE ~ (ByteOf(s) < ByteOf(i))
    <3>1. ~ (s < i)
      BY <1>1, <1>5, <1>6
    <3> QED BY <2>1, <3>1, <1>1, <1>5, ByteOrder
  <2>2. ASSUME RegionOf(s) = RegionOf(j) PROVE ~ (ByteOf(j) < ByteOf(s))
    <3>1. ~ (j < s)
      BY <1>1, <1>5, <1>6
    <3> QED BY <2>2, <3>1, <1>1, <1>5, ByteOrder
  <2> QED BY <2>1, <2>2, <1>8
<1>11. RegionOf(s) \in RegionIndex
  <2>1. RegionOf(s) <= VolumeSectors \div RegionReferSize
    <3>1. s + 0 \in Nat /\ s <= VolumeSectors /\ VolumeSectors \in Nat
      BY <1>1, SizeAssumption DEF Span
    <3>2. RegionOf(VolumeSectors) \in Nat
      BY <3>1, Position
    <3>3. ~ (RegionOf(VolumeSectors) < RegionOf(s))
      <4>1. ~ (VolumeSectors < s)
        BY <3>1, <1>1
      <4> QED BY <4>1, <3>1, <1>1, RegionOrder
    <3>4. RegionOf(s) <= RegionOf(VolumeSectors)
      BY <3>2, <3>3, <1>8
    <3> QED BY <3>4 DEF RegionOf
  <2>2. VolumeSectors \div RegionReferSize \in Nat
    BY Division, Sizes, SizeAssumption
  <2> QED BY <2>1, <2>2, <1>8 DEF RegionIndex, RegionNumber
<1>12. <<RegionOf(s), ByteOf(s)>> \in FilledBytes(i, j)
  BY <1>7, <1>8, <1>9, <1>10, <1>11, Zenon DEF FilledBytes
<1> QED BY <1>4, <1>5, <1>12 DEF MiddleBytes

\* Two sectors kept in the same bit of the same byte are the same.
LEMMA OnePlace ==
    ASSUME NEW s \in Nat, NEW t \in Nat,
           RegionOf(s) = RegionOf(t), ByteOf(s) = ByteOf(t), BitOf(s) = BitOf(t)
    PROVE  s = t
<1>1. BitOf(s) \in Nat /\ BitOf(t) \in Nat
  BY Position, SizeAssumption
<1>2. s <= t /\ t <= s
  BY <1>1, BitOrder
<1> QED BY <1>2

\* A sector of the volume is kept in one of the regions of the array.
LEMMA InBitmap ==
    ASSUME NEW s \in Nat, s < VolumeSectors
    PROVE  RegionOf(s) \in RegionIndex /\ ByteOf(s) \in 0..RegionSize-1
<1>1. RegionsUsed(s, 1) \subseteq RegionIndex
  BY RegionsAreThere, SizeAssumption
<1>2. RegionOf(s) \in Nat /\ RegionOf(s + 1) \in Nat
  BY Position
<1>3. RegionOf(s) <= RegionOf(s + 1)
  <2>1. ~ (RegionOf(s + 1) < RegionOf(s))
    BY RegionOrder
  <2> QED BY <2>1, <1>2
<1> QED BY <1>1, <1>2, <1>3, Position DEF RegionsUsed

\* Allocation changes no bit, and gives every region asked for.
LEMMA RegionsGiven ==
    ASSUME NEW b \in Bitmaps, NEW R
    PROVE  /\ WithRegions(b, R) \in Bitmaps
           /\ \A r \in RegionIndex : r \in R => WithRegions(b, R)[r] # NoRegion
           /\ \A r \in RegionIndex :
                b[r] # NoRegion => WithRegions(b, R)[r] = b[r]
           /\ \A r \in RegionIndex :
                b[r] = NoRegion => WithRegions(b, R)[r] \in {NoRegion, ClearRegion}
<1>1. ClearRegion \in Region
  BY DEF ClearRegion, Region
<1>2. ClearRegion # NoRegion
  BY <1>1, SizeAssumption DEF Region
<1> QED BY <1>1, <1>2 DEF Bitmaps, WithRegions

\* DPBitmapSet allocates a region that is empty: no sector becomes set by it.
LEMMA AllocationIsInvisible ==
    ASSUME NEW b \in Bitmaps, NEW R, NEW s \in Nat, s < VolumeSectors
    PROVE  IsSet(WithRegions(b, R), s) <=> IsSet(b, s)
<1>1. RegionOf(s) \in RegionIndex /\ ByteOf(s) \in 0..RegionSize-1
  BY InBitmap
<1>2. CASE b[RegionOf(s)] # NoRegion
  BY <1>1, <1>2, RegionsGiven DEF IsSet
<1>3. CASE b[RegionOf(s)] = NoRegion
  <2>1. WithRegions(b, R)[RegionOf(s)] \in {NoRegion, ClearRegion}
    BY <1>1, <1>3, RegionsGiven
  <2>2. ClearRegion[ByteOf(s)] = {}
    BY <1>1 DEF ClearRegion
  <2> QED BY <1>3, <2>1, <2>2 DEF IsSet
<1> QED BY <1>2, <1>3

\* DPBitmapSet yields a bitmap ...
LEMMA SetType ==
    ASSUME NEW b \in Bitmaps, NEW offset \in Nat, NEW length \in Nat
    PROVE  BitmapSet(b, offset, length) \in Bitmaps
<1> DEFINE marked == LeadingSectors(offset, length) \cup TrailingSectors(offset, length)
           filled == MiddleBytes(offset, length)
           ready == WithRegions(b, RegionsUsed(offset, length))
           byte(r, y) == IF <<r, y>> \in filled THEN 0..ByteSize-1
                         ELSE ready[r][y] \cup
                              {BitOf(s) : s \in {t \in marked : RegionOf(t) = r /\ ByteOf(t) = y}}
<1>1. BitmapSet(b, offset, length) =
        [r \in DOMAIN b |-> IF ready[r] = NoRegion THEN NoRegion
                            ELSE [y \in 0..RegionSize-1 |-> byte(r, y)]]
  BY DEF BitmapSet
<1>2. DOMAIN b = RegionIndex /\ ready \in Bitmaps
  BY RegionsGiven DEF Bitmaps
<1>3. \A t \in marked : BitOf(t) \in 0..ByteSize-1
  <2>1. marked \subseteq Nat
    BY DEF LeadingSectors, TrailingSectors, Span
  <2> QED BY <2>1, Position
<1>4. ASSUME NEW r \in RegionIndex, NEW y \in 0..RegionSize-1, ready[r] # NoRegion
      PROVE  byte(r, y) \in SUBSET (0..ByteSize-1)
  <2>1. ready[r][y] \subseteq 0..ByteSize-1
    BY <1>2, <1>4 DEF Bitmaps, Region
  <2> HIDE DEF marked, filled, ready
  <2> QED BY <2>1, <1>3
<1> HIDE DEF byte, ready
<1> QED BY <1>1, <1>2, <1>4 DEF Bitmaps, Region

\* in which the regions it was given are still there ...
LEMMA SetNotNull ==
    ASSUME NEW b \in Bitmaps, NEW offset \in Nat, NEW length \in Nat,
           NEW r \in RegionIndex,
           WithRegions(b, RegionsUsed(offset, length))[r] # NoRegion
    PROVE  BitmapSet(b, offset, length)[r] # NoRegion
<1> DEFINE ready == WithRegions(b, RegionsUsed(offset, length))
           byte(y) == IF <<r, y>> \in MiddleBytes(offset, length) THEN 0..ByteSize-1
                      ELSE ready[r][y] \cup
                           {BitOf(s) : s \in
                              {t \in LeadingSectors(offset, length)
                                        \cup TrailingSectors(offset, length) :
                                 RegionOf(t) = r /\ ByteOf(t) = y}}
<1>1. DOMAIN b = RegionIndex
  BY DEF Bitmaps
<1>2. BitmapSet(b, offset, length)[r] = [y \in 0..RegionSize-1 |-> byte(y)]
  BY <1>1 DEF BitmapSet
<1>3. \A y \in 0..RegionSize-1 : byte(y) \in SUBSET (0..ByteSize-1)
  <2>1. ready \in Bitmaps
    BY RegionsGiven
  <2>2. ready[r] \in Region
    BY <2>1 DEF Bitmaps
  <2>3. \A y \in 0..RegionSize-1 : ready[r][y] \subseteq 0..ByteSize-1
    BY <2>2 DEF Region
  <2>4. \A s \in LeadingSectors(offset, length) \cup TrailingSectors(offset, length) :
           BitOf(s) \in 0..ByteSize-1
    BY Position DEF LeadingSectors, TrailingSectors, Span
  <2> HIDE DEF ready
  <2> QED BY <2>3, <2>4
<1> HIDE DEF byte
<1> QED BY <1>2, <1>3, SizeAssumption

\* ... and that has the sectors it had, those of the range, and no other: the
\* loops over single bits and the memset of whole bytes, region by region,
\* add up to the range for every size of byte, region and volume.
THEOREM SetIsExact ==
    ASSUME NEW b \in Bitmaps, NEW offset \in Nat, NEW length \in Nat,
           offset + length <= VolumeSectors,
           NEW s \in Nat, s < VolumeSectors
    PROVE  IsSet(BitmapSet(b, offset, length), s)
               <=> IsSet(b, s) \/ s \in Span(offset, length)
<1> DEFINE marked == LeadingSectors(offset, length) \cup TrailingSectors(offset, length)
           filled == MiddleBytes(offset, length)
           used == RegionsUsed(offset, length)
           ready == WithRegions(b, used)
           r == RegionOf(s)
           y == ByteOf(s)
           here == {t \in marked : RegionOf(t) = r /\ ByteOf(t) = y}
           bits == {BitOf(t) : t \in here}
<1>1. r \in RegionIndex /\ y \in 0..RegionSize-1 /\ BitOf(s) \in 0..ByteSize-1
  BY InBitmap, Position
<1>2. DOMAIN b = RegionIndex /\ ready \in Bitmaps
  BY RegionsGiven DEF Bitmaps
<1>3. BitmapSet(b, offset, length)[r] =
        IF ready[r] = NoRegion THEN NoRegion
        ELSE [z \in 0..RegionSize-1 |->
                IF <<r, z>> \in filled THEN 0..ByteSize-1
                ELSE ready[r][z] \cup
                     {BitOf(t) : t \in {u \in marked : RegionOf(u) = r /\ ByteOf(u) = z}}]
  BY <1>1, <1>2 DEF BitmapSet
<1>4. BitmapSet(b, offset, length) \in Bitmaps
  BY SetType
<1>5. IsSet(ready, s) <=> IsSet(b, s)
  BY AllocationIsInvisible
<1>6. marked \subseteq Nat /\ marked \subseteq Span(offset, length)
  BY DEF LeadingSectors, TrailingSectors, Span
<1>7. BitOf(s) \in bits <=> s \in marked
  <2>1. ASSUME BitOf(s) \in bits PROVE s \in marked
    <3>1. PICK t \in here : BitOf(t) = BitOf(s)
      BY <2>1
    <3>2. t = s
      BY <3>1, <1>6, OnePlace
    <3> QED BY <3>1, <3>2
  <2>2. ASSUME s \in marked PROVE BitOf(s) \in bits
    BY <2>2
  <2> QED BY <2>1, <2>2
<1>8. s \in Span(offset, length) <=> s \in marked \/ <<r, y>> \in filled
  <2>1. <<r, y>> \in filled => s \in Span(offset, length)
    BY FilledInSpan
  <2>2. s \in Span(offset, length) /\ s \notin marked => <<r, y>> \in filled
    BY SpanIsMarked
  <2> QED BY <2>1, <2>2, <1>6
<1>9. s \in Span(offset, length) => ready[r] # NoRegion
  <2> SUFFICES ASSUME s \in Span(offset, length) PROVE r \in used
    BY <1>1, RegionsGiven
  <2>1. /\ offset <= s /\ s <= offset + length
        /\ offset + length \in Nat
    BY DEF Span
  <2>2. /\ RegionOf(offset) \in Nat /\ r \in Nat
        /\ RegionOf(offset + length) \in Nat
    BY <2>1, Position
  <2>3. ~ (r < RegionOf(offset))
    <3>1. ~ (s < offset)
      BY <2>1
    <3> QED BY <3>1, RegionOrder
  <2>4. ~ (RegionOf(offset + length) < r)
    <3>1. ~ (offset + length < s)
      BY <2>1
    <3> QED BY <3>1, <2>1, RegionOrder
  <2> QED BY <2>2, <2>3, <2>4 DEF RegionsUsed
<1>10. CASE ready[r] = NoRegion
  BY <1>3, <1>5, <1>9, <1>10 DEF IsSet
<1>11. CASE ready[r] # NoRegion
  <2>1. BitmapSet(b, offset, length)[r][y] =
          IF <<r, y>> \in filled THEN 0..ByteSize-1 ELSE ready[r][y] \cup bits
    BY <1>1, <1>3, <1>11
  <2>2. BitmapSet(b, offset, length)[r] # NoRegion
    BY <1>3, <1>11, SizeAssumption, <1>1, <1>4, SetNotNull
  <2>3. IsSet(ready, s) <=> BitOf(s) \in ready[r][y]
    BY <1>11 DEF IsSet
  <2>4. IsSet(BitmapSet(b, offset, length), s)
          <=> <<r, y>> \in filled \/ BitOf(s) \in ready[r][y] \/ BitOf(s) \in bits
    BY <2>1, <2>2, <1>1 DEF IsSet
  <2> QED BY <2>3, <2>4, <1>5, <1>7, <1>8
<1> QED BY <1>10, <1>11

-----------------------------------------------------------------------------
(* The filter                                                              *)

\* What the worker has in hand at each of its places.
WorkerInv ==
    /\ device = "none" => worker.pc = "none"
    /\ worker.pc \in {"readset", "readblend", "lower", "merge"} =>
         worker.irp \in Irps /\ Op(worker.irp) = "READ"
    /\ worker.pc \in {"write", "set"} =>
         worker.irp \in Irps /\ Op(worker.irp) = "WRITE"
    /\ worker.pc \in {"lower", "merge"} =>
         worker.fileBuf \in [SpanOf(worker.irp) -> Content]
    /\ worker.pc = "merge" =>
         result[worker.irp] \in [SpanOf(worker.irp) -> Content]
    /\ \A i \in Irps : state[i] = "sync" => worker.pc = "lower" /\ worker.irp = i

Inv == TypeOK /\ WorkerInv

-----------------------------------------------------------------------------
(* Requests and buffers                                                    *)

\* A request on the volume has its sectors there, and its buffer is one.
LEMMA RequestFacts ==
    ASSUME TypeOK, NEW i \in Irps
    PROVE  /\ request[i] \in Requests
           /\ Op(i) \in {"READ", "WRITE"}
           /\ request[i].offset \in Nat /\ request[i].length \in Nat
           /\ request[i].offset + request[i].length <= VolumeSectors
           /\ SpanOf(i) \subseteq Sectors
           /\ [SpanOf(i) -> Content] \subseteq Buffers
<1>1. request[i] \in Requests
  BY DEF TypeOK
<1>2. /\ request[i].op \in {"READ", "WRITE"}
      /\ request[i].offset \in Nat /\ request[i].length \in Nat
      /\ request[i].offset + request[i].length <= VolumeSectors
  BY <1>1, DPAssumption
<1>3. SpanOf(i) \subseteq Sectors
  BY <1>2, SizeAssumption DEF SpanOf, Span, Sectors
<1>4. [SpanOf(i) -> Content] \subseteq Buffers
  BY <1>1, Zenon DEF Buffers, SpanOf
<1> QED BY <1>1, <1>2, <1>3, <1>4 DEF Op

\* What a request reads or writes of a store has the type of a buffer.
LEMMA StoreFacts ==
    ASSUME TypeOK, NEW i \in Irps
    PROVE  /\ On(disk, SpanOf(i)) \in [SpanOf(i) -> Content]
           /\ On(temp, SpanOf(i)) \in [SpanOf(i) -> Content]
           /\ \A S : Put(disk, S, i) \in [Sectors -> Irps \cup {Original}]
           /\ \A S : Put(temp, S, i) \in [Sectors -> Content]
<1>1. /\ disk \in [Sectors -> Irps \cup {Original}]
      /\ temp \in [Sectors -> Content]
  BY DEF TypeOK
<1>2. SpanOf(i) \subseteq Sectors
  BY RequestFacts
<1> QED BY <1>1, <1>2 DEF On, Put, Content

\* The empty buffer is a buffer.
LEMMA NoDataFacts == NoData \in Buffers
  BY DEF Buffers

-----------------------------------------------------------------------------
\* The worker has not started at first.
LEMMA TypeInit == Init => Inv
<1> SUFFICES ASSUME Init PROVE Inv
  OBVIOUS
<1>1. TypeOK
  <2>1. worker \in [pc : Places, irp : Irps \cup {NoIrp}, fileBuf : Buffers]
    BY NoDataFacts DEF Init, Idle, At, Places
  <2>2. /\ disk \in [Sectors -> Irps \cup {Original}]
        /\ temp \in [Sectors -> Content]
        /\ state \in [Irps -> States]
        /\ result \in [Irps -> Buffers]
        /\ before \in [Irps -> SUBSET Irps]
        /\ request \in [Irps -> Requests]
    BY NoDataFacts DEF Init, Content, States
  <2>3. /\ Bitmap \in Bitmaps \cup {NoBitmap}
        /\ ReqList \in Seq(Irps)
        /\ device \in {"none", "started", "stopping", "deleted"}
    BY DEF Init
  <2>4. {bitmapFreed, Protect, ReqEvent, ThreadTermFlag} \subseteq BOOLEAN
    BY Zenon DEF Init
  <2> QED BY <2>1, <2>2, <2>3, <2>4 DEF TypeOK
<1>2. WorkerInv
  BY DEF Init, WorkerInv, Idle, At
<1> QED BY <1>1, <1>2 DEF Inv

\* Every step keeps the types, and the worker's place.
LEMMA TypeStep == Inv /\ [Next]_vars => Inv'
<1> SUFFICES ASSUME Inv, [Next]_vars PROVE Inv'
  OBVIOUS
<1> USE DEF Inv
<1> USE DEF store, volume, reqs
<1>1. CASE AddDevice
  <2>1. worker' = At("wait", NoIrp)
    BY <1>1 DEF AddDevice, Idle
  <2>2. worker' \in [pc : Places, irp : Irps \cup {NoIrp}, fileBuf : Buffers]
    BY <2>1, NoDataFacts DEF At, Places
  <2>3. \A i \in Irps : state[i] # "sync"
    BY <1>1 DEF AddDevice, WorkerInv
  <2>4. TypeOK'
    BY <1>1, <2>2 DEF AddDevice, TypeOK
  <2> QED BY <1>1, <2>1, <2>3, <2>4 DEF AddDevice, WorkerInv, At
<1>2. CASE VolumeOnline
  <2>1. EmptyBitmap \in Bitmaps
    BY DEF EmptyBitmap, Bitmaps
  <2> QED BY <1>2, <2>1 DEF VolumeOnline, TypeOK, WorkerInv, Op, SpanOf
<1>3. CASE Reinitialize
  BY <1>3 DEF Reinitialize, TypeOK, WorkerInv, Op, SpanOf, Content
<1>4. CASE RemoveStop
  BY <1>4 DEF RemoveStop, TypeOK, WorkerInv, Op, SpanOf
<1>5. CASE RemoveDelete
  BY <1>5 DEF RemoveDelete, TypeOK, WorkerInv, Op, SpanOf
<1>6. ASSUME NEW i \in Irps, DispatchReadWrite(i)
      PROVE  Inv'
  <2>1. state' \in [Irps -> States] /\ \A j \in Irps : state'[j] = "sync" => state[j] = "sync"
    BY <1>6 DEF DispatchReadWrite, TypeOK, States
  <2>2. ReqList' \in Seq(Irps)
    <3>1. ReqList' = Append(ReqList, i) \/ ReqList' = ReqList
      BY <1>6, Zenon DEF DispatchReadWrite
    <3>2. ReqList \in Seq(Irps)
      BY DEF TypeOK
    <3>3. Append(ReqList, i) \in Seq(Irps)
      BY <3>2
    <3> QED BY <3>1, <3>2, <3>3, Zenon
  <2>6. ReqEvent' \in BOOLEAN
    <3>1. ReqEvent' = TRUE \/ ReqEvent' = ReqEvent
      BY <1>6, Zenon DEF DispatchReadWrite
    <3>2. ReqEvent \in BOOLEAN
      BY Zenon DEF TypeOK
    <3> QED BY <3>1, <3>2, Zenon
  <2>3. before' \in [Irps -> SUBSET Irps]
    BY <1>6 DEF DispatchReadWrite, TypeOK
  <2>4. TypeOK'
    BY <1>6, <2>1, <2>2, <2>3, <2>6 DEF DispatchReadWrite, TypeOK
  <2>5. WorkerInv'
    BY <1>6, <2>1 DEF DispatchReadWrite, WorkerInv, Op, SpanOf
  <2> QED BY <2>4, <2>5
<1>7. ASSUME NEW i \in Irps, LowerDevice(i)
      PROVE  Inv'
  <2>1. /\ UNCHANGED <<temp, Bitmap, bitmapFreed, Protect, ReqList, ReqEvent,
                       ThreadTermFlag, device, request, before>>
        /\ state[i] \in {"below", "next", "sync"}
    BY <1>7 DEF LowerDevice
  <2>2. disk' \in [Sectors -> Irps \cup {Original}]
    <3>1. UNCHANGED disk \/ \E S : disk' = Put(disk, S, i)
      BY <1>7, Zenon DEF LowerDevice
    <3> QED BY <3>1, StoreFacts DEF TypeOK
  <2>3. \/ UNCHANGED result
        \/ result' = [result EXCEPT ![i] = On(disk, SpanOf(i))] /\ Op(i) = "READ"
    BY <1>7 DEF LowerDevice
  <2>4. result' \in [Irps -> Buffers]
    BY <2>3, StoreFacts, RequestFacts DEF TypeOK
  <2>5. \E s \in {"worker", "passed", "failed"} :
          state' = [state EXCEPT ![i] = s]
    BY <1>7 DEF LowerDevice
  <2>6. state' \in [Irps -> States]
    BY <2>5 DEF TypeOK, States, Ended
  <2>7. CASE state[i] # "sync"
    <3>1. UNCHANGED worker
      BY <1>7, <2>7 DEF LowerDevice
    <3>2. TypeOK'
      BY <2>1, <2>2, <2>4, <2>6, <3>1 DEF TypeOK
    <3>3. \A j \in Irps : state'[j] = "sync" => state[j] = "sync"
      BY <2>5 DEF TypeOK
    <3>4. worker.pc = "merge" => result'[worker.irp] \in [SpanOf(worker.irp) -> Content]
      BY <2>3, StoreFacts DEF TypeOK, WorkerInv
    <3> QED BY <2>1, <3>1, <3>2, <3>3, <3>4 DEF WorkerInv, Op, SpanOf
  <2>8. CASE state[i] = "sync"
    <3>1. worker.pc = "lower" /\ worker.irp = i
      BY <2>8 DEF WorkerInv
    <3>2. Op(i) = "READ" /\ worker.fileBuf \in [SpanOf(i) -> Content]
      BY <3>1 DEF WorkerInv
    <3>3. \A j \in Irps : state'[j] # "sync"
      <4>1. \A j \in Irps : j # i => state[j] # "sync"
        BY <3>1 DEF WorkerInv
      <4> QED BY <4>1, <2>5 DEF TypeOK
    <3>4. CASE worker' = [worker EXCEPT !.pc = "merge"]
               /\ result' = [result EXCEPT ![i] = On(disk, SpanOf(i))]
      <4>1. worker' \in [pc : Places, irp : Irps \cup {NoIrp}, fileBuf : Buffers]
        BY <3>4 DEF TypeOK, Places
      <4>2. worker'.pc = "merge" /\ worker'.irp = i /\ worker'.fileBuf = worker.fileBuf
        BY <3>1, <3>4 DEF TypeOK
      <4>3. result'[i] \in [SpanOf(i) -> Content]
        BY <3>4, StoreFacts DEF TypeOK
      <4>4. TypeOK'
        BY <2>1, <2>2, <2>4, <2>6, <4>1 DEF TypeOK
      <4> QED BY <2>1, <3>1, <3>2, <3>3, <4>2, <4>3, <4>4 DEF WorkerInv, Op, SpanOf
    <3>5. CASE worker' = At("next", NoIrp)
      <4>1. worker' \in [pc : Places, irp : Irps \cup {NoIrp}, fileBuf : Buffers]
        BY <3>5, NoDataFacts DEF At, Places
      <4>2. TypeOK'
        BY <2>1, <2>2, <2>4, <2>6, <4>1 DEF TypeOK
      <4> QED BY <2>1, <3>1, <3>3, <3>5, <4>2 DEF WorkerInv, At
    <3> QED BY <1>7, <2>8, <3>2, <3>4, <3>5 DEF LowerDevice, Idle
  <2> QED BY <2>7, <2>8
<1>8. CASE WaitReqEvent
  BY <1>8, NoDataFacts DEF WaitReqEvent, TypeOK, WorkerInv, Idle, At, Places, Op, SpanOf
<1>9. CASE QueueEmpty
  BY <1>9, NoDataFacts DEF QueueEmpty, TypeOK, WorkerInv, Idle, At, Places, Op, SpanOf
<1>10. CASE NextRequest
  <2> DEFINE i == Head(ReqList)
  <2>1. /\ UNCHANGED <<disk, temp, Bitmap, bitmapFreed, Protect, ReqEvent,
                       ThreadTermFlag, device, request, before, result>>
        /\ ReqList # <<>> /\ ReqList' = Tail(ReqList)
        /\ worker.pc = "next"
    BY <1>10 DEF NextRequest
  <2>2. i \in Irps /\ ReqList' \in Seq(Irps)
    BY <2>1 DEF TypeOK
  <2>3. \E s \in {"next", "worker", "failed"} : state' = [state EXCEPT ![i] = s]
    BY <1>10 DEF NextRequest, SendToNextDriver, CompleteRequest, Goto
  <2>4. \/ worker' = At("next", NoIrp)
        \/ worker' = At("readset", i) /\ Op(i) = "READ"
        \/ worker' = At("readblend", i) /\ Op(i) = "READ"
        \/ worker' = At("write", i) /\ Op(i) = "WRITE"
    BY <1>10 DEF NextRequest, SendToNextDriver, CompleteRequest, Goto, Idle
  <2> HIDE DEF i
  <2>5. worker' \in [pc : Places, irp : Irps \cup {NoIrp}, fileBuf : Buffers]
    BY <2>2, <2>4, NoDataFacts DEF At, Places
  <2>6. state' \in [Irps -> States] /\ \A j \in Irps : state'[j] # "sync"
    <3>1. \A j \in Irps : state[j] # "sync"
      BY <2>1 DEF WorkerInv
    <3> QED BY <3>1, <2>2, <2>3 DEF TypeOK, States, Ended
  <2>7. TypeOK'
    BY <2>1, <2>2, <2>5, <2>6 DEF TypeOK
  <2>8. WorkerInv'
    BY <2>1, <2>2, <2>4, <2>6 DEF WorkerInv, At, Op
  <2> QED BY <2>7, <2>8
<1>11. CASE ReadTempFile
  <2> DEFINE i == worker.irp
  <2>1. /\ UNCHANGED <<disk, temp, Bitmap, bitmapFreed, Protect, ReqList, ReqEvent,
                       ThreadTermFlag, device, request, before>>
        /\ worker.pc \in {"readset", "readblend"}
    BY <1>11 DEF ReadTempFile
  <2>2. i \in Irps /\ Op(i) = "READ" /\ \A j \in Irps : state[j] # "sync"
    BY <2>1 DEF WorkerInv
  <2>3. UNCHANGED result \/ result' = [result EXCEPT ![i] = On(temp, SpanOf(i))]
    BY <1>11 DEF ReadTempFile
  <2>4. result' \in [Irps -> Buffers]
    BY <2>2, <2>3, StoreFacts, RequestFacts DEF TypeOK
  <2>5. \/ /\ worker' = At("next", NoIrp)
           /\ \E s \in {"done", "failed"} : state' = [state EXCEPT ![i] = s]
        \/ /\ worker' = [worker EXCEPT !.pc = "lower", !.fileBuf = On(temp, SpanOf(i))]
           /\ state' = [state EXCEPT ![i] = "sync"]
    BY <1>11 DEF ReadTempFile, CompleteRequest, Idle
  <2>6. state' \in [Irps -> States]
    BY <2>2, <2>5 DEF TypeOK, States, Ended
  <2>7. CASE worker' = At("next", NoIrp)
             /\ \E s \in {"done", "failed"} : state' = [state EXCEPT ![i] = s]
    <3>1. worker' \in [pc : Places, irp : Irps \cup {NoIrp}, fileBuf : Buffers]
      BY <2>7, NoDataFacts DEF At, Places
    <3>2. TypeOK'
      BY <2>1, <2>4, <2>6, <3>1 DEF TypeOK
    <3>3. \A j \in Irps : state'[j] # "sync"
      BY <2>2, <2>7 DEF TypeOK
    <3>4. worker'.pc = "next"
      BY <2>7 DEF At
    <3> QED BY <2>1, <3>2, <3>3, <3>4 DEF WorkerInv
  <2>8. CASE /\ worker' = [worker EXCEPT !.pc = "lower", !.fileBuf = On(temp, SpanOf(i))]
             /\ state' = [state EXCEPT ![i] = "sync"]
    <3>1. On(temp, SpanOf(i)) \in [SpanOf(i) -> Content]
      BY <2>2, StoreFacts
    <3>2. worker' \in [pc : Places, irp : Irps \cup {NoIrp}, fileBuf : Buffers]
      BY <2>2, <2>8, <3>1, RequestFacts DEF TypeOK, Places
    <3>3. worker'.pc = "lower" /\ worker'.irp = i /\ worker'.fileBuf = On(temp, SpanOf(i))
      BY <2>8 DEF TypeOK
    <3>4. TypeOK'
      BY <2>1, <2>4, <2>6, <3>2 DEF TypeOK
    <3>5. \A j \in Irps : state'[j] = "sync" => j = i
      BY <2>2, <2>8 DEF TypeOK
    <3> QED BY <2>1, <2>2, <3>1, <3>3, <3>4, <3>5 DEF WorkerInv, Op, SpanOf
  <2> QED BY <2>5, <2>7, <2>8
<1>12. CASE MergeBuffers
  <2> DEFINE i == worker.irp
  <2>1. /\ UNCHANGED <<disk, temp, Bitmap, bitmapFreed, Protect, ReqList, ReqEvent,
                       ThreadTermFlag, device, request, before>>
        /\ worker.pc = "merge"
    BY <1>12 DEF MergeBuffers
  <2>2. /\ i \in Irps /\ \A j \in Irps : state[j] # "sync"
        /\ worker.fileBuf \in [SpanOf(i) -> Content]
        /\ result[i] \in [SpanOf(i) -> Content]
    BY <2>1 DEF WorkerInv
  <2>3. BitmapGet(Bitmap, result[i], worker.fileBuf) \in [SpanOf(i) -> Content]
    BY <2>2 DEF BitmapGet
  <2>4. result' \in [Irps -> Buffers]
    <3>1. UNCHANGED result
            \/ result' = [result EXCEPT ![i] = BitmapGet(Bitmap, result[i], worker.fileBuf)]
      BY <1>12 DEF MergeBuffers
    <3> QED BY <2>2, <2>3, <3>1, RequestFacts DEF TypeOK
  <2>5. /\ worker' = At("next", NoIrp)
        /\ \E s \in {"done", "failed"} : state' = [state EXCEPT ![i] = s]
    BY <1>12 DEF MergeBuffers, CompleteRequest, Idle
  <2>6. state' \in [Irps -> States] /\ \A j \in Irps : state'[j] # "sync"
    BY <2>2, <2>5 DEF TypeOK, States, Ended
  <2>7. worker' \in [pc : Places, irp : Irps \cup {NoIrp}, fileBuf : Buffers]
    BY <2>5, NoDataFacts DEF At, Places
  <2>8. TypeOK'
    BY <2>1, <2>4, <2>6, <2>7 DEF TypeOK
  <2>9. worker'.pc = "next"
    BY <2>5 DEF At
  <2> QED BY <2>1, <2>6, <2>8, <2>9 DEF WorkerInv
<1>13. CASE WriteTempFile
  <2> DEFINE i == worker.irp
  <2>1. /\ UNCHANGED <<disk, Bitmap, bitmapFreed, Protect, ReqList, ReqEvent,
                       ThreadTermFlag, device, request, before, result>>
        /\ worker.pc = "write"
    BY <1>13 DEF WriteTempFile
  <2>2. i \in Irps /\ Op(i) = "WRITE" /\ \A j \in Irps : state[j] # "sync"
    BY <2>1 DEF WorkerInv
  <2>3. temp' \in [Sectors -> Content]
    <3>1. \E S : temp' = Put(temp, S, i)
      BY <1>13, Zenon DEF WriteTempFile
    <3> QED BY <2>2, <3>1, StoreFacts
  <2>4. \/ worker' = [worker EXCEPT !.pc = "set"] /\ UNCHANGED state
        \/ worker' = At("next", NoIrp) /\ state' = [state EXCEPT ![i] = "failed"]
    BY <1>13 DEF WriteTempFile, CompleteRequest, Idle
  <2>5. state' \in [Irps -> States] /\ \A j \in Irps : state'[j] # "sync"
    BY <2>2, <2>4 DEF TypeOK, States, Ended
  <2>6. worker' \in [pc : Places, irp : Irps \cup {NoIrp}, fileBuf : Buffers]
    BY <2>4, NoDataFacts DEF At, Places, TypeOK
  <2>7. worker'.pc = "next" \/ (worker'.pc = "set" /\ worker'.irp = i)
    BY <2>4 DEF At, TypeOK
  <2>8. TypeOK'
    BY <2>1, <2>3, <2>5, <2>6 DEF TypeOK
  <2> QED BY <2>1, <2>2, <2>5, <2>7, <2>8 DEF WorkerInv, Op
<1>14. CASE SetBitmap
  <2> DEFINE i == worker.irp
  <2>1. /\ UNCHANGED <<disk, temp, bitmapFreed, Protect, ReqList, ReqEvent,
                       ThreadTermFlag, device, request, before, result>>
        /\ worker.pc = "set"
    BY <1>14 DEF SetBitmap
  <2>2. i \in Irps /\ \A j \in Irps : state[j] # "sync"
    BY <2>1 DEF WorkerInv
  <2>3. Bitmap' \in Bitmaps \cup {NoBitmap}
    <3>1. \/ UNCHANGED Bitmap
          \/ Bitmap # NoBitmap /\ Bitmap' = BitmapSet(Bitmap, request[i].offset, request[i].length)
          \/ Bitmap # NoBitmap /\ \E r : Bitmap' = BitmapSetFailed(Bitmap, request[i].offset, r)
      BY <1>14, Zenon DEF SetBitmap
    <3>2. request[i].offset \in Nat /\ request[i].length \in Nat
      BY <2>2, RequestFacts
    <3>3. Bitmap # NoBitmap => Bitmap \in Bitmaps
      BY DEF TypeOK
    <3>4. Bitmap # NoBitmap => BitmapSet(Bitmap, request[i].offset, request[i].length) \in Bitmaps
      BY <3>2, <3>3, SetType
    <3>5. Bitmap # NoBitmap => \A r : BitmapSetFailed(Bitmap, request[i].offset, r) \in Bitmaps
      BY <3>3, RegionsGiven DEF BitmapSetFailed
    <3> QED BY <3>1, <3>4, <3>5 DEF TypeOK
  <2>4. /\ worker' = At("next", NoIrp)
        /\ \E s \in {"done", "failed"} : state' = [state EXCEPT ![i] = s]
    BY <1>14 DEF SetBitmap, CompleteRequest, Idle
  <2>5. state' \in [Irps -> States] /\ \A j \in Irps : state'[j] # "sync"
    BY <2>2, <2>4 DEF TypeOK, States, Ended
  <2>6. worker' \in [pc : Places, irp : Irps \cup {NoIrp}, fileBuf : Buffers]
    BY <2>4, NoDataFacts DEF At, Places
  <2>7. TypeOK'
    BY <2>1, <2>3, <2>5, <2>6 DEF TypeOK
  <2>8. worker'.pc = "next"
    BY <2>4 DEF At
  <2> QED BY <2>1, <2>5, <2>7, <2>8 DEF WorkerInv
<1>15. CASE UNCHANGED vars
  BY <1>15 DEF vars, TypeOK, WorkerInv, Op, SpanOf
<1> QED
  BY <1>1, <1>2, <1>3, <1>4, <1>5, <1>6, <1>7, <1>8, <1>9, <1>10, <1>11,
     <1>12, <1>13, <1>14, <1>15 DEF Next, ReadWriteThread

\* Every state has its type, whatever goes wrong around the driver.
THEOREM TypeCorrect == Spec => []TypeOK
<1>1. Inv => TypeOK
  BY DEF Inv
<1> QED BY <1>1, TypeInit, TypeStep, PTL DEF Spec

\* The array that DPVolumeOnLineCompleteRoutine asks for has the regions of
\* every request on the volume, also of one that ends where the volume ends,
\* for which DPBitmapSet looks one region further than its last sector.
THEOREM RegionsCorrect == Spec => []RegionsInBitmap
<1>1. Inv => RegionsInBitmap
  <2> SUFFICES ASSUME Inv, worker.pc = "set", Bitmap # NoBitmap
               PROVE  RegionsUsed(request[worker.irp].offset, request[worker.irp].length)
                        \subseteq DOMAIN Bitmap
    BY DEF RegionsInBitmap
  <2>1. worker.irp \in Irps /\ TypeOK
    BY DEF Inv, WorkerInv
  <2>2. DOMAIN Bitmap = RegionIndex
    BY <2>1 DEF TypeOK, Bitmaps
  <2> QED BY <2>1, <2>2, RequestFacts, RegionsAreThere
<1> QED BY <1>1, TypeInit, TypeStep, PTL DEF Spec

-----------------------------------------------------------------------------
(* What the filter promises of the disk and of the bitmap: the disk is     *)
(* kept, the bitmap is exact, and it lives as long as it is used.  This    *)
(* rests on where a request can go (Moves, QueueInv) and on one more       *)
(* invariant each.                                                         *)

\* The queue holds queued requests, each once; the worker's request is its own.
QueueInv ==
    /\ \A k \in 1..Len(ReqList) : state[ReqList[k]] = "queued"
    /\ \A k, l \in 1..Len(ReqList) : ReqList[k] = ReqList[l] => k = l
    /\ worker.irp \in Irps =>
         state[worker.irp] = IF worker.pc = "lower" THEN "sync" ELSE "worker"
    /\ worker.pc \in {"none", "wait", "next", "exit"} <=> worker.irp = NoIrp

\* Where a request may go from each of its states.
Moves ==
    {<<"idle", "queued">>, <<"idle", "below">>,
     <<"queued", "next">>, <<"queued", "worker">>, <<"queued", "failed">>,
     <<"worker", "sync">>, <<"worker", "done">>, <<"worker", "failed">>,
     <<"sync", "worker">>, <<"sync", "failed">>,
     <<"below", "passed">>, <<"below", "failed">>,
     <<"next", "passed">>, <<"next", "failed">>}

-----------------------------------------------------------------------------
\* A request moves only as the table of moves says.
LEMMA Transitions ==
    ASSUME Inv, QueueInv, [Next]_vars, NEW j \in Irps
    PROVE  state'[j] = state[j] \/ <<state[j], state'[j]>> \in Moves
<1> USE DEF Inv
<1>1. CASE AddDevice \/ VolumeOnline \/ Reinitialize \/ RemoveStop \/ RemoveDelete
           \/ WaitReqEvent \/ QueueEmpty \/ UNCHANGED vars
  BY <1>1 DEF AddDevice, VolumeOnline, Reinitialize, RemoveStop, RemoveDelete,
              WaitReqEvent, QueueEmpty, vars
<1>2. ASSUME NEW i \in Irps, DispatchReadWrite(i)
      PROVE  state'[j] = state[j] \/ <<state[j], state'[j]>> \in Moves
  BY <1>2 DEF DispatchReadWrite, Moves, TypeOK
<1>3. ASSUME NEW i \in Irps, LowerDevice(i)
      PROVE  state'[j] = state[j] \/ <<state[j], state'[j]>> \in Moves
  <2>1. /\ state[i] \in {"below", "next", "sync"}
        /\ \E s \in {"worker", "passed", "failed"} :
             /\ state' = [state EXCEPT ![i] = s]
             /\ s = "worker" => state[i] = "sync"
             /\ s = "passed" => state[i] # "sync" \/ Op(i) = "WRITE"
    BY <1>3 DEF LowerDevice
  <2>2. state[i] = "sync" => Op(i) = "READ"
    BY DEF WorkerInv
  <2> QED BY <2>1, <2>2 DEF Moves, TypeOK
<1>4. CASE NextRequest
  <2>1. ReqList # <<>> /\ ReqList \in Seq(Irps)
    BY <1>4 DEF NextRequest, TypeOK
  <2>2. Head(ReqList) \in Irps /\ state[Head(ReqList)] = "queued"
    BY <2>1 DEF QueueInv
  <2>3. \E s \in {"next", "worker", "failed"} : state' = [state EXCEPT ![Head(ReqList)] = s]
    BY <1>4 DEF NextRequest, SendToNextDriver, CompleteRequest, Goto
  <2> QED BY <2>2, <2>3 DEF Moves, TypeOK
<1>5. CASE ReadTempFile \/ MergeBuffers \/ WriteTempFile \/ SetBitmap
  <2>1. worker.pc \in {"readset", "readblend", "merge", "write", "set"}
    BY <1>5 DEF ReadTempFile, MergeBuffers, WriteTempFile, SetBitmap
  <2>2. worker.irp \in Irps /\ state[worker.irp] = "worker"
    BY <2>1 DEF WorkerInv, QueueInv
  <2>3. \/ state' = state
        \/ \E s \in {"sync", "done", "failed"} : state' = [state EXCEPT ![worker.irp] = s]
    BY <1>5 DEF ReadTempFile, MergeBuffers, WriteTempFile, SetBitmap, CompleteRequest
  <2> QED BY <2>2, <2>3 DEF Moves, TypeOK
<1> QED BY <1>1, <1>2, <1>3, <1>4, <1>5 DEF Next, ReadWriteThread

\* What has ended stays as it is, and nothing begins anew.
LEMMA EndedIsFinal ==
    ASSUME Inv, QueueInv, [Next]_vars, NEW j \in Irps
    PROVE  /\ state[j] \in Ended => state'[j] = state[j]
           /\ state[j] # "idle" => state'[j] # "idle"
  BY Transitions DEF Moves, Ended

\* The queue is empty at first.
LEMMA QueueInit == Init => QueueInv
  BY DPAssumption DEF Init, QueueInv, Idle, At

\* Every step keeps the queue, and what the worker has taken from it.
LEMMA QueueStep ==
    ASSUME Inv, QueueInv, [Next]_vars
    PROVE  QueueInv'
<1> USE DEF Inv
<1>a. NoIrp \notin Irps
  BY DPAssumption
<1>1. CASE AddDevice
  <2>1. worker.pc = "none" /\ worker' = At("wait", NoIrp)
        /\ UNCHANGED <<ReqList, state>>
    BY <1>1 DEF AddDevice, WorkerInv, Idle
  <2> QED BY <1>a, <2>1 DEF QueueInv, At
<1>2. CASE VolumeOnline \/ Reinitialize \/ RemoveStop \/ RemoveDelete \/ UNCHANGED vars
  BY <1>2 DEF VolumeOnline, Reinitialize, RemoveStop, RemoveDelete, vars, QueueInv
<1>3. ASSUME NEW i \in Irps, DispatchReadWrite(i)
      PROVE  QueueInv'
  <2>1. state[i] = "idle" /\ UNCHANGED worker
    BY <1>3 DEF DispatchReadWrite
  <2>2. worker.irp \in Irps => worker.irp # i
    BY <2>1 DEF QueueInv
  <2>3. \A k \in 1..Len(ReqList) : ReqList[k] \in Irps /\ ReqList[k] # i
    BY <2>1 DEF QueueInv, TypeOK
  <2>4. CASE state' = [state EXCEPT ![i] = "queued"] /\ ReqList' = Append(ReqList, i)
    <3>1. ReqList \in Seq(Irps)
      BY DEF TypeOK
    <3>2. /\ Len(ReqList') = Len(ReqList) + 1
          /\ ReqList'[Len(ReqList) + 1] = i
          /\ \A k \in 1..Len(ReqList) : ReqList'[k] = ReqList[k]
          /\ Len(ReqList) \in Nat
      BY <2>4, <3>1
    <3>3. \A k \in 1..Len(ReqList') : state'[ReqList'[k]] = "queued"
      <4>1. \A k \in 1..Len(ReqList) : state'[ReqList[k]] = "queued"
        BY <2>3, <2>4 DEF QueueInv, TypeOK
      <4>2. state'[i] = "queued"
        BY <2>4 DEF TypeOK
      <4> QED BY <3>2, <4>1, <4>2
    <3>4. \A k, l \in 1..Len(ReqList') : ReqList'[k] = ReqList'[l] => k = l
      BY <2>3, <3>2 DEF QueueInv
    <3>5. worker.irp \in Irps => state'[worker.irp] = state[worker.irp]
      BY <2>2, <2>4 DEF TypeOK
    <3> QED BY <2>1, <3>3, <3>4, <3>5 DEF QueueInv
  <2>5. CASE state' = [state EXCEPT ![i] = "below"] /\ ReqList' = ReqList
    <3>1. \A j \in Irps : j # i => state'[j] = state[j]
      BY <2>5 DEF TypeOK
    <3> QED BY <2>1, <2>2, <2>3, <2>5, <3>1 DEF QueueInv
  <2> QED BY <1>3, <2>4, <2>5, Zenon DEF DispatchReadWrite
<1>4. ASSUME NEW i \in Irps, LowerDevice(i)
      PROVE  QueueInv'
  <2>1. state[i] \in {"below", "next", "sync"} /\ UNCHANGED ReqList
    BY <1>4 DEF LowerDevice
  <2>2. \A j \in Irps : j # i => state'[j] = state[j]
    BY <1>4 DEF LowerDevice, TypeOK
  <2>3. /\ \A k \in 1..Len(ReqList) : ReqList[k] \in Irps /\ ReqList[k] # i
        /\ \A k \in 1..Len(ReqList') : state'[ReqList'[k]] = "queued"
    BY <2>1, <2>2 DEF QueueInv, TypeOK
  <2>4. CASE state[i] # "sync"
    <3>1. UNCHANGED worker
      BY <1>4, <2>4 DEF LowerDevice
    <3>2. worker.irp # i
      BY <2>1, <2>4 DEF QueueInv
    <3> QED BY <2>1, <2>2, <2>3, <3>1, <3>2 DEF QueueInv
  <2>5. CASE state[i] = "sync"
    <3>1. worker.pc = "lower" /\ worker.irp = i /\ Op(i) = "READ"
      BY <2>5 DEF WorkerInv
    <3>2. \/ worker' = [worker EXCEPT !.pc = "merge"] /\ state'[i] = "worker"
          \/ worker' = At("next", NoIrp)
      BY <1>4, <2>5, <3>1 DEF LowerDevice, Idle, TypeOK
    <3>3. \/ worker'.pc = "merge" /\ worker'.irp = i /\ state'[i] = "worker"
          \/ worker'.pc = "next" /\ worker'.irp = NoIrp
      BY <3>1, <3>2 DEF At, TypeOK
    <3> QED BY <1>a, <2>1, <2>3, <3>3 DEF QueueInv
  <2> QED BY <2>4, <2>5
<1>5. CASE WaitReqEvent \/ QueueEmpty
  <2>1. /\ UNCHANGED <<ReqList, state>>
        /\ \E p \in {"exit", "next", "wait"} : worker' = At(p, NoIrp)
    BY <1>5 DEF WaitReqEvent, QueueEmpty, Idle
  <2> QED BY <1>a, <2>1 DEF QueueInv, At
<1>6. CASE NextRequest
  <2> DEFINE i == Head(ReqList)
  <2>1. /\ ReqList \in Seq(Irps) /\ ReqList # <<>>
        /\ ReqList' = Tail(ReqList)
    BY <1>6 DEF NextRequest, TypeOK
  <2>2. /\ Len(ReqList) \in Nat /\ Len(ReqList') = Len(ReqList) - 1
        /\ i \in Irps /\ i = ReqList[1] /\ 1 \in 1..Len(ReqList)
        /\ \A k \in 1..Len(ReqList') :
             ReqList'[k] = ReqList[k+1] /\ k + 1 \in 1..Len(ReqList) /\ k + 1 # 1
    BY <2>1
  <2>3. \/ worker' = At("next", NoIrp)
        \/ /\ \E p \in {"readset", "readblend", "write"} : worker' = At(p, i)
           /\ state' = [state EXCEPT ![i] = "worker"]
    BY <1>6 DEF NextRequest, SendToNextDriver, CompleteRequest, Goto, Idle
  <2>4. \E s \in {"next", "worker", "failed"} : state' = [state EXCEPT ![i] = s]
    BY <1>6 DEF NextRequest, SendToNextDriver, CompleteRequest, Goto
  <2> HIDE DEF i
  <2>5. \A j \in Irps : j # i => state'[j] = state[j]
    BY <2>2, <2>4 DEF TypeOK
  <2>6. \A k \in 1..Len(ReqList') : ReqList'[k] # i /\ ReqList'[k] \in Irps
    BY <2>1, <2>2 DEF QueueInv
  <2>7. \A k \in 1..Len(ReqList') : state'[ReqList'[k]] = "queued"
    BY <2>2, <2>5, <2>6 DEF QueueInv
  <2>8. \A k, l \in 1..Len(ReqList') : ReqList'[k] = ReqList'[l] => k = l
    BY <2>2 DEF QueueInv
  <2>9. CASE worker' = At("next", NoIrp)
    BY <1>a, <2>7, <2>8, <2>9 DEF QueueInv, At
  <2>10. CASE /\ \E p \in {"readset", "readblend", "write"} : worker' = At(p, i)
              /\ state' = [state EXCEPT ![i] = "worker"]
    <3>1. state'[i] = "worker"
      BY <2>2, <2>10 DEF TypeOK
    <3>2. worker'.irp = i /\ worker'.pc \in {"readset", "readblend", "write"}
      BY <2>10 DEF At
    <3> QED BY <1>a, <2>2, <2>7, <2>8, <3>1, <3>2 DEF QueueInv
  <2> QED BY <2>3, <2>9, <2>10
<1>7. CASE ReadTempFile \/ MergeBuffers \/ WriteTempFile \/ SetBitmap
  <2> DEFINE i == worker.irp
  <2>1. /\ worker.pc \in {"readset", "readblend", "merge", "write", "set"}
        /\ UNCHANGED ReqList
    BY <1>7 DEF ReadTempFile, MergeBuffers, WriteTempFile, SetBitmap
  <2>2. i \in Irps /\ state[i] = "worker"
    BY <2>1 DEF WorkerInv, QueueInv
  <2>3. \/ worker' = At("next", NoIrp)
        \/ /\ worker' = [worker EXCEPT !.pc = "lower", !.fileBuf = On(temp, SpanOf(i))]
           /\ state' = [state EXCEPT ![i] = "sync"]
        \/ worker' = [worker EXCEPT !.pc = "set"] /\ state' = state
    BY <1>7 DEF ReadTempFile, MergeBuffers, WriteTempFile, SetBitmap, CompleteRequest, Idle
  <2>4. \/ state' = state
        \/ \E s \in {"sync", "done", "failed"} : state' = [state EXCEPT ![i] = s]
    BY <1>7 DEF ReadTempFile, MergeBuffers, WriteTempFile, SetBitmap, CompleteRequest
  <2>5. \/ worker'.pc = "next" /\ worker'.irp = NoIrp
        \/ worker'.pc = "lower" /\ worker'.irp = i /\ state'[i] = "sync"
        \/ worker'.pc = "set" /\ worker'.irp = i /\ state'[i] = "worker"
    <3>1. ASSUME worker' = At("next", NoIrp)
          PROVE  worker'.pc = "next" /\ worker'.irp = NoIrp
      BY <3>1 DEF At
    <3>2. ASSUME worker' = [worker EXCEPT !.pc = "lower", !.fileBuf = On(temp, SpanOf(i))],
                 state' = [state EXCEPT ![i] = "sync"]
          PROVE  worker'.pc = "lower" /\ worker'.irp = i /\ state'[i] = "sync"
      BY <2>2, <3>2 DEF TypeOK
    <3>3. ASSUME worker' = [worker EXCEPT !.pc = "set"], state' = state
          PROVE  worker'.pc = "set" /\ worker'.irp = i /\ state'[i] = "worker"
      BY <2>2, <3>3 DEF TypeOK
    <3> QED BY <2>3, <3>1, <3>2, <3>3, Zenon
  <2> HIDE DEF i
  <2>6. \A j \in Irps : j # i => state'[j] = state[j]
    BY <2>2, <2>4 DEF TypeOK
  <2>7. \A k \in 1..Len(ReqList) : ReqList[k] \in Irps /\ ReqList[k] # i
    BY <2>2 DEF QueueInv, TypeOK
  <2>8. \A k \in 1..Len(ReqList') : state'[ReqList'[k]] = "queued"
    BY <2>1, <2>6, <2>7 DEF QueueInv
  <2> QED BY <1>a, <2>1, <2>2, <2>5, <2>8 DEF QueueInv
<1> QED BY <1>1, <1>2, <1>3, <1>4, <1>5, <1>6, <1>7 DEF Next, ReadWriteThread

-----------------------------------------------------------------------------
(* The life of the bitmap, what is sent on, and what the bitmap knows      *)

FreedInv == bitmapFreed => worker.pc = "exit" /\ device = "deleted"

SentInv == \A i \in Irps : state[i] \in {"next", "sync"} => Op(i) = "READ"

ExactInv ==
    \A s \in Sectors :
        (Bitmap # NoBitmap /\ IsSet(Bitmap, s))
            <=> \E w \in Irps : state[w] = "done" /\ Writes(w, s)

\* The bitmap is there as long as the worker may look at it.
LEMMA FreedStep ==
    ASSUME "online" \notin Faults, Inv, FreedInv, [Next]_vars
    PROVE  FreedInv'
<1> USE DEF Inv, FreedInv
<1>1. CASE AddDevice
  BY <1>1 DEF AddDevice, volume
<1>2. CASE VolumeOnline
  BY <1>2 DEF VolumeOnline, Fails
<1>3. CASE RemoveDelete
  BY <1>3 DEF RemoveDelete
<1>4. CASE Reinitialize \/ RemoveStop \/ UNCHANGED vars
           \/ \E i \in Irps : DispatchReadWrite(i)
  BY <1>4 DEF Reinitialize, RemoveStop, vars, volume, DispatchReadWrite
<1>5. ASSUME NEW i \in Irps, LowerDevice(i)
      PROVE  FreedInv'
  <2>1. UNCHANGED <<bitmapFreed, device>>
    BY <1>5 DEF LowerDevice, volume
  <2>2. state[i] = "sync" => worker.pc = "lower"
    BY DEF WorkerInv
  <2>3. state[i] # "sync" => UNCHANGED worker
    BY <1>5 DEF LowerDevice
  <2> QED BY <2>1, <2>2, <2>3
<1>6. CASE ReadWriteThread
  <2>1. UNCHANGED bitmapFreed /\ worker.pc # "exit"
    BY <1>6 DEF ReadWriteThread, WaitReqEvent, QueueEmpty, NextRequest, ReadTempFile,
                MergeBuffers, WriteTempFile, SetBitmap, volume
  <2> QED BY <2>1
<1> QED BY <1>1, <1>2, <1>3, <1>4, <1>5, <1>6 DEF Next

\* What a request asks does not change.
LEMMA RequestIsConstant ==
    ASSUME [Next]_vars
    PROVE  UNCHANGED request
  BY DEF Next, AddDevice, VolumeOnline, Reinitialize, RemoveStop, RemoveDelete,
         DispatchReadWrite, LowerDevice, ReadWriteThread, WaitReqEvent, QueueEmpty,
         NextRequest, ReadTempFile, MergeBuffers, WriteTempFile, SetBitmap, vars, reqs

\* Every step keeps what the worker hands on a read.
LEMMA SentStep ==
    ASSUME "mapping" \notin Faults, Inv, QueueInv, SentInv, [Next]_vars
    PROVE  SentInv'
<1> USE DEF Inv
<1>1. UNCHANGED request
  BY RequestIsConstant
<1> SUFFICES ASSUME NEW j \in Irps, state'[j] \in {"next", "sync"}, state[j] # state'[j]
             PROVE  Op(j) = "READ"
  BY <1>1 DEF SentInv, Op
<1>2. <<state[j], state'[j]>> \in {<<"queued", "next">>, <<"worker", "sync">>}
  BY Transitions DEF Moves
<1>3. CASE NextRequest
  <2>1. Head(ReqList) \in Irps
    BY <1>3 DEF NextRequest, TypeOK
  <2>2. \/ Op(Head(ReqList)) = "READ"
        \/ \E s \in {"worker", "failed"} : state' = [state EXCEPT ![Head(ReqList)] = s]
    BY <1>3 DEF NextRequest, SendToNextDriver, CompleteRequest, Goto, Fails
  <2>3. \E s \in {"next", "worker", "failed"} : state' = [state EXCEPT ![Head(ReqList)] = s]
    BY <1>3 DEF NextRequest, SendToNextDriver, CompleteRequest, Goto
  <2> QED BY <1>2, <2>1, <2>2, <2>3 DEF TypeOK
<1>4. CASE ReadTempFile
  <2>1. /\ worker.irp \in Irps /\ Op(worker.irp) = "READ"
        /\ \E s \in States : state' = [state EXCEPT ![worker.irp] = s]
    BY <1>4 DEF ReadTempFile, CompleteRequest, WorkerInv, States, Ended
  <2> QED BY <1>2, <2>1 DEF TypeOK
<1>5. CASE MergeBuffers \/ WriteTempFile \/ SetBitmap
  <2>1. /\ worker.irp \in Irps
        /\ \/ state' = state
           \/ \E s \in {"done", "failed"} : state' = [state EXCEPT ![worker.irp] = s]
    BY <1>5 DEF MergeBuffers, WriteTempFile, SetBitmap, CompleteRequest, WorkerInv
  <2> QED BY <1>2, <2>1 DEF TypeOK
<1>6. ASSUME NEW i \in Irps, DispatchReadWrite(i) \/ LowerDevice(i)
      PROVE  FALSE
  BY <1>2, <1>6 DEF DispatchReadWrite, LowerDevice, TypeOK
<1>7. CASE AddDevice \/ VolumeOnline \/ Reinitialize \/ RemoveStop \/ RemoveDelete
           \/ WaitReqEvent \/ QueueEmpty \/ UNCHANGED vars
  BY <1>2, <1>7 DEF AddDevice, VolumeOnline, Reinitialize, RemoveStop, RemoveDelete,
                    WaitReqEvent, QueueEmpty, vars
<1> QED BY <1>3, <1>4, <1>5, <1>6, <1>7 DEF Next, ReadWriteThread

\* A write comes to its end in the worker with the last step, and that sets
\* its bits.
LEMMA NewDone ==
    ASSUME Inv, QueueInv, [Next]_vars, NEW j \in Irps,
           Op(j) = "WRITE", state'[j] = "done", state[j] # "done"
    PROVE  /\ SetBitmap /\ j = worker.irp
           /\ Bitmap # NoBitmap
           /\ Bitmap' = BitmapSet(Bitmap, request[j].offset, request[j].length)
<1> USE DEF Inv
<1>1. state[j] = "worker"
  BY Transitions DEF Moves
<1>2. CASE AddDevice \/ VolumeOnline \/ Reinitialize \/ RemoveStop \/ RemoveDelete
           \/ WaitReqEvent \/ QueueEmpty \/ UNCHANGED vars
  BY <1>2 DEF AddDevice, VolumeOnline, Reinitialize, RemoveStop, RemoveDelete,
              WaitReqEvent, QueueEmpty, vars
<1>3. ASSUME NEW i \in Irps, DispatchReadWrite(i) \/ LowerDevice(i)
      PROVE  FALSE
  BY <1>1, <1>3 DEF DispatchReadWrite, LowerDevice, TypeOK
<1>4. CASE NextRequest
  <2>1. \E s \in {"next", "worker", "failed"} : state' = [state EXCEPT ![Head(ReqList)] = s]
    BY <1>4 DEF NextRequest, SendToNextDriver, CompleteRequest, Goto
  <2> QED BY <2>1 DEF TypeOK
<1>5. CASE ReadTempFile \/ MergeBuffers
  <2>1. /\ worker.irp \in Irps /\ Op(worker.irp) = "READ"
        /\ \E s \in States : state' = [state EXCEPT ![worker.irp] = s]
    BY <1>5 DEF ReadTempFile, MergeBuffers, CompleteRequest, WorkerInv, States, Ended
  <2> QED BY <2>1 DEF TypeOK
<1>6. CASE WriteTempFile
  <2>1. state' = state \/ state' = [state EXCEPT ![worker.irp] = "failed"]
    BY <1>6 DEF WriteTempFile, CompleteRequest
  <2> QED BY <2>1 DEF TypeOK
<1>7. CASE SetBitmap
  <2> DEFINE i == worker.irp
  <2>1. \/ /\ Bitmap # NoBitmap
           /\ Bitmap' = BitmapSet(Bitmap, request[i].offset, request[i].length)
           /\ state' = [state EXCEPT ![i] = "done"]
        \/ state' = [state EXCEPT ![i] = "failed"]
    BY <1>7 DEF SetBitmap, CompleteRequest
  <2> QED BY <1>7, <2>1 DEF TypeOK
<1> QED BY <1>2, <1>3, <1>4, <1>5, <1>6, <1>7 DEF Next, ReadWriteThread

\* Only DPBitmapSet changes the bitmap, once the volume is online.
LEMMA BitmapMoves ==
    ASSUME [Next]_vars
    PROVE  UNCHANGED Bitmap \/ (VolumeOnline /\ UNCHANGED state) \/ SetBitmap
  BY DEF Next, AddDevice, VolumeOnline, Reinitialize, RemoveStop, RemoveDelete,
         DispatchReadWrite, LowerDevice, ReadWriteThread, WaitReqEvent, QueueEmpty,
         NextRequest, ReadTempFile, MergeBuffers, WriteTempFile, vars, volume

\* A new bitmap has no sector set.
LEMMA NothingSet == \A s \in Sectors : ~ IsSet(EmptyBitmap, s)
<1>1. \A s \in Sectors : s \in Nat /\ s < VolumeSectors
  BY SizeAssumption DEF Sectors
<1> QED BY <1>1, InBitmap DEF IsSet, EmptyBitmap

\* The bitmap goes on telling the sectors that writes have redirected.
LEMMA ExactStep ==
    ASSUME "online" \notin Faults, Inv, QueueInv, ExactInv, [Next]_vars
    PROVE  ExactInv'
<1> USE DEF Inv
<1>1. \A w \in Irps : \A s : Writes(w, s)' <=> Writes(w, s)
  BY RequestIsConstant DEF Writes, Op, SpanOf
<1>2. \A w \in Irps : state[w] = "done" => state'[w] = "done"
  BY EndedIsFinal DEF Ended
<1>3. \A s \in Sectors : s \in Nat /\ s < VolumeSectors
  BY SizeAssumption DEF Sectors
<1>4. NoBitmap \notin Bitmaps
  BY DPAssumption
<1>5. ASSUME ~ \E w \in Irps : Op(w) = "WRITE" /\ state'[w] = "done" /\ state[w] # "done",
             \A s \in Sectors :
               (Bitmap' # NoBitmap /\ IsSet(Bitmap', s)) <=> (Bitmap # NoBitmap /\ IsSet(Bitmap, s))
      PROVE  ExactInv'
  BY <1>1, <1>2, <1>5 DEF ExactInv, Writes
<1>6. CASE UNCHANGED Bitmap /\ ~ SetBitmap
  <2>1. ~ \E w \in Irps : Op(w) = "WRITE" /\ state'[w] = "done" /\ state[w] # "done"
    BY <1>6, NewDone
  <2> QED BY <1>5, <1>6, <2>1
<1>7. CASE VolumeOnline /\ UNCHANGED state
  <2>1. Bitmap = NoBitmap /\ Bitmap' \in {EmptyBitmap, NoBitmap}
    BY <1>7 DEF VolumeOnline, Fails
  <2> QED BY <1>5, <1>7, <2>1, NothingSet
<1>8. CASE SetBitmap
  <2> DEFINE i == worker.irp
             done == Bitmap # NoBitmap
                     /\ Bitmap' = BitmapSet(Bitmap, request[i].offset, request[i].length)
                     /\ state' = [state EXCEPT ![i] = "done"]
             fail == state' = [state EXCEPT ![i] = "failed"]
  <2>1. i \in Irps /\ Op(i) = "WRITE" /\ state[i] = "worker"
    BY <1>8 DEF SetBitmap, WorkerInv, QueueInv
  <2>2. /\ request[i].offset \in Nat /\ request[i].length \in Nat
        /\ request[i].offset + request[i].length <= VolumeSectors
    BY <2>1, RequestFacts
  <2>3. \/ done
        \/ fail /\ UNCHANGED Bitmap
        \/ fail /\ Bitmap # NoBitmap /\ \E r : Bitmap' = BitmapSetFailed(Bitmap, request[i].offset, r)
    BY <1>8, Zenon DEF SetBitmap, CompleteRequest
  <2>4. Bitmap # NoBitmap => Bitmap \in Bitmaps
    BY DEF TypeOK
  <2>5. CASE done
    <3>1. Bitmap' # NoBitmap
      BY <1>4, <2>2, <2>4, <2>5, SetType
    <3>2. \A s \in Sectors : IsSet(Bitmap', s) <=> (IsSet(Bitmap, s) \/ s \in SpanOf(i))
      BY <1>3, <2>2, <2>4, <2>5, SetIsExact DEF SpanOf
    <3>3. \A w \in Irps : state'[w] = "done" <=> (state[w] = "done" \/ w = i)
      BY <2>1, <2>5 DEF TypeOK
    <3>4. \A s : Writes(i, s) <=> s \in SpanOf(i)
      BY <2>1 DEF Writes
    <3> HIDE DEF i, done
    <3>5. \A s \in Sectors : (\E w \in Irps : state'[w] = "done" /\ Writes(w, s)')
                            <=> ((\E w \in Irps : state[w] = "done" /\ Writes(w, s))
                                 \/ s \in SpanOf(i))
      BY <1>1, <2>1, <3>3, <3>4
    <3>6. Bitmap # NoBitmap
      BY <2>5 DEF done
    <3> QED BY <3>1, <3>2, <3>5, <3>6 DEF ExactInv
  <2>6. ASSUME fail
        PROVE  ~ \E w \in Irps : Op(w) = "WRITE" /\ state'[w] = "done" /\ state[w] # "done"
    BY <2>1, <2>6 DEF TypeOK
  <2>7. CASE fail /\ UNCHANGED Bitmap
    BY <1>5, <2>6, <2>7
  <2>8. CASE fail /\ Bitmap # NoBitmap /\ \E r : Bitmap' = BitmapSetFailed(Bitmap, request[i].offset, r)
    <3>1. \A s \in Sectors : IsSet(Bitmap', s) <=> IsSet(Bitmap, s)
      BY <1>3, <2>4, <2>8, AllocationIsInvisible DEF BitmapSetFailed
    <3>2. Bitmap' # NoBitmap
      BY <1>4, <2>4, <2>8, RegionsGiven DEF BitmapSetFailed
    <3> QED BY <1>5, <2>6, <2>8, <3>1, <3>2
  <2> QED BY <2>3, <2>5, <2>7, <2>8
<1> QED BY <1>6, <1>7, <1>8, BitmapMoves

-----------------------------------------------------------------------------
(* What follows                                                            *)

\* No request changes the disk while the volume is protected but a write
\* passed down before; without MmGetSystemAddressForMdlSafe failing, whatever
\* else does.
THEOREM DiskKept ==
    ASSUME "mapping" \notin Faults
    PROVE  Spec => DiskIsKept
<1>1. Init => SentInv
  BY DEF Init, SentInv
<1>2. Inv /\ SentInv /\ [Next]_vars
        => [\A s \in Sectors : disk'[s] # disk[s] => state[disk'[s]] = "below"]_vars
  <2> SUFFICES ASSUME Inv, SentInv, [Next]_vars, NEW s \in Sectors, disk'[s] # disk[s]
               PROVE  state[disk'[s]] = "below"
    BY Zenon
  <2>1. PICK i \in Irps : LowerDevice(i)
    BY DEF Next, AddDevice, VolumeOnline, Reinitialize, RemoveStop, RemoveDelete,
           DispatchReadWrite, ReadWriteThread, WaitReqEvent, QueueEmpty,
           NextRequest, ReadTempFile, MergeBuffers, WriteTempFile, SetBitmap, vars, store
  <2>2. state[i] \in {"below", "next", "sync"} /\ Op(i) = "WRITE"
    BY <2>1 DEF LowerDevice
  <2>3. \E S : disk' = Put(disk, S, i)
    BY <2>1, Zenon DEF LowerDevice
  <2>4. disk'[s] = i
    BY <2>3 DEF Put, Inv, TypeOK
  <2> QED BY <2>2, <2>4 DEF SentInv
<1> QED BY <1>1, <1>2, TypeInit, TypeStep, QueueInit, QueueStep, SentStep,
           PTL DEF Spec, DiskIsKept

\* The bitmap and the device are there as long as the worker may use them:
\* removal waits for it, and a volume comes online once.
THEOREM BitmapOutlives ==
    ASSUME "online" \notin Faults
    PROVE  Spec => []BitmapOutlivesThread
<1>1. Init => FreedInv
  BY DEF Init, FreedInv
<1>2. QueueInv /\ FreedInv => BitmapOutlivesThread
  BY DEF QueueInv, FreedInv, BitmapOutlivesThread
<1> QED BY <1>1, <1>2, TypeInit, TypeStep, QueueInit, QueueStep, FreedStep, PTL DEF Spec

\* The bitmap has the sectors of the completed writes and no others, for any
\* size of byte and region and any range, with allocations that fail.
THEOREM Exact ==
    ASSUME "online" \notin Faults
    PROVE  Spec => []BitmapIsExact
<1>1. Init => ExactInv
  BY DEF Init, ExactInv
<1>2. ExactInv => BitmapIsExact
  BY DEF ExactInv, BitmapIsExact
<1> QED BY <1>1, <1>2, TypeInit, TypeStep, QueueInit, QueueStep, ExactStep, PTL DEF Spec

-----------------------------------------------------------------------------
(* Every read returns current data, for any volume and any requests, when   *)
(* the only faults are those of the file, of allocation, of the lower       *)
(* device and of the thread's handle.                                       *)
(*                                                                          *)
(* The idea: what has ended never changes, so a request's history before    *)
(* holds ended requests only, and a store that takes the content of a       *)
(* request under way takes something no ended request has in its history.   *)
(* That keeps each store current by itself (DiskInv, TempInv).  A read of   *)
(* the disk is current because nothing the file hides from it had ended     *)
(* when it began: either it was passed down before protection, or the       *)
(* worker had looked at the bitmap after it began (ReadInv).                *)

HistInv == \A i \in Irps : \A w \in before[i] : state[w] \in Ended

\* Before protection nothing has gone through the worker.
EarlyInv ==
    /\ ~ Protect => \A i \in Irps : state[i] \notin {"queued", "worker", "next", "sync", "done"}
    /\ Protect => Bitmap # NoBitmap
    /\ \A i \in Irps : state[i] = "below" => \A w \in before[i] : state[w] # "done"

\* v is what sector s was at the start, or what a write to it has put there.
From(v, s) == v = Original \/ (v \in Irps /\ Writes(v, s))

\* v is no older than what w has written, with this history.
NotOlder(v, w, history) == w = v \/ (v # Original /\ v \notin history)

DiskInv ==
    \A s \in Sectors :
        /\ From(disk[s], s)
        /\ \A w \in Irps : Writes(w, s) /\ state[w] = "passed" => NotOlder(disk[s], w, before[w])

TempInv ==
    \A s \in Sectors :
        /\ temp[s] = Blank \/ (temp[s] \in Irps /\ Writes(temp[s], s))
        /\ Bitmap # NoBitmap /\ IsSet(Bitmap, s) => temp[s] # Blank
        /\ Protect => \A w \in Irps :
             state[w] \in {"below", "passed"} /\ Op(w) = "WRITE" => temp[s] \notin before[w]
        /\ \A w \in Irps : Writes(w, s) /\ state[w] = "done" => NotOlder(temp[s], w, before[w])
        /\ worker.pc = "set" /\ s \in SpanOf(worker.irp) => temp[s] = worker.irp

\* A read that the worker has in hand, or has sent on.
ReadInv ==
    /\ worker.pc = "readset" => \A s \in SpanOf(worker.irp) : IsSet(Bitmap, s)
    /\ worker.pc \in {"lower", "merge"} => worker.fileBuf = On(temp, SpanOf(worker.irp))
    /\ worker.pc = "merge" =>
         \A s \in SpanOf(worker.irp) :
           LET v == result[worker.irp][s]
           IN  /\ From(v, s)
               /\ \A w \in before[worker.irp] :
                    Writes(w, s) /\ state[w] = "passed" => NotOlder(v, w, before[w])
    /\ \A r \in Irps : state[r] = "next" =>
         \A w \in before[r], s \in SpanOf(r) : ~ (state[w] = "done" /\ Writes(w, s))

CurrentInv == HistInv /\ EarlyInv /\ DiskInv /\ TempInv /\ ReadInv /\ ReadsAreCurrent

\* What the proofs below take for granted of the state: the invariants of
\* DPFilterProofs.
Basis == Inv /\ QueueInv /\ SentInv /\ ExactInv

-----------------------------------------------------------------------------
(* Who changes what                                                        *)

LEMMA Causes ==
    ASSUME [Next]_vars
    PROVE  /\ UNCHANGED before \/ \E i \in Irps : DispatchReadWrite(i)
           /\ UNCHANGED Protect \/ Reinitialize
           /\ UNCHANGED temp \/ Reinitialize \/ WriteTempFile
           /\ UNCHANGED disk \/ \E i \in Irps : LowerDevice(i)
           /\ UNCHANGED result \/ ReadTempFile \/ MergeBuffers \/ \E i \in Irps : LowerDevice(i)
<1> USE DEF Next, AddDevice, VolumeOnline, RemoveStop, RemoveDelete, ReadWriteThread,
            WaitReqEvent, QueueEmpty, NextRequest, SetBitmap, vars, store, volume, reqs
<1>1. UNCHANGED before \/ \E i \in Irps : DispatchReadWrite(i)
  BY DEF Reinitialize, LowerDevice, ReadTempFile, MergeBuffers, WriteTempFile
<1>2. UNCHANGED Protect \/ Reinitialize
  BY DEF DispatchReadWrite, LowerDevice, ReadTempFile, MergeBuffers, WriteTempFile
<1>3. UNCHANGED temp \/ Reinitialize \/ WriteTempFile
  BY DEF DispatchReadWrite, LowerDevice, ReadTempFile, MergeBuffers
<1>4. UNCHANGED disk \/ \E i \in Irps : LowerDevice(i)
  BY DEF DispatchReadWrite, Reinitialize, ReadTempFile, MergeBuffers, WriteTempFile
<1>5. UNCHANGED result \/ ReadTempFile \/ MergeBuffers \/ \E i \in Irps : LowerDevice(i)
  BY DEF DispatchReadWrite, Reinitialize, WriteTempFile
<1> QED BY <1>1, <1>2, <1>3, <1>4, <1>5

\* Requests do not change, so what is said of them alone holds on.
LEMMA SameRequests ==
    ASSUME [Next]_vars, NEW i \in Irps
    PROVE  /\ Op(i)' = Op(i) /\ SpanOf(i)' = SpanOf(i)
           /\ \A s : Writes(i, s)' <=> Writes(i, s)
           /\ \A s : From(i, s)' <=> From(i, s)
  BY RequestIsConstant DEF Op, SpanOf, Writes, From

\* A request takes a step of its own, or the worker one for it.
LEMMA StateCauses ==
    ASSUME Inv, QueueInv, [Next]_vars, NEW j \in Irps, state'[j] # state[j]
    PROVE  \/ DispatchReadWrite(j) \/ LowerDevice(j)
           \/ (NextRequest /\ j = Head(ReqList) /\ state[j] = "queued")
           \/ ((ReadTempFile \/ MergeBuffers \/ WriteTempFile \/ SetBitmap)
               /\ j = worker.irp /\ state[j] = "worker")
<1> USE DEF Inv
<1>1. CASE AddDevice \/ VolumeOnline \/ Reinitialize \/ RemoveStop \/ RemoveDelete
           \/ WaitReqEvent \/ QueueEmpty \/ UNCHANGED vars
  BY <1>1 DEF AddDevice, VolumeOnline, Reinitialize, RemoveStop, RemoveDelete,
              WaitReqEvent, QueueEmpty, vars
<1>2. ASSUME NEW i \in Irps, DispatchReadWrite(i)
      PROVE  i = j
  BY <1>2 DEF DispatchReadWrite, TypeOK
<1>3. ASSUME NEW i \in Irps, LowerDevice(i)
      PROVE  i = j
  BY <1>3 DEF LowerDevice, TypeOK
<1>4. CASE NextRequest
  <2>1. ReqList # <<>> /\ ReqList \in Seq(Irps)
    BY <1>4 DEF NextRequest, TypeOK
  <2>2. Head(ReqList) \in Irps /\ state[Head(ReqList)] = "queued"
    BY <2>1 DEF QueueInv
  <2>3. \E s \in {"next", "worker", "failed"} : state' = [state EXCEPT ![Head(ReqList)] = s]
    BY <1>4 DEF NextRequest, SendToNextDriver, CompleteRequest, Goto
  <2>4. j = Head(ReqList)
    BY <2>2, <2>3 DEF TypeOK
  <2> QED BY <1>4, <2>2, <2>4
<1>5. CASE ReadTempFile \/ MergeBuffers \/ WriteTempFile \/ SetBitmap
  <2>1. worker.pc \in {"readset", "readblend", "merge", "write", "set"}
    BY <1>5 DEF ReadTempFile, MergeBuffers, WriteTempFile, SetBitmap
  <2>2. worker.irp \in Irps /\ state[worker.irp] = "worker"
    BY <2>1 DEF WorkerInv, QueueInv
  <2>3. \/ state' = state
        \/ \E s \in {"sync", "done", "failed"} : state' = [state EXCEPT ![worker.irp] = s]
    BY <1>5 DEF ReadTempFile, MergeBuffers, WriteTempFile, SetBitmap, CompleteRequest
  <2>4. j = worker.irp
    BY <2>2, <2>3 DEF TypeOK
  <2> QED BY <1>5, <2>2, <2>4
<1> QED BY <1>1, <1>2, <1>3, <1>4, <1>5 DEF Next, ReadWriteThread

\* How the worker comes to a new place.
LEMMA WorkerCauses ==
    ASSUME Inv, [Next]_vars
    PROVE  \/ worker' = worker
           \/ worker'.pc \in {"wait", "next", "exit"}
           \/ /\ worker'.pc = "merge"
              /\ worker'.irp = worker.irp /\ worker'.fileBuf = worker.fileBuf
              /\ \E i \in Irps :
                   /\ LowerDevice(i) /\ state[i] = "sync"
                   /\ result' = [result EXCEPT ![i] = On(disk, SpanOf(i))]
           \/ /\ worker'.pc \in {"readset", "readblend", "write"}
              /\ NextRequest /\ worker'.irp = Head(ReqList)
              /\ worker'.pc = "readset" =>
                   /\ Bitmap # NoBitmap
                   /\ BitmapTest(Bitmap, request[Head(ReqList)].offset,
                                 request[Head(ReqList)].length) = "SET"
           \/ /\ worker'.pc = "lower"
              /\ worker'.irp = worker.irp
              /\ ReadTempFile
              /\ worker'.fileBuf = On(temp, SpanOf(worker.irp))
           \/ /\ worker'.pc = "set"
              /\ worker'.irp = worker.irp
              /\ WriteTempFile
<1>a. \A p, i : At(p, i).pc = p /\ At(p, i).irp = i
  BY DEF At
<1>b. worker \in [pc : Places, irp : Irps \cup {NoIrp}, fileBuf : Buffers]
  BY DEF Inv, TypeOK
<1>1. CASE AddDevice \/ WaitReqEvent \/ QueueEmpty
  <2>1. \E p \in {"wait", "next", "exit"} : worker' = At(p, NoIrp)
    BY <1>1 DEF AddDevice, WaitReqEvent, QueueEmpty, Idle
  <2> QED BY <1>a, <2>1
<1>2. CASE VolumeOnline \/ Reinitialize \/ RemoveStop \/ RemoveDelete \/ UNCHANGED vars
  BY <1>2 DEF VolumeOnline, Reinitialize, RemoveStop, RemoveDelete, vars
<1>3. CASE \E i \in Irps : DispatchReadWrite(i)
  BY <1>3 DEF DispatchReadWrite
<1>4. ASSUME NEW i \in Irps, LowerDevice(i), worker' # worker
      PROVE  \/ worker'.pc = "next"
             \/ /\ worker'.pc = "merge"
                /\ worker'.irp = worker.irp /\ worker'.fileBuf = worker.fileBuf
                /\ state[i] = "sync"
                /\ result' = [result EXCEPT ![i] = On(disk, SpanOf(i))]
  <2>1. \/ worker' = At("next", NoIrp)
        \/ /\ worker' = [worker EXCEPT !.pc = "merge"]
           /\ state[i] = "sync"
           /\ result' = [result EXCEPT ![i] = On(disk, SpanOf(i))]
    BY <1>4 DEF LowerDevice, Idle
  <2>2. worker' = [worker EXCEPT !.pc = "merge"] =>
          worker'.pc = "merge" /\ worker'.irp = worker.irp /\ worker'.fileBuf = worker.fileBuf
    BY <1>b
  <2> QED BY <1>a, <2>1, <2>2, Zenon
<1>5. CASE NextRequest
  <2>1. \/ worker' = At("next", NoIrp)
        \/ \E p \in {"readset", "readblend", "write"} :
             /\ worker' = At(p, Head(ReqList))
             /\ p = "readset" =>
                  /\ Bitmap # NoBitmap
                  /\ BitmapTest(Bitmap, request[Head(ReqList)].offset,
                                request[Head(ReqList)].length) = "SET"
    BY <1>5 DEF NextRequest, SendToNextDriver, CompleteRequest, Goto, Idle
  <2> QED BY <1>a, <1>5, <2>1
<1>6. CASE ReadTempFile
  <2>1. \/ worker' = At("next", NoIrp)
        \/ worker' = [worker EXCEPT !.pc = "lower", !.fileBuf = On(temp, SpanOf(worker.irp))]
    BY <1>6 DEF ReadTempFile, CompleteRequest, Idle
  <2>2. worker' = [worker EXCEPT !.pc = "lower", !.fileBuf = On(temp, SpanOf(worker.irp))] =>
          /\ worker'.pc = "lower" /\ worker'.irp = worker.irp
          /\ worker'.fileBuf = On(temp, SpanOf(worker.irp))
    BY <1>b
  <2> QED BY <1>a, <1>6, <2>1, <2>2
<1>7. CASE MergeBuffers \/ SetBitmap
  <2>1. worker' = At("next", NoIrp)
    BY <1>7 DEF MergeBuffers, SetBitmap, CompleteRequest, Idle
  <2> QED BY <1>a, <2>1
<1>8. CASE WriteTempFile
  <2>1. worker' = At("next", NoIrp) \/ worker' = [worker EXCEPT !.pc = "set"]
    BY <1>8 DEF WriteTempFile, CompleteRequest, Idle
  <2>2. worker' = [worker EXCEPT !.pc = "set"] => worker'.pc = "set" /\ worker'.irp = worker.irp
    BY <1>b
  <2> QED BY <1>a, <1>8, <2>1, <2>2
<1>9. CASE \E i \in Irps : LowerDevice(i)
  BY <1>4, <1>9, Zenon
<1> QED
  BY <1>1, <1>2, <1>3, <1>5, <1>6, <1>7, <1>8, <1>9 DEF Next, ReadWriteThread

\* Only the lower device ends a request with success beside the worker.
LEMMA NewPassed ==
    ASSUME Inv, QueueInv, [Next]_vars, NEW j \in Irps,
           state'[j] = "passed", state[j] # "passed"
    PROVE  LowerDevice(j) /\ state[j] \in {"below", "next", "sync"}
<1>1. state[j] \in {"below", "next"}
  BY Transitions DEF Moves
<1> QED BY <1>1, StateCauses DEF DispatchReadWrite

-----------------------------------------------------------------------------
(* Histories                                                               *)

LEMMA History ==
    ASSUME Inv, HistInv, [Next]_vars, NEW w \in Irps
    PROVE  /\ state[w] # "idle" => before'[w] = before[w]
           /\ \A j \in before'[w] : j \in Irps /\ state[j] \in Ended
<1> USE DEF Inv, HistInv
<1>1. CASE UNCHANGED before
  BY <1>1 DEF TypeOK
<1>2. ASSUME NEW i \in Irps, DispatchReadWrite(i)
      PROVE  /\ state[w] # "idle" => before'[w] = before[w]
             /\ \A j \in before'[w] : j \in Irps /\ state[j] \in Ended
  BY <1>2 DEF DispatchReadWrite, TypeOK
<1> QED BY <1>1, <1>2, Causes

\* A history holds requests that had ended.
LEMMA HistStep ==
    ASSUME Inv, QueueInv, HistInv, [Next]_vars
    PROVE  HistInv'
  BY History, EndedIsFinal DEF HistInv

\* Every step keeps what holds until protection is on.
LEMMA EarlyStep ==
    ASSUME "online" \notin Faults, Inv, QueueInv, HistInv, EarlyInv, [Next]_vars
    PROVE  EarlyInv'
<1> USE DEF Inv, EarlyInv
<1>1. ~ Protect' => ~ Protect
  BY Causes, Zenon DEF Reinitialize
<1>2. ASSUME ~ Protect', NEW i \in Irps
      PROVE  state'[i] \notin {"queued", "worker", "next", "sync", "done"}
  <2>1. state[i] \notin {"queued", "worker", "next", "sync", "done"}
    BY <1>1, <1>2
  <2>2. CASE state'[i] = state[i]
    BY <2>1, <2>2
  <2>3. CASE state'[i] # state[i]
    <3>1. DispatchReadWrite(i) \/ LowerDevice(i)
      BY <2>1, <2>3, StateCauses
    <3>2. CASE DispatchReadWrite(i)
      BY <1>1, <1>2, <3>2 DEF DispatchReadWrite, TypeOK
    <3>3. CASE LowerDevice(i)
      BY <2>1, <3>3 DEF LowerDevice, TypeOK
    <3> QED BY <3>1, <3>2, <3>3
  <2> QED BY <2>2, <2>3
<1>3. ASSUME Protect'
      PROVE  Bitmap' # NoBitmap
  <2>1. CASE Reinitialize
    BY <2>1 DEF Reinitialize
  <2>2. CASE Protect /\ UNCHANGED Bitmap
    BY <2>2
  <2>3. CASE Protect /\ VolumeOnline
    BY <2>3 DEF VolumeOnline, Fails
  <2>4. CASE SetBitmap
    <3>1. worker.irp \in Irps
      BY <2>4 DEF SetBitmap, WorkerInv
    <3>2. /\ request[worker.irp].offset \in Nat /\ request[worker.irp].length \in Nat
          /\ Bitmap # NoBitmap => Bitmap \in Bitmaps
      BY <3>1, RequestFacts DEF TypeOK
    <3>3. \/ UNCHANGED <<Bitmap, Protect>>
          \/ Bitmap # NoBitmap /\ Bitmap' = BitmapSet(Bitmap, request[worker.irp].offset, request[worker.irp].length)
          \/ Bitmap # NoBitmap /\ \E r : Bitmap' = BitmapSetFailed(Bitmap, request[worker.irp].offset, r)
      BY <2>4, Zenon DEF SetBitmap
    <3>4. UNCHANGED Protect
      BY <2>4 DEF SetBitmap
    <3>5. Bitmap # NoBitmap /\ Bitmap \in Bitmaps /\ NoBitmap \notin Bitmaps
      BY <1>3, <3>2, <3>4, DPAssumption
    <3>6. BitmapSet(Bitmap, request[worker.irp].offset, request[worker.irp].length) \in Bitmaps
      BY <3>2, <3>5, SetType
    <3>7. \A r : BitmapSetFailed(Bitmap, request[worker.irp].offset, r) \in Bitmaps
      BY <3>5, RegionsGiven DEF BitmapSetFailed
    <3> QED BY <3>3, <3>5, <3>6, <3>7
  <2> QED BY <1>3, <2>1, <2>2, <2>3, <2>4, Causes, BitmapMoves, Zenon
<1>4. ASSUME NEW i \in Irps, state'[i] = "below", NEW w \in before'[i]
      PROVE  state'[w] # "done"
  <2>1. w \in Irps /\ state[w] \in Ended /\ state'[w] = state[w]
    BY <1>4, History, EndedIsFinal
  <2>2. CASE state[i] = "below"
    BY <1>4, <2>1, <2>2, History
  <2>3. CASE state[i] # "below"
    <3>1. state[i] = "idle"
      BY <1>4, <2>3, Transitions DEF Moves
    <3>2. DispatchReadWrite(i)
      BY <1>4, <3>1, StateCauses DEF LowerDevice
    <3>3. ~ Protect
      BY <1>4, <3>2 DEF DispatchReadWrite, TypeOK
    <3> QED BY <2>1, <3>3
  <2> QED BY <2>2, <2>3
<1> QED BY <1>2, <1>3, <1>4

-----------------------------------------------------------------------------
(* The disk                                                                *)

\* What the lower device makes of a write: all of its range if it succeeds.
LEMMA LowerWrite ==
    ASSUME Inv, NEW i \in Irps, LowerDevice(i), Op(i) = "WRITE"
    PROVE  \E S \in SUBSET SpanOf(i) :
             /\ disk' = Put(disk, S, i)
             /\ state'[i] = "passed" => S = SpanOf(i)
<1>1. /\ request[i].offset \in Nat /\ request[i].length \in Nat
  BY RequestFacts DEF Inv
<1>2. \A S \in PartsOf(i) : S \subseteq SpanOf(i)
  BY <1>1 DEF PartsOf, SpanOf, Span
<1>3. \/ disk' = Put(disk, SpanOf(i), i)
      \/ /\ state' = [state EXCEPT ![i] = "failed"]
         /\ \E S \in PartsOf(i) : disk' = Put(disk, S, i)
  BY Zenon DEF LowerDevice
<1>4. CASE disk' = Put(disk, SpanOf(i), i)
  BY <1>4
<1>5. CASE /\ state' = [state EXCEPT ![i] = "failed"]
           /\ \E S \in PartsOf(i) : disk' = Put(disk, S, i)
  <2>1. state'[i] # "passed"
    BY <1>5 DEF Inv, TypeOK
  <2> QED BY <1>2, <1>5, <2>1
<1> QED BY <1>3, <1>4, <1>5

\* Every step keeps the disk current by itself ...
LEMMA DiskStep ==
    ASSUME Basis, HistInv, DiskInv, [Next]_vars
    PROVE  DiskInv'
<1> USE DEF Basis
<1> SUFFICES ASSUME NEW s \in Sectors
             PROVE  /\ From(disk'[s], s)
                    /\ \A w \in Irps : Writes(w, s) /\ state'[w] = "passed"
                                       => NotOlder(disk'[s], w, before'[w])
  BY RequestIsConstant DEF DiskInv, From, NotOlder, Writes, Op, SpanOf
<1>1. disk[s] \in Irps \cup {Original}
  BY DEF Inv, TypeOK
\* The sector is as before, or has the content of a write under way.
<1>2. \/ /\ disk'[s] = disk[s]
         /\ \A w \in Irps : LowerDevice(w) => ~ Writes(w, s) \/ state'[w] # "passed"
      \/ \E i \in Irps : disk'[s] = i /\ Writes(i, s) /\ state[i] \notin Ended
  <2>1. CASE \E i \in Irps : LowerDevice(i) /\ Op(i) = "WRITE"
    <3>1. PICK i \in Irps : LowerDevice(i) /\ Op(i) = "WRITE"
      BY <2>1
    <3>2. state[i] \notin Ended
      BY <3>1 DEF LowerDevice, Ended
    <3>3. PICK S \in SUBSET SpanOf(i) :
                 /\ disk' = Put(disk, S, i)
                 /\ state'[i] = "passed" => S = SpanOf(i)
      BY <3>1, LowerWrite
    <3>4. disk'[s] = IF s \in S THEN i ELSE disk[s]
      BY <3>3 DEF Put, Inv, TypeOK
    <3>5. CASE s \in S
      BY <3>1, <3>2, <3>3, <3>4, <3>5 DEF Writes
    <3>6. CASE s \notin S
      <4>1. \A w \in Irps : LowerDevice(w) => w = i
        <5> SUFFICES ASSUME NEW w \in Irps, LowerDevice(w), w # i PROVE FALSE
          OBVIOUS
        <5>1. state'[i] # state[i]
          BY <3>1 DEF LowerDevice, Inv, TypeOK
        <5>2. state'[i] = state[i]
          BY DEF LowerDevice, Inv, TypeOK
        <5> QED BY <5>1, <5>2
      <4>2. state'[i] = "passed" => ~ Writes(i, s)
        BY <3>3, <3>6 DEF Writes
      <4> QED BY <3>4, <3>6, <4>1, <4>2
    <3> QED BY <3>5, <3>6
  <2>2. CASE ~ \E i \in Irps : LowerDevice(i) /\ Op(i) = "WRITE"
    <3>1. UNCHANGED disk
      BY <2>2, Causes DEF LowerDevice
    <3> QED BY <2>2, <3>1 DEF Writes
  <2> QED BY <2>1, <2>2
<1>3. From(disk'[s], s)
  BY <1>2 DEF DiskInv, From
<1>4. ASSUME NEW w \in Irps, Writes(w, s), state'[w] = "passed"
      PROVE  NotOlder(disk'[s], w, before'[w])
  <2>2. disk'[s] \in Irps /\ state[disk'[s]] \notin Ended => NotOlder(disk'[s], w, before'[w])
    BY History, DPAssumption DEF NotOlder
  <2>3. CASE state[w] = "passed"
    <3>1. NotOlder(disk[s], w, before[w]) /\ before'[w] = before[w]
      BY <1>4, <2>3, History DEF DiskInv
    <3>2. disk'[s] = disk[s] => NotOlder(disk'[s], w, before'[w])
      BY <3>1 DEF NotOlder
    <3> QED BY <1>2, <2>2, <3>2
  <2>4. CASE state[w] # "passed"
    <3>1. LowerDevice(w)
      BY <1>4, <2>4, NewPassed
    <3>2. disk'[s] = w => NotOlder(disk'[s], w, before'[w])
      BY DEF NotOlder
    <3> QED BY <1>2, <1>4, <2>2, <3>1, <3>2
  <2> QED BY <2>3, <2>4
<1> QED BY <1>3, <1>4

-----------------------------------------------------------------------------
(* The temporary file                                                      *)

\* What the worker has written, or has begun to, is under way.
LEMMA FileWrite ==
    ASSUME Inv, QueueInv, WriteTempFile
    PROVE  /\ worker.irp \in Irps /\ Op(worker.irp) = "WRITE"
           /\ state[worker.irp] = "worker"
           /\ \E S \in SUBSET SpanOf(worker.irp) :
                /\ temp' = Put(temp, S, worker.irp)
                /\ worker'.pc = "set" => S = SpanOf(worker.irp)
<1> DEFINE i == worker.irp
<1>1. worker.irp \in Irps /\ Op(worker.irp) = "WRITE" /\ state[worker.irp] = "worker"
  BY DEF WriteTempFile, Inv, WorkerInv, QueueInv
<1>2. \A S \in PartsOf(i) : S \subseteq SpanOf(i)
  <2>1. request[i].offset \in Nat /\ request[i].length \in Nat
    BY <1>1, RequestFacts DEF Inv
  <2> QED BY <2>1 DEF PartsOf, SpanOf, Span
<1>3. \/ temp' = Put(temp, SpanOf(i), i)
      \/ /\ worker' = At("next", NoIrp)
         /\ \E S \in PartsOf(i) : temp' = Put(temp, S, i)
  BY Zenon DEF WriteTempFile, CompleteRequest, Idle
<1>4. worker' = At("next", NoIrp) => worker'.pc # "set"
  BY DEF At
<1> QED BY <1>1, <1>2, <1>3, <1>4

\* A sector of the file is as before, or blank since protection begins with
\* this step, or has the content of a write under way.
LEMMA TempSector ==
    ASSUME Basis, EarlyInv, [Next]_vars, NEW s \in Sectors
    PROVE  \/ temp'[s] = temp[s]
           \/ temp'[s] = Blank /\ Reinitialize /\ ~ Protect
           \/ \E i \in Irps : temp'[s] = i /\ Writes(i, s) /\ state[i] \notin Ended /\ Protect
<1> USE DEF Basis
<1>1. CASE Reinitialize
  BY <1>1 DEF Reinitialize
<1>2. CASE WriteTempFile
  <2>1. PICK S \in SUBSET SpanOf(worker.irp) : temp' = Put(temp, S, worker.irp)
    BY <1>2, FileWrite
  <2>2. /\ worker.irp \in Irps /\ Op(worker.irp) = "WRITE"
        /\ state[worker.irp] = "worker"
    BY <1>2, FileWrite
  <2>3. temp'[s] = IF s \in S THEN worker.irp ELSE temp[s]
    BY <2>1 DEF Put, Inv, TypeOK
  <2>4. Protect
    BY <2>2 DEF EarlyInv, Inv, TypeOK
  <2> QED BY <2>1, <2>2, <2>3, <2>4 DEF Writes, Ended
<1> QED BY <1>1, <1>2, Causes

\* ... and the file, where the bitmap says it counts.
LEMMA TempStep ==
    ASSUME "online" \notin Faults, Basis, HistInv, EarlyInv, TempInv, [Next]_vars
    PROVE  TempInv'
<1> USE DEF Basis
<1> SUFFICES ASSUME NEW s \in Sectors
             PROVE
        /\ temp'[s] = Blank \/ (temp'[s] \in Irps /\ Writes(temp'[s], s))
        /\ Bitmap' # NoBitmap /\ IsSet(Bitmap', s) => temp'[s] # Blank
        /\ Protect' => \A w \in Irps :
             state'[w] \in {"below", "passed"} /\ Op(w) = "WRITE" => temp'[s] \notin before'[w]
        /\ \A w \in Irps : Writes(w, s) /\ state'[w] = "done" => NotOlder(temp'[s], w, before'[w])
        /\ worker'.pc = "set" /\ s \in SpanOf(worker'.irp) => temp'[s] = worker'.irp
  BY RequestIsConstant DEF TempInv, NotOlder, Writes, Op, SpanOf
<1>a. Blank \notin Irps /\ Original \notin Irps
  BY DPAssumption
<1>b. \/ temp'[s] = temp[s]
      \/ temp'[s] = Blank /\ Reinitialize /\ ~ Protect
      \/ \E i \in Irps : temp'[s] = i /\ Writes(i, s) /\ state[i] \notin Ended /\ Protect
  BY TempSector
\* When a write is completed, its content is there.
<1>c. ASSUME NEW w \in Irps, Writes(w, s), state'[w] = "done", state[w] # "done"
      PROVE  temp'[s] = w
  <2>1. SetBitmap /\ w = worker.irp
    BY <1>c, NewDone DEF Writes
  <2>2. temp'[s] = temp[s] /\ worker.pc = "set"
    BY <2>1 DEF SetBitmap, store
  <2> QED BY <1>c, <2>1, <2>2 DEF TempInv, Writes
\* What was completed before has been so since protection began.
<1>d. ASSUME NEW w \in Irps, state[w] = "done"
      PROVE  Protect
  BY <1>d DEF EarlyInv
<1>1. temp'[s] = Blank \/ (temp'[s] \in Irps /\ Writes(temp'[s], s))
  BY <1>b DEF TempInv
<1>2. ASSUME Bitmap' # NoBitmap, IsSet(Bitmap', s)
      PROVE  temp'[s] # Blank
  <2>1. PICK w \in Irps : state'[w] = "done" /\ Writes(w, s)
    <3>1. ExactInv'
      BY ExactStep
    <3>2. \E w \in Irps : state'[w] = "done" /\ Writes(w, s)'
      BY <1>2, <3>1 DEF ExactInv
    <3> QED BY <3>2, SameRequests
  <2>2. CASE state[w] = "done"
    <3>1. Bitmap # NoBitmap /\ IsSet(Bitmap, s)
      BY <2>1, <2>2 DEF ExactInv
    <3>2. temp[s] # Blank /\ Protect
      BY <2>2, <1>d, <3>1 DEF TempInv
    <3> QED BY <1>a, <1>b, <3>2
  <2>3. CASE state[w] # "done"
    BY <1>a, <1>c, <2>1, <2>3
  <2> QED BY <2>2, <2>3
<1>3. ASSUME Protect', NEW w \in Irps, state'[w] \in {"below", "passed"}, Op(w) = "WRITE"
      PROVE  temp'[s] \notin before'[w]
  <2>1. \A j \in before'[w] : j \in Irps /\ state[j] \in Ended
    BY History
  <2>2. CASE temp'[s] # temp[s]
    BY <1>a, <1>b, <2>1, <2>2
  <2>3. CASE temp'[s] = temp[s] /\ ~ Protect
    <3>1. temp'[s] = Blank
      BY <1>3, <2>3, Causes DEF Reinitialize
    <3> QED BY <1>a, <2>1, <3>1
  <2>4. CASE temp'[s] = temp[s] /\ Protect
    <3>1. state[w] \in {"below", "passed"}
      <4>1. CASE state'[w] = state[w]
        BY <1>3, <4>1
      <4>2. CASE state'[w] # state[w] /\ state'[w] = "below"
        <5>1. state[w] = "idle"
          BY <4>2, Transitions DEF Moves
        <5>2. DispatchReadWrite(w)
          BY <4>2, <5>1, StateCauses DEF LowerDevice
        <5> QED BY <2>4, <4>2, <5>2 DEF DispatchReadWrite, Inv, TypeOK
      <4>3. CASE state'[w] # state[w] /\ state'[w] = "passed"
        BY <1>3, <4>3, Transitions DEF Moves, SentInv
      <4> QED BY <1>3, <4>1, <4>2, <4>3
    <3>2. temp[s] \notin before[w] /\ before'[w] = before[w]
      BY <1>3, <2>4, <3>1, History DEF TempInv
    <3> QED BY <2>4, <3>2
  <2> QED BY <2>2, <2>3, <2>4
<1>4. ASSUME NEW w \in Irps, Writes(w, s), state'[w] = "done"
      PROVE  NotOlder(temp'[s], w, before'[w])
  <2>1. CASE state[w] = "done"
    <3>1. NotOlder(temp[s], w, before[w]) /\ before'[w] = before[w]
      BY <1>4, <2>1, History DEF TempInv
    <3>2. \A j \in before'[w] : j \in Irps /\ state[j] \in Ended
      BY History
    <3>3. Protect
      BY <1>d, <2>1
    <3> QED BY <1>a, <1>b, <3>1, <3>2, <3>3 DEF NotOlder
  <2>2. CASE state[w] # "done"
    BY <1>4, <1>c, <2>2 DEF NotOlder
  <2> QED BY <2>1, <2>2
<1>5. ASSUME worker'.pc = "set", s \in SpanOf(worker'.irp)
      PROVE  temp'[s] = worker'.irp
  <2>1. CASE WriteTempFile
    <3>1. PICK S \in SUBSET SpanOf(worker.irp) :
                 /\ temp' = Put(temp, S, worker.irp)
                 /\ worker'.pc = "set" => S = SpanOf(worker.irp)
      BY <2>1, FileWrite
    <3>2. worker'.irp = worker.irp
      BY <1>5, WorkerCauses
    <3>3. temp'[s] = IF s \in S THEN worker.irp ELSE temp[s]
      BY <3>1 DEF Put, Inv, TypeOK
    <3> QED BY <1>5, <3>1, <3>2, <3>3
  <2>2. CASE ~ WriteTempFile
    <3>1. UNCHANGED worker
      BY <1>5, <2>2, WorkerCauses
    <3>2. worker.irp \in Irps /\ state[worker.irp] = "worker"
      BY <1>5, <3>1 DEF Inv, WorkerInv, QueueInv
    <3>3. Protect
      BY <3>2 DEF EarlyInv
    <3>4. UNCHANGED temp
      BY <2>2, <3>3, Causes DEF Reinitialize
    <3> QED BY <1>5, <3>1, <3>4 DEF TempInv
  <2> QED BY <2>1, <2>2
<1> QED BY <1>1, <1>2, <1>3, <1>4, <1>5

-----------------------------------------------------------------------------
(* Reads under way                                                         *)

LEMMA WorkerIsProtecting ==
    ASSUME QueueInv, EarlyInv, worker.irp \in Irps
    PROVE  Protect /\ Bitmap # NoBitmap
<1>1. state[worker.irp] \in {"worker", "sync"}
  BY DEF QueueInv
<1> QED BY <1>1 DEF EarlyInv

\* The bitmap does not change under a request but by the worker's own step ...
LEMMA BitmapKept ==
    ASSUME "online" \notin Faults, EarlyInv, Protect, worker.pc # "set", [Next]_vars
    PROVE  UNCHANGED Bitmap
  BY BitmapMoves DEF EarlyInv, VolumeOnline, SetBitmap, Fails

\* ... nor does the file.
LEMMA TempKept ==
    ASSUME Protect, worker.pc # "write", [Next]_vars
    PROVE  UNCHANGED temp
  BY Causes DEF Reinitialize, WriteTempFile

\* What a read returns is put there by the lower device or the worker.
LEMMA ResultCauses ==
    ASSUME Inv, [Next]_vars, NEW r \in Irps, result'[r] # result[r]
    PROVE  LowerDevice(r) \/ ((ReadTempFile \/ MergeBuffers) /\ r = worker.irp)
<1> USE DEF Inv
<1>1. ASSUME NEW i \in Irps, LowerDevice(i)
      PROVE  r = i
  BY <1>1 DEF LowerDevice, TypeOK
<1>2. CASE ReadTempFile
  <2>1. UNCHANGED result \/ result' = [result EXCEPT ![worker.irp] = On(temp, SpanOf(worker.irp))]
    BY <1>2 DEF ReadTempFile
  <2> QED BY <1>2, <2>1 DEF TypeOK
<1>3. CASE MergeBuffers
  <2>1. \/ UNCHANGED result
        \/ result' = [result EXCEPT ![worker.irp] =
                        BitmapGet(Bitmap, result[worker.irp], worker.fileBuf)]
    BY <1>3 DEF MergeBuffers
  <2> QED BY <1>3, <2>1 DEF TypeOK
<1> QED BY <1>1, <1>2, <1>3, Causes

\* A part of a store holds what the store does.
LEMMA OnFacts ==
    ASSUME Inv, NEW i \in Irps, NEW s \in SpanOf(i)
    PROVE  /\ s \in Sectors
           /\ On(disk, SpanOf(i))[s] = disk[s]
           /\ On(temp, SpanOf(i))[s] = temp[s]
  BY RequestFacts DEF On, Inv

\* Every step keeps what a read under way has found current.
LEMMA ReadStep ==
    ASSUME "online" \notin Faults, "mapping" \notin Faults,
           Basis, HistInv, EarlyInv, DiskInv, TempInv, ReadInv, [Next]_vars
    PROVE  ReadInv'
<1> USE DEF Basis
<1> SUFFICES
      /\ worker'.pc = "readset" => \A s \in SpanOf(worker'.irp) : IsSet(Bitmap', s)
      /\ worker'.pc \in {"lower", "merge"} => worker'.fileBuf = On(temp', SpanOf(worker'.irp))
      /\ worker'.pc = "merge" =>
           \A s \in SpanOf(worker'.irp) :
             /\ From(result'[worker'.irp][s], s)
             /\ \A w \in before'[worker'.irp] :
                  Writes(w, s) /\ state'[w] = "passed"
                    => NotOlder(result'[worker'.irp][s], w, before'[w])
      /\ \A r \in Irps : state'[r] = "next" =>
           \A w \in before'[r], s \in SpanOf(r) : ~ (state'[w] = "done" /\ Writes(w, s))
  BY RequestIsConstant DEF ReadInv, From, NotOlder, Writes, Op, SpanOf
<1>a. worker.irp \in Irps => Protect /\ Bitmap # NoBitmap
  BY WorkerIsProtecting
\* What the worker had in hand is as it was.
<1>b. ASSUME worker' = worker, worker.pc \in {"readset", "lower", "merge"}
      PROVE  UNCHANGED <<Bitmap, temp>> /\ worker.irp \in Irps
  <2>1. worker.irp \in Irps
    BY <1>b DEF Inv, WorkerInv
  <2> QED BY <1>a, <1>b, <2>1, BitmapKept, TempKept
<1>c. \A pc, i : At(pc, i).pc = pc /\ At(pc, i).irp = i
  BY DEF At
<1>e. \A i \in Irps : state[i] = "sync" =>
         worker.pc = "lower" /\ worker.irp = i /\ Op(i) = "READ"
  BY DEF Inv, WorkerInv
<1>1. ASSUME worker'.pc = "readset", NEW s \in SpanOf(worker'.irp)
      PROVE  IsSet(Bitmap', s)
  <2>1. CASE worker' = worker
    BY <1>1, <1>b, <2>1 DEF ReadInv
  <2>2. CASE worker' # worker
    <3>1. /\ NextRequest
          /\ worker'.irp = Head(ReqList)
          /\ Bitmap # NoBitmap
          /\ BitmapTest(Bitmap, request[Head(ReqList)].offset,
                        request[Head(ReqList)].length) = "SET"
      BY <1>1, <2>2, WorkerCauses
    <3>2. UNCHANGED Bitmap
      BY <3>1 DEF NextRequest, volume
    <3>3. s \in Span(request[Head(ReqList)].offset, request[Head(ReqList)].length)
      BY <1>1, <3>1 DEF SpanOf
    <3> QED BY <3>1, <3>2, <3>3 DEF BitmapTest
  <2> QED BY <2>1, <2>2
<1>2. ASSUME worker'.pc \in {"lower", "merge"}
      PROVE  worker'.fileBuf = On(temp', SpanOf(worker'.irp))
  <2>1. CASE worker' = worker
    BY <1>2, <1>b, <2>1 DEF ReadInv
  <2>2. CASE worker' # worker
    <3>1. /\ worker'.irp = worker.irp
          /\ \/ ReadTempFile /\ worker'.fileBuf = On(temp, SpanOf(worker.irp))
             \/ /\ worker'.fileBuf = worker.fileBuf
                /\ \E i \in Irps : LowerDevice(i) /\ state[i] = "sync"
      BY <1>2, <2>2, WorkerCauses
    <3>2. CASE ReadTempFile /\ worker'.fileBuf = On(temp, SpanOf(worker.irp))
      <4>1. UNCHANGED temp
        BY <3>2 DEF ReadTempFile, store
      <4> QED BY <3>1, <3>2, <4>1
    <3>3. ASSUME NEW i \in Irps, LowerDevice(i), state[i] = "sync",
                 worker'.fileBuf = worker.fileBuf
          PROVE  worker'.fileBuf = On(temp', SpanOf(worker'.irp))
      <4>1. UNCHANGED temp
        BY <3>3 DEF LowerDevice
      <4> QED BY <1>e, <3>1, <3>3, <4>1 DEF ReadInv
    <3> QED BY <3>1, <3>2, <3>3
  <2> QED BY <2>1, <2>2
<1>3. ASSUME worker'.pc = "merge", NEW s \in SpanOf(worker'.irp)
      PROVE  /\ From(result'[worker'.irp][s], s)
             /\ \A w \in before'[worker'.irp] :
                  Writes(w, s) /\ state'[w] = "passed"
                    => NotOlder(result'[worker'.irp][s], w, before'[w])
  <2>0. ASSUME NEW i \in Irps, state[i] # "idle", NEW v, From(v, s),
               \A w \in before[i] : Writes(w, s) /\ state[w] = "passed" => NotOlder(v, w, before[w])
        PROVE  \A w \in before'[i] : Writes(w, s) /\ state'[w] = "passed" => NotOlder(v, w, before'[w])
    <3>1. before'[i] = before[i]
      BY <2>0, History
    <3>2. \A w \in before[i] : w \in Irps /\ state[w] \in Ended
      BY <3>1, History
    <3>3. \A w \in before[i] : state'[w] = state[w] /\ before'[w] = before[w]
      BY <3>2, History, EndedIsFinal DEF Ended
    <3> QED BY <2>0, <3>1, <3>3
  <2>1. CASE worker' = worker
    <3>1. worker.irp \in Irps /\ worker.pc = "merge" /\ state[worker.irp] = "worker"
      BY <1>3, <1>b, <2>1 DEF QueueInv
    <3>2. result'[worker.irp] = result[worker.irp]
      <4>1. ~ LowerDevice(worker.irp)
        BY <3>1 DEF LowerDevice
      <4>2. ~ ReadTempFile
        BY <3>1 DEF ReadTempFile
      <4>3. ~ MergeBuffers
        <5>1. MergeBuffers => worker' = At("next", NoIrp)
          BY DEF MergeBuffers, CompleteRequest, Idle
        <5> QED BY <1>3, <1>c, <5>1
      <4> QED BY <3>1, <4>1, <4>2, <4>3, ResultCauses
    <3>3. /\ From(result[worker.irp][s], s)
          /\ \A w \in before[worker.irp] : Writes(w, s) /\ state[w] = "passed"
               => NotOlder(result[worker.irp][s], w, before[w])
      BY <1>3, <2>1, <3>1 DEF ReadInv
    <3> QED BY <2>0, <2>1, <3>1, <3>2, <3>3
  <2>2. CASE worker' # worker
    <3>1. PICK i \in Irps :
            /\ LowerDevice(i) /\ state[i] = "sync"
            /\ worker'.irp = worker.irp
            /\ result' = [result EXCEPT ![i] = On(disk, SpanOf(i))]
      BY <1>3, <2>2, WorkerCauses
    <3>2. worker'.irp = i
      BY <1>e, <3>1
    <3>3. result'[i][s] = disk[s] /\ s \in Sectors
      BY <1>3, <3>1, <3>2, OnFacts DEF Inv, TypeOK
    <3>4. \A w \in before[i] : w \in Irps
      BY DEF Inv, TypeOK
    <3>5. /\ From(disk[s], s)
          /\ \A w \in before[i] : Writes(w, s) /\ state[w] = "passed"
                                => NotOlder(disk[s], w, before[w])
      BY <3>3, <3>4 DEF DiskInv
    <3> QED BY <2>0, <3>1, <3>2, <3>3, <3>5
  <2> QED BY <2>1, <2>2
<1>4. ASSUME NEW r \in Irps, state'[r] = "next", NEW w \in before'[r], NEW s \in SpanOf(r),
             state'[w] = "done", Writes(w, s)
      PROVE  FALSE
  <2>1. w \in Irps /\ state[w] = "done"
    BY <1>4, History, EndedIsFinal
  <2>2. CASE state[r] = "next"
    BY <1>4, <2>1, <2>2, History DEF ReadInv
  <2>3. CASE state[r] # "next"
    <3>1. state[r] = "queued"
      BY <1>4, <2>3, Transitions DEF Moves
    <3>2. NextRequest /\ r = Head(ReqList)
      BY <1>4, <3>1, StateCauses DEF DispatchReadWrite, LowerDevice
    <3>3. Protect
      BY <3>1 DEF EarlyInv
    <3>4. BitmapTest(Bitmap, request[r].offset, request[r].length) = "CLEAR"
      <4>1. \/ /\ Bitmap # NoBitmap
               /\ BitmapTest(Bitmap, request[r].offset, request[r].length) = "CLEAR"
            \/ \E t \in {"worker", "failed"} : state' = [state EXCEPT ![r] = t]
        BY <3>2 DEF NextRequest, SendToNextDriver, CompleteRequest, Goto, Fails
      <4>2. ASSUME NEW t \in {"worker", "failed"}, state' = [state EXCEPT ![r] = t]
            PROVE  FALSE
        BY <1>4, <4>2 DEF Inv, TypeOK
      <4> QED BY <4>1, <4>2
    <3>5. ~ IsSet(Bitmap, s)
      BY <1>4, <3>4 DEF BitmapTest, SpanOf
    <3>6. s \in Sectors
      BY <1>4, OnFacts
    <3> QED BY <1>4, <2>1, <3>5, <3>6 DEF ExactInv
  <2> QED BY <2>2, <2>3
<1> QED BY <1>1, <1>2, <1>3, <1>4

-----------------------------------------------------------------------------
(* Reads that have ended                                                   *)

\* ReadsAreCurrent of one read, without Overwritten's double negation.
CurrentRead(r) ==
    /\ DOMAIN result[r] = SpanOf(r)
    /\ \A s \in SpanOf(r) :
         /\ From(result[r][s], s)
         /\ \A w \in before[r] : Writes(w, s) /\ Succeeded(w)
                               => NotOlder(result[r][s], w, before[w])

\* The property, said of one read at a time.
LEMMA CurrentReads ==
    ReadsAreCurrent <=> \A r \in Irps : Op(r) = "READ" /\ Succeeded(r) => CurrentRead(r)
  BY DEF ReadsAreCurrent, CurrentRead, Overwritten, From, NotOlder

\* The disk is current for a read that begins before the file hides it.
LEMMA DiskIsCurrent ==
    ASSUME DiskInv, NEW s \in Sectors, NEW h \in SUBSET Irps,
           \A w \in h : ~ (state[w] = "done" /\ Writes(w, s))
    PROVE  /\ From(disk[s], s)
           /\ \A w \in h : Writes(w, s) /\ Succeeded(w) => NotOlder(disk[s], w, before[w])
  BY DEF DiskInv, Succeeded

\* The file is current where the bitmap says it is there.
LEMMA TempIsCurrent ==
    ASSUME TempInv, Protect, Bitmap # NoBitmap, NEW s \in Sectors, IsSet(Bitmap, s)
    PROVE  /\ From(temp[s], s)
           /\ \A w \in Irps : Writes(w, s) /\ Succeeded(w) => NotOlder(temp[s], w, before[w])
  BY DPAssumption DEF TempInv, From, NotOlder, Succeeded, Writes

\* A read that ends returns what it has found.
LEMMA CurrentStep ==
    ASSUME Basis, HistInv, EarlyInv, DiskInv, TempInv, ReadInv, ReadsAreCurrent, [Next]_vars
    PROVE  ReadsAreCurrent'
<1> USE DEF Basis
<1> DEFINE now(r) ==
             /\ DOMAIN result'[r] = SpanOf(r)
             /\ \A s \in SpanOf(r) :
                  /\ From(result'[r][s], s)
                  /\ \A w \in before[r] : Writes(w, s) /\ Succeeded(w)
                                        => NotOlder(result'[r][s], w, before[w])
\* It is enough to look at what the read returns now, with the past it had.
<1>a. ASSUME NEW r \in Irps, state[r] # "idle", now(r)
      PROVE  CurrentRead(r)'
  <2>1. before'[r] = before[r] /\ \A w \in before[r] : w \in Irps /\ state[w] \in Ended
    BY <1>a, History
  <2>2. \A w \in before[r] : state'[w] = state[w] /\ before'[w] = before[w]
    BY <2>1, History, EndedIsFinal DEF Ended
  <2>3. \A w \in before[r] : Succeeded(w)' <=> Succeeded(w)
    BY <2>2 DEF Succeeded
  <2> QED BY <1>a, <2>1, <2>2, <2>3, RequestIsConstant
          DEF CurrentRead, From, NotOlder, Writes, Op, SpanOf
<1>b. \A r \in Irps : before[r] \in SUBSET Irps
  BY DEF Inv, TypeOK
<1> SUFFICES ASSUME NEW r \in Irps, Op(r) = "READ", Succeeded(r)'
             PROVE  CurrentRead(r)'
  <2>1. (\A r \in Irps : Op(r) = "READ" /\ Succeeded(r) => CurrentRead(r))' => ReadsAreCurrent'
    BY CurrentReads, PTL
  <2> QED BY <2>1, SameRequests
<1>1. CASE Succeeded(r)
  <2>1. state[r] \in Ended
    BY <1>1 DEF Succeeded, Ended
  <2>2. result'[r] = result[r]
    <3>1. ~ LowerDevice(r)
      BY <2>1 DEF LowerDevice, Ended
    <3>2. ReadTempFile \/ MergeBuffers => worker.irp # r
      BY <2>1 DEF ReadTempFile, MergeBuffers, Inv, WorkerInv, QueueInv, Ended
    <3> QED BY <3>1, <3>2, ResultCauses
  <2>3. CurrentRead(r)
    BY <1>1, CurrentReads
  <2>4. state[r] # "idle"
    BY <2>1 DEF Ended
  <2> QED BY <1>a, <2>2, <2>3, <2>4 DEF CurrentRead
<1>2. CASE ~ Succeeded(r) /\ state'[r] = "passed"
  <2>1. LowerDevice(r) /\ state[r] \in {"below", "next", "sync"}
    BY <1>2, NewPassed DEF Succeeded
  <2>2. state[r] # "sync"
    BY <1>2, <2>1, Transitions DEF Moves
  <2>3. result'[r] = On(disk, SpanOf(r))
    BY <1>2, <2>1, <2>2 DEF LowerDevice, Inv, TypeOK
  <2>4. \A w \in before[r], s \in SpanOf(r) : ~ (state[w] = "done" /\ Writes(w, s))
    BY <2>1, <2>2 DEF EarlyInv, ReadInv
  <2>5. now(r)
    <3>1. DOMAIN result'[r] = SpanOf(r)
      BY <2>3 DEF On
    <3>2. ASSUME NEW s \in SpanOf(r)
          PROVE  /\ From(result'[r][s], s)
                 /\ \A w \in before[r] : Writes(w, s) /\ Succeeded(w)
                                       => NotOlder(result'[r][s], w, before[w])
      <4>1. result'[r][s] = disk[s] /\ s \in Sectors
        BY <2>3, OnFacts
      <4> QED BY <1>b, <2>4, <4>1, DiskIsCurrent
    <3> QED BY <3>1, <3>2
  <2> QED BY <1>a, <2>1, <2>5
<1>3. CASE ~ Succeeded(r) /\ state'[r] = "done"
  <2>1. state[r] = "worker"
    BY <1>3, Transitions DEF Moves, Succeeded
  <2>2. /\ ReadTempFile \/ MergeBuffers \/ WriteTempFile \/ SetBitmap
        /\ r = worker.irp
    BY <1>3, <2>1, StateCauses DEF DispatchReadWrite, LowerDevice
  <2>3. ReadTempFile \/ MergeBuffers
    BY <2>2 DEF WriteTempFile, SetBitmap, Inv, WorkerInv
  <2>4. Protect /\ Bitmap # NoBitmap
    BY <2>2, WorkerIsProtecting
  <2>5. CASE ReadTempFile
    <3>1. worker.pc = "readset" /\ result' = [result EXCEPT ![r] = On(temp, SpanOf(r))]
      BY <1>3, <2>2, <2>5 DEF ReadTempFile, CompleteRequest, Inv, TypeOK
    <3>2. result'[r] = On(temp, SpanOf(r))
      BY <3>1 DEF Inv, TypeOK
    <3>3. now(r)
      <4>1. DOMAIN result'[r] = SpanOf(r)
        BY <3>2 DEF On
      <4>2. ASSUME NEW s \in SpanOf(r)
            PROVE  /\ From(result'[r][s], s)
                   /\ \A w \in before[r] : Writes(w, s) /\ Succeeded(w)
                                         => NotOlder(result'[r][s], w, before[w])
        <5>1. result'[r][s] = temp[s] /\ s \in Sectors
          BY <3>2, OnFacts
        <5>2. IsSet(Bitmap, s)
          BY <2>2, <3>1, <4>2 DEF ReadInv
        <5> QED BY <1>b, <2>4, <5>1, <5>2, TempIsCurrent
      <4> QED BY <4>1, <4>2
    <3> QED BY <1>a, <2>1, <3>3
  <2>6. CASE MergeBuffers
    <3>1. worker.pc = "merge"
      BY <2>6 DEF MergeBuffers
    <3>2. result'[r] = BitmapGet(Bitmap, result[r], worker.fileBuf)
      BY <1>3, <2>2, <2>4, <2>6 DEF MergeBuffers, Inv, TypeOK
    <3>3. worker.fileBuf = On(temp, SpanOf(r)) /\ result[r] \in [SpanOf(r) -> Content]
      BY <2>2, <3>1 DEF ReadInv, Inv, WorkerInv
    <3>4. now(r)
      <4>1. DOMAIN result'[r] = SpanOf(r)
        BY <3>2, <3>3 DEF BitmapGet
      <4>2. ASSUME NEW s \in SpanOf(r)
            PROVE  /\ From(result'[r][s], s)
                   /\ \A w \in before[r] : Writes(w, s) /\ Succeeded(w)
                                         => NotOlder(result'[r][s], w, before[w])
        <5>1. /\ result'[r][s] = IF IsSet(Bitmap, s) THEN temp[s] ELSE result[r][s]
              /\ s \in Sectors
          BY <3>2, <3>3, OnFacts DEF BitmapGet
        <5>2. CASE IsSet(Bitmap, s)
          BY <1>b, <2>4, <5>1, <5>2, TempIsCurrent
        <5>3. CASE ~ IsSet(Bitmap, s)
          <6>1. /\ From(result[r][s], s)
                /\ \A w \in before[r] : Writes(w, s) /\ state[w] = "passed"
                                      => NotOlder(result[r][s], w, before[w])
            BY <2>2, <3>1, <4>2 DEF ReadInv
          <6>2. \A w \in before[r] : ~ (state[w] = "done" /\ Writes(w, s))
            BY <1>b, <5>1, <5>3 DEF ExactInv
          <6> QED BY <5>1, <5>3, <6>1, <6>2 DEF Succeeded
        <5> QED BY <5>2, <5>3
      <4> QED BY <4>1, <4>2
    <3> QED BY <1>a, <2>1, <3>4
  <2> QED BY <2>3, <2>5, <2>6
<1> QED BY <1>1, <1>2, <1>3 DEF Succeeded

-----------------------------------------------------------------------------
\* No request has begun at first.
LEMMA CurrentInit == Init => CurrentInv
<1> SUFFICES ASSUME Init PROVE CurrentInv
  OBVIOUS
<1>1. HistInv /\ EarlyInv /\ ReadsAreCurrent
  BY DEF Init, HistInv, EarlyInv, ReadsAreCurrent, Succeeded
<1>2. DiskInv /\ TempInv /\ ReadInv
  BY DEF Init, DiskInv, TempInv, ReadInv, From, Idle, At
<1> QED BY <1>1, <1>2 DEF CurrentInv

\* A read that succeeds returns what is current, wherever its sectors are
\* and whatever happens meanwhile: for any volume, any number of requests in
\* flight, on both sides of the moment protection begins and of a removal,
\* with a file, an allocation, a lower device or a thread that fails.
THEOREM ReadsCorrect ==
    ASSUME "online" \notin Faults, "mapping" \notin Faults
    PROVE  Spec => []ReadsAreCurrent
<1>1. Init => Basis /\ CurrentInv
  BY TypeInit, QueueInit, CurrentInit DEF Basis, Init, SentInv, ExactInv
<1>2. Basis /\ CurrentInv /\ [Next]_vars => (Basis /\ CurrentInv)'
  BY TypeStep, QueueStep, SentStep, ExactStep, HistStep, EarlyStep, DiskStep,
     TempStep, ReadStep, CurrentStep DEF Basis, CurrentInv
<1>3. CurrentInv => ReadsAreCurrent
  BY DEF CurrentInv
<1> QED BY <1>1, <1>2, <1>3, PTL DEF Spec
=============================================================================
