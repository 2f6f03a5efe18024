------------------------------ MODULE DPBitmap ------------------------------
(***************************************************************************)
(* The sector bitmap of the disk protection filter (DP/DPBitmap.c): one    *)
(* bit per sector of the protected volume, in bytes, in regions that are   *)
(* allocated when a sector of theirs is first set.                         *)
(*                                                                         *)
(* Offsets and lengths are counted in sectors, which is what the code's    *)
(* alignment checks (lines 145 and 273) leave of them: the I/O manager     *)
(* hands a volume requests in whole sectors.  A byte is the set of its     *)
(* bits that are 1.  ByteSize is 8 in the code, which writes its last bit  *)
(* as 7 and a full byte as 0xff; here they follow ByteSize.                *)
(***************************************************************************)
EXTENDS Integers

CONSTANTS
    ByteSize,       \* bits of a byte: 8 (DPMain.c:1000)
    RegionSize,     \* bytes of a region: 25600 (DPMain.c:1001)
    VolumeSectors,  \* TotalSizeInByte in sectors
    NoRegion        \* a NULL pointer in the array of regions

ASSUME SizeAssumption ==
    /\ ByteSize \in Nat /\ ByteSize > 1
    /\ RegionSize \in Nat /\ RegionSize > 0
    /\ VolumeSectors \in Nat
    /\ NoRegion \notin [0..RegionSize-1 -> SUBSET (0..ByteSize-1)]

\* regionReferSize, in sectors.
RegionReferSize == ByteSize * RegionSize

\* (A mutant) the volume divided by the size of a region.
RegionNumberRoundedDown == VolumeSectors \div RegionReferSize

\* The number of regions that DPVolumeOnLineCompleteRoutine asks for.
RegionNumber == VolumeSectors \div RegionReferSize + 1

\* bitmapReferSize, in sectors.
BitmapReferSize == RegionReferSize * RegionNumber

RegionIndex == 0..RegionNumber-1
Region == [0..RegionSize-1 -> SUBSET (0..ByteSize-1)]
Bitmaps == [RegionIndex -> Region \cup {NoRegion}]

ClearRegion == [y \in 0..RegionSize-1 |-> {}]

\* DPBitmapInit: an array of NULL pointers.
EmptyBitmap == [r \in RegionIndex |-> NoRegion]

\* Where sector s is kept: region, byte of the region, bit of the byte.
RegionOf(s) == s \div RegionReferSize
RegionOffset(s) == s % RegionReferSize
ByteOf(s) == RegionOffset(s) \div ByteSize
BitOf(s) == RegionOffset(s) % ByteSize

\* The sectors of a request.
Span(offset, length) == offset .. offset + length - 1

-----------------------------------------------------------------------------
(* DPBitmapSet                                                             *)

\* The regions it looks at: the last is computed from the end of the range,
\* which is one past its last sector.
RegionsUsed(offset, length) == RegionOf(offset) .. RegionOf(offset + length)

\* The regions in the set R that are not there are allocated and cleared.
WithRegions(b, R) ==
    [r \in DOMAIN b |-> IF r \in R /\ b[r] = NoRegion THEN ClearRegion ELSE b[r]]

\* The sectors set one by one before the first byte boundary ...
LeadingSectors(offset, length) ==
    {s \in Span(offset, length) : \A t \in offset..s : BitOf(t) # 0}

\* ... and, backwards from the end, until a last bit of a byte.
TrailingSectors(offset, length) ==
    {s \in Span(offset, length) :
        \A t \in s..(offset + length - 1) : BitOf(t) # ByteSize - 1}

\* (A mutant) the last byte of the last region is left out.
FilledBytesButLast(setBegin, setEnd) ==
    IF setBegin < setEnd
    THEN {p \in RegionIndex \X (0..RegionSize-1) :
            /\ RegionOf(setBegin) <= p[1] /\ p[1] <= RegionOf(setEnd)
            /\ p[1] = RegionOf(setBegin) => ByteOf(setBegin) <= p[2]
            /\ p[1] = RegionOf(setEnd) => p[2] < ByteOf(setEnd)}
    ELSE {}

\* The bytes filled at once: from the byte of setBegin to that of setEnd,
\* region by region.
FilledBytes(setBegin, setEnd) ==
    IF setBegin < setEnd
    THEN {p \in RegionIndex \X (0..RegionSize-1) :
            /\ RegionOf(setBegin) <= p[1] /\ p[1] <= RegionOf(setEnd)
            /\ p[1] = RegionOf(setBegin) => ByteOf(setBegin) <= p[2]
            /\ p[1] = RegionOf(setEnd) => p[2] <= ByteOf(setEnd)}
    ELSE {}

IsSetBegin(offset, length, i) ==
    /\ i \in Span(offset, length) \ LeadingSectors(offset, length)
    /\ \A s \in Span(offset, length) \ LeadingSectors(offset, length) : i <= s

IsSetEnd(offset, length, i) ==
    /\ i \in Span(offset, length) \ TrailingSectors(offset, length)
    /\ \A s \in Span(offset, length) \ TrailingSectors(offset, length) : s <= i

MiddleBytes(offset, length) ==
    UNION {FilledBytes(i, j) :
             i \in {s \in Span(offset, length) : IsSetBegin(offset, length, s)},
             j \in {s \in Span(offset, length) : IsSetEnd(offset, length, s)}}

BitmapSet(b, offset, length) ==
    LET marked == LeadingSectors(offset, length) \cup TrailingSectors(offset, length)
        filled == MiddleBytes(offset, length)
        ready == WithRegions(b, RegionsUsed(offset, length))
    IN  [r \in DOMAIN b |->
           IF ready[r] = NoRegion THEN NoRegion
           ELSE [y \in 0..RegionSize-1 |->
                   IF <<r, y>> \in filled THEN 0..ByteSize-1
                   ELSE ready[r][y] \cup
                        {BitOf(s) : s \in {t \in marked : RegionOf(t) = r /\ ByteOf(t) = y}}]]

\* The allocation of region r fails: the ones before it stay, no bit is set.
BitmapSetFailed(b, offset, r) == WithRegions(b, RegionOf(offset)..r-1)

-----------------------------------------------------------------------------
(* DPBitmapTest and DPBitmapGet                                            *)

IsSet(b, s) ==
    /\ b[RegionOf(s)] # NoRegion
    /\ BitOf(s) \in b[RegionOf(s)][ByteOf(s)]

\* (A mutant) the first sector stands for all.
BitmapTestFirst(b, offset, length) ==
    IF offset + length > BitmapReferSize THEN "UNKNOWN"
    ELSE IF IsSet(b, offset) THEN "SET" ELSE "CLEAR"

BitmapTest(b, offset, length) ==
    IF offset + length > BitmapReferSize THEN "UNKNOWN"
    ELSE IF \A s \in Span(offset, length) : IsSet(b, s) THEN "SET"
    ELSE IF \A s \in Span(offset, length) : ~ IsSet(b, s) THEN "CLEAR"
    ELSE "BLEND"

\* Data of the set sectors comes from the file, of the others from the disk.
BitmapGet(b, devBuf, fileBuf) ==
    [s \in DOMAIN devBuf |-> IF IsSet(b, s) THEN fileBuf[s] ELSE devBuf[s]]
=============================================================================
