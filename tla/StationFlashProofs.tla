-------------------------- MODULE StationFlashProofs --------------------------
(***************************************************************************)
(* W25QXX_Write programs only erased cells and keeps every block it does   *)
(* not write, for every size of page and sector and every set of blocks,   *)
(* wherever they lie in the sectors.                                       *)
(***************************************************************************)
EXTENDS StationFlash, TLAPS

Places == {"idle", "check", "erase", "program", "next"}

\* The running call, at the part of the block that lies in sector secpos. Only the first
\* part of a block may start inside a sector.
CallInv ==
  /\ pc \in Places
  /\ kept \in [Blocks -> Values \cup {Lost}]
  /\ pc # "idle" =>
       /\ block \in Blocks /\ value \in Values
       /\ secpos \in Nat /\ secoff \in Nat /\ secoff < SectorSize
       /\ left \in Nat /\ 0 < left /\ left <= block.len
       /\ secremain = Min2(left, SectorSize - secoff)
       /\ secpos * SectorSize + secoff = block.first + (block.len - left)
       /\ pBuffer = block.len - left
       /\ left < block.len => secoff = 0

\* What the call is to leave in cell c of its block.
Data(c) == value[c - block.first]

\* What W25QXX_Write_NoCheck still has to program is erased, what it has programmed is the
\* image, and the image gives the target its part of the buffer.
ImageInv ==
  /\ pc = "erase" =>
       /\ DOMAIN image = Sector(secpos)
       /\ \A c \in Sector(secpos) : image[c] = flash[c]
  /\ pc = "program" =>
       /\ DOMAIN image \in {Target, Sector(secpos)}
       /\ \A c \in Target : image[c] = Data(c)
       /\ addr \in Nat /\ rest \in Nat /\ 0 < rest
       /\ \A c \in addr .. (addr + rest - 1) : c \in DOMAIN image /\ flash[c] = FF
       /\ \A c \in DOMAIN image : c < addr + rest /\ (c < addr => flash[c] = image[c])

\* What the call has written so far.
WrittenInv ==
  /\ pc # "idle" => \A c \in block.first .. (secpos * SectorSize + secoff - 1) : flash[c] = Data(c)
  /\ pc = "next" => \A c \in Target : flash[c] = Data(c)

\* The other blocks are in the flash, or else in the image of the sector being rewritten.
Holds(c) == IF pc = "program" /\ c \in DOMAIN image THEN image[c] ELSE flash[c]

KeptInv ==
  \A b \in Blocks :
    kept[b] \in Values /\ ~ (pc # "idle" /\ b = block /\ Begun) =>
    \A c \in Extent(b) : Holds(c) = kept[b][c - b.first]

IInv == CallInv /\ ImageInv /\ WrittenInv /\ KeptInv

-------------------------------------------------------------------------------
LEMMA SectorSizeType == SectorSize \in Nat /\ 0 < SectorSize
  <1>1. PICK k \in 1 .. 16 : SectorSize = PageSize * k
    BY SizesAssumption
  <1>2. PageSize \in Nat /\ 0 < PageSize
    BY SizesAssumption
  <1> QED
    BY <1>1, <1>2

LEMMA DivMod ==
  ASSUME NEW s \in Nat, 0 < s, NEW n \in Nat
  PROVE  /\ n \div s \in Nat /\ n % s \in Nat /\ n % s < s
         /\ (n \div s) * s + (n % s) = n
  OBVIOUS

LEMMA DivUnique ==
  ASSUME NEW s \in Nat, NEW q \in Nat, NEW r \in Nat, r < s
  PROVE  (q * s + r) \div s = q
  OBVIOUS

LEMMA Multiples ==
  ASSUME NEW s \in Nat, NEW q \in Nat
  PROVE  q * s \in Nat /\ (q + 1) * s = q * s + s
  OBVIOUS

LEMMA Interval ==
  ASSUME NEW a \in Nat, NEW n \in Nat
  PROVE  \A c \in a .. (a + n - 1) : c < a + n /\ ~ c < a
  OBVIOUS

LEMMA NoInterval ==
  ASSUME NEW a \in Nat, NEW x \in Nat, NEW y \in Nat, x + y = a
  PROVE  \A c \in a .. (x + y - 1) : FALSE
  OBVIOUS

LEMMA BlockType ==
  ASSUME NEW b \in Blocks
  PROVE  b.first \in Nat /\ b.len \in Nat /\ 0 < b.len
  BY SizesAssumption

\* A cell belongs to one block.
LEMMA CellOfOneBlock ==
  ASSUME NEW a \in Blocks, NEW b \in Blocks, NEW c, c \in Extent(a), c \in Extent(b)
  PROVE  a = b
  BY BlocksAssumption

\* The cells of a block exist, and with one of its cells its whole sector.
LEMMA CellsOfBlock ==
  ASSUME NEW b \in Blocks
  PROVE  Extent(b) \subseteq Cells
  <1> SUFFICES ASSUME NEW c \in Extent(b)
               PROVE  c \in Cells
    OBVIOUS
  <1>1. c \in Nat
    BY BlockType DEF Extent
  <1> DEFINE q == c \div SectorSize
             r == c % SectorSize
  <1>2. q \in Nat /\ r \in Nat /\ r < SectorSize /\ q * SectorSize + r = c
    BY <1>1, SectorSizeType, DivMod
  <1> HIDE DEF r
  <1>3. c \in Sector(q)
    <2> HIDE DEF q
    <2>1. q * SectorSize \in Nat
      BY <1>2, SectorSizeType, Multiples
    <2> QED
      BY <1>1, <1>2, <2>1, SectorSizeType DEF Sector
  <1> QED
    BY <1>3 DEF Cells

\* What the running call touches: the target lies in the block and in the sector, and the
\* chip has the whole sector.
LEMMA TargetPlace ==
  ASSUME CallInv, pc # "idle"
  PROVE  /\ secpos * SectorSize \in Nat
         /\ secremain \in Nat /\ 0 < secremain /\ secremain <= left
         /\ secoff + secremain <= SectorSize
         /\ secremain = left \/ secoff + secremain = SectorSize
         /\ Target \subseteq Extent(block) /\ Target \subseteq Sector(secpos)
         /\ Sector(secpos) \subseteq Cells
  <1> DEFINE base == secpos * SectorSize
  <1>1. base \in Nat /\ SectorSize \in Nat
    BY SectorSizeType, Multiples DEF CallInv
  <1>2. /\ secoff \in Nat /\ secoff < SectorSize /\ left \in Nat /\ 0 < left /\ left <= block.len
        /\ base + secoff = block.first + (block.len - left)
        /\ block.first \in Nat /\ block.len \in Nat
    BY BlockType DEF CallInv
  <1>3. secremain = Min2(left, SectorSize - secoff)
    BY DEF CallInv
  <1>4. Target = (base + secoff) .. (base + secoff + secremain - 1)
    BY DEF Target, Start
  <1>5. Sector(secpos) = base .. (base + SectorSize - 1)
    BY DEF Sector
  <1>6. base + secoff \in Extent(block) /\ (base + secoff) \div SectorSize = secpos
    <2>1. (base + secoff) \div SectorSize = secpos
      BY <1>1, <1>2, DivUnique DEF CallInv
    <2> HIDE DEF base
    <2> QED
      BY <1>1, <1>2, <2>1 DEF Extent
  <1>7. block \in Blocks
    BY DEF CallInv
  <1>8. Sector(secpos) \subseteq Cells
    BY <1>6, <1>7 DEF Cells
  <1> HIDE DEF base
  <1>9. /\ secremain \in Nat /\ 0 < secremain /\ secremain <= left
        /\ secoff + secremain <= SectorSize
        /\ secremain = left \/ secoff + secremain = SectorSize
    BY <1>1, <1>2, <1>3 DEF Min2
  <1>10. Target \subseteq Extent(block) /\ Target \subseteq Sector(secpos)
    BY <1>1, <1>2, <1>4, <1>5, <1>9 DEF Extent
  <1> QED
    BY <1>1, <1>8, <1>9, <1>10 DEF base

\* pBuffer stands at the buffer's cells for the target.
LEMMA GivenIsData ==
  ASSUME CallInv, pc # "idle", NEW c \in Target
  PROVE  Given[c] = Data(c)
  <1>1. Given[c] = value[pBuffer + (c - Start)]
    BY DEF Given
  <1>2. Start = block.first + pBuffer /\ Start \in Nat /\ pBuffer \in Nat
    BY BlockType DEF Start, CallInv
  <1>3. c \in Int /\ block.first \in Nat
    BY <1>2, BlockType DEF Target, CallInv
  <1>4. pBuffer + (c - Start) = c - block.first
    BY <1>2, <1>3
  <1> QED
    BY <1>1, <1>4 DEF Data

\* What one page program takes: some of what is left to program, and as it is erased, it
\* takes the image.
LEMMA PagePlace ==
  ASSUME CallInv, ImageInv, pc = "program"
  PROVE  /\ PageRemain \in Nat /\ 0 < PageRemain /\ PageRemain <= rest
         /\ Page = addr .. (addr + PageRemain - 1)
         /\ Page \subseteq addr .. (addr + rest - 1)
         /\ \A c \in Page : PageImage[c] = image[c]
  <1>1. addr \in Nat /\ rest \in Nat /\ 0 < rest
    BY DEF ImageInv
  <1>2. addr % PageSize \in Nat /\ addr % PageSize < PageSize /\ PageSize \in Nat
    BY <1>1, DivMod, SizesAssumption
  <1>3. PageRemain \in Nat /\ 0 < PageRemain /\ PageRemain <= rest
    BY <1>1, <1>2 DEF PageRemain, Min2
  <1>4. Page = addr .. (addr + PageRemain - 1)
    BY DEF Page
  <1>5. Page \subseteq addr .. (addr + rest - 1)
    BY <1>1, <1>3, <1>4
  <1>6. ASSUME NEW c \in Page
        PROVE  PageImage[c] = image[c]
    <2>1. flash[c] = FF
      BY <1>5 DEF ImageInv
    <2> QED
      BY <2>1 DEF PageImage, Programmed
  <1> QED
    BY <1>3, <1>4, <1>5, <1>6

-------------------------------------------------------------------------------
LEMMA InitInv == Init => IInv
  <1> SUFFICES ASSUME Init
               PROVE  IInv
    OBVIOUS
  <1>1. CallInv
    BY DEF Init, CallInv, Places
  <1>2. ImageInv /\ WrittenInv
    BY DEF Init, ImageInv, WrittenInv
  <1>3. KeptInv
    BY BlocksAssumption DEF Init, KeptInv
  <1> QED
    BY <1>1, <1>2, <1>3 DEF IInv

LEMMA CallStep == CallInv /\ [Next]_vars => CallInv'
  <1> SUFFICES ASSUME CallInv, [Next]_vars
               PROVE  CallInv'
    OBVIOUS
  <1>1. ASSUME NEW b \in Blocks, NEW v \in Values, W25QXX_Write(b, v)
        PROVE  CallInv'
    <2>1. /\ secpos' \in Nat /\ secoff' \in Nat /\ secoff' < SectorSize
          /\ secpos' * SectorSize + secoff' = b.first
      BY <1>1, BlockType, SectorSizeType, DivMod DEF W25QXX_Write
    <2>2. left' = b.len /\ left' \in Nat /\ 0 < left' /\ b.first \in Nat
      BY <1>1, BlockType DEF W25QXX_Write
    <2> QED
      BY <1>1, <2>1, <2>2 DEF W25QXX_Write, CallInv, Places, programming
  <1>2. CASE NeedsErase
    BY <1>2 DEF NeedsErase, CallInv, Places, call
  <1>3. CASE StillErased
    BY <1>3 DEF StillErased, CallInv, Places, call
  <1>4. CASE EraseSector
    BY <1>4 DEF EraseSector, CallInv, Places, call
  <1>5. CASE WritePage
    <2>1. pc' \in {"program", "next"}
      BY <1>5 DEF WritePage
    <2> QED
      BY <1>5, <2>1 DEF WritePage, CallInv, Places, call
  <1>6. CASE NextSector
    <2>1. pc # "idle"
      BY <1>6 DEF NextSector
    <2>2. /\ secremain \in Nat /\ 0 < secremain /\ secremain <= left
          /\ secremain = left \/ secoff + secremain = SectorSize
          /\ secpos * SectorSize \in Nat
      BY <2>1, TargetPlace
    <2>3. secpos \in Nat /\ left \in Nat /\ left <= block.len /\ block \in Blocks
          /\ secoff \in Nat /\ secpos * SectorSize + secoff = block.first + (block.len - left)
      BY <2>1 DEF CallInv
    <2>4. secpos' = secpos + 1 /\ secoff' = 0 /\ left' = left - secremain
          /\ secremain' = Min2(left', SectorSize) /\ secremain # left /\ block' = block
      BY <1>6 DEF NextSector
    <2>5. secpos' * SectorSize = secpos * SectorSize + SectorSize
      BY <2>3, <2>4, SectorSizeType, Multiples
    <2>6. secpos' * SectorSize + secoff' = block.first + (block.len - left')
      <3> DEFINE base == secpos * SectorSize
                 next == secpos' * SectorSize
      <3> HIDE DEF base, next
      <3>1. next = base + SectorSize /\ base \in Nat
            /\ base + secoff = block.first + (block.len - left)
        BY <2>2, <2>3, <2>5 DEF base, next
      <3>2. next + 0 = block.first + (block.len - (left - secremain))
        BY <2>2, <2>3, <2>4, <3>1, BlockType, SectorSizeType
      <3> QED
        BY <2>4, <3>2 DEF next
    <2>7. left' \in Nat /\ 0 < left' /\ left' <= block'.len /\ secpos' \in Nat /\ secoff' \in Nat
          /\ secoff' < SectorSize /\ SectorSize - secoff' = SectorSize
      BY <2>2, <2>3, <2>4, SectorSizeType, BlockType
    <2>8. pBuffer' = block.len - left'
      <3>1. pBuffer' = pBuffer + secremain /\ pBuffer = block.len - left
        BY <1>6, <2>1 DEF NextSector, CallInv
      <3> QED
        BY <2>2, <2>3, <2>4, <3>1, BlockType
    <2>9. value' = value /\ kept' = kept /\ pc' = "check" /\ value \in Values
      BY <1>6, <2>1 DEF NextSector, CallInv
    <2> QED
      BY <2>3, <2>4, <2>6, <2>7, <2>8, <2>9 DEF CallInv, Places
  <1>7. CASE WriteReturns
    BY <1>7 DEF WriteReturns, CallInv, Places
  <1>8. CASE PowerCut
    BY <1>8 DEF PowerCut, CallInv, Places
  <1>9. CASE UNCHANGED vars
    BY <1>9 DEF vars, call, programming, CallInv
  <1> QED
    BY <1>1, <1>2, <1>3, <1>4, <1>5, <1>6, <1>7, <1>8, <1>9 DEF Next, Driver

LEMMA ImageStep == CallInv /\ ImageInv /\ [Next]_vars => ImageInv'
  <1> SUFFICES ASSUME CallInv, ImageInv, [Next]_vars
               PROVE  ImageInv'
    OBVIOUS
  <1>1. ASSUME NEW b \in Blocks, NEW v \in Values, W25QXX_Write(b, v)
        PROVE  ImageInv'
    BY <1>1 DEF W25QXX_Write, ImageInv
  <1>2. CASE NeedsErase
    BY <1>2 DEF NeedsErase, ImageInv, Sector, call
  <1>3. CASE StillErased
    <2>1. pc # "idle" /\ Target' = Target
      BY <1>3 DEF StillErased, call, Target, Start
    <2>2. /\ Target = addr' .. (addr' + rest' - 1)
          /\ addr' \in Nat /\ rest' \in Nat /\ 0 < rest'
      BY <1>3, <2>1, TargetPlace DEF StillErased, Target, Start, CallInv
    <2>3. \A c \in Target : flash'[c] = FF /\ image'[c] = Data(c)'
      BY <1>3, <2>1, GivenIsData DEF StillErased, Given, Data, call
    <2>4. DOMAIN image' = Target
      BY <1>3 DEF StillErased, Given
    <2>5. pc' = "program"
      BY <1>3 DEF StillErased
    <2>6. \A c \in Target : c < addr' + rest' /\ ~ c < addr'
      BY <2>2, Interval
    <2> QED
      BY <2>1, <2>2, <2>3, <2>4, <2>5, <2>6 DEF ImageInv
  <1>4. CASE EraseSector
    <2>1. pc # "idle" /\ Target' = Target /\ Sector(secpos)' = Sector(secpos)
      BY <1>4 DEF EraseSector, call, Target, Start, Sector
    <2>2. /\ Sector(secpos) = addr' .. (addr' + rest' - 1)
          /\ addr' \in Nat /\ rest' \in Nat /\ 0 < rest'
      BY <1>4, <2>1, TargetPlace, SectorSizeType DEF EraseSector, Sector
    <2>3. Target \subseteq Sector(secpos) /\ Sector(secpos) \subseteq Cells
      BY <2>1, TargetPlace
    <2>4. \A c \in Sector(secpos) : flash'[c] = FF
      BY <1>4, <2>3 DEF EraseSector
    <2>5. DOMAIN image' = Sector(secpos)
      BY <1>4 DEF EraseSector
    <2>6. \A c \in Target : image'[c] = Data(c)'
      BY <1>4, <2>1, <2>3, GivenIsData DEF EraseSector, Data, call
    <2>7. pc' = "program"
      BY <1>4 DEF EraseSector
    <2>8. \A c \in Sector(secpos) : c < addr' + rest' /\ ~ c < addr'
      BY <2>2, Interval
    <2> QED
      BY <2>1, <2>2, <2>4, <2>5, <2>6, <2>7, <2>8 DEF ImageInv
  <1>5. CASE WritePage
    <2>1. pc = "program" /\ UNCHANGED call
      BY <1>5 DEF WritePage
    <2>2. CASE rest = PageRemain
      BY <1>5, <2>2 DEF WritePage, ImageInv
    <2>3. CASE rest # PageRemain
      <3>1. /\ addr' = addr + PageRemain /\ rest' = rest - PageRemain
            /\ pc' = pc /\ image' = image
            /\ flash' = [c \in Cells |-> IF c \in Page THEN PageImage[c] ELSE flash[c]]
        BY <1>5, <2>3 DEF WritePage
      <3>2. Target' = Target /\ Sector(secpos)' = Sector(secpos)
            /\ \A c \in Target : Data(c)' = Data(c)
        BY <2>1 DEF Target, Start, Sector, Data, call
      <3>3. /\ DOMAIN image \in {Target, Sector(secpos)}
            /\ \A c \in Target : image[c] = Data(c)
            /\ addr \in Nat /\ rest \in Nat /\ 0 < rest
            /\ \A c \in addr .. (addr + rest - 1) : c \in DOMAIN image /\ flash[c] = FF
            /\ \A c \in DOMAIN image : c < addr + rest /\ (c < addr => flash[c] = image[c])
        BY <2>1 DEF ImageInv
      <3>4. /\ PageRemain \in Nat /\ 0 < PageRemain /\ PageRemain <= rest
            /\ Page = addr .. (addr + PageRemain - 1)
            /\ \A c \in Page : PageImage[c] = image[c]
        BY <2>1, PagePlace
      <3>5. DOMAIN image \subseteq Cells /\ DOMAIN image \subseteq Int
        <4>1. Target \subseteq Sector(secpos) /\ Sector(secpos) \subseteq Cells
              /\ secpos * SectorSize \in Nat
          BY <2>1, TargetPlace
        <4>2. Sector(secpos) \subseteq Int
          BY <4>1, SectorSizeType DEF Sector
        <4> QED
          BY <3>3, <4>1, <4>2
      <3>6. addr' \in Nat /\ rest' \in Nat /\ 0 < rest' /\ addr' + rest' = addr + rest
        BY <2>3, <3>1, <3>3, <3>4
      <3>7. ASSUME NEW c \in addr' .. (addr' + rest' - 1)
            PROVE  c \in DOMAIN image /\ flash'[c] = FF
        <4>1. c \in addr .. (addr + rest - 1) /\ c \notin Page
          BY <3>1, <3>3, <3>4, <3>6
        <4>2. c \in DOMAIN image /\ flash[c] = FF
          BY <3>3, <4>1
        <4> QED
          BY <3>1, <3>5, <4>1, <4>2
      <3>8. ASSUME NEW c \in DOMAIN image
            PROVE  c < addr' + rest' /\ (c < addr' => flash'[c] = image[c])
        <4>1. c < addr' + rest'
          BY <3>3, <3>6
        <4>2. CASE c \in Page
          BY <3>1, <3>4, <3>5, <4>1, <4>2
        <4>3. CASE c \notin Page
          <5>1. flash'[c] = flash[c]
            BY <3>1, <3>5, <4>3
          <5>2. c < addr' => c < addr
            BY <3>1, <3>3, <3>4, <3>5, <4>3
          <5> QED
            BY <3>3, <4>1, <5>1, <5>2
        <4> QED
          BY <4>2, <4>3
      <3> QED
        BY <2>1, <3>1, <3>2, <3>3, <3>6, <3>7, <3>8 DEF ImageInv
    <2> QED
      BY <2>2, <2>3
  <1>6. CASE NextSector
    BY <1>6 DEF NextSector, ImageInv
  <1>7. CASE WriteReturns
    BY <1>7 DEF WriteReturns, ImageInv
  <1>8. CASE PowerCut
    BY <1>8 DEF PowerCut, ImageInv
  <1>9. CASE UNCHANGED vars
    BY <1>9 DEF vars, call, programming, ImageInv, Data, Target, Start, Sector
  <1> QED
    BY <1>1, <1>2, <1>3, <1>4, <1>5, <1>6, <1>7, <1>8, <1>9 DEF Next, Driver

\* A page programmed changes nothing but the target or the sector being rewritten.
LEMMA PageStep ==
  ASSUME CallInv, ImageInv, WritePage
  PROVE  /\ UNCHANGED <<call, kept>>
         /\ \A c \in Cells : flash'[c] = IF c \in Page THEN image[c] ELSE flash[c]
         /\ Page \subseteq DOMAIN image
         /\ rest = PageRemain => \A c \in DOMAIN image \ Page : flash[c] = image[c]
         /\ DOMAIN image \in {Target, Sector(secpos)}
         /\ DOMAIN image \subseteq Sector(secpos)
         /\ DOMAIN image \subseteq Cells
  <1>1. pc = "program" /\ UNCHANGED <<call, kept>>
        /\ flash' = [c \in Cells |-> IF c \in Page THEN PageImage[c] ELSE flash[c]]
    BY DEF WritePage
  <1>2. /\ Page \subseteq addr .. (addr + rest - 1)
        /\ Page = addr .. (addr + PageRemain - 1)
        /\ \A c \in Page : PageImage[c] = image[c]
    BY <1>1, PagePlace
  <1>3. Page \subseteq DOMAIN image
    BY <1>1, <1>2 DEF ImageInv
  <1>4. DOMAIN image \subseteq Sector(secpos) /\ DOMAIN image \subseteq Cells
        /\ DOMAIN image \subseteq Int /\ DOMAIN image \in {Target, Sector(secpos)}
    <2>1. Target \subseteq Sector(secpos) /\ Sector(secpos) \subseteq Cells
          /\ secpos * SectorSize \in Nat
      BY <1>1, TargetPlace
    <2>2. Sector(secpos) \subseteq Int
      BY <2>1, SectorSizeType DEF Sector
    <2>3. DOMAIN image \in {Target, Sector(secpos)}
      BY <1>1 DEF ImageInv
    <2> QED
      BY <2>1, <2>2, <2>3
  <1>5. ASSUME rest = PageRemain, NEW c \in DOMAIN image \ Page
        PROVE  flash[c] = image[c]
    <2>1. c < addr + rest /\ (c < addr => flash[c] = image[c]) /\ addr \in Nat /\ rest \in Nat
      BY <1>1 DEF ImageInv
    <2>2. c < addr
      BY <1>2, <1>4, <1>5, <2>1
    <2> QED
      BY <2>1, <2>2
  <1> QED
    BY <1>1, <1>2, <1>3, <1>4, <1>5

LEMMA WrittenStep == CallInv /\ ImageInv /\ WrittenInv /\ [Next]_vars => WrittenInv'
  <1> SUFFICES ASSUME CallInv, ImageInv, WrittenInv, [Next]_vars
               PROVE  WrittenInv'
    OBVIOUS
  <1> DEFINE Before == block.first .. (secpos * SectorSize + secoff - 1)
  <1>1. ASSUME NEW b \in Blocks, NEW v \in Values, W25QXX_Write(b, v)
        PROVE  WrittenInv'
    <2>1. secpos' * SectorSize + secoff' = b.first /\ block' = b /\ pc' = "check" /\ b.first \in Nat
      BY <1>1, BlockType, SectorSizeType, DivMod DEF W25QXX_Write
    <2>2. \A c \in b.first .. (secpos' * SectorSize + secoff' - 1) : FALSE
      <3>1. secpos' * SectorSize \in Nat /\ secoff' \in Nat
        BY <1>1, BlockType, SectorSizeType, DivMod, Multiples DEF W25QXX_Write
      <3> QED
        BY <2>1, <3>1, NoInterval
    <2> QED
      BY <2>1, <2>2 DEF WrittenInv
  <1>2. CASE NeedsErase
    BY <1>2 DEF NeedsErase, WrittenInv, Data, call
  <1>3. CASE StillErased
    BY <1>3 DEF StillErased, WrittenInv, Data, call
  <1>10. ASSUME pc # "idle", NEW c \in Before
         PROVE  c \notin Sector(secpos) /\ c \in Cells
    <2>1. /\ secpos * SectorSize + secoff = block.first + (block.len - left)
          /\ left < block.len => secoff = 0
          /\ left \in Nat /\ 0 < left /\ left <= block.len /\ secoff \in Nat /\ block \in Blocks
      BY <1>10 DEF CallInv
    <2>2. secpos * SectorSize \in Nat /\ block.first \in Nat /\ block.len \in Nat
      BY <1>10, <2>1, TargetPlace, BlockType
    <2> DEFINE base == secpos * SectorSize
    <2>3. Sector(secpos) = base .. (base + SectorSize - 1)
      BY DEF Sector
    <2> HIDE DEF base
    <2>4. c \in block.first .. (base + secoff - 1)
      BY <1>10 DEF base
    <2>5. c \in Int /\ c < base /\ c \in Extent(block)
      BY <2>1, <2>2, <2>4 DEF base, Extent
    <2>6. c \in Cells
      BY <2>1, <2>5, CellsOfBlock
    <2> QED
      BY <2>2, <2>3, <2>5, <2>6 DEF base
  <1>4. CASE EraseSector
    <2>1. pc = "erase" /\ pc' = "program" /\ UNCHANGED call
      BY <1>4 DEF EraseSector
    <2>2. \A c \in Before : flash'[c] = flash[c]
      BY <1>4, <2>1, <1>10 DEF EraseSector
    <2> QED
      BY <2>1, <2>2 DEF WrittenInv, Data, call
  <1>5. CASE WritePage
    <2>1. pc = "program" /\ pc' \in {"program", "next"} /\ UNCHANGED call
      BY <1>5 DEF WritePage
    <2>2. \A c \in Cells : flash'[c] = IF c \in Page THEN image[c] ELSE flash[c]
      BY <1>5, PageStep
    <2>3. Page \subseteq DOMAIN image /\ DOMAIN image \subseteq Sector(secpos)
      BY <1>5, PageStep
    <2>4. \A c \in Before : flash'[c] = flash[c]
      BY <2>1, <2>2, <2>3, <1>10
    <2>5. ASSUME pc' = "next", NEW c \in Target
          PROVE  flash'[c] = Data(c)
      <3>1. rest = PageRemain
        BY <1>5, <2>1, <2>5 DEF WritePage
      <3>2. c \in DOMAIN image /\ image[c] = Data(c)
        <4>1. Target \subseteq Sector(secpos)
          BY <2>1, TargetPlace
        <4> QED
          BY <2>1, <4>1 DEF ImageInv
      <3>3. c \in Page \/ flash[c] = image[c]
        BY <1>5, <3>1, <3>2, PageStep
      <3>4. c \in Cells
        BY <1>5, <3>2, PageStep
      <3> QED
        BY <2>2, <3>2, <3>3, <3>4
    <2>6. Target' = Target
      BY <2>1 DEF Target, Start, call
    <2> QED
      BY <2>1, <2>4, <2>5, <2>6 DEF WrittenInv, Data, call
  <1>6. CASE NextSector
    <2>1. pc = "next" /\ pc' = "check" /\ UNCHANGED <<flash, block, value>>
          /\ secpos' = secpos + 1 /\ secoff' = 0 /\ left # secremain
      BY <1>6 DEF NextSector
    <2>2. /\ secremain = left \/ secoff + secremain = SectorSize
          /\ secremain \in Nat
      BY <2>1, TargetPlace
    <2> DEFINE base == secpos * SectorSize
    <2>3. secpos' * SectorSize = base + SectorSize /\ base \in Nat
      BY <2>1, SectorSizeType, Multiples DEF CallInv
    <2>4. Target = (base + secoff) .. (base + secoff + secremain - 1)
      BY DEF Target, Start
    <2>5. secoff \in Nat /\ block.first \in Nat
      BY <2>1, BlockType DEF CallInv
    <2>6. (\A c \in Before : flash[c] = Data(c)) /\ (\A c \in Target : flash[c] = Data(c))
      BY <2>1 DEF WrittenInv
    <2>7. ASSUME NEW c \in block.first .. (secpos' * SectorSize + secoff' - 1)
          PROVE  c \in Before \/ c \in Target
      <3> HIDE DEF base
      <3>1. c \in block.first .. (base + SectorSize - 1)
        BY <2>1, <2>3, <2>7, SectorSizeType
      <3>2. Before = block.first .. (base + secoff - 1)
        BY DEF base
      <3> HIDE DEF Before
      <3> QED
        BY <2>1, <2>2, <2>3, <2>4, <2>5, <3>1, <3>2, SectorSizeType
    <2> HIDE DEF Before
    <2> QED
      BY <2>1, <2>6, <2>7 DEF WrittenInv, Data
  <1>7. CASE WriteReturns
    BY <1>7 DEF WriteReturns, WrittenInv
  <1>8. CASE PowerCut
    BY <1>8 DEF PowerCut, WrittenInv
  <1>9. CASE UNCHANGED vars
    BY <1>9 DEF vars, call, programming, WrittenInv, Data, Target, Start
  <1> QED
    BY <1>1, <1>2, <1>3, <1>4, <1>5, <1>6, <1>7, <1>8, <1>9 DEF Next, Driver

LEMMA ReachedMeans ==
  ASSUME CallInv, pc # "idle", NEW b \in Blocks, ~ Reached(b)
  PROVE  /\ ~ (b = block /\ Begun)
         /\ pc \in {"erase", "program"} /\ DOMAIN image = Sector(secpos) =>
              \A c \in Extent(b) : c \notin Sector(secpos)
         /\ pc \in {"erase", "program"} => b # block
  BY DEF Reached, Rewriting, Begun

\* A cell of another block is not part of the target.
LEMMA OutsideTarget ==
  ASSUME CallInv, pc # "idle", NEW b \in Blocks, b # block, NEW c \in Extent(b)
  PROVE  c \notin Target /\ c \in Cells
  <1>1. block \in Blocks
    BY DEF CallInv
  <1>2. Target \subseteq Extent(block)
    BY TargetPlace
  <1> QED
    BY <1>1, <1>2, CellOfOneBlock, CellsOfBlock

LEMMA KeptStep == IInv /\ [Next]_vars => KeptInv'
  <1> SUFFICES ASSUME IInv, [Next]_vars
               PROVE  KeptInv'
    OBVIOUS
  <1> USE DEF IInv
  <1>1. ASSUME NEW b \in Blocks, NEW v \in Values, W25QXX_Write(b, v)
        PROVE  KeptInv'
    <2>1. pc = "idle" /\ pc' = "check" /\ UNCHANGED <<flash, kept>>
      BY <1>1 DEF W25QXX_Write
    <2> QED
      BY <2>1 DEF KeptInv, Holds
  \* No block is given up by a step inside the call; the cells hold what they held.
  <1>10. ASSUME UNCHANGED <<block, kept>>, pc # "idle", pc' # "idle", Begun => Begun',
                \A b \in Blocks : kept[b] \in Values /\ ~ (b = block /\ Begun') =>
                  \A c \in Extent(b) : Holds(c)' = Holds(c)
         PROVE  KeptInv'
    BY <1>10 DEF KeptInv
  <1>2. CASE NeedsErase
    <2>1. pc = "check" /\ pc' = "erase" /\ UNCHANGED <<flash, block, kept, left>>
      BY <1>2 DEF NeedsErase, call
    <2> QED
      BY <2>1, <1>10 DEF Begun, Holds
  <1>3. CASE StillErased
    <2>1. pc = "check" /\ pc' = "program" /\ UNCHANGED <<flash, block, kept, left>>
          /\ DOMAIN image' = Target
      BY <1>3 DEF StillErased, Given, call
    <2>2. ASSUME NEW b \in Blocks, b # block, NEW c \in Extent(b)
          PROVE  Holds(c)' = Holds(c)
      BY <2>1, <2>2, OutsideTarget DEF Holds
    <2> QED
      BY <2>1, <2>2, <1>10 DEF Begun
  <1>4. CASE EraseSector
    <2>1. /\ pc = "erase" /\ pc' = "program" /\ UNCHANGED <<block, kept, left>>
          /\ flash' = [c \in Cells |-> IF c \in Sector(secpos) THEN FF ELSE flash[c]]
          /\ image' = [c \in Sector(secpos) |-> IF c \in Target THEN Given[c] ELSE image[c]]
      BY <1>4 DEF EraseSector, call
    <2>2. ASSUME NEW b \in Blocks, b # block, NEW c \in Extent(b)
          PROVE  Holds(c)' = Holds(c)
      <3>1. c \notin Target /\ c \in Cells
        BY <2>1, <2>2, OutsideTarget
      <3>2. CASE c \in Sector(secpos)
        <4>1. image[c] = flash[c]
          BY <2>1, <3>2 DEF ImageInv
        <4> QED
          BY <2>1, <3>1, <3>2, <4>1 DEF Holds
      <3>3. CASE c \notin Sector(secpos)
        BY <2>1, <3>1, <3>3 DEF Holds
      <3> QED
        BY <3>2, <3>3
    <2> QED
      BY <2>1, <2>2, <1>10 DEF Begun
  <1>5. CASE WritePage
    <2>1. pc = "program" /\ pc' \in {"program", "next"} /\ UNCHANGED <<block, kept, left>>
      BY <1>5 DEF WritePage, call
    <2>2. ASSUME NEW b \in Blocks, b # block, NEW c \in Extent(b)
          PROVE  Holds(c)' = Holds(c)
      <3>1. c \in Cells
        BY <2>1, <2>2, OutsideTarget
      <3>2. flash'[c] = IF c \in Page THEN image[c] ELSE flash[c]
        BY <1>5, <3>1, PageStep
      <3>3. Page \subseteq DOMAIN image
        BY <1>5, PageStep
      <3>4. CASE rest = PageRemain
        <4>1. pc' = "next"
          BY <1>5, <3>4 DEF WritePage
        <4>2. c \in DOMAIN image \ Page => flash[c] = image[c]
          BY <1>5, <3>4, PageStep
        <4> QED
          BY <2>1, <3>2, <3>3, <4>1, <4>2 DEF Holds
      <3>5. CASE rest # PageRemain
        <4>1. pc' = "program" /\ image' = image
          BY <1>5, <2>1, <3>5 DEF WritePage
        <4> QED
          BY <2>1, <3>2, <3>3, <4>1 DEF Holds
      <3> QED
        BY <3>4, <3>5
    <2> QED
      BY <2>1, <2>2, <1>10 DEF Begun
  <1>6. CASE NextSector
    <2>1. pc = "next" /\ pc' = "check" /\ UNCHANGED <<flash, block, kept>>
          /\ left' = left - secremain
      BY <1>6 DEF NextSector
    <2>2. Begun'
      <3>1. left \in Nat /\ left <= block.len /\ secremain \in Nat /\ 0 < secremain /\ block \in Blocks
        BY <2>1, TargetPlace DEF CallInv
      <3>2. left - secremain < block.len
        BY <3>1, BlockType
      <3> QED
        BY <2>1, <3>2 DEF Begun
    <2> QED
      BY <2>1, <2>2, <1>10 DEF Holds
  <1>7. CASE WriteReturns
    <2>1. /\ pc = "next" /\ pc' = "idle" /\ flash' = flash /\ left = secremain
          /\ kept' = [kept EXCEPT ![block] = value] /\ block \in Blocks
          /\ kept \in [Blocks -> Values \cup {Lost}]
      BY <1>7 DEF WriteReturns, CallInv
    <2>2. ASSUME NEW c \in Extent(block)
          PROVE  flash[c] = Data(c)
      <3>1. /\ secpos * SectorSize + secoff = block.first + (block.len - left)
            /\ secoff \in Nat /\ left \in Nat
        BY <2>1 DEF CallInv
      <3>2. secpos * SectorSize \in Nat /\ block.first \in Nat /\ block.len \in Nat
        BY <2>1, TargetPlace, BlockType
      <3> DEFINE base == secpos * SectorSize
                 Before == block.first .. (base + secoff - 1)
      <3>3. Target = (base + secoff) .. (base + secoff + secremain - 1)
        BY DEF Target, Start
      <3>4. (\A d \in Before : flash[d] = Data(d)) /\ (\A d \in Target : flash[d] = Data(d))
        BY <2>1 DEF WrittenInv
      <3>6. base \in Nat /\ base + secoff = block.first + (block.len - left)
        BY <3>1, <3>2
      <3>7. c \in block.first .. block.first + block.len - 1
        BY <2>2 DEF Extent
      <3> HIDE DEF base
      <3>5. c \in Before \/ c \in Target
        BY <2>1, <3>1, <3>2, <3>3, <3>6, <3>7
      <3> QED
        BY <3>4, <3>5
    <2>3. ASSUME NEW b \in Blocks, kept'[b] \in Values, NEW c \in Extent(b)
          PROVE  flash'[c] = kept'[b][c - b.first]
      <3>1. CASE b = block
        BY <2>1, <2>2, <2>3, <3>1 DEF Data
      <3>2. CASE b # block
        <4>1. kept'[b] = kept[b]
          BY <2>1, <3>2
        <4>2. Holds(c) = kept[b][c - b.first]
          BY <2>3, <3>2, <4>1 DEF KeptInv
        <4> QED
          BY <2>1, <4>1, <4>2 DEF Holds
      <3> QED
        BY <3>1, <3>2
    <2> QED
      BY <2>1, <2>3 DEF KeptInv, Holds
  <1>8. CASE PowerCut
    <2>1. /\ pc # "idle" /\ pc' = "idle"
          /\ kept' = [b \in Blocks |-> IF Reached(b) THEN Lost ELSE kept[b]]
      BY <1>8 DEF PowerCut
    <2>2. ASSUME NEW cells, NEW new, Interrupted(cells, new), NEW c \in Cells, c \notin cells
          PROVE  flash'[c] = flash[c]
      BY <2>2 DEF Interrupted
    <2>3. ASSUME NEW b \in Blocks, kept'[b] \in Values, NEW c \in Extent(b)
          PROVE  flash'[c] = kept'[b][c - b.first]
      <3>1. ~ Reached(b) /\ kept'[b] = kept[b]
        BY <2>1, <2>3, BlocksAssumption
      <3>2. Holds(c) = kept[b][c - b.first]
        BY <2>1, <2>3, <3>1, ReachedMeans DEF KeptInv
      <3>3. c \in Cells
        BY CellsOfBlock
      <3>4. CASE pc = "erase"
        <4>1. c \notin Sector(secpos)
          BY <3>1, <3>4, ReachedMeans DEF ImageInv
        <4>2. Interrupted(Sector(secpos), [d \in Sector(secpos) |-> FF])
          BY <1>8, <3>4 DEF PowerCut
        <4>3. flash'[c] = flash[c]
          BY <2>2, <3>3, <4>1, <4>2
        <4> QED
          BY <3>1, <3>2, <3>4, <4>3 DEF Holds
      <3>5. CASE pc = "program"
        <4>1. b # block
          BY <3>1, <3>5, ReachedMeans
        <4>2. c \notin DOMAIN image
          <5>1. c \notin Target
            BY <3>5, <4>1, OutsideTarget
          <5>2. DOMAIN image = Sector(secpos) => c \notin Sector(secpos)
            BY <3>1, <3>5, ReachedMeans
          <5>3. DOMAIN image \in {Target, Sector(secpos)}
            BY <3>5 DEF ImageInv
          <5> QED
            BY <5>1, <5>2, <5>3
        <4>3. c \notin Page
          <5>1. Page \subseteq addr .. (addr + rest - 1)
            BY <3>5, PagePlace
          <5> QED
            BY <3>5, <4>2, <5>1 DEF ImageInv
        <4>4. Interrupted(Page, PageImage)
          BY <1>8, <3>5 DEF PowerCut
        <4>5. flash'[c] = flash[c]
          BY <2>2, <3>3, <4>3, <4>4
        <4> QED
          BY <3>1, <3>2, <4>2, <4>5 DEF Holds
      <3>6. CASE pc \notin {"erase", "program"}
        <4>1. flash' = flash
          BY <1>8, <3>6 DEF PowerCut
        <4> QED
          BY <3>1, <3>2, <3>6, <4>1 DEF Holds
      <3> QED
        BY <3>4, <3>5, <3>6
    <2> QED
      BY <2>1, <2>3 DEF KeptInv, Holds
  <1>9. CASE UNCHANGED vars
    BY <1>9 DEF vars, call, programming, KeptInv, Holds, Begun
  <1> QED
    BY <1>1, <1>2, <1>3, <1>4, <1>5, <1>6, <1>7, <1>8, <1>9 DEF Next, Driver

LEMMA Invariance == Spec => []IInv
  <1>1. IInv /\ [Next]_vars => IInv'
    BY CallStep, ImageStep, WrittenStep, KeptStep DEF IInv
  <1> QED
    BY InitInv, <1>1, PTL DEF Spec

-------------------------------------------------------------------------------
\* W25QXX_Write_NoCheck is only ever called where every cell it is to program is erased,
\* for every size of page and sector and every place of the blocks (w25qxx.c:136, 185-211).
THEOREM ProgramsOnlyErased == Spec => []ProgramsErased
  <1>1. IInv => ProgramsErased
    <2> SUFFICES ASSUME IInv, pc = "program", NEW c \in addr .. (addr + rest - 1)
                 PROVE  c \in Cells /\ flash[c] = FF
      BY DEF ProgramsErased
    <2>1. CallInv /\ ImageInv
      BY DEF IInv
    <2>2. c \in DOMAIN image /\ flash[c] = FF /\ DOMAIN image \in {Target, Sector(secpos)}
      BY <2>1 DEF ImageInv
    <2>3. Target \subseteq Sector(secpos) /\ Sector(secpos) \subseteq Cells
      BY <2>1, TargetPlace
    <2> QED
      BY <2>2, <2>3
  <1> QED
    BY <1>1, Invariance, PTL

\* Every block that no write or power cut has reached reads back the value of its last
\* finished write, whatever is written beside it (w25qxx.c:185-211): a sector rewritten for
\* one block gives its neighbours back what they held.
THEOREM BlocksAreKept == Spec => []RecordsKept
  <1>1. IInv => RecordsKept
    <2> SUFFICES ASSUME IInv, NEW b \in Blocks, kept[b] \in Values, pc = "idle" \/ ~ Reached(b),
                        NEW c \in Extent(b)
                 PROVE  flash[c] = kept[b][c - b.first]
      BY DEF RecordsKept
    <2>1. CallInv /\ ImageInv /\ KeptInv
      BY DEF IInv
    <2>2. CASE pc = "idle"
      BY <2>1, <2>2 DEF KeptInv, Holds
    <2>3. CASE pc # "idle"
      <3>1. ~ Reached(b)
        BY <2>3
      <3>2. Holds(c) = kept[b][c - b.first]
        BY <2>1, <2>3, <3>1, ReachedMeans DEF KeptInv
      <3>3. ASSUME pc = "program"
            PROVE  c \notin DOMAIN image
        <4>1. b # block
          BY <2>1, <2>3, <3>1, <3>3, ReachedMeans
        <4>2. c \notin Target
          BY <2>1, <2>3, <4>1, OutsideTarget
        <4>3. DOMAIN image = Sector(secpos) => c \notin Sector(secpos)
          BY <2>1, <2>3, <3>1, <3>3, ReachedMeans
        <4>4. DOMAIN image \in {Target, Sector(secpos)}
          BY <2>1, <3>3 DEF ImageInv
        <4> QED
          BY <4>2, <4>3, <4>4
      <3> QED
        BY <3>2, <3>3 DEF Holds
    <2> QED
      BY <2>2, <2>3
  <1> QED
    BY <1>1, Invariance, PTL
===============================================================================
