---------------------------- MODULE StationFlash ----------------------------
(***************************************************************************)
(* The driver of the serial flash (HARDWARE/W25QXX/w25qxx.c) under the     *)
(* blocks the station keeps there: five-minute records side by side        *)
(* (MEMORY/memory_my.c, SaveDataToFlash), the rainfall at the start of the *)
(* day (PROTOCOL/protocol.c, SaveDayStartRainfall) and, in the sector of   *)
(* the latter, the operation parameters (RTU_parameters_Writedata).        *)
(*                                                                         *)
(* The chip erases whole sectors and programs within a page; programming   *)
(* only clears bits.  W25QXX_Write hides that: it programs a target that   *)
(* is still erased, and rewrites the whole sector otherwise.  The power    *)
(* may go at any step.  One write runs at a time.                          *)
(***************************************************************************)
EXTENDS Integers

CONSTANTS
  SectorSize,  \* cells the chip erases together (4096)
  PageSize,    \* cells one page program reaches (256)
  Blocks,      \* the blocks written: [first, len]
  Values,      \* the buffers written: what each cell of a block is given, by its place in it
  FF,          \* an erased cell
  Junk,        \* a cell programmed twice, or interrupted
  Lost         \* of a block: no longer vouched for

ASSUME SizesAssumption ==
  /\ PageSize \in Nat \ {0}
  /\ SectorSize \in {PageSize * k : k \in 1..16}
  /\ Blocks \subseteq [first : Nat, len : Nat \ {0}]

Min2(a, b) == IF a <= b THEN a ELSE b
Sector(s) == (s * SectorSize)..(s * SectorSize + SectorSize - 1)
Extent(b) == b.first..(b.first + b.len - 1)

\* The blocks have cells of their own: FlashRecords places the records side by side, and the
\* day-start rainfall and the parameters behind them.
ASSUME BlocksAssumption ==
  /\ \A a, b \in Blocks : a # b => Extent(a) \cap Extent(b) = {}
  /\ Lost \notin Values

Cells == UNION {Sector(c \div SectorSize) : c \in UNION {Extent(b) : b \in Blocks}}

VARIABLES
  flash,       \* the contents of the chip
  pc,          \* where W25QXX_Write is; "idle": no write runs
  block, value, \* the block and the buffer it was called with
  pBuffer,     \* how far pBuffer has gone in the buffer
  secpos, secoff, secremain, \* the sector, the offset in it, the cells it takes
  left,        \* NumByteToWrite
  image,       \* what W25QXX_Write_NoCheck programs: W25QXX_BUFFER or pBuffer
  addr, rest,  \* where it stands and how much is left to program
  kept         \* per block: the buffer of its last finished write, or Lost before the first
               \* and after a power cut that reached it

call == <<block, value, pBuffer, secpos, secoff, secremain, left>>
programming == <<image, addr, rest>>
vars == <<flash, pc, call, programming, kept>>

NoBlock == [first |-> 0, len |-> 0]
Empty == [c \in {} |-> FF]

Init ==
  /\ flash = [c \in Cells |-> FF]
  /\ pc = "idle"
  /\ block = NoBlock /\ value = Empty /\ pBuffer = 0
  /\ secpos = 0 /\ secoff = 0 /\ secremain = 0 /\ left = 0
  /\ image = Empty /\ addr = 0 /\ rest = 0
  /\ kept = [b \in Blocks |-> Lost]

(***************************************************************************)
(* The chip.  Programming clears bits: an erased cell takes the value, a   *)
(* programmed one keeps it when given it again or given FF, and is spoilt  *)
(* by any other.                                                           *)
(***************************************************************************)
Programmed(old, new) ==
  IF old = FF THEN new ELSE IF new \in {FF, old} THEN old ELSE Junk

\* An operation cut short leaves a cell that was to change erased, if it was or was to be,
\* or else with bits of both.
Interrupted(cells, new) ==
  \E erased \in SUBSET {c \in cells : new[c] # flash[c] /\ FF \in {flash[c], new[c]}} :
    flash' = [c \in Cells |->
      IF c \notin cells \/ new[c] = flash[c] THEN flash[c] ELSE IF c \in erased THEN FF ELSE Junk]

\* The locals are gone when no call runs.
Return ==
  /\ block' = NoBlock /\ value' = Empty /\ pBuffer' = 0
  /\ secpos' = 0 /\ secoff' = 0 /\ secremain' = 0 /\ left' = 0
NothingToProgram == image' = Empty /\ addr' = 0 /\ rest' = 0

(***************************************************************************)
(* W25QXX_Write, up to its loop.                                           *)
(***************************************************************************)
W25QXX_Write(b, v) ==
  /\ pc = "idle"
  /\ pc' = "check"
  /\ block' = b /\ value' = v /\ pBuffer' = 0
  /\ secpos' = b.first \div SectorSize
  /\ secoff' = b.first % SectorSize
  /\ left' = b.len
  /\ secremain' = Min2(b.len, SectorSize - secoff')
  /\ UNCHANGED <<flash, programming, kept>>

Start == secpos * SectorSize + secoff
Target == Start..(Start + secremain - 1)

\* What the target is to get: the next cells of the buffer, from pBuffer on.
Given == [c \in Target |-> value[pBuffer + (c - Start)]]

\* The sector read, a cell of the target found programmed: an erase is needed.
NeedsErase ==
  /\ pc = "check"
  /\ \E c \in Target : flash[c] # FF
  /\ pc' = "erase"
  /\ image' = [c \in Sector(secpos) |-> flash[c]]
  /\ UNCHANGED <<flash, call, addr, rest, kept>>

\* Mutant of StillErased: only the first cell of the target is looked at.
StillErasedAtFirst ==
  /\ pc = "check"
  /\ flash[Start] = FF
  /\ pc' = "program"
  /\ image' = Given
  /\ addr' = Start
  /\ rest' = secremain
  /\ UNCHANGED <<flash, call, kept>>

\* The target is erased: program it directly, from the caller's buffer.
StillErased ==
  /\ pc = "check"
  /\ \A c \in Target : flash[c] = FF
  /\ pc' = "program"
  /\ image' = Given
  /\ addr' = Start
  /\ rest' = secremain
  /\ UNCHANGED <<flash, call, kept>>

\* W25QXX_Erase_Sector, the copy into the buffer, and W25QXX_Write_NoCheck of the sector.
EraseSector ==
  /\ pc = "erase"
  /\ flash' = [c \in Cells |-> IF c \in Sector(secpos) THEN FF ELSE flash[c]]
  /\ image' = [c \in Sector(secpos) |-> IF c \in Target THEN Given[c] ELSE image[c]]
  /\ addr' = secpos * SectorSize
  /\ rest' = SectorSize
  /\ pc' = "program"
  /\ UNCHANGED <<call, kept>>

(***************************************************************************)
(* W25QXX_Write_NoCheck: a page, or what is left of it, at a time.         *)
(***************************************************************************)
PageRemain == Min2(rest, PageSize - (addr % PageSize))
Page == addr..(addr + PageRemain - 1)
PageImage == [c \in Page |-> Programmed(flash[c], image[c])]

WritePage ==
  /\ pc = "program"
  /\ flash' = [c \in Cells |-> IF c \in Page THEN PageImage[c] ELSE flash[c]]
  /\ IF rest = PageRemain
       THEN pc' = "next" /\ NothingToProgram
       ELSE /\ addr' = addr + PageRemain
            /\ rest' = rest - PageRemain
            /\ UNCHANGED <<pc, image>>
  /\ UNCHANGED <<call, kept>>

\* Mutant of NextSector: pBuffer is not moved on.
NextSectorRereads ==
  /\ pc = "next"
  /\ left # secremain
  /\ secpos' = secpos + 1
  /\ secoff' = 0
  /\ left' = left - secremain
  /\ secremain' = Min2(left', SectorSize)
  /\ pc' = "check"
  /\ UNCHANGED <<flash, block, value, pBuffer, programming, kept>>

\* The rest of the block begins the next sector, with the rest of the buffer.
NextSector ==
  /\ pc = "next"
  /\ left # secremain
  /\ secpos' = secpos + 1
  /\ secoff' = 0
  /\ pBuffer' = pBuffer + secremain
  /\ left' = left - secremain
  /\ secremain' = Min2(left', SectorSize)
  /\ pc' = "check"
  /\ UNCHANGED <<flash, block, value, programming, kept>>

WriteReturns ==
  /\ pc = "next"
  /\ left = secremain
  /\ pc' = "idle"
  /\ kept' = [kept EXCEPT ![block] = value]
  /\ Return
  /\ UNCHANGED <<flash, programming>>

(***************************************************************************)
(* The power goes.  RAM is lost; the block being written is, once one of   *)
(* its cells may have changed, and every block with a cell in a sector     *)
(* that was being rewritten.                                               *)
(***************************************************************************)
Rewriting == pc \in {"erase", "program"} /\ DOMAIN image = Sector(secpos)
Begun == pc \in {"erase", "program", "next"} \/ left < block.len

Reached(b) ==
  \/ b = block /\ Begun
  \/ Rewriting /\ Extent(b) \cap Sector(secpos) # {}

PowerCut ==
  /\ pc # "idle"
  /\ CASE pc = "erase" -> Interrupted(Sector(secpos), [c \in Sector(secpos) |-> FF])
       [] pc = "program" -> Interrupted(Page, PageImage)
       [] OTHER -> UNCHANGED flash
  /\ kept' = [b \in Blocks |-> IF Reached(b) THEN Lost ELSE kept[b]]
  /\ pc' = "idle"
  /\ Return /\ NothingToProgram

Driver == NeedsErase \/ StillErased \/ EraseSector \/ WritePage \/ NextSector \/ WriteReturns

Next ==
  \/ \E b \in Blocks, v \in Values : W25QXX_Write(b, v)
  \/ Driver
  \/ PowerCut

Spec == Init /\ [][Next]_vars

(***************************************************************************)
(* Properties.                                                             *)
(***************************************************************************)

\* Every block reads back the buffer of its last finished write, cell for cell, whatever was
\* written beside it since, in its sector or across its ends, unless the power went while the
\* block or its sector was being written.  A block in the hands of the running write is left
\* out (w25qxx.c:185-211, the rewrite of a sector the target shares with its neighbours).
RecordsKept ==
  \A b \in Blocks :
    kept[b] \in Values /\ (pc = "idle" \/ ~Reached(b)) =>
      \A c \in Extent(b) : flash[c] = kept[b][c - b.first]

\* W25QXX_Write_NoCheck is only called where everything is erased: what it is to program is
\* still FF (w25qxx.c:136, 'the whole range must be FF, or writing to what is not FF fails').
ProgramsErased ==
  pc = "program" => \A c \in addr..(addr + rest - 1) : c \in Cells /\ flash[c] = FF
=============================================================================
