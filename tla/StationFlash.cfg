\* Sectors of four cells, pages of two; two buffers, so that a rewrite changes every cell of a block.
CONSTANTS
  SectorSize = 4
  PageSize = 2
  Blocks <- MCBlocks
  Values <- MCValues
  FF = FF
  Junk = Junk
  Lost = Lost
SPECIFICATION Spec
INVARIANTS RecordsKept ProgramsErased
