\* A zero-byte write past the end of an empty file maps block 0, then a read at an offset past the end inside that block.
CONSTANTS
  BLOCK_SIZE = 4
  NZONES = 2
  NFREE = 1
  Values = {1, 2}
  Offsets = {0, 1, 3, 4, 6}
  Counts = {0, 1, 2, 5}
  SIZE_T_BITS = 16
SPECIFICATION Spec
INVARIANT ReadBounded
