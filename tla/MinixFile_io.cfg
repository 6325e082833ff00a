\* Writes of 0..5 bytes at offsets 0..6, reads checked at every state,
\* truncation, and a file system with one block fewer than the zones.
CONSTANTS
  BLOCK_SIZE = 4
  NZONES = 2
  NFREE = 1
  Values = {1, 2}
  Offsets = {0, 1, 3, 4, 6}
  Counts = {0, 1, 2, 5}
  SIZE_T_BITS = 16
SPECIFICATION Spec
INVARIANT TypeOK
INVARIANT BlocksConserved
INVARIANT ReadMatchesFile
