\* Links and removals in the root and in a subdirectory, directory growth
\* over a block boundary, running out of blocks, and rmdir of the subdirectory.
CONSTANTS
  a = a
  b = b
  dot = dot
  dotdot = dotdot
  EPB = 2
  NZONES = 3
  NFREE = 1
  Dirs = {1, 2}
  ROOT = 1
  Files = {3}
  Names <- MC_Names
  DOT = dot
  DOTDOT = dotdot
SPECIFICATION Spec
INVARIANT TypeOK
INVARIANT UniqueNames
INVARIANT LinksAccounted
PROPERTY ReuseBeforeGrow
