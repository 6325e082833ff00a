\* Two entries removed, then a link: dir_add reuses the last free slot seen.
CONSTANTS
  a = a
  b = b
  dot = dot
  dotdot = dotdot
  EPB = 2
  NZONES = 3
  NFREE = 1
  Dirs = {1, 2}
  ROOT = 1
  Files = {3}
  Names <- MC_Names
  DOT = dot
  DOTDOT = dotdot
SPECIFICATION Spec
PROPERTY FirstFreeReused
