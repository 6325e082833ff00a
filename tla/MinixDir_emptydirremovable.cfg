\* A file linked into the subdirectory and removed again: rmdir is Busy.
CONSTANTS
  a = a
  b = b
  dot = dot
  dotdot = dotdot
  EPB = 2
  NZONES = 3
  NFREE = 1
  Dirs = {1, 2}
  ROOT = 1
  Files = {3}
  Names <- MC_Names
  DOT = dot
  DOTDOT = dotdot
SPECIFICATION Spec
PROPERTY EmptyDirRemovable
