\* A file system made by minix_mkfs() with 2 inodes: the first 2 bits of
\* the inode map are the uninitialised word create_inode_map() copies, the
\* third bit, past the inode table, is left clear.
CONSTANTS
  p1 = p1
  p2 = p2
  Procs <- MC_Procs
  NoInode = NoInode
  NINODES = 2
  MAPBITS = 3
  WORDBITS = 2
  MKFS = "kernel"
  BreadResults = {"ok"}
SPECIFICATION Spec
INVARIANT AllocatedInTable
