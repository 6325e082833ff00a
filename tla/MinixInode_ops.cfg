\* Two processes allocating, reading, unlinking, writing back, truncating
\* and freeing inodes of a file system with 2 inodes and a 3-bit inode map
\* from a correct image: the map fills up, so inode_alloc_minix() also
\* fails, and every disk wait happens with the superblock locked.
CONSTANTS
  p1 = p1
  p2 = p2
  Procs <- MC_Procs
  NoInode = NoInode
  NINODES = 2
  MAPBITS = 3
  WORDBITS = 2
  MKFS = "host"
  BreadResults = {"ok"}
SPECIFICATION Spec
INVARIANT TypeOK
INVARIANT DiskCurrent
PROPERTY OpsComplete
PROPERTY AllocRefines
