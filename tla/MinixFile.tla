----------------------------- MODULE MinixFile ------------------------------
(***************************************************************************)
(* Byte I/O on one minix inode, src/src/kernel/fs/minix/file.c:            *)
(* file_read_minix() (dir_read_minix() is the same loop),                  *)
(* file_write_minix(), and inode_truncate_minix() of inode.c, checked      *)
(* against the abstract file they implement: a sequence of bytes.          *)
(*                                                                         *)
(* The inode has NZONES blocks of BLOCK_SIZE bytes; a byte is a member of *)
(* a small set of values, 0 being the zero byte a fresh block holds.       *)
(* size_t arithmetic is modulo 2^SIZE_T_BITS.  block_map() and block_free() are not *)
(* in the repository's sources; they are modelled from the spec: a block  *)
(* past the zones maps to BLOCK_NULL, a missing one is allocated (zeroed) *)
(* on write while free blocks remain.                                      *)
(***************************************************************************)
EXTENDS Integers, Sequences, FiniteSets

CONSTANTS
  BLOCK_SIZE,   \* bytes per block
  NZONES,       \* blocks the inode may map
  NFREE,        \* free blocks of the file system at start
  Values,       \* byte values written (0 excluded)
  Offsets,      \* offsets passed to read and write
  Counts,       \* byte counts passed to read and write
  SIZE_T_BITS   \* width of size_t in the model (TLC's integers have 32
                \* bits with sign, so below the target's 32)

ASSUME BLOCK_SIZE \in Nat \ {0} /\ NZONES \in Nat \ {0} /\ NFREE \in Nat
ASSUME 0 \notin Values

SIZE_MAX == 2^SIZE_T_BITS
Bytes == 0 .. NZONES * BLOCK_SIZE - 1
BlockOf(off) == off \div BLOCK_SIZE
Min2(x, y) == IF x < y THEN x ELSE y

VARIABLES
  isize,     \* i->size
  mapped,    \* mapped[b]: zone b holds a block
  data,      \* data[k]: byte k of the inode's blocks
  nfree,     \* free blocks of the file system
  dirty,     \* INODE_DIRTY
  contents   \* the abstract file: its bytes, in order

vars == <<isize, mapped, data, nfree, dirty, contents>>

(***************************************************************************)
(* The read loop from offset off with n bytes left and cnt copied so far: *)
(* it stops at an unmapped block, bounds the chunk by the block and by     *)
(* the bytes left before size (signed compare, then the difference taken  *)
(* as a size_t), stops on a zero chunk, and copies.  A chunk larger than  *)
(* what is left of the block is a copy past the block buffer: the loop is *)
(* cut there with overflow set.                                            *)
(***************************************************************************)
RECURSIVE ReadLoop(_, _, _, _)
ReadLoop(off, n, cnt, got) ==
  LET blkoff == off % BLOCK_SIZE
      c0 == Min2(n, BLOCK_SIZE - blkoff)
      chunk == IF c0 > isize - off THEN (isize - off) % SIZE_MAX ELSE c0
  IN  CASE BlockOf(off) >= NZONES \/ ~mapped[BlockOf(off)]
             -> [count |-> cnt, bytes |-> got, overflow |-> FALSE]
        [] chunk = 0
             -> [count |-> cnt, bytes |-> got, overflow |-> FALSE]
        [] chunk > BLOCK_SIZE - blkoff
             -> [count |-> cnt + chunk, bytes |-> got, overflow |-> TRUE]
        [] OTHER ->
             LET got2 == got \o [k \in 1 .. chunk |-> data[off + k - 1]] IN
             IF n - chunk > 0 THEN ReadLoop(off + chunk, n - chunk, cnt + chunk, got2)
             ELSE [count |-> cnt + chunk, bytes |-> got2, overflow |-> FALSE]

FileRead(off, n) == ReadLoop(off, n, 0, <<>>)

(* dir_read_minix() runs the very same loop on a directory inode.         *)
DirRead(off, n) == ReadLoop(off, n, 0, <<>>)

(***************************************************************************)
(* The write loop: block_map(i, off, 1), the chunk bounded by the block,   *)
(* the copy, and size raised (inode dirty) when off passed it.  The body  *)
(* runs once even for n = 0.  Result: the new inode fields and the count. *)
(***************************************************************************)
(* Variants of the write loop: block_map() allocating with no free block *)
(* left; size compared with off before off is advanced past the chunk.  *)
RECURSIVE WriteLoopNoSpaceCheck(_, _, _, _)
WriteLoopNoSpaceCheck(s, off, n, v) ==
  LET b == BlockOf(off)
      chunk == Min2(n, BLOCK_SIZE - (off % BLOCK_SIZE))
      s1 == IF b < NZONES /\ ~s.mapped[b]
            THEN [s EXCEPT !.mapped[b] = TRUE, !.nfree = @ - 1,
                           !.data = [k \in Bytes |-> IF BlockOf(k) = b THEN 0 ELSE @[k]]]
            ELSE s
      s2 == [s1 EXCEPT !.data = [k \in Bytes |->
                                   IF off <= k /\ k < off + chunk THEN v ELSE @[k]],
                       !.count = @ + chunk]
      s3 == IF off + chunk > s2.size
            THEN [s2 EXCEPT !.size = off + chunk, !.dirty = TRUE] ELSE s2
  IN  IF b >= NZONES THEN s
      ELSE IF n - chunk > 0 THEN WriteLoopNoSpaceCheck(s3, off + chunk, n - chunk, v)
      ELSE s3

RECURSIVE WriteLoopEarlySize(_, _, _, _)
WriteLoopEarlySize(s, off, n, v) ==
  LET b == BlockOf(off)
      chunk == Min2(n, BLOCK_SIZE - (off % BLOCK_SIZE))
      s1 == IF b < NZONES /\ ~s.mapped[b] /\ s.nfree > 0
            THEN [s EXCEPT !.mapped[b] = TRUE, !.nfree = @ - 1,
                           !.data = [k \in Bytes |-> IF BlockOf(k) = b THEN 0 ELSE @[k]]]
            ELSE s
      s2 == [s1 EXCEPT !.data = [k \in Bytes |->
                                   IF off <= k /\ k < off + chunk THEN v ELSE @[k]],
                       !.count = @ + chunk]
      s3 == IF off > s2.size THEN [s2 EXCEPT !.size = off, !.dirty = TRUE] ELSE s2
  IN  IF b >= NZONES \/ ~s1.mapped[b] THEN s
      ELSE IF n - chunk > 0 THEN WriteLoopEarlySize(s3, off + chunk, n - chunk, v)
      ELSE s3

RECURSIVE WriteLoop(_, _, _, _)
WriteLoop(s, off, n, v) ==
  LET b == BlockOf(off)
      blkoff == off % BLOCK_SIZE
      chunk == Min2(n, BLOCK_SIZE - blkoff)
      fresh == b < NZONES /\ ~s.mapped[b] /\ s.nfree > 0
      s1 == IF fresh
            THEN [s EXCEPT !.mapped[b] = TRUE, !.nfree = @ - 1,
                           !.data = [k \in Bytes |-> IF BlockOf(k) = b THEN 0 ELSE @[k]]]
            ELSE s
      s2 == [s1 EXCEPT !.data = [k \in Bytes |->
                                   IF off <= k /\ k < off + chunk THEN v ELSE @[k]],
                       !.count = @ + chunk]
      s3 == IF off + chunk > s2.size
            THEN [s2 EXCEPT !.size = off + chunk, !.dirty = TRUE] ELSE s2
  IN  IF b >= NZONES \/ ~s1.mapped[b] THEN s
      ELSE IF n - chunk > 0 THEN WriteLoop(s3, off + chunk, n - chunk, v)
      ELSE s3

(* The abstract write: n bytes v at off in a file of len bytes; a gap    *)
(* before them reads as 0.                                                 *)
Written(c, off, n, v, len) ==
  [k \in 1 .. len |->
     CASE off < k /\ k <= off + n -> v
       [] k <= Len(c)             -> c[k]
       [] OTHER                   -> 0]

(***************************************************************************)
(* file_write_minix(i, buf, n, off): every byte of buf is v.  The abstract *)
(* file takes the bytes the call reports written and the size it leaves   *)
(* (a write past the end, even of 0 bytes, extends the file).              *)
(***************************************************************************)
FileWrite(off, n, v) ==
  LET s == WriteLoop([size |-> isize, mapped |-> mapped, data |-> data,
                      nfree |-> nfree, dirty |-> dirty, count |-> 0], off, n, v)
  IN  /\ isize' = s.size
      /\ mapped' = s.mapped
      /\ data' = s.data
      /\ nfree' = s.nfree
      /\ dirty' = s.dirty
      /\ contents' = Written(contents, off, s.count, v, s.size)

(* Variant of truncation that clears the zones without freeing blocks.  *)
TruncateNoFree ==
  /\ mapped' = [b \in 0 .. NZONES - 1 |-> FALSE]
  /\ isize' = 0
  /\ dirty' = TRUE
  /\ contents' = <<>>
  /\ UNCHANGED <<data, nfree>>

(***************************************************************************)
(* inode_truncate_minix(): every zone freed, size 0, inode touched.        *)
(***************************************************************************)
Truncate ==
  /\ nfree' = nfree + Cardinality({b \in 0 .. NZONES - 1 : mapped[b]})
  /\ mapped' = [b \in 0 .. NZONES - 1 |-> FALSE]
  /\ isize' = 0
  /\ dirty' = TRUE
  /\ contents' = <<>>
  /\ UNCHANGED data

Init ==
  /\ isize = 0
  /\ mapped = [b \in 0 .. NZONES - 1 |-> FALSE]
  /\ data = [k \in Bytes |-> 0]
  /\ nfree = NFREE
  /\ dirty = FALSE
  /\ contents = <<>>

Next ==
  \/ \E off \in Offsets, n \in Counts, v \in Values : FileWrite(off, n, v)
  \/ Truncate

Spec == Init /\ [][Next]_vars

-----------------------------------------------------------------------------
(***************************************************************************)
(* Properties.  Reads change no state: file_read_minix() is checked in     *)
(* every reachable state for every offset and count.                       *)
(***************************************************************************)
TypeOK ==
  /\ isize \in 0 .. NZONES * BLOCK_SIZE
  /\ mapped \in [0 .. NZONES - 1 -> BOOLEAN]
  /\ data \in [Bytes -> Values \cup {0}]
  /\ nfree \in 0 .. NFREE
  /\ dirty \in BOOLEAN
  /\ contents \in Seq(Values \cup {0})

(* No block is lost or counted twice: truncate gives back what writes     *)
(* took.                                                                   *)
BlocksConserved ==
  nfree + Cardinality({b \in 0 .. NZONES - 1 : mapped[b]}) = NFREE

(* The spec of read/write (round trip): a read at or before the end of    *)
(* the file returns exactly the bytes last written there (0 in a gap),    *)
(* as many as asked up to the end of the file, or fewer only where it     *)
(* meets an unmapped block.                                                *)
ReadMatchesFile ==
  /\ Len(contents) = isize
  /\ \A off \in Offsets, n \in Counts :
       off <= isize =>
         LET r == FileRead(off, n) IN
         /\ ~r.overflow
         /\ r.bytes = SubSeq(contents, off + 1, off + r.count)
         /\ \/ r.count = Min2(n, isize - off)
            \/ BlockOf(off + r.count) >= NZONES
            \/ ~mapped[BlockOf(off + r.count)]

(* file_read_minix() returns at most the count it was asked for and       *)
(* copies no more: its result is what the caller's buffer received.        *)
ReadBounded ==
  \A off \in Offsets, n \in Counts : FileRead(off, n).count <= n
=============================================================================
