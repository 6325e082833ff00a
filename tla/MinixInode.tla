----------------------------- MODULE MinixInode -----------------------------
(***************************************************************************)
(* Inodes of the minix file system, src/src/kernel/fs/minix/inode.c:      *)
(* inode_alloc_minix(), inode_free_minix(), inode_write_minix(),           *)
(* inode_read_minix() and the locking of inode_truncate_minix(), run by    *)
(* several processes on one superblock, and the file system minix_mkfs()  *)
(* leaves behind (create_inode_map(), create_root_dir()).                  *)
(*                                                                         *)
(* The kernel is not preemptive: a call runs atomically up to the point    *)
(* where it sleeps.  superblock_lock() sleeps while the lock is taken;     *)
(* bread() of an inode block and block_free() may sleep on the disk, with *)
(* the superblock still locked.  Those are the steps of a call.            *)
(*                                                                         *)
(* The inode map is the set of its set bits; bit b stands for inode       *)
(* number b + 1 (num = bit + ... + 1 in inode_alloc_minix()).  The disk   *)
(* inode table is reduced to the link count of each inode, the field       *)
(* inode_read_minix() checks.  An in-core inode is                         *)
(* [num, nlinks, dirty].                                                    *)
(*                                                                         *)
(* superblock_lock/unlock/get/put, bread/brelse, block_free and the VFS    *)
(* callers (inode_get, inode_put, inode_alloc) are not in the repository's *)
(* sources; they are modelled from the spec.                               *)
(***************************************************************************)
EXTENDS Integers, FiniteSets

CONSTANTS
  Procs,         \* processes calling into the file system
  NINODES,       \* s_ninodes: size of the disk inode table
  MAPBITS,       \* bits of the inode map (imap_nblocks * BLOCK_SIZE * 8)
  WORDBITS,      \* bits of the uint32_t create_inode_map() copies per block
  MKFS,          \* "kernel": made by minix_mkfs(); "host": a correct image
  BreadResults,  \* outcomes bread() may have: "ok", "fail" (NULL)
  NoInode        \* the in-core inode of a process holding none

ASSUME NINODES \in Nat \ {0} /\ MAPBITS \in Nat \ {0} /\ WORDBITS \in Nat
ASSUME MKFS \in {"kernel", "host"} /\ BreadResults \subseteq {"ok", "fail"}

Bits == 0 .. MAPBITS - 1
Nums == {b + 1 : b \in Bits}
ROOT_LINKS == 3   \* 1 from inode_alloc_minix(), 1 each for "." and ".."

VARIABLES
  imap,      \* set bits of the inode map buffers
  isearch,   \* sb->isearch
  locked,    \* the superblock lock
  disk,      \* disk[n]: i_nlinks of disk inode n (0: free)
  core,      \* core[p]: the in-core inode process p holds, or NoInode
  pc,        \* where each process is
  arg,       \* inode number a read is for
  halted     \* a kernel fault stopped the system

vars == <<imap, isearch, locked, disk, core, pc, arg, halted>>

Core == [num : Nums, nlinks : 0 .. ROOT_LINKS, dirty : BOOLEAN]

(* bitmap_first_free() over the inode map, BITMAP_FULL as -1.              *)
FirstFree(map) ==
  IF map = Bits THEN -1
  ELSE CHOOSE b \in Bits \ map : \A c \in Bits \ map : b <= c

Held(p) == core[p] # NoInode

(* Inodes in the cache, and inodes being read into it.                     *)
Cached == {core[q].num : q \in {q \in Procs : Held(q)}}
Reading == {arg[q] : q \in {q \in Procs : pc[q] \in {"read", "read_io"}}}

-----------------------------------------------------------------------------
(* Outcomes of a kernel access through a NULL buffer pointer: a fault     *)
(* that stops the system, or a stray write that goes unnoticed.            *)
NullDerefs == {"panic", "continue"}

(***************************************************************************)
(* A process enters one of the calls; it sleeps in superblock_lock() (or  *)
(* superblock_get()) until the superblock is unlocked.  The guards are     *)
(* those of the VFS callers: inode_alloc for a process holding no inode,   *)
(* inode_get of an allocated inode (one a directory entry names) neither  *)
(* in the cache nor being read into it,                                    *)
(* inode_put writing back a dirty                                          *)
(* inode, freeing one whose links are gone, truncating a held one.         *)
(***************************************************************************)
Call(p, op, n) ==
  /\ ~halted
  /\ pc[p] = "idle"
  /\ CASE op = "alloc" -> ~Held(p)
       [] op = "read"  -> /\ ~Held(p)
                          /\ n - 1 \in imap
                          /\ n \notin Cached \cup Reading
       [] op = "write" -> Held(p) /\ core[p].dirty
       [] op = "free"  -> Held(p) /\ ~core[p].dirty /\ core[p].nlinks = 0
       [] op = "trunc" -> Held(p)
  /\ pc' = [pc EXCEPT ![p] = op]
  /\ arg' = [arg EXCEPT ![p] = n]
  /\ UNCHANGED <<imap, isearch, locked, disk, core, halted>>

(* A directory operation drops a link of the held inode and touches it.   *)
Unlink(p) ==
  /\ ~halted
  /\ pc[p] = "idle"
  /\ Held(p) /\ core[p].nlinks > 0
  /\ core' = [core EXCEPT ![p].nlinks = @ - 1, ![p].dirty = TRUE]
  /\ UNCHANGED <<imap, isearch, locked, disk, pc, arg, halted>>

(* inode_put() of a clean inode: it leaves the process.                    *)
Put(p) ==
  /\ ~halted
  /\ pc[p] = "idle"
  /\ Held(p) /\ ~core[p].dirty
  /\ core' = [core EXCEPT ![p] = NoInode]
  /\ UNCHANGED <<imap, isearch, locked, disk, pc, arg, halted>>

(* Variants of inode_alloc_minix(): the BITMAP_FULL test dropped, so a    *)
(* full map takes bit -1; error0 returning without superblock_unlock().   *)
AllocBodyNoFullCheck(p) ==
  LET bit == FirstFree(imap) IN
  /\ ~halted /\ ~locked
  /\ pc[p] = "alloc"
  /\ isearch' = bit + 1
  /\ imap' = imap \cup {bit}
  /\ core' = [core EXCEPT ![p] = [num |-> bit + 1, nlinks |-> 1, dirty |-> TRUE]]
  /\ locked' = FALSE
  /\ pc' = [pc EXCEPT ![p] = "idle"]
  /\ UNCHANGED <<disk, arg, halted>>

AllocBodyKeepLock(p) ==
  LET bit == FirstFree(imap) IN
  /\ ~halted /\ ~locked
  /\ pc[p] = "alloc"
  /\ IF bit = -1
     THEN UNCHANGED <<imap, isearch, core>>
     ELSE /\ isearch' = bit + 1
          /\ imap' = imap \cup {bit}
          /\ core' = [core EXCEPT ![p] = [num |-> bit + 1, nlinks |-> 1, dirty |-> TRUE]]
  /\ locked' = (bit = -1)
  /\ pc' = [pc EXCEPT ![p] = "idle"]
  /\ UNCHANGED <<disk, arg, halted>>

(* Variant of inode_free_minix() clearing bit num, not num - 1.            *)
FreeBodyWrongBit(p) ==
  LET n == core[p].num IN
  /\ ~halted /\ ~locked
  /\ pc[p] = "free"
  /\ imap' = imap \ {n}
  /\ isearch' = IF n < isearch THEN n ELSE isearch
  /\ core' = [core EXCEPT ![p] = NoInode]
  /\ locked' = FALSE
  /\ pc' = [pc EXCEPT ![p] = "idle"]
  /\ UNCHANGED <<disk, arg, halted>>

(* Variant of inode_write_minix() that clears INODE_DIRTY without copying *)
(* the link count into the disk inode.                                     *)
WriteDoneNoCopy(p, r, ub) ==
  /\ ~halted
  /\ pc[p] = "write_io"
  /\ halted' = (r = "fail" /\ ub = "panic")
  /\ core' = [core EXCEPT ![p].dirty = FALSE]
  /\ locked' = FALSE
  /\ pc' = [pc EXCEPT ![p] = "idle"]
  /\ UNCHANGED <<imap, isearch, arg, disk>>

(***************************************************************************)
(* inode_alloc_minix(): lock, first free bit, num = bit + 1, isearch,      *)
(* set the bit, initialise the in-core inode, unlock.  error0 (map full)   *)
(* unlocks and fails.  The VFS caller touches the fresh inode.              *)
(***************************************************************************)
AllocBody(p) ==
  LET bit == FirstFree(imap) IN
  /\ ~halted /\ ~locked
  /\ pc[p] = "alloc"
  /\ IF bit = -1
     THEN UNCHANGED <<imap, isearch, core>>
     ELSE /\ isearch' = bit + 1
          /\ imap' = imap \cup {bit}
          /\ core' = [core EXCEPT ![p] = [num |-> bit + 1, nlinks |-> 1, dirty |-> TRUE]]
  /\ locked' = FALSE
  /\ pc' = [pc EXCEPT ![p] = "idle"]
  /\ UNCHANGED <<disk, arg, halted>>

(***************************************************************************)
(* inode_free_minix(): lock, clear bit num - 1, lower isearch, unlock.    *)
(* The VFS caller frees an inode with no links, already written back, and  *)
(* drops it from the cache.                                                *)
(***************************************************************************)
FreeBody(p) ==
  LET n == core[p].num IN
  /\ ~halted /\ ~locked
  /\ pc[p] = "free"
  /\ imap' = imap \ {n - 1}
  /\ isearch' = IF n < isearch THEN n ELSE isearch
  /\ core' = [core EXCEPT ![p] = NoInode]
  /\ locked' = FALSE
  /\ pc' = [pc EXCEPT ![p] = "idle"]
  /\ UNCHANGED <<disk, arg, halted>>

(***************************************************************************)
(* inode_write_minix() of a dirty inode up to bread(): lock, block number, *)
(* and the read of the inode block, which sleeps with the lock held.       *)
(***************************************************************************)
WriteBody(p) ==
  /\ ~halted /\ ~locked
  /\ pc[p] = "write"
  /\ locked' = TRUE
  /\ pc' = [pc EXCEPT ![p] = "write_io"]
  /\ UNCHANGED <<imap, isearch, disk, core, arg, halted>>

(***************************************************************************)
(* The rest of inode_write_minix() once bread() returns.  On NULL it       *)
(* unlocks and falls through: buffer_data(NULL) is a fault ("panic") or   *)
(* a write to low memory ("continue"), after which the dirty flag is       *)
(* cleared, brelse(NULL) runs and the superblock is unlocked again.        *)
(***************************************************************************)
WriteDone(p, r, ub) ==
  LET ip == core[p] IN
  /\ ~halted
  /\ pc[p] = "write_io"
  /\ IF r = "ok"
     THEN /\ disk' = [disk EXCEPT ![ip.num] = ip.nlinks]
          /\ UNCHANGED halted
     ELSE /\ halted' = (ub = "panic")
          /\ UNCHANGED disk
  /\ core' = [core EXCEPT ![p].dirty = FALSE]
  /\ locked' = FALSE
  /\ pc' = [pc EXCEPT ![p] = "idle"]
  /\ UNCHANGED <<imap, isearch, arg>>

(***************************************************************************)
(* inode_read_minix(dev, num) up to bread(): superblock_get() locks the   *)
(* superblock, then the inode block is read.                               *)
(***************************************************************************)
ReadBody(p) ==
  /\ ~halted /\ ~locked
  /\ pc[p] = "read"
  /\ locked' = TRUE
  /\ pc' = [pc EXCEPT ![p] = "read_io"]
  /\ UNCHANGED <<imap, isearch, disk, core, arg, halted>>

(***************************************************************************)
(* The rest of inode_read_minix(): a NULL buffer or a disk inode with no   *)
(* links goes to error1 (brelse, superblock_put, fail; brelse(NULL) is    *)
(* an access through NULL); otherwise the                                  *)
(* in-core inode takes the disk fields, clean.                              *)
(***************************************************************************)
ReadDone(p, r, ub) ==
  LET n == arg[p] IN
  /\ ~halted
  /\ pc[p] = "read_io"
  /\ halted' = (r = "fail" /\ ub = "panic")
  /\ core' = IF r = "ok" /\ disk[n] # 0
             THEN [core EXCEPT ![p] = [num |-> n, nlinks |-> disk[n], dirty |-> FALSE]]
             ELSE core
  /\ locked' = FALSE
  /\ pc' = [pc EXCEPT ![p] = "idle"]
  /\ UNCHANGED <<imap, isearch, disk, arg>>

(***************************************************************************)
(* inode_truncate_minix(): lock, block_free() of every zone (which may     *)
(* sleep on an indirect block), then unlock, size 0 and inode_touch().     *)
(***************************************************************************)
TruncBody(p) ==
  /\ ~halted /\ ~locked
  /\ pc[p] = "trunc"
  /\ locked' = TRUE
  /\ pc' = [pc EXCEPT ![p] = "trunc_io"]
  /\ UNCHANGED <<imap, isearch, disk, core, arg, halted>>

TruncDone(p) ==
  /\ ~halted
  /\ pc[p] = "trunc_io"
  /\ locked' = FALSE
  /\ core' = [core EXCEPT ![p].dirty = TRUE]
  /\ pc' = [pc EXCEPT ![p] = "idle"]
  /\ UNCHANGED <<imap, isearch, disk, arg, halted>>

-----------------------------------------------------------------------------
(***************************************************************************)
(* The file system at mount time.  minix_mkfs() zeroes the device, copies *)
(* one uninitialised uint32_t per inode-map block (create_inode_map()), so *)
(* the first WORDBITS bits are whatever the stack held and the rest are    *)
(* clear, then create_root_dir() allocates the root with inode_alloc and   *)
(* writes it with ROOT_LINKS links.  A correct image has the root at      *)
(* inode 1 and every bit past the inode table set.                         *)
(***************************************************************************)
MkfsImap(garbage) == garbage \cup {FirstFree(garbage)}

HostImap == {0} \cup {b \in Bits : b >= NINODES}

Init ==
  /\ \/ MKFS = "host" /\ imap = HostImap /\ isearch = 1
     \/ MKFS = "kernel" /\ \E g \in SUBSET (0 .. WORDBITS - 1) :
                           /\ FirstFree(g) # -1
                           /\ imap = MkfsImap(g)
                           /\ isearch = FirstFree(g) + 1
  /\ locked = FALSE
  /\ disk = [n \in Nums |-> IF n = isearch THEN ROOT_LINKS ELSE 0]
  /\ core = [p \in Procs |-> NoInode]
  /\ pc = [p \in Procs |-> "idle"]
  /\ arg = [p \in Procs |-> 1]
  /\ halted = FALSE

Next ==
  \E p \in Procs :
    \/ \E op \in {"alloc", "write", "free", "trunc"} : Call(p, op, 1)
    \/ \E n \in Nums : Call(p, "read", n)
    \/ Unlink(p)
    \/ Put(p)
    \/ AllocBody(p)
    \/ FreeBody(p)
    \/ WriteBody(p)
    \/ \E r \in BreadResults, ub \in NullDerefs : WriteDone(p, r, ub)
    \/ ReadBody(p)
    \/ \E r \in BreadResults, ub \in NullDerefs : ReadDone(p, r, ub)
    \/ TruncBody(p)
    \/ TruncDone(p)

(***************************************************************************)
(* A process sleeping on the superblock is woken by every unlock and runs *)
(* again when the scheduler picks it, which it eventually does            *)
(* (StarvationFree in PM); it finds the lock free only if it is picked in *)
(* a window where nobody holds it, so taking the lock is strongly fair.    *)
(* A disk request completes and a truncation's block_free() loop ends:     *)
(* the steps after a sleep are weakly fair.  Calls are made by user        *)
(* processes and carry no fairness.                                        *)
(***************************************************************************)
Fairness ==
  \A p \in Procs :
    /\ SF_vars(AllocBody(p)) /\ SF_vars(FreeBody(p))
    /\ SF_vars(WriteBody(p)) /\ SF_vars(ReadBody(p)) /\ SF_vars(TruncBody(p))
    /\ WF_vars(\E r \in BreadResults, ub \in NullDerefs : WriteDone(p, r, ub))
    /\ WF_vars(\E r \in BreadResults, ub \in NullDerefs : ReadDone(p, r, ub))
    /\ WF_vars(TruncDone(p))

Spec == Init /\ [][Next]_vars /\ Fairness

-----------------------------------------------------------------------------
(***************************************************************************)
(* Properties.                                                             *)
(***************************************************************************)
TypeOK ==
  /\ imap \subseteq Bits
  /\ isearch \in Nums
  /\ locked \in BOOLEAN
  /\ disk \in [Nums -> 0 .. ROOT_LINKS]
  /\ core \in [Procs -> Core \cup {NoInode}]
  /\ pc \in [Procs -> {"idle", "alloc", "free", "write", "write_io",
                        "read", "read_io", "trunc", "trunc_io"}]
  /\ arg \in [Procs -> Nums]
  /\ halted \in BOOLEAN

(* A clean in-core inode agrees with its disk inode: inode_write_minix()   *)
(* copies the fields before it clears INODE_DIRTY, and inode_read_minix()  *)
(* fills a clean inode from the disk, even when another process held the  *)
(* superblock across its own disk wait in between.                         *)
DiskCurrent ==
  \A p \in Procs :
    Held(p) /\ ~core[p].dirty => disk[core[p].num] = core[p].nlinks

(* Every call a process makes into the inode layer returns: every path of *)
(* every call, the error paths included, unlocks the superblock.           *)
OpsComplete ==
  \A p \in Procs : pc[p] # "idle" ~> pc[p] = "idle"

(* The inode map implements the allocator of the spec: allocation gives  *)
(* the lowest free number, free gives back exactly the freed inode's.      *)
Alloc == INSTANCE InodeMap WITH
  used <- {b + 1 : b \in imap},
  owner <- [p \in Procs |-> IF Held(p) THEN core[p].num ELSE 0]

AllocRefines == Alloc!Spec

(* Every inode number inode_alloc_minix() hands out names an inode of the *)
(* disk inode table (1 .. s_ninodes).                                       *)
AllocatedInTable ==
  \A p \in Procs : Held(p) => core[p].num <= NINODES
=============================================================================
