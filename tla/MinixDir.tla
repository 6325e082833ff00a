------------------------------ MODULE MinixDir ------------------------------
(***************************************************************************)
(* Directories of the minix file system, src/src/kernel/fs/minix/file.c:   *)
(* dirent_search_minix(), dir_add_minix() and dir_remove_minix(), driven   *)
(* by link() (dir_add and a new link) and by sys_rmdir()/unlink()          *)
(* (dir_remove).                                                           *)
(*                                                                         *)
(* A directory is an array of fixed-size entries over its blocks; a slot   *)
(* holds [ino |-> inode number or INODE_NULL, name |-> name].  size counts *)
(* slots (the code's size/sizeof(struct d_dirent)).  A removed entry keeps *)
(* its slot with ino = INODE_NULL.  Block contents, names and inode        *)
(* numbers are small sets of model values and integers.                    *)
(*                                                                         *)
(* block_map() and link() are not in the repository's sources; they are    *)
(* modelled from the spec.                                                 *)
(***************************************************************************)
EXTENDS Integers, FiniteSets

CONSTANTS
  EPB,          \* directory entries per block (BLOCK_SIZE/sizeof(d_dirent))
  NZONES,       \* blocks a directory may map (its zone array)
  NFREE,        \* free blocks of the file system at start
  Dirs,         \* inode numbers of the directories
  ROOT,         \* the root directory, parent of every other one
  Files,        \* inode numbers of regular files
  Names,        \* names user calls may add or remove
  DOT, DOTDOT   \* the names "." and ".."

ASSUME EPB \in Nat \ {0} /\ NZONES \in Nat \ {0} /\ NFREE \in Nat
ASSUME ROOT \in Dirs /\ Dirs \cap Files = {} /\ 0 \notin Dirs \cup Files

INODE_NULL == 0
Inodes == Dirs \cup Files
Slots == 0 .. NZONES * EPB - 1
BlockOf(i) == i \div EPB

(* Error numbers the operations return.                                    *)
ENOENT == 2
EPERM == 1
EBUSY == 16
ENOSPC == 28

VARIABLES
  slot,    \* slot[d][i]: entry i of directory d
  size,    \* size[d]: number of slots of directory d
  mapped,  \* mapped[d][b]: block b of directory d is allocated
  nfree,   \* free data blocks left
  nlinks,  \* nlinks[x]: link count of inode x
  ret      \* value returned by the last operation

vars == <<slot, size, mapped, nfree, nlinks, ret>>

FreeEntry == [ino |-> INODE_NULL, name |-> DOT]
Live(d, i) == i < size[d] /\ mapped[d][BlockOf(i)] /\ slot[d][i].ino # INODE_NULL

(***************************************************************************)
(* The search loop of dirent_search_minix() from slot i: an unmapped block *)
(* is skipped whole; a live entry named name ends the search; a free one   *)
(* is remembered in entry, overwriting the one remembered before.          *)
(* Result: [found |-> slot or -1, entry |-> last free slot or -1].         *)
(***************************************************************************)
(* Variants of the search loop: one stopping a slot short of nentries;  *)
(* one that never remembers a free slot.                                   *)
RECURSIVE SearchFromShort(_, _, _, _)
SearchFromShort(d, name, i, entry) ==
  IF i >= size[d] - 1 THEN [found |-> -1, entry |-> entry]
  ELSE IF ~mapped[d][BlockOf(i)] THEN SearchFromShort(d, name, i + EPB, entry)
  ELSE IF slot[d][i].ino # INODE_NULL
       THEN IF slot[d][i].name = name THEN [found |-> i, entry |-> entry]
            ELSE SearchFromShort(d, name, i + 1, entry)
  ELSE SearchFromShort(d, name, i + 1, i)

RECURSIVE SearchFromNoRemember(_, _, _, _)
SearchFromNoRemember(d, name, i, entry) ==
  IF i >= size[d] THEN [found |-> -1, entry |-> entry]
  ELSE IF ~mapped[d][BlockOf(i)] THEN SearchFromNoRemember(d, name, i + EPB, entry)
  ELSE IF slot[d][i].ino # INODE_NULL /\ slot[d][i].name = name
       THEN [found |-> i, entry |-> entry]
  ELSE SearchFromNoRemember(d, name, i + 1, entry)

RECURSIVE SearchFrom(_, _, _, _)
SearchFrom(d, name, i, entry) ==
  IF i >= size[d] THEN [found |-> -1, entry |-> entry]
  ELSE IF ~mapped[d][BlockOf(i)] THEN SearchFrom(d, name, i + EPB, entry)
  ELSE IF slot[d][i].ino # INODE_NULL
       THEN IF slot[d][i].name = name THEN [found |-> i, entry |-> entry]
            ELSE SearchFrom(d, name, i + 1, entry)
  ELSE SearchFrom(d, name, i + 1, i)

(***************************************************************************)
(* dirent_search_minix(dip, name, buf, create): the slot it returns, or    *)
(* kind "slot" with the slot at, or "dup" (found while creating, EEXIST),  *)
(* "nospc" (the directory could not grow) or "none".  grow tells whether  *)
(* the directory must grow by one slot for the returned one.              *)
(***************************************************************************)
DirentSearch(d, name, create) ==
  LET r == SearchFrom(d, name, 0, -1)
      n == size[d]
  IN  CASE r.found # -1 /\ create     -> [kind |-> "dup", at |-> -1, grow |-> FALSE]
        [] r.found # -1               -> [kind |-> "slot", at |-> r.found, grow |-> FALSE]
        [] ~create                    -> [kind |-> "none", at |-> -1, grow |-> FALSE]
        [] r.entry >= 0               -> [kind |-> "slot", at |-> r.entry, grow |-> FALSE]
        [] BlockOf(n) >= NZONES \/ (~mapped[d][BlockOf(n)] /\ nfree = 0)
                                      -> [kind |-> "nospc", at |-> -1, grow |-> FALSE]
        [] OTHER                      -> [kind |-> "slot", at |-> n, grow |-> TRUE]

(* The growth of the directory by one slot: block_map(dip, .., 1) maps    *)
(* the block of slot size[d] if it is not (a fresh block holds only free  *)
(* entries), and size is incremented.                                      *)
GrowBlock(d) == BlockOf(size[d])

(* Variant of the growth that allocates a block even into a mapped one.  *)
GrowAlwaysAllocates(d) ==
  LET b == GrowBlock(d) IN
  /\ mapped' = [mapped EXCEPT ![d][b] = TRUE]
  /\ nfree' = nfree - 1
  /\ size' = [size EXCEPT ![d] = @ + 1]

Grow(d) ==
  LET b == GrowBlock(d) IN
  /\ mapped' = [mapped EXCEPT ![d][b] = TRUE]
  /\ nfree' = IF mapped[d][b] THEN nfree ELSE nfree - 1
  /\ size' = [size EXCEPT ![d] = @ + 1]

(* The entries of d as dir_add_minix() finds them after the search.        *)
SlotsAfter(d, grow) ==
  IF grow /\ ~mapped[d][GrowBlock(d)]
  THEN [i \in Slots |-> IF BlockOf(i) = GrowBlock(d) THEN FreeEntry ELSE slot[d][i]]
  ELSE slot[d]

(***************************************************************************)
(* link(): dir_add_minix(d, t, name), then one more link to t.  dir_add    *)
(* writes name and inode number into the slot dirent_search returned.      *)
(***************************************************************************)
Link(d, name, t) ==
  LET r == DirentSearch(d, name, TRUE) IN
  IF r.kind # "slot"
  THEN /\ ret' = -1
       /\ UNCHANGED <<slot, size, mapped, nfree, nlinks>>
  ELSE /\ IF r.grow THEN Grow(d) ELSE UNCHANGED <<size, mapped, nfree>>
       /\ slot' = [slot EXCEPT ![d] = [SlotsAfter(d, r.grow) EXCEPT ![r.at] =
                                           [ino |-> t, name |-> name]]]
       /\ nlinks' = [nlinks EXCEPT ![t] = @ + 1]
       /\ ret' = 0

(* Variant of dir_remove_minix() that does not drop the link count.       *)
DirRemoveKeepsLink(d, name, superuser, got) ==
  LET r == DirentSearch(d, name, FALSE)
      x == slot[d][r.at].ino
      fail(e) == ret' = -e /\ UNCHANGED <<slot, size, mapped, nfree, nlinks>>
  IN  CASE r.kind = "none"                             -> fail(ENOENT)
        [] x = d                                       -> fail(EBUSY)
        [] ~got                                        -> fail(ENOENT)
        [] x \in Dirs /\ ~superuser                    -> fail(EPERM)
        [] x \in Dirs /\ size[x] > 2                   -> fail(EBUSY)
        [] OTHER ->
             /\ slot' = [slot EXCEPT ![d][r.at].ino = INODE_NULL]
             /\ ret' = 0
             /\ UNCHANGED <<size, mapped, nfree, nlinks>>

(***************************************************************************)
(* dir_remove_minix(d, name): superuser tells IS_SUPERUSER(curr_proc),     *)
(* got whether inode_get() of the entry's inode succeeds.                  *)
(***************************************************************************)
DirRemove(d, name, superuser, got) ==
  LET r == DirentSearch(d, name, FALSE)
      x == slot[d][r.at].ino
      fail(e) == ret' = -e /\ UNCHANGED <<slot, size, mapped, nfree, nlinks>>
  IN  CASE r.kind = "none"                             -> fail(ENOENT)
        [] x = d                                       -> fail(EBUSY)
        [] ~got                                        -> fail(ENOENT)
        [] x \in Dirs /\ ~superuser                    -> fail(EPERM)
        [] x \in Dirs /\ size[x] > 2               -> fail(EBUSY)
        [] OTHER ->
             /\ slot' = [slot EXCEPT ![d][r.at].ino = INODE_NULL]
             /\ nlinks' = [nlinks EXCEPT ![x] = @ - 1]
             /\ ret' = 0
             /\ UNCHANGED <<size, mapped, nfree>>

(***************************************************************************)
(* sys_rmdir(path): resolved tells whether inode_dname() finds the parent *)
(* directory d, writable whether permission() grants MAY_WRITE on it;     *)
(* otherwise dir_remove() does the work.                                   *)
(***************************************************************************)
SysRmdir(d, name, resolved, writable, superuser, got) ==
  CASE ~resolved -> ret' = -ENOENT /\ UNCHANGED <<slot, size, mapped, nfree, nlinks>>
    [] ~writable -> ret' = -EPERM /\ UNCHANGED <<slot, size, mapped, nfree, nlinks>>
    [] OTHER     -> DirRemove(d, name, superuser, got)

-----------------------------------------------------------------------------
(***************************************************************************)
(* Initially every directory holds "." and ".." in its first block, and    *)
(* the root holds one entry per other directory (named by the directory's *)
(* inode number); link counts match the entries.                           *)
(***************************************************************************)
(* Sub[k]: the k-th directory other than the root, in increasing order.  *)
SubDir(k) == CHOOSE x \in Dirs \ {ROOT} :
               Cardinality({y \in Dirs \ {ROOT} : y < x}) = k

InitSlots(d) ==
  [i \in Slots |->
     CASE i = 0 -> [ino |-> d, name |-> DOT]
       [] i = 1 -> [ino |-> ROOT, name |-> DOTDOT]
       [] d = ROOT /\ i - 2 \in 0 .. Cardinality(Dirs \ {ROOT}) - 1 ->
            [ino |-> SubDir(i - 2), name |-> SubDir(i - 2)]
       [] OTHER -> FreeEntry]

InitSize(d) == IF d = ROOT THEN 2 + Cardinality(Dirs \ {ROOT}) ELSE 2

Init ==
  /\ slot = [d \in Dirs |-> InitSlots(d)]
  /\ size = [d \in Dirs |-> InitSize(d)]
  /\ mapped = [d \in Dirs |-> [b \in 0 .. NZONES - 1 |-> b <= BlockOf(InitSize(d) - 1)]]
  /\ nfree = NFREE
  /\ nlinks = [x \in Inodes |->
                 Cardinality({<<d, i>> \in Dirs \X Slots :
                                i < InitSize(d) /\ InitSlots(d)[i].ino = x})]
  /\ ret = 0

Next ==
  \/ \E d \in Dirs, n \in Names, t \in Files : Link(d, n, t)
  \/ \E d \in Dirs, n \in Names \cup {DOT, DOTDOT} \cup (Dirs \ {ROOT}),
        res, w, su, got \in BOOLEAN : SysRmdir(d, n, res, w, su, got)

Spec == Init /\ [][Next]_vars

-----------------------------------------------------------------------------
(***************************************************************************)
(* Properties.                                                             *)
(***************************************************************************)
Entry == [ino : Inodes \cup {INODE_NULL}, name : Names \cup {DOT, DOTDOT} \cup Dirs]

TypeOK ==
  /\ slot \in [Dirs -> [Slots -> Entry]]
  /\ size \in [Dirs -> 0 .. NZONES * EPB]
  /\ mapped \in [Dirs -> [0 .. NZONES - 1 -> BOOLEAN]]
  /\ nfree \in 0 .. NFREE
  /\ nlinks \in [Inodes -> Int]
  /\ ret \in Int

(* The free slots of d that dirent_search_minix() can see.                *)
FreeSlots(d) ==
  {i \in 0 .. size[d] - 1 : mapped[d][BlockOf(i)] /\ slot[d][i].ino = INODE_NULL}

(* No name is linked twice in a directory: the search that dir_add_minix() *)
(* makes refuses a name it finds, whatever slot reuse happened before.     *)
UniqueNames ==
  \A d \in Dirs : \A i, j \in Slots :
    i # j /\ Live(d, i) /\ Live(d, j) => slot[d][i].name # slot[d][j].name

(* Every link count is the number of live entries naming the inode:       *)
(* link() adds one with its entry, dir_remove_minix() drops one with its  *)
(* entry, on every one of its paths.                                       *)
LinksAccounted ==
  \A x \in Inodes :
    nlinks[x] = Cardinality({<<d, i>> \in Dirs \X Slots : Live(d, i) /\ slot[d][i].ino = x})

(* The spec of search_entry/add_entry: a freed slot is reused before the  *)
(* directory grows.                                                        *)
ReuseBeforeGrow ==
  [][\A d \in Dirs : FreeSlots(d) # {} => size'[d] = size[d]]_vars

(* The spec of search_entry: a new entry takes the first free slot.        *)
FirstFreeReused ==
  [][\A d \in Dirs, n \in Names, t \in Files :
       Link(d, n, t) /\ ret' = 0 /\ FreeSlots(d) # {} =>
         LET first == CHOOSE i \in FreeSlots(d) : \A j \in FreeSlots(d) : i <= j
         IN  slot'[d][first] = [ino |-> t, name |-> n]]_vars

(* The spec of dir_remove: only a non-empty directory is Busy; a          *)
(* directory whose only live entries are "." and ".." can be removed by   *)
(* the superuser.                                                          *)
EmptyDirRemovable ==
  [][\A d \in Dirs, x \in Dirs \ {ROOT} :
       /\ \E i \in Slots : Live(d, i) /\ slot[d][i].ino = x /\ slot[d][i].name = x
       /\ \A i \in Slots \ {0, 1} : ~Live(x, i)
       /\ DirRemove(d, x, TRUE, TRUE)
       => ret' # -EBUSY]_vars
=============================================================================
