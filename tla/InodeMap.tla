------------------------------ MODULE InodeMap ------------------------------
(***************************************************************************)
(* What the inode allocator of a minix file system promises (spec, the     *)
(* Inode Manager): allocation hands out the lowest free inode number and   *)
(* marks it used; freeing an inode gives back exactly its number; reading  *)
(* an inode into the cache or releasing it leaves the allocation alone.    *)
(* Each process holds at most one inode; 0 means none.                     *)
(***************************************************************************)
EXTENDS Naturals, FiniteSets

CONSTANTS
  Procs,   \* processes calling into the file system
  Nums     \* the inode numbers the inode map can name

VARIABLES
  used,    \* inode numbers marked in the map
  owner    \* owner[p]: the inode process p holds, 0 for none

LowestFree == CHOOSE n \in Nums \ used : \A m \in Nums \ used : n <= m

Allocate(p) ==
  /\ owner[p] = 0
  /\ used # Nums
  /\ used' = used \cup {LowestFree}
  /\ owner' = [owner EXCEPT ![p] = LowestFree]

Get(p, n) ==
  /\ owner[p] = 0
  /\ owner' = [owner EXCEPT ![p] = n]
  /\ UNCHANGED used

Put(p) ==
  /\ owner[p] # 0
  /\ owner' = [owner EXCEPT ![p] = 0]
  /\ UNCHANGED used

Free(p) ==
  /\ owner[p] # 0
  /\ used' = used \ {owner[p]}
  /\ owner' = [owner EXCEPT ![p] = 0]

Next ==
  \E p \in Procs :
    \/ Allocate(p)
    \/ \E n \in Nums : Get(p, n)
    \/ Put(p)
    \/ Free(p)

(* Any initial allocation: the map is as the formatting left it.           *)
Init ==
  /\ used \in SUBSET Nums
  /\ owner = [p \in Procs |-> 0]

Spec == Init /\ [][Next]_<<used, owner>>
=============================================================================
