---------------------------- MODULE MC_MinixInode ----------------------------
(***************************************************************************)
(* Model values for MinixInode: two processes sharing one superblock.    *)
(***************************************************************************)
EXTENDS MinixInode

CONSTANTS p1, p2

MC_Procs == {p1, p2}
=============================================================================
