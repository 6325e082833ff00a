---------------------------- MODULE MC_MinixDir ----------------------------
(***************************************************************************)
(* Instance of MinixDir for TLC: the root (1) with one subdirectory (2), a *)
(* regular file (3) and two names; two entries per block and three zones, *)
(* so that a directory grows over a block boundary and runs out of space. *)
(***************************************************************************)
EXTENDS MinixDir

CONSTANTS a, b, dot, dotdot

MC_Names == {a, b}
=============================================================================
