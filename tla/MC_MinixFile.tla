---------------------------- MODULE MC_MinixFile ---------------------------
(***************************************************************************)
(* Instance of MinixFile for TLC: two zones of four bytes, one free block *)
(* short of filling both, and offsets and counts that cross a block        *)
(* boundary, reach past the end of the file and past the last zone.      *)
(***************************************************************************)
EXTENDS MinixFile
=============================================================================
