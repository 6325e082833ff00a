----------------------------- MODULE MC_Stdio -----------------------------
(***************************************************************************)
(* Instances of Stdio for TLC: files of a newline and the letter 'a',     *)
(* streams opened for reading, writing, and both (fresh, or after a      *)
(* write), a caller with no line buffer or one of MIN_LINE_SIZE bytes.   *)
(***************************************************************************)
EXTENDS Stdio

MC_FileContents == {<<>>, <<97, 10>>, <<10, 97, 97>>}
MC_InitFlags == {{SRD}, {SWR}, {SRW}, {SRW, SWR}}
MC_UngetArgs == {EOF, 97, 353}   \* EOF, 'a', and 256 + 'a'
=============================================================================
