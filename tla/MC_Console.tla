----------------------------- MODULE MC_Console -----------------------------
(***************************************************************************)
(* Model values for Console: the characters fed to console_write().        *)
(***************************************************************************)
EXTENDS Console

(* Text, the control characters console_put() handles, and every letter   *)
(* ansi_parse() dispatches on except CUD ("B") and CUF ("C"); "S" stands   *)
(* for a command the parser does not know.                                 *)
MC_Chars == {"x", "NL", "CR", "TAB", "BS", "ESC", "[", "?", ";",
             "0", "1", "2", "4", "5",
             "A", "D", "H", "J", "K", "m", "l", "h", "S"}

(* The same with the cursor-down command.                                  *)
MC_CharsDown == {"x", "NL", "ESC", "[", "B"}

(* Parameters: 0, 1, 2, 4 for moves, erase modes and the bold and reset  *)
(* attributes, 25 (cursor) and 41 (background), with their prefixes.      *)
MC_ParamValues == {0, 1, 2, 4, 25, 41}
=============================================================================
