---------------------------- MODULE MC_Keyboard ----------------------------
(***************************************************************************)
(* Model values for Keyboard: a letter, a digit, Home (dropped by          *)
(* do_keyboard_hit()), the numeric-pad Up arrow, both Shift keys and both  *)
(* Ctrl keys, the right one extended (0xE0 0x1D).                          *)
(***************************************************************************)
EXTENDS Keyboard

MC_Keys == {[code |-> 30, ext |-> FALSE],   \* A
            [code |-> 2, ext |-> FALSE],    \* 1
            [code |-> 71, ext |-> FALSE],   \* Home
            [code |-> 72, ext |-> FALSE],   \* Up
            [code |-> 42, ext |-> FALSE],   \* left Shift
            [code |-> 54, ext |-> FALSE],   \* right Shift
            [code |-> 29, ext |-> FALSE],   \* left Ctrl
            [code |-> 29, ext |-> TRUE]}    \* right Ctrl
=============================================================================
