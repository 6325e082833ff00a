------------------------------- MODULE Console -------------------------------
(***************************************************************************)
(* The VGA text console of src/src/kernel/dev/tty/console.c: the ANSI      *)
(* escape-sequence parser ansi_parse() with its handlers (ansi_cuu ...    *)
(* ansi_sgr), console_set_color(), console_put(), console_clear() and     *)
(* console_scrolldown(), driven one character at a time by                 *)
(* console_write().                                                        *)
(*                                                                         *)
(* The screen is VIDEO_WIDTH x VIDEO_HIGH cells; the contents of a cell    *)
(* are abstracted away: of the cells a step writes (offsets from the      *)
(* video base) only whether one lies outside the buffer is kept.          *)
(* uint16_t fields are kept modulo 2^16.  A character is a string: a      *)
(* printable one as itself, "ESC", "NL", "CR", "TAB", "BS" for '\x1b',    *)
(* '\n', '\r', '\t', '\b'.  cursor_move(), cursor_enable/disable() and     *)
(* the serial copy only write device registers and are left out, except  *)
(* for whether the cursor is shown.                                        *)
(***************************************************************************)
EXTENDS Integers, FiniteSets, Bitwise, TLC

CONSTANTS
  VIDEO_WIDTH,   \* columns (80 in the code)
  VIDEO_HIGH,    \* rows (25 in the code)
  Chars,         \* characters console_write() may be handed
  ParamValues,   \* values a typed numeric parameter may reach
  COLOR_BOLD     \* the attribute bit of COLOR_BOLD (a header not in src/)

ASSUME VIDEO_WIDTH \in Nat \ {0} /\ VIDEO_HIGH \in Nat \ {0}

MAX_NPARAM == 4
UINT16 == 2^16

(* VGA colour numbers named by ctable[] (VGA hardware values).            *)
BLACK == 0
BLUE == 1
GREEN == 2
CYAN == 3
RED == 4
MAGENTA == 5
BROWN == 6
LIGHT_GREY == 7
WHITE == 15

(* The characters ansi_parse() dispatches on.                              *)
ANSI_ESCAPE == "ESC"
CSI == "["
CSI_CUU == "A"
CSI_CUD == "B"
CSI_CUF == "C"
CSI_CUB == "D"
CSI_CUP == "H"
CSI_ED == "J"
CSI_EL == "K"
CSI_SGR == "m"
CSI_DECRST == "l"
CSI_DECSET == "h"

(* The halves of ctable[]: [FG_COLOR_START, FG_COLOR_END) and             *)
(* [BG_COLOR_START, BG_COLOR_END).                                          *)
FG_COLOR_START == 0
FG_COLOR_END == 8
BG_COLOR_START == 8
BG_COLOR_END == 16

States == {"NONE", "ESCAPE", "CSI", "CSI_DEC"}
Digit == ("0" :> 0) @@ ("1" :> 1) @@ ("2" :> 2) @@ ("3" :> 3) @@ ("4" :> 4)
         @@ ("5" :> 5) @@ ("6" :> 6) @@ ("7" :> 7) @@ ("8" :> 8) @@ ("9" :> 9)
Cells == 0 .. VIDEO_WIDTH * VIDEO_HIGH - 1
Range(a, b) == a .. b - 1   \* the cells from pstart up to pend

VARIABLES
  state,         \* cstate.state
  nparam,        \* ansi_buff.nparam[0 .. MAX_NPARAM-1]
  nparam_count,  \* ansi_buff.nparam_count
  fg, bg, color, \* cstate.fg_color, cstate.bg_color, cstate.color
  x, y,          \* cursor.x, cursor.y
  shown,         \* the hardware cursor is enabled
  outside        \* the last step wrote a cell outside the video buffer

vars == <<state, nparam, nparam_count, fg, bg, color, x, y, shown, outside>>

(* A console state: the record the handlers transform.                     *)
K == [state |-> state, nparam |-> nparam, count |-> nparam_count, fg |-> fg,
      bg |-> bg, color |-> color, x |-> x, y |-> y, shown |-> shown, outside |-> FALSE]

(* ctable[]: ANSI colour code to VGA colour, foreground then background.  *)
ctable == <<[ansi |-> 30, vga |-> BLACK], [ansi |-> 31, vga |-> RED],
            [ansi |-> 32, vga |-> GREEN], [ansi |-> 33, vga |-> BROWN],
            [ansi |-> 34, vga |-> BLUE], [ansi |-> 35, vga |-> MAGENTA],
            [ansi |-> 36, vga |-> CYAN], [ansi |-> 37, vga |-> WHITE],
            [ansi |-> 40, vga |-> BLACK], [ansi |-> 41, vga |-> RED],
            [ansi |-> 42, vga |-> GREEN], [ansi |-> 43, vga |-> BROWN],
            [ansi |-> 44, vga |-> BLUE], [ansi |-> 45, vga |-> MAGENTA],
            [ansi |-> 46, vga |-> CYAN], [ansi |-> 47, vga |-> WHITE]>>

(* The search loop over ctable[from .. to-1] (0-based, as in C): the      *)
(* index of the entry for c, or to when none matches.                      *)
CtableIndex(c, from, to) ==
  LET hits == {i \in from .. to - 1 : ctable[i + 1].ansi = c} IN
  IF hits = {} THEN to ELSE CHOOSE i \in hits : \A j \in hits : i <= j

(* ctable[i] read with the 0-based index the loop leaves.                  *)
VgaAt(i) == ctable[i + 1].vga

W == VIDEO_WIDTH
H == VIDEO_HIGH
Min2(a, b) == IF a < b THEN a ELSE b

-----------------------------------------------------------------------------
(***************************************************************************)
(* Helpers of the parser: ansi_reset_colors(), ansi_reset_buffer(),       *)
(* ansi_reset_state(), and the end of every handler (back to STATE_NONE,   *)
(* buffer reset).                                                          *)
(***************************************************************************)
(* The attribute ansi_reset_colors() computes, (bg << 12) | (fg << 8).     *)
DEFAULT_COLOR == (BLACK * 2^12) | (LIGHT_GREY * 2^8)

ResetColors(k) == [k EXCEPT !.fg = LIGHT_GREY, !.bg = BLACK, !.color = DEFAULT_COLOR]

ResetBuffer(k) == [k EXCEPT !.nparam = [i \in 0 .. MAX_NPARAM - 1 |-> 0], !.count = 0]

ResetState(k) == ResetBuffer(ResetColors([k EXCEPT !.state = "NONE"]))

Done(k) == ResetBuffer([k EXCEPT !.state = "NONE"])

(* The move count of CUU/CUD/CUF/CUB: the first parameter, 1 if zero.     *)
Times(k) == IF k.nparam[0] # 0 THEN k.nparam[0] ELSE 1

-----------------------------------------------------------------------------
(* Cursor and screen primitives: console_scrolldown(), console_put(),      *)
(* console_clear().                                                         *)
(* k after writing the cells cs.                                            *)
WriteCells(k, cs) == [k EXCEPT !.outside = @ \/ ~(cs \subseteq Cells)]

ScrollDown(k) == [WriteCells(k, Cells) EXCEPT !.x = 0, !.y = H - 1]

Put(k, ch) ==
  LET k1 == CASE ch = "NL"  -> [k EXCEPT !.y = @ + 1, !.x = 0]
              [] ch = "CR"  -> [k EXCEPT !.x = 0]
              [] ch = "TAB" -> [k EXCEPT !.x = @ + 4 - (@ % 4)]   \* x & 3, x >= 0
              [] ch = "BS"  ->
                   LET kb == CASE k.x > 0 -> [k EXCEPT !.x = @ - 1]
                               [] k.y > 0 -> [k EXCEPT !.x = W - 1, !.y = @ - 1]
                               [] OTHER   -> k
                   IN  WriteCells(kb, {kb.y * W + kb.x})
              [] OTHER      -> [WriteCells(k, {k.y * W + k.x}) EXCEPT !.x = @ + 1]
      k2 == IF k1.x >= W THEN [k1 EXCEPT !.x = 0, !.y = @ + 1] ELSE k1
  IN  IF k2.y >= H THEN ScrollDown(k2) ELSE k2

(* console_clear(mode).  A mode other than 0..3 leaves pstart and pend     *)
(* uninitialised: the loop then writes nothing or somewhere outside the   *)
(* video buffer (stray, -1).                                                *)
Clear(k, mode, stray) ==
  CASE mode = 0 -> WriteCells(k, Range((k.y + 1) * W, H * W + W))
    [] mode = 1 -> WriteCells(k, Range(0, (k.y - 1) * W + W))
    [] mode = 2 -> WriteCells(k, Range(0, H * W + W))
    [] mode = 3 -> [WriteCells(k, Range(0, H * W + W)) EXCEPT !.x = 0, !.y = 0]
    [] OTHER    -> WriteCells(k, IF stray THEN {-1} ELSE {})

(* cursor_disable() and cursor_enable(): the cursor-start register's        *)
(* disable bit, cleared or set.                                             *)
CursorDisable(k) == [k EXCEPT !.shown = FALSE]

CursorEnable(k) == [k EXCEPT !.shown = TRUE]

-----------------------------------------------------------------------------
(* The CSI handlers ansi_cuu() ... ansi_sgr().                              *)
(* Mutant: CUU without the clamp at the top row.                          *)
CuuNoClamp(k) == Done([k EXCEPT !.y = @ - Times(k)])

Cuu(k) == Done([k EXCEPT !.y = IF @ - Times(k) >= 0 THEN @ - Times(k) ELSE 0])

Cud(k) == Done([k EXCEPT !.y = IF @ + Times(k) >= H - 1 THEN @ + Times(k) ELSE H - 1])

Cuf(k) == Done([k EXCEPT !.x = IF @ + Times(k) >= W - 1 THEN @ + Times(k) ELSE W - 1])

Cub(k) == Done([k EXCEPT !.x = IF @ - Times(k) >= 0 THEN @ - Times(k) ELSE 0])

(* Mutant: CUP clamping the row to H rather than H - 1.                    *)
CupOffByOne(k) ==
  Done(IF k.count > 0
       THEN [k EXCEPT !.y = IF k.nparam[0] <= 1 THEN 0 ELSE Min2(k.nparam[0] - 1, H),
                      !.x = IF k.nparam[1] <= 1 THEN 0 ELSE Min2(k.nparam[1] - 1, W - 1)]
       ELSE [k EXCEPT !.x = 0, !.y = 0])

Cup(k) ==
  Done(IF k.count > 0
       THEN [k EXCEPT !.y = IF k.nparam[0] <= 1 THEN 0 ELSE Min2(k.nparam[0] - 1, H - 1),
                      !.x = IF k.nparam[1] <= 1 THEN 0 ELSE Min2(k.nparam[1] - 1, W - 1)]
       ELSE [k EXCEPT !.x = 0, !.y = 0])

Ed(k, stray) == Done(Clear(k, k.nparam[0], stray))

El(k) ==
  LET op == k.nparam[0]
      xs == IF op = 0 THEN k.x ELSE 0
      xe == IF op = 1 THEN k.x ELSE W
  IN  Done(WriteCells(k, Range(k.y * W + xs, k.y * W + xe)))

(* console_set_color(c): foreground 30..39 (39 the default; the search    *)
(* for 38 runs off the foreground half of ctable[]), background 40..47,    *)
(* modes 0 (reset), 1 (bold) and 7 (reverse); anything else is ignored.   *)
SetColor(k, c) ==
  CASE c >= 30 /\ c <= 39 ->
         LET f == IF c = 39 THEN LIGHT_GREY ELSE VgaAt(CtableIndex(c, FG_COLOR_START, FG_COLOR_END)) IN
         [k EXCEPT !.fg = f, !.color = (@ & 63743) | (f * 2^8)]
    [] c >= 40 /\ c <= 47 ->
         LET b == VgaAt(CtableIndex(c, BG_COLOR_START, BG_COLOR_END)) IN
         [k EXCEPT !.bg = b, !.color = (@ & 36863) | (b * 2^12)]
    [] c = 0 -> ResetColors(k)
    [] c = 1 -> [k EXCEPT !.color = @ | COLOR_BOLD]
    [] c = 7 -> [k EXCEPT !.fg = k.bg, !.bg = k.fg,
                          !.color = (k.fg * 2^12) | (k.bg * 2^8)]
    [] OTHER -> k

(* Mutant: SGR returning to STATE_NONE without ansi_reset_buffer().        *)
SgrKeepBuffer(k) ==
  LET k1 == SetColor(k, k.nparam[0])
      k2 == IF k.count > 0 THEN SetColor(k1, k.nparam[1]) ELSE k1
      k3 == IF k.count > 1 THEN SetColor(k2, k.nparam[2]) ELSE k2
  IN  [k3 EXCEPT !.state = "NONE"]

Sgr(k) ==
  LET k1 == SetColor(k, k.nparam[0])
      k2 == IF k.count > 0 THEN SetColor(k1, k.nparam[1]) ELSE k1
      k3 == IF k.count > 1 THEN SetColor(k2, k.nparam[2]) ELSE k2
  IN  Done(k3)

(* A parameter character: a digit is added to the current parameter if    *)
(* there is room; anything else unknown resets the whole state.            *)
Param(k, ch) ==
  CASE ch \notin DOMAIN Digit       -> ResetState(k)
    [] k.count >= MAX_NPARAM        -> ResetState(k)
    [] OTHER -> [k EXCEPT !.nparam[k.count] = (@ * 10 + Digit[ch]) % UINT16]

Separator(k) == [k EXCEPT !.count = (@ + 1) % UINT16]

(***************************************************************************)
(* ansi_parse(ch).                                                          *)
(***************************************************************************)
Parse(k, ch, stray) ==
  CASE k.state = "NONE" ->
         IF ch = ANSI_ESCAPE THEN [k EXCEPT !.state = "ESCAPE"] ELSE Put(k, ch)
    [] k.state = "ESCAPE" ->
         IF ch = CSI THEN [k EXCEPT !.state = "CSI"]
         ELSE Put(Put(ResetState(k), ANSI_ESCAPE), ch)
    [] k.state = "CSI" ->
         CASE ch = CSI_CUU -> Cuu(k)
           [] ch = CSI_CUD -> Cud(k)
           [] ch = CSI_CUF -> Cuf(k)
           [] ch = CSI_CUB -> Cub(k)
           [] ch = CSI_CUP -> Cup(k)
           [] ch = CSI_ED  -> Ed(k, stray)
           [] ch = CSI_EL  -> El(k)
           [] ch = CSI_SGR -> Sgr(k)
           [] ch = ";"     -> Separator(k)
           [] ch = "?"     -> [k EXCEPT !.state = "CSI_DEC"]
           [] OTHER        -> Param(k, ch)
    [] k.state = "CSI_DEC" ->
         CASE ch = CSI_DECRST ->
                Done(IF k.nparam[0] = 25 THEN CursorDisable(k) ELSE k)
           [] ch = CSI_DECSET ->
                Done(IF k.nparam[0] = 25 THEN CursorEnable(k) ELSE k)
           [] ch = ";" -> Separator(k)
           [] OTHER    -> Param(k, ch)

(***************************************************************************)
(* The input the model feeds: a typed parameter stays in ParamValues and   *)
(* is one of the first two (CUP reads two; the third, read by SGR only, is  *)
(* left zero); separators stop                                               *)
(* once nparam_count reaches MAX_NPARAM, where the next digit resets the    *)
(* parser for want of room.                                                 *)
(***************************************************************************)
Typable(ch) ==
  state \in {"CSI", "CSI_DEC"} =>
    /\ ch \in DOMAIN Digit /\ nparam_count < MAX_NPARAM
         => /\ nparam_count < 2
            /\ nparam[nparam_count] * 10 + Digit[ch] \in ParamValues
    /\ ch = ";" => nparam_count < MAX_NPARAM

(* console_write() hands one character of its buffer to ansi_parse().      *)
Write(ch, stray) ==
  /\ Typable(ch)
  /\ LET k == Parse(K, ch, stray) IN
     /\ state' = k.state
     /\ nparam' = k.nparam
     /\ nparam_count' = k.count
     /\ fg' = k.fg
     /\ bg' = k.bg
     /\ color' = k.color
     /\ x' = k.x
     /\ y' = k.y
     /\ shown' = k.shown
     /\ outside' = k.outside

(* The console after console_init(): console_clear(3), ansi_reset_state(), *)
(* the cursor shape set (shown).                                            *)
Init ==
  /\ state = "NONE"
  /\ nparam = [i \in 0 .. MAX_NPARAM - 1 |-> 0]
  /\ nparam_count = 0
  /\ fg = LIGHT_GREY /\ bg = BLACK
  /\ color = DEFAULT_COLOR
  /\ x = 0 /\ y = 0
  /\ shown = TRUE
  /\ outside = ~(Range(0, H * W + W) \subseteq Cells)

(* Whether pstart/pend are stray matters to ED only.                        *)
Next == \E ch \in Chars, stray \in BOOLEAN : (stray => ch = CSI_ED) /\ Write(ch, stray)

Spec == Init /\ [][Next]_vars

-----------------------------------------------------------------------------
TypeOK ==
  /\ state \in States
  /\ nparam \in [0 .. MAX_NPARAM - 1 -> 0 .. UINT16 - 1]
  /\ nparam_count \in 0 .. UINT16 - 1
  /\ fg \in 0 .. 15 /\ bg \in 0 .. 15
  /\ color \in 0 .. UINT16 - 1
  /\ x \in Nat /\ y \in Nat
  /\ shown \in BOOLEAN
  /\ outside \in BOOLEAN

(* After any character, whatever escape sequences, text, tabs, backspaces *)
(* and line feeds came before, the cursor is on the screen: console_put()  *)
(* wraps and scrolls, and the cursor-movement handlers other than         *)
(* ansi_cud() and ansi_cuf() clamp (those two test their bound the wrong  *)
(* way round, and Console_ops.cfg leaves them out).                        *)
CursorOnScreen == x \in 0 .. W - 1 /\ y \in 0 .. H - 1

(* Outside a control sequence the parameter buffer is empty: every way out *)
(* of CSI (a command, an unknown character, a full buffer) resets it, so  *)
(* no parameter of one sequence leaks into the next.                       *)
ParamsClearOutsideSequence ==
  state \in {"NONE", "ESCAPE"} =>
    nparam = [i \in 0 .. MAX_NPARAM - 1 |-> 0] /\ nparam_count = 0

(* Every cell written lies in the video buffer.                            *)
VideoInBounds == ~outside
=============================================================================
