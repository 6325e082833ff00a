------------------------------- MODULE Keyboard -------------------------------
(***************************************************************************)
(* The keyboard driver of src/src/kernel/dev/tty/keyboard.c: the interrupt *)
(* handler do_keyboard_hit() with parse_key_hit() and get_ascii(), which   *)
(* keep the modifier flags in mode and translate a scancode through the    *)
(* key maps ascii_non_shift[] and ascii_shift[].                            *)
(*                                                                         *)
(* The environment is the keyboard itself: a key is pressed (again, while *)
(* held, by typematic repeat) or released, and the controller sends its   *)
(* bytes, 0xE0 first for an extended key, one interrupt per byte.  The    *)
(* kernel is not preemptive and nothing else touches mode, so the bytes   *)
(* of one key event are handled one after the other in one step.  The   *)
(* keys physically held are a variable of the environment (held); what    *)
(* the handler passes to tty_int() in a step is typed.  tty_int() is not  *)
(* in src/ and is left out.                                                *)
(***************************************************************************)
EXTENDS Integers, Sequences, FiniteSets

CONSTANTS
  Keys,       \* the keys: [code |-> make code, ext |-> sent after 0xE0]
  OOBBytes,   \* values a read past the end of a key map may return
  NoKey       \* the key of the event before the first one

(* The flags of enum flags.                                                *)
ANY == "ANY"
SHIFT == "SHIFT"
CTRL == "CTRL"

(* Scancodes of keyboard.h the handler tests.                              *)
KRLEFT_CTRL == 29    \* 0x1D, also the code of the right Ctrl after 0xE0
KRLEFT_SHIFT == 42   \* 0x2A
KRRIGHT_SHIFT == 54  \* 0x36
EXT_PREFIX == 224    \* 0xE0, the byte before an extended key's code

(* Non-ASCII key codes of keyboard.h (KINS = 0x90, then one each).         *)
KINS == 144
KDEL == 145
KHOME == 146
KEND == 147

(* ascii_non_shift[] and ascii_shift[], entry i at position i + 1, with    *)
(* the characters as their codes (KF1 = 128 ..., KINS = 144 ...,           *)
(* KCTRL = 154).                                                            *)
ascii_non_shift ==
  << 0, 27, 49, 50, 51, 52, 53, 54, 55, 56, 57, 48, 45, 61, 8, 9, 113, 119,
     101, 114, 116, 121, 117, 105, 111, 112, 91, 93, 10, 0, 97, 115, 100,
     102, 103, 104, 106, 107, 108, 59, 39, 96, 0, 92, 122, 120, 99, 118, 98,
     110, 109, 44, 46, 47, 0, 0, 0, 32, 0, 128, 129, 130, 131, 132, 133, 134,
     135, 136, 137, 0, 0, 146, 151, 148, 45, 150, 53, 153, 43, 147, 152, 149,
     144, 145, 0, 0, 0, 138, 139 >>

ascii_shift ==
  << 0, 27, 33, 64, 35, 36, 37, 94, 38, 42, 40, 41, 95, 43, 8, 9, 81, 87, 69,
     82, 84, 89, 85, 73, 79, 80, 123, 125, 10, 154, 65, 83, 68, 70, 71, 72,
     74, 75, 76, 58, 34, 126, 0, 124, 90, 88, 67, 86, 66, 78, 77, 60, 62, 63,
     0, 0, 0, 32, 0, 128, 129, 130, 131, 132, 133, 134, 135, 136, 137, 0, 0,
     146, 151, 148, 45, 150, 53, 153, 43, 147, 152, 149, 144, 145, 0, 0, 0,
     138, 139 >>

(* A read of map[c]: past the 89 entries it returns whatever byte follows *)
(* the array (junk).                                                       *)
Lookup(map, c, junk) == IF c < Len(map) THEN map[c + 1] ELSE junk

ModifierCodes == {KRLEFT_SHIFT, KRRIGHT_SHIFT, KRLEFT_CTRL}

VARIABLES
  mode,    \* the flags of enum flags mode
  held,    \* the keys physically held down
  typed,   \* the codes passed to tty_int() in the last step
  event    \* the last key event: [key, press]

vars == <<mode, held, typed, event>>

(***************************************************************************)
(* parse_key_hit(): the flags after the byte sc, and the scancode it       *)
(* returns (bit 7 cleared on a release).                                    *)
(***************************************************************************)
(* Mutant: a release of any other key leaves ANY set.                      *)
ParseKeyHitKeepAny(m, sc) ==
  LET c == sc % 128
      flag == CASE c \in {KRLEFT_SHIFT, KRRIGHT_SHIFT} -> SHIFT
                [] c = KRLEFT_CTRL                     -> CTRL
                [] OTHER                               -> ANY
  IN  [mode |-> IF sc >= 128 THEN (IF flag = ANY THEN m ELSE m \ {flag})
                ELSE m \cup {flag},
       code |-> c]

(* Mutant: the release path switches on the byte without clearing bit 7, *)
(* so no break code matches Shift or Ctrl.                                  *)
ParseKeyHitNoMask(m, sc) ==
  LET c == IF sc >= 128 THEN sc ELSE sc % 128
      flag == CASE c \in {KRLEFT_SHIFT, KRRIGHT_SHIFT} -> SHIFT
                [] c = KRLEFT_CTRL                     -> CTRL
                [] OTHER                               -> ANY
  IN  [mode |-> IF sc >= 128 THEN m \ {flag} ELSE m \cup {flag}, code |-> sc % 128]

ParseKeyHit(m, sc) ==
  LET c == sc % 128
      flag == CASE c \in {KRLEFT_SHIFT, KRRIGHT_SHIFT} -> SHIFT
                [] c = KRLEFT_CTRL                     -> CTRL
                [] OTHER                               -> ANY
  IN  [mode |-> IF sc >= 128 THEN m \ {flag} ELSE m \cup {flag}, code |-> c]

(* Mutant: the Ctrl code computed as an int, not wrapped to a uint8_t.     *)
GetAsciiNoWrap(m, c, junk) ==
  LET code == IF SHIFT \in m THEN Lookup(ascii_shift, c, junk)
              ELSE Lookup(ascii_non_shift, c, junk)
  IN  CASE ANY \notin m  -> 0
        [] CTRL \in m    -> IF code < 96 THEN code - 64 ELSE code - 96
        [] OTHER         -> code

(* get_ascii(): 0 unless a non-modifier key is down; with Ctrl, code - 64 *)
(* or code - 96, returned as a uint8_t.                                     *)
GetAscii(m, c, junk) ==
  LET code == IF SHIFT \in m THEN Lookup(ascii_shift, c, junk)
              ELSE Lookup(ascii_non_shift, c, junk)
  IN  CASE ANY \notin m  -> 0
        [] CTRL \in m    -> (IF code < 96 THEN code - 64 ELSE code - 96) % 256
        [] OTHER         -> code

(* do_keyboard_hit() for the byte sc: the new flags and what goes to      *)
(* tty_int() (nothing for 0 and for Ins, Del, Home and End).               *)
KeyboardHit(m, sc, junk) ==
  LET p == ParseKeyHit(m, sc)
      a == GetAscii(p.mode, p.code, junk)
  IN  [mode |-> p.mode,
       out |-> IF a = 0 \/ a \in {KINS, KDEL, KHOME, KEND} THEN <<>> ELSE <<a>>]

(* The interrupts of the bytes bs, in order.                               *)
RECURSIVE Feed(_, _, _)
Feed(m, bs, junk) ==
  IF bs = <<>> THEN [mode |-> m, out |-> <<>>]
  ELSE LET h == KeyboardHit(m, Head(bs), junk)
           t == Feed(h.mode, Tail(bs), junk)
       IN  [mode |-> t.mode, out |-> h.out \o t.out]

(* The bytes the controller sends for an event of key k.                   *)
KeyBytes(k, press) ==
  LET b == IF press THEN k.code ELSE k.code + 128 IN
  IF k.ext THEN <<EXT_PREFIX, b>> ELSE <<b>>

-----------------------------------------------------------------------------
(* A key is pressed, or repeats while held.                                *)
Press(k, junk) ==
  LET r == Feed(mode, KeyBytes(k, TRUE), junk) IN
  /\ mode' = r.mode
  /\ typed' = r.out
  /\ held' = held \cup {k}
  /\ event' = [key |-> k, press |-> TRUE]

(* A held key is released.                                                  *)
Release(k, junk) ==
  LET r == Feed(mode, KeyBytes(k, FALSE), junk) IN
  /\ k \in held
  /\ mode' = r.mode
  /\ typed' = r.out
  /\ held' = held \ {k}
  /\ event' = [key |-> k, press |-> FALSE]

(* After keyboard_init() the flags are clear (mode = 0); keys may already *)
(* be down: their make codes were drained, their break codes will come.    *)
Init ==
  /\ mode = {}
  /\ held \in SUBSET Keys
  /\ typed = <<>>
  /\ event = [key |-> NoKey, press |-> FALSE]

Next == \E k \in Keys, junk \in OOBBytes : Press(k, junk) \/ Release(k, junk)

Spec == Init /\ [][Next]_vars

-----------------------------------------------------------------------------
ShiftKeys == {k \in Keys : k.code \in {KRLEFT_SHIFT, KRRIGHT_SHIFT}}
CtrlKeys == {k \in Keys : k.code = KRLEFT_CTRL}
PlainKeys == {k \in Keys : k.code \notin ModifierCodes}

TypeOK ==
  /\ mode \subseteq {ANY, SHIFT, CTRL}
  /\ held \subseteq Keys
  /\ typed \in Seq(0 .. 255) /\ Len(typed) <= 2
  /\ event \in [key : Keys \cup {NoKey}, press : BOOLEAN]

(* No flag of parse_key_hit() outlives the keys it stands for: Shift and  *)
(* Ctrl are clear once no Shift or Ctrl key is down, and ANY once no      *)
(* other key is, whatever the order of presses, repeats and releases,    *)
(* extended keys (whose 0xE0 byte counts as a release) included.          *)
FlagsNotStale ==
  /\ SHIFT \in mode => held \cap ShiftKeys # {}
  /\ CTRL \in mode => held \cap CtrlKeys # {}
  /\ ANY \in mode => held \cap PlainKeys # {}

(* A key of the maps pressed while no Shift or Ctrl key is down reaches   *)
(* tty_int() as its ascii_non_shift[] entry, exactly once: no modifier    *)
(* flag left from earlier events changes what do_keyboard_hit() sends.    *)
PlainKeyTypesItsCharacter ==
  [][/\ event'.press
     /\ event'.key \in PlainKeys
     /\ event'.key.code < Len(ascii_non_shift)
     /\ held \cap (ShiftKeys \cup CtrlKeys) = {}
     => LET a == ascii_non_shift[event'.key.code + 1] IN
        typed' = IF a = 0 \/ a \in {KINS, KDEL, KHOME, KEND} THEN <<>> ELSE <<a>>]_vars
=============================================================================
