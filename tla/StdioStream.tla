----------------------------- MODULE StdioStream -----------------------------
(***************************************************************************)
(* What a reader of an input stream is promised by getc(), ungetc() and   *)
(* getdelim(): the stream is the sequence of bytes the next reads return, *)
(* the pushed-back bytes first, newest first, then the unread bytes of    *)
(* the file.  ungetc() puts one byte in front of it or fails with EOF;    *)
(* getdelim() takes the bytes up to and including the first delimiter     *)
(* (all of them if there is none) into the caller's line and returns     *)
(* their number, -1 when there is nothing to read or no line buffer.     *)
(***************************************************************************)
EXTENDS Integers, Sequences, SequencesExt

CONSTANTS
  UngetArgs,   \* the ints passed to ungetc()
  Delims,      \* the delimiters passed to getdelim()
  NL           \* the delimiter of getline()

EOF == -1

VARIABLES
  stream,  \* the bytes the next reads return
  line,    \* the bytes of the caller's line buffer, up to the nul
  ret,     \* what the last call returned
  op       \* the last call

vars == <<stream, line, ret, op>>

(* The line getdelim() takes from s: up to the first d, or all of s.     *)
LineOf(s, d) ==
  LET i == SelectInSeq(s, LAMBDA b : b = d) IN
  IF i = 0 THEN s ELSE SubSeq(s, 1, i)

Init ==
  /\ stream \in Seq(0 .. 255)
  /\ line = <<>>
  /\ ret = 0
  /\ op = "none"

Getc ==
  /\ op' = "getc"
  /\ IF stream = <<>> THEN ret' = EOF /\ UNCHANGED stream
     ELSE ret' = Head(stream) /\ stream' = Tail(stream)
  /\ UNCHANGED line

Ungetc(c) ==
  /\ op' = "ungetc"
  /\ \/ c # EOF /\ stream' = Cons(c % 256, stream) /\ ret' = c % 256
     \/ ret' = EOF /\ UNCHANGED stream
  /\ UNCHANGED line

Getdelim(d) ==
  /\ op' = "getdelim"
  /\ LET l == LineOf(stream, d) IN
       \/ /\ l # <<>>
          /\ stream' = SubSeq(stream, Len(l) + 1, Len(stream))
          /\ line' = l
          /\ ret' = Len(l)
       \/ ret' = -1 /\ UNCHANGED <<stream, line>>

Next ==
  \/ Getc
  \/ \E c \in UngetArgs : Ungetc(c)
  \/ \E d \in Delims \cup {NL} : Getdelim(d)

Spec == Init /\ [][Next]_vars
=============================================================================
