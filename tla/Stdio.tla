-------------------------------- MODULE Stdio --------------------------------
(***************************************************************************)
(* The input side of a libc stream (FILE): ungetc() with __submore()      *)
(* (src/src/lib/libc/stdio/ungetc.c), getdelim()                         *)
(* (src/src/lib/libc/stdio/getdelim.c) and getline()                     *)
(* (src/src/lib/libc/stdio/getline.c), which reads through getc().       *)
(*                                                                         *)
(* The FILE is the record fp.  A pointer into one of its buffers is a     *)
(* record [buf, i]: the buffer ("bf" the read buffer, "ubuf" the three-   *)
(* byte reserve _ubuf[], "heap" a malloc()ed ungetc buffer) and a 0-based *)
(* offset.  getc() and the refill behind it (__srget_r, __srefill_r) are  *)
(* newlib's and not in this repository: they are the environment of the  *)
(* code above, modelled as newlib defines them, with read() returning up  *)
(* to ReadSize bytes of the file and fflush() succeeding (write errors     *)
(* are left out).  Allocations may fail where FailingAllocs says.  The    *)
(* stream lock and ORIENT() have no effect on one single-byte stream.     *)
(***************************************************************************)
EXTENDS Integers, Sequences

CONSTANTS
  Bytes,          \* the bytes a file holds
  FileContents,   \* the files a stream may be opened on
  InitFlags,      \* the flags of a stream as fopen() leaves them
  UngetArgs,      \* the ints passed to ungetc()
  Delims,         \* the delimiters passed to getdelim()
  NL,             \* '\n', the delimiter of getline()
  CallerSizes,    \* *n as a caller passes it first (0: *bufptr is NULL)
  BUFSIZ,         \* BUFSIZ of stdio.h, the first malloc()ed ungetc buffer
  ReadSize,       \* bytes one refill reads
  FailingAllocs,  \* the allocations that may return NULL
  MaxStream,      \* bound on the bytes a stream holds
  ADDR            \* the address of the line buffer, as getdelim() may return it

EOF == -1
UBUF_SIZE == 3            \* sizeof(fp->_ubuf)
MIN_LINE_SIZE == 4
DEFAULT_LINE_SIZE == 128
JUNK == 0                 \* never-read bytes of a fresh malloc() block

(* The flags of stdio.h the code tests.                                    *)
SRD == "SRD"
SWR == "SWR"
SRW == "SRW"
SEOF == "SEOF"
SERR == "SERR"

NoUb == [base |-> "none", size |-> 0]
HasUb(f) == f.ub.base # "none"

(* *q, and the pointer q - 1.                                             *)
Deref(f, q) == f[q.buf][q.i + 1]
Dec(q) == [q EXCEPT !.i = @ - 1]

VARIABLES
  fp,     \* the FILE
  n,      \* *n of the caller's line, 0 while *bufptr is NULL
  line,   \* the bytes of *bufptr up to the nul
  ret,    \* what the last call returned
  op      \* the last call

vars == <<fp, n, line, ret, op>>

(***************************************************************************)
(* The environment: newlib's refill and getc().                           *)
(***************************************************************************)
FreeUb(f) == [f EXCEPT !.ub = NoUb, !.heap = <<>>]

(* __srefill_r(): ok when bytes are available at fp->_p.                  *)
Refill(f) ==
  LET f0 == [f EXCEPT !.r = 0]
      k == IF Len(f.file) < ReadSize THEN Len(f.file) ELSE ReadSize
      Read(g) ==
        IF k = 0 THEN [f |-> [g EXCEPT !.p = [buf |-> "bf", i |-> 0],
                                       !.flags = @ \cup {SEOF}], ok |-> FALSE]
        ELSE [f |-> [g EXCEPT !.bf = SubSeq(f.file, 1, k),
                              !.file = SubSeq(f.file, k + 1, Len(f.file)),
                              !.p = [buf |-> "bf", i |-> 0], !.r = k], ok |-> TRUE]
  IN  CASE SEOF \in f.flags -> [f |-> f0, ok |-> FALSE]
        [] SRD \notin f.flags /\ SRW \notin f.flags ->
             [f |-> [f0 EXCEPT !.flags = @ \cup {SERR}], ok |-> FALSE]
        [] SRD \notin f.flags -> Read([f0 EXCEPT !.flags = (@ \ {SWR}) \cup {SRD}])
        [] HasUb(f) /\ f.ur # 0 ->
             [f |-> [FreeUb(f0) EXCEPT !.r = f.ur, !.p = f.up], ok |-> TRUE]
        [] HasUb(f) -> Read(FreeUb(f0))
        [] OTHER -> Read(f0)

(* getc(): the byte at fp->_p, after a refill when none is left.          *)
GetcR(f) ==
  LET g == IF f.r > 0 THEN [f |-> f, ok |-> TRUE] ELSE Refill(f) IN
  IF g.ok THEN [f |-> [g.f EXCEPT !.p.i = @ + 1, !.r = @ - 1], c |-> Deref(g.f, g.f.p)]
  ELSE [f |-> g.f, c |-> EOF]

(***************************************************************************)
(* ungetc.c                                                                *)
(***************************************************************************)
(* __submore() when the buffer is already malloc()ed: realloc() to twice *)
(* the size and memcpy() of the bytes to the upper half.                   *)
(* Mutant: the memcpy() is missing.                                        *)
DoubleUbNoCopy(f) ==
  [f EXCEPT !.heap = @ \o [j \in 1 .. f.ub.size |-> JUNK],
            !.p = [buf |-> "heap", i |-> f.ub.size], !.ub.size = 2 * @]

DoubleUb(f) ==
  [f EXCEPT !.heap = @ \o @, !.p = [buf |-> "heap", i |-> f.ub.size],
            !.ub.size = 2 * @]

(* __submore(): the full ungetc buffer moves to a malloc()ed BUFSIZ block *)
(* or doubles, its bytes at the end; NULL from the allocator fails it.    *)
Submore(f, oom) ==
  CASE oom -> [f |-> f, ok |-> FALSE]
    [] f.ub.base = "ubuf" ->
         [f |-> [f EXCEPT !.ub = [base |-> "heap", size |-> BUFSIZ],
                          !.heap = [j \in 1 .. BUFSIZ |->
                                     IF j <= BUFSIZ - UBUF_SIZE THEN JUNK
                                     ELSE f.ubuf[j - (BUFSIZ - UBUF_SIZE)]],
                          !.p = [buf |-> "heap", i |-> BUFSIZ - UBUF_SIZE]],
          ok |-> TRUE]
    [] OTHER -> [f |-> DoubleUb(f), ok |-> TRUE]

(* Mutant: the int is stored without the conversion.                       *)
UnsignedCharNone(c) == c

(* c = (unsigned char) c                                                   *)
UnsignedChar(c) == c % 256

(* Mutant: the byte before fp->_p is replaced by c when it differs.        *)
BackUpOverwrite(f, uc) ==
  IF f.p.buf = "bf" /\ f.p.i > 0
  THEN [ok |-> TRUE, f |-> [f EXCEPT !.bf[f.p.i] = uc, !.p.i = @ - 1, !.r = @ + 1]]
  ELSE [ok |-> FALSE, f |-> f]

(* Backing up in the read buffer over the byte c itself.                   *)
BackUp(f, uc) ==
  IF f.p.buf = "bf" /\ f.p.i > 0 /\ Deref(f, Dec(f.p)) = uc
  THEN [ok |-> TRUE, f |-> [f EXCEPT !.p.i = @ - 1, !.r = @ + 1]]
  ELSE [ok |-> FALSE, f |-> f]

(* _ungetc_r(): the new FILE and the result.                              *)
UngetcR(f, c, oom) ==
  LET f1 == [f EXCEPT !.flags = @ \ {SEOF}]
      f2 == IF SRD \in f1.flags THEN f1
            ELSE [f1 EXCEPT !.flags = (@ \ {SWR}) \cup {SRD}]
      uc == UnsignedChar(c)
      s == Submore(f2, oom)
      g == IF f2.r >= f2.ub.size THEN s.f ELSE f2
      b == BackUp(f2, uc)
  IN  CASE c = EOF -> [f |-> f, ret |-> EOF]
        [] SRD \notin f1.flags /\ SRW \notin f1.flags -> [f |-> f1, ret |-> EOF]
        [] HasUb(f2) /\ f2.r >= f2.ub.size /\ ~s.ok -> [f |-> f2, ret |-> EOF]
        [] HasUb(f2) ->
             [f |-> [g EXCEPT ![g.p.buf][g.p.i] = uc, !.p.i = @ - 1, !.r = @ + 1],
              ret |-> uc]
        [] b.ok -> [f |-> b.f, ret |-> uc]
        [] OTHER ->
             [f |-> [f2 EXCEPT !.ur = f2.r, !.up = f2.p,
                               !.ub = [base |-> "ubuf", size |-> UBUF_SIZE],
                               !.ubuf[UBUF_SIZE] = uc,
                               !.p = [buf |-> "ubuf", i |-> UBUF_SIZE - 1], !.r = 1],
              ret |-> uc]

(***************************************************************************)
(* getdelim.c                                                              *)
(***************************************************************************)
(* The inner loop: while (--numbytes > 0) getc() until EOF or delim;      *)
(* cont is 1 when the loop ran out of room.                                *)
(* Mutant: while (numbytes-- > 0), one byte more per pass.                *)
RECURSIVE FillOffByOne(_, _, _, _)
FillOffByOne(f, got, numbytes, d) ==
  IF numbytes <= 0 THEN [f |-> f, got |-> got, cont |-> TRUE]
  ELSE LET g == GetcR(f) IN
       CASE g.c = EOF -> [f |-> g.f, got |-> got, cont |-> FALSE]
         [] g.c = d   -> [f |-> g.f, got |-> Append(got, g.c), cont |-> FALSE]
         [] OTHER     -> FillOffByOne(g.f, Append(got, g.c), numbytes - 1, d)

RECURSIVE Fill(_, _, _, _)
Fill(f, got, numbytes, d) ==
  IF numbytes - 1 <= 0 THEN [f |-> f, got |-> got, cont |-> TRUE]
  ELSE LET g == GetcR(f) IN
       CASE g.c = EOF -> [f |-> g.f, got |-> got, cont |-> FALSE]
         [] g.c = d   -> [f |-> g.f, got |-> Append(got, g.c), cont |-> FALSE]
         [] OTHER     -> Fill(g.f, Append(got, g.c), numbytes - 1, d)

(* The outer loop: a full buffer is doubled by realloc(); the grow-th    *)
(* realloc() of the call returns NULL when grow = failAt.                  *)
RECURSIVE Loop(_, _, _, _, _, _, _)
Loop(f, got, sz, numbytes, d, grow, failAt) ==
  LET s == Fill(f, got, numbytes, d) IN
  CASE ~s.cont         -> [f |-> s.f, got |-> s.got, n |-> sz, lost |-> FALSE]
    [] grow = failAt   -> [f |-> s.f, got |-> s.got, n |-> sz, lost |-> TRUE]
    [] OTHER           -> Loop(s.f, s.got, 2 * sz, 2 * sz - Len(s.got), d,
                               grow + 1, failAt)

-----------------------------------------------------------------------------
(***************************************************************************)
(* The calls.                                                              *)
(***************************************************************************)
Content(f) ==
  IF SRD \notin f.flags /\ SRW \notin f.flags THEN <<>>
  ELSE SubSeq(f[f.p.buf], f.p.i + 1, f.p.i + f.r)
       \o (IF HasUb(f) THEN SubSeq(f.bf, f.up.i + 1, f.up.i + f.ur) ELSE <<>>)
       \o f.file

(* A read by getc() (the environment).                                     *)
Getc ==
  LET g == GetcR(fp) IN
  /\ fp' = g.f
  /\ ret' = g.c
  /\ op' = "getc"
  /\ UNCHANGED <<n, line>>

(* ungetc(c, fp).                                                          *)
Ungetc(c, oom) ==
  LET u == UngetcR(fp, c, oom) IN
  /\ Len(Content(fp)) < MaxStream
  /\ fp' = u.f
  /\ ret' = u.ret
  /\ op' = "ungetc"
  /\ UNCHANGED <<n, line>>

(* getdelim(&buf, &n, d, fp): a missing or short buffer is first         *)
(* reallocated to DEFAULT_LINE_SIZE (-1 if that fails); a NULL realloc() *)
(* in the loop leaves buf NULL, so ptr == buf fails and ptr - NULL is     *)
(* returned, the bytes read nul-terminated in the old buffer.             *)
Getdelim(d, initFails, failAt) ==
  LET sz == IF n < MIN_LINE_SIZE THEN DEFAULT_LINE_SIZE ELSE n
      l == Loop(fp, <<>>, sz, sz, d, 1, failAt)
  IN  /\ op' = "getdelim"
      /\ IF n < MIN_LINE_SIZE /\ initFails
         THEN ret' = -1 /\ UNCHANGED <<fp, n, line>>
         ELSE /\ fp' = l.f
              /\ n' = l.n
              /\ CASE l.lost        -> ret' = ADDR /\ line' = l.got
                   [] l.got = <<>>  -> ret' = -1 /\ UNCHANGED line
                   [] OTHER         -> ret' = Len(l.got) /\ line' = l.got

(* getline(): getdelim() with '\n'.                                        *)
Getline(initFails, failAt) == Getdelim(NL, initFails, failAt)

Fails(site) == IF site \in FailingAllocs THEN BOOLEAN ELSE {FALSE}

Init ==
  /\ fp \in [flags : InitFlags, bf : {<<>>}, ub : {NoUb},
             ubuf : {[j \in 1 .. UBUF_SIZE |-> JUNK]}, heap : {<<>>},
             p : {[buf |-> "bf", i |-> 0]}, r : {0},
             up : {[buf |-> "bf", i |-> 0]}, ur : {0}, file : FileContents]
  /\ n \in CallerSizes
  /\ line = <<>>
  /\ ret = 0
  /\ op = "none"

Next ==
  \/ Getc
  \/ \E c \in UngetArgs, oom \in Fails("submore") : Ungetc(c, oom)
  \/ \E d \in Delims, i \in Fails("line_init"),
        f \in {0} \cup (IF "line_grow" \in FailingAllocs THEN {1, 2} ELSE {}) :
       Getdelim(d, i, f)
  \/ \E i \in Fails("line_init"),
        f \in {0} \cup (IF "line_grow" \in FailingAllocs THEN {1, 2} ELSE {}) :
       Getline(i, f)

Spec == Init /\ [][Next]_vars

-----------------------------------------------------------------------------
(***************************************************************************)
(* Properties.                                                             *)
(***************************************************************************)
Ptr == [buf : {"bf", "ubuf", "heap"}, i : Nat]

TypeOK ==
  /\ fp.flags \subseteq {SRD, SWR, SRW, SEOF, SERR}
  /\ fp.bf \in Seq(Bytes) /\ fp.file \in Seq(Bytes)
  /\ fp.ubuf \in [1 .. UBUF_SIZE -> Bytes \cup {JUNK}]
  /\ fp.heap \in Seq(Bytes \cup {JUNK})
  /\ fp.ub \in {NoUb} \cup [base : {"ubuf", "heap"}, size : Nat]
  /\ fp.p \in Ptr /\ fp.up \in Ptr
  /\ fp.r \in Nat /\ fp.ur \in Nat
  /\ n \in Nat /\ line \in Seq(Bytes)
  /\ ret \in {ADDR} \cup -1 .. 255
  /\ op \in {"none", "getc", "ungetc", "getdelim"}

(* getdelim() keeps the nul inside the buffer it reports: the bytes it    *)
(* stored before the nul are fewer than *n, across the doubling realloc() *)
(* and the numbytes arithmetic of its two loops.                           *)
LineFits ==
  line # <<>> => Len(line) < n

(* The comment of _ungetc_r(): backing up never replaces the original     *)
(* character.  No ungetc() changes the read buffer, whatever was read,    *)
(* pushed back and refilled before.                                        *)
UngetcKeepsReadBuffer ==
  [][op' = "ungetc" => fp'.bf = fp.bf]_vars

(* The FILE implements the stream of StdioStream: the bytes at fp->_p,   *)
(* then those saved in _up/_ur while an ungetc buffer is in use, then the *)
(* unread file, are what getc() returns next, through every move of the   *)
(* ungetc buffer by __submore() and every refill.                          *)
Abs == INSTANCE StdioStream WITH stream <- Content(fp)

StreamRefined == Abs!Spec
=============================================================================
