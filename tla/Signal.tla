------------------------------- MODULE Signal ------------------------------
(***************************************************************************)
(* Signals of src/src/kernel/pm/signal.c: the default-action table         *)
(* sig_default[], the IGNORING macro, sndsig() and issig(), as operators   *)
(* over the kernel-state record of module Sched.                           *)
(***************************************************************************)
EXTENDS Sched, FiniteSets

CONSTANTS
  Signals,   \* the signal numbers a model uses (a subset of 1..NR_SIGNALS-1)
  Father     \* Father[p]: the parent of process p

(* Signal numbers, in the order of sig_default[].                          *)
SIGNULL == 0
SIGKILL == 1
SIGSTOP == 2
SIGURG == 3
SIGABRT == 4
SIGBUS == 5
SIGCHLD == 6
SIGCONT == 7
SIGFPE == 8
SIGHUP == 9
SIGILL == 10
SIGINT == 11
SIGPIPE == 12
SIGQUIT == 13
SIGSEGV == 14
SIGTERM == 15
SIGTSTP == 16
SIGTTIN == 17
SIGTTOU == 18
SIGALRM == 19
SIGUSR1 == 20
SIGUSR2 == 21
SIGTRAP == 22
NR_SIGNALS == 23

AllSignals == 1 .. NR_SIGNALS - 1
ASSUME Signals \subseteq AllSignals
ASSUME Father \in [Procs -> Procs]

(* Dispositions: SIG_DFL, SIG_IGN, or a user handler.                      *)
DFL == "dfl"
IGN == "ign"
USER == "user"

(* The default actions named by sig_default[].                             *)
TERMINATE == "terminate"
STOP == "stop"
ABORT == "abort"
RESUME == "resume"

(***************************************************************************)
(* sig_default[]: the default action of every signal.                      *)
(***************************************************************************)
SigDefault(sig) ==
  CASE sig \in {SIGKILL, SIGFPE, SIGHUP, SIGINT, SIGTERM, SIGALRM,
                SIGUSR1, SIGUSR2}                       -> TERMINATE
    [] sig \in {SIGSTOP, SIGTSTP, SIGTTIN, SIGTTOU}      -> STOP
    [] sig \in {SIGURG, SIGCHLD}                        -> IGN
    [] sig = SIGCONT                                    -> RESUME
    [] OTHER                                            -> ABORT

(* IGNORING(p, sig)                                                        *)
Ignoring(k, p, sig) ==
  \/ k.proc[p].handlers[sig] = IGN
  \/ k.proc[p].handlers[sig] = DFL /\ SigDefault(sig) = IGN

(* Variant of the unlink that only handles a process at the chain head.    *)
UnlinkHeadOnly(k, p) ==
  LET c == k.proc[p].chan IN
  [k EXCEPT !.chain[c] = IF @[1] = p THEN Tail(@) ELSE @]

(***************************************************************************)
(* Removal of a waiting process from its sleeping chain, as sndsig() does  *)
(* it: the head is popped, otherwise the chain is walked to the process.   *)
(***************************************************************************)
Unlink(k, p) ==
  LET c == k.proc[p].chan
      q == k.chain[c]
  IN  [k EXCEPT !.chain[c] =
         IF q[1] = p THEN Tail(q)
         ELSE RemoveAt(q, SelectInSeq(q, LAMBDA x : x = p))]

(* Variants of sndsig(): the null signal is recorded; a waiting receiver  *)
(* is rescheduled but left on its chain; a waiting receiver is not woken; *)
(* only a receiver at the head of its chain is woken.                     *)
SndSigPostsNull(k, p, sig) ==
  LET posted == [k EXCEPT !.proc[p].received = @ \cup {sig}] IN
  CASE sig = SIGNULL                                          -> posted
    [] k.proc[p].handlers[sig] = DFL /\ SigDefault(sig) = IGN -> k
    [] k.proc[p].handlers[sig] = DFL /\ SigDefault(sig) = RESUME
                                                     -> Resume(k, p)
    [] k.proc[p].handlers[sig] = IGN                          -> k
    [] k.proc[p].state = WAITING            -> Sched(Unlink(posted, p), p)
    [] OTHER                                                  -> posted

SndSigNoUnlink(k, p, sig) ==
  LET posted == [k EXCEPT !.proc[p].received = @ \cup {sig}] IN
  CASE sig = SIGNULL                                          -> k
    [] k.proc[p].handlers[sig] = DFL /\ SigDefault(sig) = IGN -> k
    [] k.proc[p].handlers[sig] = DFL /\ SigDefault(sig) = RESUME
                                                     -> Resume(k, p)
    [] k.proc[p].handlers[sig] = IGN                          -> k
    [] k.proc[p].state = WAITING            -> Sched(posted, p)
    [] OTHER                                                  -> posted

SndSigNoWake(k, p, sig) ==
  LET posted == [k EXCEPT !.proc[p].received = @ \cup {sig}] IN
  CASE sig = SIGNULL                                          -> k
    [] k.proc[p].handlers[sig] = DFL /\ SigDefault(sig) = IGN -> k
    [] k.proc[p].handlers[sig] = DFL /\ SigDefault(sig) = RESUME
                                                     -> Resume(k, p)
    [] k.proc[p].handlers[sig] = IGN                          -> k
    [] OTHER                                                  -> posted

SndSigHeadWakeOnly(k, p, sig) ==
  LET posted == [k EXCEPT !.proc[p].received = @ \cup {sig}] IN
  CASE sig = SIGNULL                                          -> k
    [] k.proc[p].handlers[sig] = DFL /\ SigDefault(sig) = IGN -> k
    [] k.proc[p].handlers[sig] = DFL /\ SigDefault(sig) = RESUME
                                                     -> Resume(k, p)
    [] k.proc[p].handlers[sig] = IGN                          -> k
    [] k.proc[p].state = WAITING /\ k.chain[k.proc[p].chan][1] = p
                                            -> Sched(Unlink(posted, p), p)
    [] OTHER                                                  -> posted

(***************************************************************************)
(* sndsig(proc, sig)                                                       *)
(***************************************************************************)
SndSig(k, p, sig) ==
  LET posted == [k EXCEPT !.proc[p].received = @ \cup {sig}] IN
  CASE sig = SIGNULL                                          -> k
    [] k.proc[p].handlers[sig] = DFL /\ SigDefault(sig) = IGN -> k
    [] k.proc[p].handlers[sig] = DFL /\ SigDefault(sig) = RESUME
                                                     -> Resume(k, p)
    [] k.proc[p].handlers[sig] = IGN                          -> k
    [] k.proc[p].state = WAITING            -> Sched(Unlink(posted, p), p)
    [] OTHER                                                  -> posted

(***************************************************************************)
(* bury() of every zombie child of p (the slot is freed) and the           *)
(* decrement of p's nchildren for each.                                    *)
(***************************************************************************)
FreeSlot == [state |-> DEAD, priority |-> PRIO_USER, counter |-> 0,
             received |-> {}, handlers |-> [s \in AllSignals |-> DFL],
             alarm |-> 0, chan |-> NoChan, nchildren |-> 0,
             pc |-> "user", nsTicks |-> 0, nsRet |-> 0,
             lpc |-> "none", sleepSec |-> 0]

(* Variant of the burial that leaves nchildren as it is.                 *)
BuryZombiesNoDecrement(k, p) ==
  LET Z == {c \in Procs : Father[c] = p /\ k.proc[c].state = ZOMBIE} IN
  [k EXCEPT !.proc = [c \in Procs |-> IF c \in Z THEN FreeSlot ELSE @[c]]]

BuryZombies(k, p) ==
  LET Z == {c \in Procs : Father[c] = p /\ k.proc[c].state = ZOMBIE} IN
  [k EXCEPT !.proc = [c \in Procs |->
                        IF c \in Z THEN FreeSlot
                        ELSE IF c = p
                             THEN [@[c] EXCEPT !.nchildren = @ - Cardinality(Z)]
                             ELSE @[c]]]

Clear(k, p, sig) == [k EXCEPT !.proc[p].received = @ \ {sig}]

(***************************************************************************)
(* issig(): scan the signals of the current process in numeric order.      *)
(* Result: [sig |-> the signal found or SIGNULL, k |-> the new state].     *)
(***************************************************************************)
RECURSIVE IsSigFrom(_, _)
IsSigFrom(k, i) ==
  LET c == k.curr IN
  IF i >= NR_SIGNALS THEN [sig |-> SIGNULL, k |-> k]
  ELSE IF i \notin k.proc[c].received THEN IsSigFrom(k, i + 1)
  ELSE IF i = SIGCHLD
       THEN IF Ignoring(k, c, SIGCHLD)
            THEN LET k2 == BuryZombies(Clear(k, c, i), c) IN
                 IF k2.proc[c].nchildren # 0 THEN IsSigFrom(k2, i + 1)
                 ELSE [sig |-> SIGCHLD, k |-> k2]
            ELSE [sig |-> SIGCHLD, k |-> k]
  ELSE IF ~Ignoring(k, c, i) THEN [sig |-> i, k |-> k]
  ELSE IsSigFrom(Clear(k, c, i), i + 1)

IsSig(k) == IsSigFrom(k, 1)
=============================================================================
