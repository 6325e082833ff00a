------------------------------- MODULE Sched -------------------------------
(***************************************************************************)
(* The process table and the scheduling operators of src/src/kernel/pm/   *)
(* sched.c: sched(), resume(), the PRIORITY / HIGHER_PRIORITY macros and   *)
(* the process-selection loop of yield().                                  *)
(*                                                                         *)
(* A kernel state is a record                                              *)
(*     [proc |-> [Procs -> ProcRec], chain |-> [ChanIds -> Seq(Procs)],    *)
(*      curr |-> Procs]                                                    *)
(* standing for proctab[], the sleeping chains and curr_proc.  Operators   *)
(* here map one such record to another, so that a handler which calls      *)
(* several kernel functions in a row is their composition.                 *)
(***************************************************************************)
EXTENDS Integers, Sequences, SequencesExt

CONSTANTS
  NPROC,         \* number of process slots after IDLE (FIRST_PROC..LAST_PROC)
  Nice,          \* Nice[p]: the nice value of process p (never changed here)
  PRIO_USER,     \* priority given to a process when it is picked
  PROC_QUANTUM,  \* counter given to a process when it is picked
  Chans          \* resource sleeping chains (model values)

ASSUME NPROC \in Nat \ {0}
ASSUME PRIO_USER \in Int /\ PROC_QUANTUM \in Nat \ {0}

IDLE == 0
Procs == 0 .. NPROC

ASSUME Nice \in [Procs -> Int]

(* Process states, the PROC_ constants; DEAD is a free slot.             *)
READY   == "ready"
RUNNING == "running"
WAITING == "waiting"
STOPPED == "stopped"
ZOMBIE  == "zombie"
DEAD    == "dead"
States == {READY, RUNNING, WAITING, STOPPED, ZOMBIE, DEAD}

(* A process sleeps on its own nanosleep chain (ns_chain), on its own     *)
(* chain while in pause(), or on a shared resource chain; NoChan when it  *)
(* is on none.                                                             *)
NsChan(p)  == <<"ns", p>>
ResChan(c) == <<"res", c>>
PauseChan(p) == <<"pause", p>>
ChanIds == {NsChan(p) : p \in Procs} \cup {PauseChan(p) : p \in Procs}
             \cup {ResChan(c) : c \in Chans}
NoChan == <<"none">>

(***************************************************************************)
(* sched(proc): make proc ready with a zero counter.                       *)
(***************************************************************************)
Sched(k, p) ==
  [k EXCEPT !.proc[p].state = READY, !.proc[p].counter = 0]

(* Variant of resume() without the test of the stopped state.             *)
ResumeUnguarded(k, p) == Sched(k, p)

(***************************************************************************)
(* resume(proc): only a stopped process is rescheduled.                    *)
(***************************************************************************)
Resume(k, p) ==
  IF k.proc[p].state = STOPPED THEN Sched(k, p) ELSE k

(* PRIORITY(p): the lower, the higher the effective priority.              *)
Priority(k, p) ==
  k.proc[p].priority + Nice[p] - k.proc[p].counter

(* HIGHER_PRIORITY(p1, p2): candidate p2 should replace p1.                *)
HigherPriority(k, p1, p2) ==
  \/ Priority(k, p2) < Priority(k, p1)
  \/ Priority(k, p2) = Priority(k, p1) /\ k.proc[p2].counter > k.proc[p1].counter

(* Variant of the loop body without aging: nobody's counter grows.        *)
PickStepNoAging(acc, p) ==
  IF acc.k.proc[p].state = READY /\ HigherPriority(acc.k, acc.next, p)
  THEN [acc EXCEPT !.next = p]
  ELSE acc

(***************************************************************************)
(* One iteration of the selection loop of yield() over slot p: a ready     *)
(* process either replaces next, which then ages, or ages itself.          *)
(***************************************************************************)
PickStep(acc, p) ==
  LET k == acc.k  n == acc.next IN
  IF k.proc[p].state # READY THEN acc
  ELSE IF HigherPriority(k, n, p)
       THEN [k |-> [k EXCEPT !.proc[n].counter = @ + 1], next |-> p]
       ELSE [acc EXCEPT !.k.proc[p].counter = @ + 1]

(* The loop from slot i to LAST_PROC.                                      *)
RECURSIVE PickLoop(_, _)
PickLoop(acc, i) ==
  IF i > NPROC THEN acc ELSE PickLoop(PickStep(acc, i), i + 1)

(* The whole loop, starting with next = IDLE: [k |-> aged table, next].    *)
PickNext(k) == PickLoop([k |-> k, next |-> IDLE], 1)

(***************************************************************************)
(* Dispatch of the picked process at the end of yield().                   *)
(***************************************************************************)
SwitchTo(k, n) ==
  [k EXCEPT !.proc[n].priority = PRIO_USER,
            !.proc[n].state = RUNNING,
            !.proc[n].counter = PROC_QUANTUM,
            !.curr = n]
=============================================================================
