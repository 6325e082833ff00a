--------------------------------- MODULE PM ---------------------------------
(***************************************************************************)
(* Process management: the scheduler (src/src/kernel/pm/sched.c), signals  *)
(* (src/src/kernel/pm/signal.c) and sys_nanosleep()                        *)
(* (src/src/kernel/sys/nanosleep.c) composed on one uniprocessor, with    *)
(* the libc nanosleep() and usleep() wrappers that call the latter, and   *)
(* the libc sleep() (src/src/lib/libc/unistd/sleep.c), which runs in user *)
(* mode between the three system calls it makes.                          *)
(*                                                                         *)
(* The kernel is not preemptive: the running process (curr) executes a     *)
(* kernel path to completion, and control passes to another process only  *)
(* inside yield().  A process that gives up the processor in the middle    *)
(* of a kernel path resumes there when it is picked again; pc records      *)
(* where:                                                                  *)
(*   "user" - in user mode;                                                *)
(*   "sig"  - on the way back to user mode, where pending signals are      *)
(*            checked with issig() and dispatched;                         *)
(*   "ns"   - in sys_nanosleep(), just after sleep() returned;            *)
(* and lpc records where a process is in the libc sleep(); "none" when it *)
(* is not in it.                                                           *)
(*                                                                         *)
(* sleep()/wakeup(), the signal dispatcher, die(), sys_kill(), sys_alarm() *)
(* sys_signal(), sys_pause() and the clock interrupt are not in the        *)
(* repository's sources; they are modelled from the spec, as the code    *)
(* above uses them.                                                        *)
(***************************************************************************)
EXTENDS Signal

CONSTANTS
  PRIO_IO,               \* priority of a process sleeping on a resource
  HandlerSignals,        \* signals whose disposition processes change
  AlarmDelays,           \* delays (ticks) a process may pass to alarm()
  NsSeconds, NsNanos,    \* tv_sec and tv_nsec passed to nanosleep()
  UsleepArgs,            \* usec passed to usleep()
  SleepArgs,             \* seconds passed to sleep()
  CLOCK_FREQ,            \* clock ticks per second
  CLOCK_INTERVAL_PER_MS, \* milliseconds per tick
  MaxTicks               \* bound on the clock

ASSUME HandlerSignals \subseteq Signals \ {SIGKILL, SIGSTOP}
ASSUME AlarmDelays \subseteq Nat /\ MaxTicks \in Nat
ASSUME NsSeconds \subseteq Int /\ NsNanos \subseteq Int /\ UsleepArgs \subseteq Nat
ASSUME SleepArgs \subseteq Nat
ASSUME CLOCK_FREQ \in Nat \ {0} /\ CLOCK_INTERVAL_PER_MS \in Nat \ {0}

EINVAL == 22
EINTR == 4

VARIABLES
  proc,   \* proctab[]: the process table
  chain,  \* the sleeping chains, each a list with its head first
  curr,   \* curr_proc
  ticks   \* the clock

vars == <<proc, chain, curr, ticks>>

(* The kernel state as the record the operators of Sched and Signal take. *)
K == [proc |-> proc, chain |-> chain, curr |-> curr]

Commit(k) == \E v \in {k} : proc' = v.proc /\ chain' = v.chain /\ curr' = v.curr

SetPc(k, p, where) == [k EXCEPT !.proc[p].pc = where]

(***************************************************************************)
(* The alarm loop of yield(): every valid process whose alarm has expired *)
(* has it cleared and receives SIGALRM, in table order.                    *)
(***************************************************************************)
AlarmStep(k, p) ==
  IF /\ k.proc[p].state # DEAD
     /\ k.proc[p].alarm # 0
     /\ k.proc[p].alarm < ticks
  THEN SndSig([k EXCEPT !.proc[p].alarm = 0], p, SIGALRM)
  ELSE k

RECURSIVE AlarmLoopSkipsLast(_, _)
AlarmLoopSkipsLast(k, i) ==
  IF i >= NPROC THEN k ELSE AlarmLoopSkipsLast(AlarmStep(k, i), i + 1)

RECURSIVE AlarmLoop(_, _)
AlarmLoop(k, i) ==
  IF i > NPROC THEN k ELSE AlarmLoop(AlarmStep(k, i), i + 1)

(* Variant of yield() that does not reschedule a still running curr.     *)
YieldKeepsCurr(k) ==
  LET r == PickNext(AlarmLoop(k, 1)) IN SwitchTo(r.k, r.next)

(***************************************************************************)
(* yield(): reschedule curr if it is still running, deliver expired        *)
(* alarms, pick the next process and switch to it.                         *)
(***************************************************************************)
Yield(k) ==
  LET k1 == IF k.proc[k.curr].state = RUNNING THEN Sched(k, k.curr) ELSE k
      k2 == AlarmLoop(k1, 1)
      r  == PickNext(k2)
  IN  SwitchTo(r.k, r.next)

(***************************************************************************)
(* stop(): curr stops, its father is sent SIGCHLD, and it yields.          *)
(***************************************************************************)
Stop(k) ==
  Yield(SndSig([k EXCEPT !.proc[k.curr].state = STOPPED],
               Father[k.curr], SIGCHLD))

(***************************************************************************)
(* sleep(chain, priority): curr is pushed at the head of the chain, takes  *)
(* the priority, waits and yields.                                         *)
(***************************************************************************)
Sleep(k, c, prio) ==
  Yield([k EXCEPT !.chain[c] = <<k.curr>> \o @,
                  !.proc[k.curr].priority = prio,
                  !.proc[k.curr].state = WAITING,
                  !.proc[k.curr].chan = c])

(***************************************************************************)
(* wakeup(chain): every process of the chain is scheduled; chain empties. *)
(***************************************************************************)
Wakeup(k, c) ==
  LET W == ToSet(k.chain[c]) IN
  [k EXCEPT !.proc = [p \in Procs |->
                        IF p \in W THEN [@[p] EXCEPT !.state = READY,
                                                     !.counter = 0]
                        ELSE @[p]],
            !.chain[c] = <<>>]

(***************************************************************************)
(* die(): curr becomes a zombie, its father is sent SIGCHLD, and it       *)
(* yields.                                                                 *)
(***************************************************************************)
Die(k) ==
  Yield(SndSig([k EXCEPT !.proc[k.curr].state = ZOMBIE,
                         !.proc[k.curr].alarm = 0],
               Father[k.curr], SIGCHLD))

(***************************************************************************)
(* The dispatch of a signal issig() returned: its flag is cleared and a    *)
(* user handler runs (returning through sigreturn, which checks again), or *)
(* the default action is taken.                                            *)
(***************************************************************************)
Dispatch(k, sig) ==
  LET c  == k.curr
      k1 == Clear(k, c, sig)
  IN  CASE k.proc[c].handlers[sig] = USER           -> SetPc(k1, c, "user")
        [] SigDefault(sig) \in {TERMINATE, ABORT}   -> Die(k1)
        [] SigDefault(sig) = STOP                   -> Stop(SetPc(k1, c, "sig"))
        [] OTHER                                    -> SetPc(k1, c, "user")

(* The tick at which sys_nanosleep() wakes the caller up.                  *)
NsDeadline(now, sec, nsec) ==
  LET msec == nsec \div 1000000
      base == now + sec * CLOCK_FREQ
  IN  IF msec >= CLOCK_INTERVAL_PER_MS THEN base + msec \div CLOCK_INTERVAL_PER_MS
      ELSE IF nsec # 0 THEN base + 1
      ELSE base

NsInvalid(sec, nsec) ==
  sec < 0 \/ nsec < 0 \/ sec >= 1000000000 \/ nsec >= 1000000000

(***************************************************************************)
(* The libc nanosleep() wrapper (src/src/lib/libc/arch/i386/nanosleep.c)  *)
(* on the kernel's result r: what the caller gets, the errno it sets (0:  *)
(* left alone) and the remaining time it writes to *rmtp.                  *)
(***************************************************************************)
NoTime == [sec |-> 0, nsec |-> 0]

LibcNanosleep(r) ==
  CASE r < 0 -> [ret |-> -1, errno |-> -r, rmtp |-> NoTime]
    [] r > 0 -> [ret |-> -1, errno |-> EINTR,
                 rmtp |-> [sec |-> r \div CLOCK_FREQ,
                           nsec |-> (r % CLOCK_FREQ) * CLOCK_INTERVAL_PER_MS]]
    [] OTHER -> [ret |-> 0, errno |-> 0, rmtp |-> NoTime]

-----------------------------------------------------------------------------
(***************************************************************************)
(* Steps of the running process.                                           *)
(***************************************************************************)
InUser == proc[curr].pc = "user"

(* In user mode and not inside sleep(), which makes its own calls.        *)
UserMode == InUser /\ proc[curr].lpc = "none"

(* The clock preempts curr (or curr yields): it resumes on the way back   *)
(* to user mode.                                                           *)
Preempt ==
  /\ InUser
  /\ Commit(Yield(SetPc(K, curr, IF curr = IDLE THEN "user" ELSE "sig")))
  /\ UNCHANGED ticks

(* Back to user mode: issig(), then the dispatch of what it found.        *)
CheckSignals ==
  /\ proc[curr].pc = "sig"
  /\ LET r == IsSig(K) IN
       IF r.sig = SIGNULL THEN Commit(SetPc(r.k, curr, "user"))
       ELSE Commit(Dispatch(r.k, r.sig))
  /\ UNCHANGED ticks

(* sys_nanosleep(tv_sec, tv_nsec) up to the sleep().                       *)
Nanosleep(sec, nsec) ==
  /\ UserMode
  /\ curr # IDLE
  /\ IF NsInvalid(sec, nsec)
     THEN Commit([SetPc(K, curr, "sig") EXCEPT !.proc[curr].nsRet = -EINVAL])
     ELSE Commit(Sleep([SetPc(K, curr, "ns") EXCEPT
                          !.proc[curr].nsTicks = NsDeadline(ticks, sec, nsec)],
                       NsChan(curr), PRIO_USER))
  /\ UNCHANGED ticks

(* usleep(usec): the libc call of nanosleep() with usec split into a     *)
(* timespec.                                                               *)
Usleep(usec) == Nanosleep(usec \div 1000000, (usec % 1000000) * 1000)

(* sys_nanosleep() after the sleep(): remaining ticks if a signal came.   *)
NanosleepReturn ==
  /\ proc[curr].pc = "ns"
  /\ LET r == IsSig(K) IN
       Commit([SetPc(r.k, curr, "sig") EXCEPT !.proc[curr].nsRet =
                 IF r.sig # SIGNULL THEN proc[curr].nsTicks - ticks ELSE 0])
  /\ UNCHANGED ticks

(* A kernel path waiting for a resource: sleep(chain, PRIO_IO).            *)
SleepOn(c) ==
  /\ UserMode
  /\ curr # IDLE
  /\ Commit(Sleep(SetPc(K, curr, "sig"), ResChan(c), PRIO_IO))
  /\ UNCHANGED ticks

(* sys_kill(pid, sig): sndsig() to a valid process.                        *)
Kill(p, sig) ==
  /\ UserMode
  /\ curr # IDLE
  /\ p # IDLE
  /\ proc[p].state # DEAD
  /\ Commit(SndSig(SetPc(K, curr, "sig"), p, sig))
  /\ UNCHANGED ticks

(* sys_alarm(): set (or, with 0, cancel) the alarm of curr.                *)
AlarmSet(k, d) ==
  [SetPc(k, k.curr, "sig") EXCEPT
     !.proc[k.curr].alarm = IF d = 0 THEN 0 ELSE ticks + d]

SetAlarm(d) ==
  /\ UserMode
  /\ curr # IDLE
  /\ Commit(AlarmSet(K, d))
  /\ UNCHANGED ticks

(* sys_signal(sig, handler).                                               *)
SetHandler(sig, h) ==
  /\ UserMode
  /\ curr # IDLE
  /\ Commit([SetPc(K, curr, "sig") EXCEPT !.proc[curr].handlers[sig] = h])
  /\ UNCHANGED ticks

(* sys_exit(): a process without children dies.                            *)
Exit ==
  /\ UserMode
  /\ curr # IDLE
  /\ proc[curr].nchildren = 0
  /\ Commit(Die(K))
  /\ UNCHANGED ticks

(***************************************************************************)
(* sleep(seconds) of libc: signal(SIGALRM, sig_handler), alarm(seconds),   *)
(* time(NULL), pause(), then the result.  Each call is a system call, and *)
(* between them the caller is in user mode, where the clock may preempt   *)
(* it and pending signals are dispatched.  lpc is the next call:          *)
(*   "alarm" - alarm(seconds);  "pause" - pause();  "check" - the test of  *)
(*   signal_recv.                                                          *)
(* time() changes no state the model keeps.  sig_handler() stores the     *)
(* signal in signal_recv, which starts as SIGALRM, and it is installed    *)
(* for SIGALRM alone: signal_recv is SIGALRM whenever it is read, so      *)
(* sleep() returns 0 and the variable is left out.  pause() is a sleep()  *)
(* of the kernel on a chain no wakeup() names: only a signal ends it.     *)
(* The argument of alarm() is taken, like SetAlarm's, in clock ticks.     *)
(***************************************************************************)
SleepSignal(seconds) ==
  /\ UserMode
  /\ curr # IDLE
  /\ ticks < MaxTicks   \* bound of the model on the clock
  /\ Commit([SetPc(K, curr, "sig") EXCEPT !.proc[curr].handlers[SIGALRM] = USER,
                                            !.proc[curr].lpc = "alarm",
                                            !.proc[curr].sleepSec = seconds])
  /\ UNCHANGED ticks

SleepAlarm ==
  /\ InUser
  /\ proc[curr].lpc = "alarm"
  /\ Commit([AlarmSet(K, proc[curr].sleepSec) EXCEPT
               !.proc[curr].lpc = "pause", !.proc[curr].sleepSec = 0])
  /\ UNCHANGED ticks

Pause ==
  /\ InUser
  /\ proc[curr].lpc = "pause"
  /\ Commit(Sleep([SetPc(K, curr, "sig") EXCEPT !.proc[curr].lpc = "check"],
                   PauseChan(curr), PRIO_USER))
  /\ UNCHANGED ticks

SleepReturn ==
  /\ InUser
  /\ proc[curr].lpc = "check"
  /\ Commit([K EXCEPT !.proc[curr].lpc = "none"])
  /\ UNCHANGED ticks

(***************************************************************************)
(* Interrupts.                                                             *)
(***************************************************************************)
(* The clock runs to MaxTicks, and further while a process in sleep()     *)
(* has an alarm still to expire.                                           *)
SleepAlarmPending ==
  \E p \in Procs : proc[p].lpc # "none" /\ proc[p].alarm >= ticks

Tick ==
  /\ ticks < MaxTicks \/ SleepAlarmPending
  /\ ticks' = ticks + 1
  /\ UNCHANGED <<proc, chain, curr>>

(* The clock wakes a nanosleeping process up once its deadline is reached. *)
NsTimeout(p) ==
  /\ proc[p].state = WAITING
  /\ proc[p].chan = NsChan(p)
  /\ proc[p].nsTicks <= ticks
  /\ Commit(Wakeup(K, NsChan(p)))
  /\ UNCHANGED ticks

(* A resource is released: wakeup() of its chain.                          *)
WakeupRes(c) ==
  /\ chain[ResChan(c)] # <<>>
  /\ Commit(Wakeup(K, ResChan(c)))
  /\ UNCHANGED ticks

-----------------------------------------------------------------------------
(***************************************************************************)
(* Initially IDLE runs; every other process is a ready child of process 1 *)
(* (FIRST_PROC), which is a child of IDLE, with default dispositions,    *)
(* and resumes, like every preempted process, on its way to user mode.    *)
(***************************************************************************)
InitProc(p) ==
  [state |-> IF p = IDLE THEN RUNNING ELSE READY,
   priority |-> PRIO_USER, counter |-> 0, received |-> {},
   handlers |-> [s \in AllSignals |-> DFL], alarm |-> 0, chan |-> NoChan,
   nchildren |-> Cardinality({c \in Procs \ {IDLE} : Father[c] = p}),
   pc |-> IF p = IDLE THEN "user" ELSE "sig", nsTicks |-> 0, nsRet |-> 0,
   lpc |-> "none", sleepSec |-> 0]

Init ==
  /\ proc = [p \in Procs |-> InitProc(p)]
  /\ chain = [c \in ChanIds |-> <<>>]
  /\ curr = IDLE
  /\ ticks = 0

Next ==
  \/ Preempt
  \/ CheckSignals
  \/ \E s \in NsSeconds, n \in NsNanos : Nanosleep(s, n)
  \/ \E u \in UsleepArgs : Usleep(u)
  \/ NanosleepReturn
  \/ \E c \in Chans : SleepOn(c)
  \/ \E p \in Procs, s \in Signals \cup {SIGNULL} : Kill(p, s)
  \/ \E d \in AlarmDelays : SetAlarm(d)
  \/ \E s \in HandlerSignals, h \in {DFL, IGN, USER} : SetHandler(s, h)
  \/ Exit
  \/ \E s \in SleepArgs : SleepSignal(s)
  \/ SleepAlarm
  \/ Pause
  \/ SleepReturn
  \/ Tick
  \/ \E p \in Procs : NsTimeout(p)
  \/ \E c \in Chans : WakeupRes(c)

(***************************************************************************)
(* The clock interrupt preempts a process whose quantum is spent when it  *)
(* finds it in user mode; a process that keeps entering the kernel is in  *)
(* user mode again and again, so Preempt is strongly fair; it is enabled  *)
(* as a step that changes the state exactly when PreemptMoves holds.      *)
(* A kernel path,                                                          *)
(* once started, runs to its end: CheckSignals and NanosleepReturn are     *)
(* weakly fair.  Each is enabled exactly when curr is at its pc, and       *)
(* while curr is there no other action changes curr or curr's slot, while  *)
(* each of them changes one of the two in every branch (the pc, a          *)
(* received flag, or the state of a dying process).  So a step at that pc  *)
(* changing curr or proc[curr] is a step of the action, and the fairness   *)
(* is written with these cheap forms instead of ENABLED, which TLC would   *)
(* evaluate through the whole of yield().                                  *)
(* A process in sleep() that runs in user mode executes its next call     *)
(* unless preempted first, and no other step changes its lpc there, so    *)
(* the libc calls are strongly fair in the same cheap form.  The clock    *)
(* is a hardware interrupt: Tick is weakly fair.                           *)
(***************************************************************************)
KernelStepAt(where) ==
  /\ proc[curr].pc = where
  /\ (curr' # curr \/ proc'[curr] # proc[curr])

(* Preempt takes one step from a state; it changes the state unless IDLE  *)
(* runs alone with no alarm to deliver, so yield() picks IDLE again.       *)
PreemptMoves == InUser /\ (curr # IDLE \/ Yield(K) # K)

InSleepCall == InUser /\ proc[curr].lpc # "none"

SleepCallStep == InSleepCall /\ proc'[curr].lpc # proc[curr].lpc

Fairness ==
  /\ <>[]~PreemptMoves \/ []<><<Preempt>>_vars
  /\ []<>(proc[curr].pc # "sig") \/ []<><<KernelStepAt("sig")>>_vars
  /\ []<>(proc[curr].pc # "ns") \/ []<><<KernelStepAt("ns")>>_vars

Spec == Init /\ [][Next]_vars /\ Fairness

(* The fairness of the clock and of sleep()'s calls, which the properties *)
(* about sleep() need in addition.                                         *)
SleepFairness ==
  /\ <>[]~InSleepCall \/ []<><<SleepCallStep>>_vars
  /\ WF_vars(Tick)

SleepSpec == Spec /\ SleepFairness

-----------------------------------------------------------------------------
(***************************************************************************)
(* Properties.                                                             *)
(***************************************************************************)
ProcRec ==
  [state : States, priority : Int, counter : Int, received : SUBSET AllSignals,
   handlers : [AllSignals -> {DFL, IGN, USER}], alarm : Nat,
   chan : ChanIds \cup {NoChan}, nchildren : Nat,
   pc : {"user", "sig", "ns"}, nsTicks : Int, nsRet : Int,
   lpc : {"none", "alarm", "pause", "check"}, sleepSec : SleepArgs \cup {0}]

TypeOK ==
  /\ proc \in [Procs -> ProcRec]
  /\ chain \in [ChanIds -> Seq(Procs)]
  /\ curr \in Procs
  /\ ticks \in Nat

(* Uniprocessor: after every kernel path exactly one process, curr_proc,  *)
(* is running (yield() reschedules the old one and dispatches the new).    *)
OneRunning ==
  {p \in Procs : proc[p].state = RUNNING} = {curr}

(* The sleeping chains and the process states agree: a process waits iff  *)
(* it is linked, exactly once, in the chain it records, and every linked  *)
(* process waits.  sleep() links, wakeup() and sndsig()'s unlink (head or *)
(* walked-to) must keep this.                                              *)
ChainsConsistent ==
  /\ \A c \in ChanIds :
       /\ IsInjective(chain[c])
       /\ \A i \in 1 .. Len(chain[c]) :
            proc[chain[c][i]].state = WAITING /\ proc[chain[c][i]].chan = c
  /\ \A p \in Procs :
       proc[p].state = WAITING => Contains(chain[proc[p].chan], p)

(* A signal sent to a waiting process that does not ignore it wakes it:  *)
(* sndsig() finds the receiver in its chain (head or walk), unlinks it and *)
(* reschedules it, so no waiting process gains a pending signal it would *)
(* act on and stays waiting.                                               *)
SignalWakesSleeper ==
  [][\A p \in Procs :
       proc[p].state = WAITING /\ proc'[p].state = WAITING
         => \A s \in proc'[p].received \ proc[p].received : Ignoring(K, p, s)]_vars

(* nchildren counts the children whose slot is not yet freed: issig()     *)
(* decrements it once per zombie child it buries.                          *)
ChildrenAccounted ==
  \A p \in Procs :
    proc[p].nchildren = Cardinality({c \in Procs \ {IDLE} :
                                       Father[c] = p /\ proc[c].state # DEAD})

(* Aging in yield(): a ready process is eventually picked, whatever its    *)
(* nice value, as long as the clock keeps preempting.                      *)
StarvationFree ==
  \A p \in 1 .. NPROC : proc[p].state = READY ~> proc[p].state = RUNNING

(* The comment of the libc nanosleep(): interrupted by a signal handler, *)
(* it returns -1 with errno EINTR and writes to *rmtp the remaining time, *)
(* with which a new nanosleep() completes the pause; a call whose whole   *)
(* interval has passed may return 0.  At its return step (the kernel step *)
(* at "ns") sys_nanosleep() returns ns_ticks - ticks when issig() finds a *)
(* caught signal, and the wrapper turns that into the result and the      *)
(* timespec; a process late to run after its deadline gets a negative     *)
(* count.                                                                  *)
NanosleepRemaining ==
  [][LET s == IsSig(K).sig IN
       KernelStepAt("ns") /\ s # SIGNULL /\ proc[curr].handlers[s] = USER
       => LET w == LibcNanosleep(proc'[curr].nsRet) IN
            \/ w.ret = 0 /\ proc[curr].nsTicks <= ticks
            \/ /\ w.ret = -1 /\ w.errno = EINTR
               /\ NsDeadline(ticks, w.rmtp.sec, w.rmtp.nsec) = proc[curr].nsTicks]_vars

(* The spec of sndsig()/issig(): SIGCHLD sent to a process ignoring it    *)
(* has all its zombie children reaped during its next issig() check.      *)
IgnoredChildReaped ==
  [][KernelStepAt("sig") /\ Ignoring(K, curr, SIGCHLD) =>
       \A c \in Procs : Father[c] = curr => proc'[c].state # ZOMBIE]_vars

(* The spec of the alarm scan in yield(): at every preemption each valid  *)
(* process whose alarm deadline is at or before the current tick gets     *)
(* SIGALRM and has the deadline cleared.                                   *)
AlarmOnTime ==
  [][Preempt => \A p \in Procs :
                  proc'[p].state # DEAD => ~(0 < proc'[p].alarm /\ proc'[p].alarm <= ticks)]_vars
(* pause() in sleep() ends with the alarm sleep() set: a process waiting  *)
(* in pause() whose alarm is still armed is woken by the SIGALRM that the  *)
(* alarm scan of yield() sends once the clock passes the deadline, and it *)
(* returns from sleep().  This takes the clock, another process's yield(), *)
(* sndsig()'s unlink of the pause chain and the dispatch of the handler.   *)
AlarmEndsPause ==
  \A p \in Procs \ {IDLE} :
    proc[p].lpc = "check" /\ proc[p].state = WAITING /\ proc[p].alarm # 0
      ~> proc[p].lpc = "none" \/ proc[p].state \in {ZOMBIE, DEAD}

(* The comment of sleep(): the caller is suspended for seconds and then  *)
(* returns.  sleep() sets the alarm and only then calls pause(), which    *)
(* waits for a signal; once the alarm is set, the caller leaves sleep()   *)
(* unless it dies.                                                          *)
SleepReturns ==
  \A p \in Procs \ {IDLE} :
    proc[p].lpc = "pause" ~> proc[p].lpc = "none" \/ proc[p].state \in {ZOMBIE, DEAD}
=============================================================================
