\* Preemption, resource and nanosleep chains, kill (null signal included),
\* user handlers run in user mode, exits and the reaping of zombie
\* children by issig() once the parent has come to ignore SIGCHLD.
CONSTANTS
  NPROC = 2
  Nice <- MC_Nice
  Father <- MC_Father
  PRIO_USER = 2
  PRIO_IO = 0
  PROC_QUANTUM = 2
  Chans = {r1}
  Signals = {4, 6}
  HandlerSignals = {4, 6}
  AlarmDelays = {}
  NsSeconds = {0}
  NsNanos = {1}
  UsleepArgs = {1}
  SleepArgs = {}
  CLOCK_FREQ = 2
  CLOCK_INTERVAL_PER_MS = 10
  MaxTicks = 1
SPECIFICATION Spec
INVARIANT TypeOK
INVARIANT OneRunning
INVARIANT ChainsConsistent
PROPERTY SignalWakesSleeper
INVARIANT ChildrenAccounted
