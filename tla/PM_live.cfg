\* Job control and alarms under a fair clock: stop and continue sent with
\* kill(), alarms delivered by the scan in yield(), two processes on one
\* resource chain (so that sndsig() must walk the chain), and two children
\* of different nice values, so that aging decides who runs.
CONSTANTS
  NPROC = 2
  Nice <- MC_Nice
  Father <- MC_Father
  PRIO_USER = 2
  PRIO_IO = 0
  PROC_QUANTUM = 2
  Chans = {r1}
  Signals = {2, 7}
  HandlerSignals = {}
  AlarmDelays = {1}
  NsSeconds = {0}
  NsNanos = {1}
  UsleepArgs = {}
  SleepArgs = {}
  CLOCK_FREQ = 2
  CLOCK_INTERVAL_PER_MS = 10
  MaxTicks = 2
SPECIFICATION Spec
INVARIANT OneRunning
INVARIANT ChainsConsistent
PROPERTY SignalWakesSleeper
PROPERTY StarvationFree
