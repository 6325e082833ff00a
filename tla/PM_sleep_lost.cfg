\* sleep(1) of one process never returns when its alarm expires and SIGALRM
\* is delivered before sleep() calls pause().
CONSTANTS
  NPROC = 1
  Nice <- MC_Nice
  Father <- MC_Father
  PRIO_USER = 2
  PRIO_IO = 0
  PROC_QUANTUM = 2
  Chans = {r1}
  Signals = {19}
  HandlerSignals = {}
  AlarmDelays = {}
  NsSeconds = {0}
  NsNanos = {1}
  UsleepArgs = {}
  SleepArgs = {1}
  CLOCK_FREQ = 2
  CLOCK_INTERVAL_PER_MS = 10
  MaxTicks = 1
SPECIFICATION SleepSpec
PROPERTY
  SleepReturns
