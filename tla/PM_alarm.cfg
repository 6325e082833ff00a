\* An alarm whose deadline equals the current tick is not delivered at preemption.
CONSTANTS
  NPROC = 2
  Nice <- MC_Nice
  Father <- MC_Father
  PRIO_USER = 2
  PRIO_IO = 0
  PROC_QUANTUM = 2
  Chans = {r1}
  Signals = {19}
  HandlerSignals = {}
  AlarmDelays = {1}
  NsSeconds = {0}
  NsNanos = {1}
  UsleepArgs = {}
  SleepArgs = {}
  CLOCK_FREQ = 2
  CLOCK_INTERVAL_PER_MS = 10
  MaxTicks = 1
SPECIFICATION Spec
PROPERTY
  AlarmOnTime
