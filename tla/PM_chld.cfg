\* A child exits while its parent ignores SIGCHLD: the zombie is never reaped.
CONSTANTS
  NPROC = 2
  Nice <- MC_Nice
  Father <- MC_Father
  PRIO_USER = 2
  PRIO_IO = 0
  PROC_QUANTUM = 2
  Chans = {r1}
  Signals = {6}
  HandlerSignals = {6}
  AlarmDelays = {}
  NsSeconds = {0}
  NsNanos = {1}
  UsleepArgs = {}
  SleepArgs = {}
  CLOCK_FREQ = 2
  CLOCK_INTERVAL_PER_MS = 10
  MaxTicks = 0
SPECIFICATION Spec
PROPERTY
  IgnoredChildReaped
