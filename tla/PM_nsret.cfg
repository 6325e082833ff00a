\* A nanosleep() woken by a signal and run only after its deadline returns a negative count.
CONSTANTS
  NPROC = 2
  Nice <- MC_Nice
  Father <- MC_Father
  PRIO_USER = 2
  PRIO_IO = 0
  PROC_QUANTUM = 2
  Chans = {r1}
  Signals = {20}
  HandlerSignals = {20}
  AlarmDelays = {}
  NsSeconds = {0}
  NsNanos = {1}
  UsleepArgs = {}
  SleepArgs = {}
  CLOCK_FREQ = 2
  CLOCK_INTERVAL_PER_MS = 10
  MaxTicks = 2
SPECIFICATION Spec
PROPERTY
  NanosleepRemaining
