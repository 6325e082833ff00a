\* A nanosleep of 20 ms interrupted before its deadline: the remaining time
\* written to *rmtp is 2 ticks, but tv_nsec is computed in milliseconds.
CONSTANTS
  NPROC = 2
  Nice <- MC_Nice
  Father <- MC_Father
  PRIO_USER = 2
  PRIO_IO = 0
  PROC_QUANTUM = 2
  Chans = {r1}
  Signals = {20}
  HandlerSignals = {20}
  AlarmDelays = {}
  NsSeconds = {0}
  NsNanos = {20000000}
  UsleepArgs = {}
  SleepArgs = {}
  CLOCK_FREQ = 100
  CLOCK_INTERVAL_PER_MS = 10
  MaxTicks = 1
SPECIFICATION Spec
PROPERTY
  NanosleepRemaining
