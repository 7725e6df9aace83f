SPECIFICATION Spec
CONSTANTS
  None = None
  d1 = d1
  ZeroDate = ZeroDate
  Dates = {d1}
  Days <- MCDays
  Seconds <- MCSeconds
  Micros <- MCMicros
  Hours = {0, 1, 23, 24, 838}
  Minutes = {0, 30, 59}
  MinuteSeconds = {0, 1, 59}
  Precisions = {0, 1, 2, 3, 5, 6}
INVARIANTS TimesRead DatetimesComeBack TimedeltasComeBack
CHECK_DEADLOCK FALSE
