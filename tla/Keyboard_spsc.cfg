CONSTANTS
  Values <- KeyEvents
  None = None
  Accepted = Accepted
  Refused = Refused
  Zero = zero
  N = 2
  IndexLimit = 4
  Letters = {a}
  Silent = {f1}
  ModKeys = {"lshift", "rshift"}
  TimerRuns = TRUE
  MaxKeys = 5
SPECIFICATION KbSpec
INVARIANTS
  SpscSafe
