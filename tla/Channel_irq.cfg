CONSTANTS
  Contexts = {t1, irq}
  Handlers = {irq}
  Host <- OneHost
  Handler = irq
  Thread = t1
  Messages = {a}
  None = None
  Accepted = Accepted
  Refused = Refused
  Zero = zero
  N = 2
  IndexLimit = 4
  SplitUpdate = TRUE
SPECIFICATION ChannelSpec
INVARIANTS
  InterruptSafe
