CONSTANTS
  Contexts = {t1, t2, t3}
  Handlers = {}
  Host <- NoHost
  Handler = irq
  Thread = t1
  Messages = {a, b}
  None = None
  Accepted = Accepted
  Refused = Refused
  Zero = zero
  N = 2
  IndexLimit = 4
  SplitUpdate = TRUE
SPECIFICATION ChannelSpec
PROPERTIES
  ChannelIsFifo
  CallsReturn
