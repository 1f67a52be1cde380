SPECIFICATION ConfigSpec
CONSTANTS
  Block = {b1, b2}
  Content = {c1, c2}
  Info = Info
  Data = Data
  Blank = Blank
  Junk = Junk
  NoBkw = NoBkw
  HeapReuse = FALSE
  None = None
  Thread = {t1, t2}
  QueueSize = 2
  Worlds = {{"shell"}, {"preempt", "button"}}
  U32 = 65536
  MaxSends = 4
  Arm = 2
  Hold = 3
  Byte = 5
  Filter = 0
  Delay = 9
  MaxRequests = 3
INVARIANTS
  ConfigTypeOK
  Recoverable
  Coherent
  MessagesSound
  GoesOff
PROPERTIES
  ImplementsStore
  CountExact
  CallsReturn
CHECK_DEADLOCK FALSE
