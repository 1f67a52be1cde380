SPECIFICATION Spec
CONSTANTS
  Thread = {t1}
  QueueSize = 2
  U32 = 65536
  MaxSends = 3
  Worlds = {{"button"}}
INVARIANT EventUnmasked
CHECK_DEADLOCK FALSE
