SPECIFICATION KernelSpec
CONSTANTS
  None = None
  Thread = {h1, h2}
  Hdr = 1
  CoreSize = 8
  Request = {0, 1, 3}
  Units = 6
  Unit = 2
  BmHdr = 1
  Narrow = 32
  BmRequest = {0, 1, 2, 4, 9, 11, 18, 33}
  Timer = {v1, v2, v3}
  TimeRange = 6
  MtxThread = {x1, x2, x3, x4}
  Idle = Idle
  Mutex = {1, 2}
  Cond = {c}
  MaxPrio = 3
  Asleep = Asleep
  EvThread = {e1}
  Event = {0, 1}
  Source = 1
  Flag = {f1, f2}
  QThread = {q1, q2}
  Byte = {y1, y2}
  NoByte = NoByte
  QSize = 2
  MaxRead = 2
SYMMETRY Symmetry
INVARIANTS
  KernelTypeOK
  HeapSound
  BmemSound
  LocksSound
  PrioritiesSound
  WakeupsKept
PROPERTIES
  TimersIndependent
  KeepsOrder
