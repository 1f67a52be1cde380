SPECIFICATION Spec
CONSTANTS
  None = None
  MailSize = 3
  Key = {k1, k2}
  U16 = 65536
  MaxHold = 30
  Led = {l1, l2}
  U8 = 6
  Tm = {m1, m2}
  TmMailSize = 2
INVARIANTS
  TypeOK
  PressHasTimer
  LedsSound
  PendingIsLive
PROPERTIES
  WellBracketed
  TimersServe
CHECK_DEADLOCK FALSE
