SPECIFICATION ThreadsSpec
CONSTANTS
  Thread = {x1, x2, x3}
  None = None
  Isr = isr
  Msg = {q1, q2}
  NoMsg = NoMsg
  Size = 2
  Sem = {s1, s2}
  MaxCnt = 2
  Obj = {o1, o2}
  Actor = {a1, a2}
  Root = Root
  MaxRefs = 4
  Message = {m1, m2}
  Fn = {f, g}
  Nil = Nil
  Worlds = {{"listen"}, {"self"}}
  Player = {m, b, n}
  BtThread = b
  ToneThread = n
  MaxStack = 3
SYMMETRY Symmetry
INVARIANTS
  ThreadsTypeOK
  MailboxSound
  SendersSound
  CounterExact
  ReferenceKeepsThreadAlone
  ThreadsSound
  ListenersServed
  UsersAgree
PROPERTIES
  IsQueue
CHECK_DEADLOCK FALSE
