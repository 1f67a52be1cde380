SPECIFICATION Spec
CONSTANTS
  Obj = {o1, o2}
  Actor = {a1, a2}
  Root = Root
  None = None
  MaxRefs = 4
INVARIANT ReferenceKeepsThread
CHECK_DEADLOCK FALSE
