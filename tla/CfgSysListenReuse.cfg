SPECIFICATION Spec
CONSTANTS
  Thread = {t1, t2}
  Message = {m1, m2}
  Fn = {f, g}
  Node = {n1, n2, n3}
  Nil = Nil
  Worlds = {{"listen", "self"}}
SYMMETRY Symmetry
INVARIANTS ListenersCalled
