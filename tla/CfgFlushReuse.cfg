SPECIFICATION Spec
CONSTANTS
  Block = {b1, b2}
  Content = {c1, c2}
  Info = Info
  Data = Data
  Blank = Blank
  Junk = Junk
  NoBkw = NoBkw
  HeapReuse = TRUE
INVARIANT FlushAllDurable
