SPECIFICATION Spec
CONSTANTS
  NBlocks = 2
  BlockSize = 4
  Thread = {t1}
  Layouts <- MCSpanning
  FetchOnce = 4
  MaxOff = 2
  MaxAllocs = 4
INVARIANT SetThenGet
