SPECIFICATION ChainsSpec
CONSTANTS
  Name = {"a", "b"}
  MaxSize <- MCMaxSize
  NFat = 5
  Split = 4
  NotOpen = NotOpen
  Thread = {t1, t2}
  NBlocks = 2
  BlockSize = 6
  FetchOnce = 1
  MaxOff = 1
  MaxAllocs = 2
SYMMETRY Symmetry
INVARIANTS
  ChainsTypeOK
  VolumeSound
  SetThenGet
CHECK_DEADLOCK FALSE
