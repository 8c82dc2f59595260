SPECIFICATION MemorySpec
CONSTANTS
  User = {u, v}
  Kernel = {k}
  Mem = {l, m, n}
  NoMem = NoMem
  Frame = {f1, f2, f3}
  NoFrame = NoFrame
  Pages = 3
  TableSize = 2
  Image <- Programs
  LeakLimit = 1
INVARIANTS
  
  FramesAccounted
  
SYMMETRY Alike
