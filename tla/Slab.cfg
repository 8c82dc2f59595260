SPECIFICATION Spec
CONSTANTS
  Block = {b1, b2, b3, b4, b5}
  Count = 2
  Batch = 2
  Limit = 3
SYMMETRY Blocks
INVARIANTS
  SlabsSound
PROPERTIES
  ImplementsObjectPool
