CONSTANTS
  Modulus = 4
  MaxUniverse = 3
SPECIFICATION Spec
INVARIANTS Mirrored
PROPERTY ImplementsSet
