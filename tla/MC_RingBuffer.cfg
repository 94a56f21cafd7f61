SPECIFICATION Spec
CONSTANTS
  Data = {a, b}
  Size = 3
  MaxRequest = 3
INVARIANTS
  TypeOK
  WrapMeansFull
PROPERTIES
  ImplementsQueue
