SPECIFICATION Spec
CONSTANTS
  Capacity = 3
  Retention = 2
  MaxPackets = 8
  MaxNow = 5
INVARIANT FindIndexIsExact
PROPERTY ImplementsBuffers
