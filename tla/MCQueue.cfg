CONSTANTS
  Items <- const_Items
  QUEUE_SIZE = 4
SPECIFICATION Spec
INVARIANTS
  RingConsistent
PROPERTY
  ImplementsFifo
