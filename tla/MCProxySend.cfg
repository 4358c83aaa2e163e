SPECIFICATION Spec
CONSTANTS
  MaxSerial = 4
  StoreSize = 2
INVARIANTS TypeOK InOrder EveryOutputKept StoredInOrder
PROPERTIES ImplementsInOrderDelivery Delivered StopsUnlessMissed
CHECK_DEADLOCK FALSE
