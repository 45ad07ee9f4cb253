SPECIFICATION Spec
CONSTANTS
  Keys <- MCKeys
  Capacity = 4
INVARIANTS TypeOK LruIsRecency BytesAccounted CapacityRespected
PROPERTIES EvictsLeastRecent EvictsNoMoreThanNeeded
