CONSTANTS MaxMaps = 2
          MaxRows = 2
SPECIFICATION Spec
INVARIANTS TypeOK SlotRests
PROPERTIES ReadsOwn WritesOwn
