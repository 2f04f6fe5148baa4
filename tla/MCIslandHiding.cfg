SPECIFICATION HidingSpec
CONSTANTS
  Monitor = {m1, m2}
  Offset = {0, 1}
  NoPlace = NoPlace
  MaxActs = 3
INVARIANTS
  WayBackIsKept
PROPERTIES
  EndsWhereItBelongs
