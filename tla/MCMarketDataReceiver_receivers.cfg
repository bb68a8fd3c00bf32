\* Packets that are lost, repeated and reordered.
CONSTANTS
  Values <- ThreeValues
SPECIFICATION FairSpec
INVARIANTS
  DisplaysWereSent
PROPERTIES
  DisplaySettles
