\* Three clients of a room, two broadcasts at once, every await ends.
CONSTANTS
  Rooms = {r1}
  Sockets = {s1, s2, s3}
  Casters = {c1, c2}
  Objects = {o1, o2, o3}
  NoObject = NoObject
SPECIFICATION FairSpec
INVARIANTS ConnectedIsReached NoStrays
PROPERTIES EmptyRoomsGo
