\* Two calls at once over two rooms, room for one sandbox, every failure.
CONSTANTS
  Rooms = {r1, r2}
  Tasks = {t1, t2}
  MaxRooms = 1
  MaxIds = 3
  NoTask = NoTask
  NoRoom = NoRoom
SPECIFICATION FairSpec
INVARIANTS TypeOK WithinLimit DoomedIsNobodys NameIsCurrent
PROPERTIES ImplementsPool CallsReturn
