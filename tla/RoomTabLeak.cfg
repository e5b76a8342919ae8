\* A command typed offline in one room is executed in the next.
CONSTANTS
  Rooms = {r1, r2}
  Names = {n1}
  Sockets = {w1, w2}
  NoSocket = NoSocket
  MaxTyped = 2
  MaxChanges = 2
SPECIFICATION FairSpec
CHECK_DEADLOCK FALSE
INVARIANTS CommandsStayInRoom
