\* Two rooms, two names, sockets that break, tokens that come late or expire.
CONSTANTS
  Rooms = {r1, r2}
  Names = {n1, n2}
  Sockets = {w1, w2, w3}
  NoSocket = NoSocket
  MaxTyped = 2
  MaxChanges = 2
SPECIFICATION FairSpec
CHECK_DEADLOCK FALSE
INVARIANTS TypeOK OneConnection StoreIsOfRoom AtMostOnce OnlineIsTrue
PROPERTIES QueueIsSent
