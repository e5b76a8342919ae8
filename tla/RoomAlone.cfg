\* One client against the reset endpoint; docker and the database fail.
CONSTANTS
  s1 = s1  s2 = s2  a = a  b = b  u = u  v = v
  Sockets = {s1}
  Tabs = {a}
  Users = {u}
  TabOf <- OneTab
  UserOf <- Solo
  Objects = {o1, o2}
  NoObject = NoObject
  MaxCommands = 2
  MaxResets = 2
  MaxBoxes = 4
  Faults = TRUE
SPECIFICATION FairSpec
CHECK_DEADLOCK FALSE
INVARIANTS TypeOK UndisturbedGraphsAgree
PROPERTIES LeaversAreForgotten
