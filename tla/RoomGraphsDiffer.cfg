\* Two commands at once: the older graph arrives last.
CONSTANTS
  s1 = s1  s2 = s2  a = a  b = b  u = u  v = v
  Sockets = {s1, s2}
  Tabs = {a, b}
  Users = {u, v}
  TabOf <- TwoTabs
  UserOf <- TwoUsers
  Objects = {o1, o2}
  NoObject = NoObject
  MaxCommands = 2
  MaxResets = 0
  MaxBoxes = 1
  Faults = FALSE
SPECIFICATION FairSpec
CHECK_DEADLOCK FALSE
INVARIANTS GraphsAgree
