\* Two clients: commands, resets and departures in every order, no failures.
CONSTANTS
  s1 = s1  s2 = s2  a = a  b = b  u = u  v = v
  Sockets = {s1, s2}
  Tabs = {a, b}
  Users = {u, v}
  TabOf <- TwoTabs
  UserOf <- TwoUsers
  Objects = {o1, o2}
  NoObject = NoObject
  MaxCommands = 3
  MaxResets = 2
  MaxBoxes = 2
  Faults = FALSE
SPECIFICATION Spec
CHECK_DEADLOCK FALSE
CONSTRAINT Few
SYMMETRY SameClients
INVARIANTS UndisturbedGraphsAgree NobodyLeftBlank AppliedIsAudited NoGhosts
