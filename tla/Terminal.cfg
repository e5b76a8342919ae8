\* Lines of three characters, a history of two, one reset between events.
CONSTANTS
  Letters = {x}
  Blank = Blank
  HistoryLimit = 2
  MaxLine = 3
  MaxSent = 3
  MaxEvents = 2
  MaxResets = 1
SPECIFICATION Spec
INVARIANTS TypeOK LineAsShown HistoryIsRecent EventsInOrder
