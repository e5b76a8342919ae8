\* Events after a reset are not printed.
CONSTANTS
  Letters = {x}
  Blank = Blank
  HistoryLimit = 2
  MaxLine = 3
  MaxSent = 3
  MaxEvents = 3
  MaxResets = 1
SPECIFICATION Spec
INVARIANTS EventsAreShown
