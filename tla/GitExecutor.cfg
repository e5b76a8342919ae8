\* Three branches, one of them with a slash, and three commits at a time.
CONSTANTS
  None = None
  Main = main
  Branches = {main, topic, fix}
  Trunk = {main}
  Slashed = {fix}
  Tags = {v1}
  Texts = {"", "plain"}
  MaxCommits = 3
  MaxRefs = 2
SPECIFICATION Spec
INVARIANTS LogRoundTrip ScreenIsCurrent InheritsBranch LanesApart
