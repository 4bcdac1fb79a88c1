SPECIFICATION FairSpec
CONSTANTS
  s1 = s1
  s2 = s2
  e1 = e1
  e2 = e2
  Sources = {s1, s2}
  Editors = {e1, e2}
  Slots = 1
  MaxEdits = 3
  Casts <- MCCasts
CHECK_DEADLOCK FALSE
INVARIANTS
  SavedIsTried
  JobsOwned
  NoGhostState
  RoutesCurrent
PROPERTIES
  FetchedForThisRow
  JobEnds
