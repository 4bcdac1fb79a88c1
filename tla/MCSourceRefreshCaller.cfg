SPECIFICATION Spec
CONSTANTS
  s1 = s1
  s2 = s2
  e1 = e1
  e2 = e2
  Sources = {s1}
  Editors = {e1}
  Slots = 1
  MaxEdits = 2
  Casts <- MCOneEditor
CHECK_DEADLOCK FALSE
INVARIANTS
  OutlivesCaller
