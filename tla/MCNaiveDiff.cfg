CONSTANTS
  i1 = i1
  i2 = i2
  i3 = i3
  Inputs = {i1, i2, i3}
  Behaviours <- MCBehaviours
  Jobs = 2
  NoTrace = NoTrace
SPECIFICATION Spec
INVARIANTS GroupsExact
SYMMETRY Symmetry
CHECK_DEADLOCK FALSE
