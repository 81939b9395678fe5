CONSTANTS
  Inputs = {i1, i2, i3}
  Behaviours = {b1, b2}
  NoFile = NoFile
  NoTrace = NoTrace
SPECIFICATION Spec
INVARIANTS CorporaComplete PoisonedIsNormal SelectiveExact
PROPERTY Terminates
CHECK_DEADLOCK FALSE
