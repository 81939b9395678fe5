SPECIFICATION Spec
CONSTANT MaxLines = 2
INVARIANTS NoBug CutNotComplete OneReply
PROPERTIES StalledReleased AborAnswered IdleKicked
CHECK_DEADLOCK FALSE
