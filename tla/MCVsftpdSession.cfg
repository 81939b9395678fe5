CONSTANTS
  MaxLoginFails = 3
SPECIFICATION Spec
INVARIANTS TypeOK NoOops InStep OneReader GrantedServed
PROPERTIES Answered TermEnds ImplementsSession
CHECK_DEADLOCK FALSE
