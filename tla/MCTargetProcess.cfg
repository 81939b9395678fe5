CONSTANTS
  Streams <- MCStreams
  Capacity = 1
  Dispositions = {"default", "ignore", "handle"}
  Forks = {TRUE, FALSE}
  MaxWrites = 3
  HandlerWrites = 2
SPECIFICATION Spec
INVARIANT VerdictExact
PROPERTY EndsUnlessFull
CHECK_DEADLOCK FALSE
