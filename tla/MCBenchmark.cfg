CONSTANTS
  Runs = 2
  MaxEpochs = 3
SPECIFICATION Spec
INVARIANTS OwnOutputs ContaminationShows ScratchDrained
PROPERTY LeftoverBlocks
