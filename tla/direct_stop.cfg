SPECIFICATION Spec
CONSTANTS
    MaxThreads = 2
    MaxGens = 2
    MaxCommands = 2
CHECK_DEADLOCK FALSE
INVARIANT IdleMeansDown
