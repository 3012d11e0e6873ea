SPECIFICATION Spec
CONSTANTS
    MaxBoxes = 2
    MaxTailers = 2
    MaxLines = 3
INVARIANTS
    RunningIsTailed
CHECK_DEADLOCK FALSE
