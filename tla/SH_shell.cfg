SPECIFICATION LiveSpec
CONSTANTS
    Sessions = {1, 2}
    HasImage = TRUE
INVARIANTS
    NoToolboxForgotten
PROPERTIES
    EndsTogether
CHECK_DEADLOCK FALSE
