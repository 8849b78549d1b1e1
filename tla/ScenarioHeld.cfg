SPECIFICATION Spec
CONSTANTS
    Scenarios <- HeldAndNot
    Micro = 3
INVARIANT HeldIsOvertaken
CHECK_DEADLOCK FALSE
