SPECIFICATION Spec
CONSTANTS
    Elements <- MCElements
    MaxLength = 5
INVARIANT UnusualChangeIsWarned
CHECK_DEADLOCK FALSE
