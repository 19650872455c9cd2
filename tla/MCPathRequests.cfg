SPECIFICATION Spec
CONSTANTS
    Elements <- MCElements
    MaxLength = 6
INVARIANT SilentIsStandard
INVARIANT PoliciesAgree
PROPERTY ScrutinyGrows
CHECK_DEADLOCK FALSE
