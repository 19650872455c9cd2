SPECIFICATION Spec
CONSTANTS
    Messages <- MCOverlongV
INVARIANT FieldFitsItsBuffer
