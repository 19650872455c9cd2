SPECIFICATION FairSpec
CONSTANTS
    Messages <- MCMessages
INVARIANT StreamTypeOK
INVARIANT HashedOnceInOrder
INVARIANT AllIsHashed
INVARIANT FieldsAreThoseHashed
INVARIANT VerdictIsOfTheBytes
PROPERTY BlockIsAnswered
