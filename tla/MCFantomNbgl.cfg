SPECIFICATION FairSpec
CONSTANTS
    Build = "NBGL"
    Paths <- MCPaths
    Txs <- MCTxs
INVARIANT SignatureReviewed
INVARIANT KeyExportConfirmed
INVARIANT AddressApproved
INVARIANT UserTurnIsAnswerable
INVARIANT DisplayedIsCurrent
INVARIANT OtherErrorEndsInstruction
INVARIANT ResetIsExplained
PROPERTY UserAnswersOpenRequest
PROPERTY RequestsAreAnswered
PROPERTY StatusPageEnds
