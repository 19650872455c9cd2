SPECIFICATION FairSpec
CONSTANTS
    Build = "BAGL"
    Paths <- MCPaths
    Txs <- MCTxs
INVARIANT TypeOK
INVARIANT SignatureReviewed
INVARIANT SignatureCoversReviewedTx
INVARIANT KeyExportApproved
INVARIANT AddressApproved
INVARIANT UserTurnIsAnswerable
INVARIANT DisplayedIsCurrent
INVARIANT ErrorEndsInstruction
INVARIANT ScreenTellsInstruction
INVARIANT ResetIsExplained
PROPERTY UserAnswersOpenRequest
PROPERTY KeepsPromise
PROPERTY RequestsAreAnswered
