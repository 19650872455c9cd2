SPECIFICATION Spec
CONSTANTS
    Build = "NBGL"
    Paths <- MCPaths
    Txs <- MCTxs
INVARIANT KeyExportApproved
