SPECIFICATION Spec
CONSTANTS
    va = va
    vb = vb
    vc = vc
    payer = payer
    Accounts <- MCAccounts
    Nodes <- MCNodes
    Signers <- MCNodes
    Miners <- MCNodes
    Faulty = {vb, vc}
    FaultyBodies <- MCChainBodies
    Txs <- MCChainTxs
    InitBalance <- MCTrioBalance
    GasPrice <- MCNoMinimum
    TotalStake <- MCTotalStake
    Weight <- MCWeight
    BlockGas = 2
    MaxHeight = 1
    MaxBlocks = 1
INVARIANTS
    TypeOK
    CompactionBehind
    ExecutionBacked
    LedgerExact
PROPERTY
    Settles
CHECK_DEADLOCK FALSE
