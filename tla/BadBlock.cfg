SPECIFICATION Spec
CONSTANTS
    va = va
    vb = vb
    vc = vc
    payer = payer
    Accounts <- MCAccounts
    Nodes <- MCNodes
    Signers <- MCNodes
    Miners <- MCNodes
    Faulty = {}
    FaultyBodies <- MCNoBodies
    Txs <- MCPairTxs
    InitBalance <- MCTrioBalance
    GasPrice <- MCNoMinimum
    TotalStake <- MCTotalStake
    Weight <- MCWeight
    BlockGas = 2
    MaxHeight = 1
    MaxBlocks = 1
PROPERTY
    BadBlockIsFaulty
CHECK_DEADLOCK FALSE
