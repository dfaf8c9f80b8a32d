SPECIFICATION Spec
CONSTANTS
    va = va
    vb = vb
    vc = vc
    payer = payer
    Accounts <- MCAccounts
    Nodes <- MCNodes
    Signers <- MCNodes
    Miners = {va}
    Faulty = {vc}
    FaultyBodies <- MCPricedBodies
    Txs <- MCPricedTxs
    InitBalance <- MCEquivBalance
    GasPrice <- MCMinimum
    TotalStake <- MCTotalStake
    Weight <- MCWeight
    BlockGas = 2
    MaxHeight = 1
    MaxBlocks = 2
PROPERTY
    Settles
CHECK_DEADLOCK FALSE
