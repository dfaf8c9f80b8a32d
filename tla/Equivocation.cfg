SPECIFICATION Spec
CONSTANTS
    va = va
    vb = vb
    vc = vc
    payer = payer
    Accounts <- MCAccounts
    Nodes <- MCNodes
    Signers <- MCNodes
    Miners <- MCNodes
    Faulty = {vc}
    FaultyBodies <- MCEquivBodies
    Txs <- MCEquivTxs
    InitBalance <- MCEquivBalance
    GasPrice <- MCNoMinimum
    TotalStake <- MCTotalStake
    Weight <- MCWeight
    BlockGas = 2
    MaxHeight = 1
    MaxBlocks = 1
INVARIANTS
    Agreement
    AckInv
CHECK_DEADLOCK FALSE
