SPECIFICATION Spec
CONSTANTS
    va = va
    vb = vb
    vc = vc
    payer = payer
    Accounts <- MCAccounts
    Nodes <- MCNodes
    Signers <- MCNodes
    Miners <- MCNodes
    Faulty = {vb, vc}
    FaultyBodies <- MCSameBody
    Txs <- MCIndependentTxs
    InitBalance <- MCTrioBalance
    GasPrice <- MCNoMinimum
    TotalStake <- MCTotalStake
    Weight <- MCWeight
    BlockGas = 3
    MaxHeight = 1
    MaxBlocks = 1
INVARIANT
    ConfirmedKept
CHECK_DEADLOCK FALSE
