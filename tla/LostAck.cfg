SPECIFICATION Spec
CONSTANTS
    payer = payer
    payee = payee
    Accounts <- MCAccounts
    Txs <- MCTxs
    InitBalance <- MCBalance
    BlockGas = 1
    resultQueueSize = 1
    MaxHeight = 2
    MaxBlocks = 2
    MaxStarts = 1
PROPERTY
    AckReachesBlock
CHECK_DEADLOCK FALSE
