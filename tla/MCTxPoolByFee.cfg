CONSTANTS
    src = src
    cb = cb
    u = u
    v = v
    w = w
    alice = alice
    NoBlock = NoBlock
    NoTx = NoTx
    Block = {}
    Tx = {src, cb, u, v, w}
    Address = {alice}
    BlockData = {}
    TxData <- MCTxData
    MaxMoney = 20
    InitReward = 4
    Halving = 2
    Maturity = 2
    Submitted = {cb, u, v, w}
    Fees = {0, 1, 2}
    MaxBucket = 3
SPECIFICATION PoolSpec
INVARIANTS
    ByFeeMatchesById
CHECK_DEADLOCK FALSE
