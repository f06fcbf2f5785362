CONSTANTS
    g = g
    a1 = a1
    a2 = a2
    b1 = b1
    m1 = m1
    cg = cg
    c1 = c1
    c2 = c2
    t1 = t1
    alice = alice
    p1 = p1
    p2 = p2
    NoThread = NoThread
    NoBlock = NoBlock
    NoTx = NoTx
    NoBest = NoBest
    NoAttr = NoAttr
    NoTxAttr = NoTxAttr
    NoCoin = NoCoin
    Block <- MCBlock
    Tx <- MCTx
    Address = {alice}
    BlockData <- MCBlockData
    TxData <- MCTxData
    MaxMoney = 30
    Submitted = {t1}
    Fees = {1}
    MaxBucket = 1
    MaxFileSize = 20
    MaxCacheFile = 2
    Dir = "data/block"
    Ext = "blk"
    ConfGenesis = g
    Limit = 1
    PowSpan = 2016
    Halving = 100
    InitReward = 4
    Maturity = 1
    CacheCap = 1
    MaxHeight = 2
    MaxFile = 0
    Chosen = {}
    Aborting = {}
    Thread = {p1, p2}
    Asked = {c1, t1}
    Minted = {m1}
    Panicking = {b1}
    MaxCalls = 7
SPECIFICATION ChainSpec
INVARIANTS
    ChainTypeOK
    GetTxLinearizable
    ReportsAddUp
PROPERTIES
    CallsReturn
CHECK_DEADLOCK FALSE
