CONSTANTS
    g = g
    a1 = a1
    a2 = a2
    a3 = a3
    b1 = b1
    b2 = b2
    twice = twice
    greedy = greedy
    young = young
    again = again
    thief = thief
    inner = inner
    same = same
    lone = lone
    cg = cg
    c1 = c1
    c2 = c2
    c2f = c2f
    c3 = c3
    t1 = t1
    t2 = t2
    t3 = t3
    t4 = t4
    t5 = t5
    alice = alice
    bob = bob
    NoBlock = NoBlock
    NoTx = NoTx
    NoBest = NoBest
    NoAttr = NoAttr
    NoTxAttr = NoTxAttr
    NoCoin = NoCoin
    Block <- MCBlock
    Tx <- MCTx
    Address = {alice, bob}
    BlockData <- MCBlockData
    TxData <- MCTxData
    MaxMoney = 30
    Submitted = {}
    Fees = {0, 1, 2}
    MaxBucket = 1
    MaxFileSize = 3
    MaxCacheFile = 2
    Dir = "data/block"
    Ext = "blk"
    ConfGenesis = g
    Limit = 1
    PowSpan = 3
    Halving = 2
    InitReward = 4
    Maturity = 2
    CacheCap = 1
    MaxHeight = 3
    MaxFile = 1
    Chosen = {lone}
    Aborting = {}
SPECIFICATION Spec
INVARIANTS
    NextAnswers
CHECK_DEADLOCK FALSE
