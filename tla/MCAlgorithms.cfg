CONSTANTS
    Byte = 4
    HashSize = 8
    PowLimit = 1023
    Span = 8
    TimeRange = 64
    MaxScriptOps = 4
    MaxCbSize = 7
    MaxInSize = 12
    MaxOutSize = 11
    DbKey = {1, 2, 3}
    DbValue = {1, 2}
    Absent = 0
    Key = {k1, k2, k3}
    Msg = {m, x}
    NoKey = NoKey
    NoSig = NoSig
    MaxKeys = 16
    k1 = k1
    k2 = k2
    k3 = k3
    m = m
    x = x
    Known = {"a", "b"}
    NoAddr = "noaddr"
    MaxAmount = 7
    MaxBlockSize = 8
    BareSize = 2
    OutSize = 1
    MaxLeaves = 6
    MaxDigits = 6
    MaxScript = 7
    MaxCoins = 3
    MaxOuts = 3
    MaxTxs = 4
    Reward0 = 5
SPECIFICATION MCSpec
INVARIANTS
    MerkleBinds
    CompactRounds
    BitsAccepted
    FramingAgrees
    UndoRestores
    WireKeepsVerdict
    SigningCommutes
    SignatureCommits
    BuiltWithinLimits
CHECK_DEADLOCK FALSE
