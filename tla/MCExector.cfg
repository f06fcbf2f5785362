CONSTANTS
    k1 = k1
    k2 = k2
    k3 = k3
    k4 = k4
    m1 = m1
    m2 = m2
    m3 = m3
    NoKey = NoKey
    NoSig = NoSig
    NoAccount = NoAccount
    Overlong = Overlong
    NoMsg = NoMsg
    Key = {k1, k2, k3, k4}
    Msg = {m1, m2, m3}
    MaxKeys = 3
    Data <- MCData
    AccountOf <- MCAccountOf
    HashOf <- MCHashOf
    MsgOf <- MCMsgOf
    Inputs <- MCInputs
    Owners = {"none", "arb3"}
    MaxOps = 12
    Lengths = {1, 2, 3}
SPECIFICATION Spec
INVARIANTS
    TypeOK
    SpendAuthorised
    OwnerSpends
PROPERTIES
    Ends
CHECK_DEADLOCK FALSE
