CONSTANTS
    s1 = s1
    s2 = s2
    Sub = {s1, s2}
    Channel <- MCChannel
    Threads = 2
    Slot = {1, 2}
    MaxMsg = 2
    Panicky = {s2}
SPECIFICATION FairSpec
INVARIANTS
    PubSubTypeOK
    OneJob
    InOrder
PROPERTIES
    QuietAfterCancel
    JobsEnd
    Woken
CHECK_DEADLOCK FALSE
