CONSTANTS
    o1 = o1
    x1 = x1
    t1 = t1
    t2 = t2
    c1 = c1
    None = None
    Accounts <- MCAccounts
    Tees <- MCTees
    ExtensionIds <- MCExtensionIds
    Amounts <- MCAmounts
    Ciphertexts <- MCCiphertexts
    Durations <- MCDurations
    U64 = 2
    U32 = 1
    MaxBatch = 2
    MaxOrders = 3
    OpenBy = 1
    MaxTime = 2
SPECIFICATION LiveSpec
INVARIANTS
    OneEnclavePerBatch
    MatchRequestedOnce
    MatchHasOrders
    IInv
PROPERTIES
    NoOrderAfterMatch
    ImplementsLifecycle
    EveryBatchEnds
