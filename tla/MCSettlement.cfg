CONSTANTS
    a = a
    b = b
    v = v
    t1 = t1
    t2 = t2
    c1 = c1
    Venue = v
    None = None
    Traders <- MCTraders
    Deployers <- MCTraders
    Tees <- MCTees
    ExtensionIds = {7}
    Ciphertexts <- MCCiphertexts
    Durations = {1}
    U64 = 3
    U32 = 3
    MaxBatch = 2
    MaxOrders = 1
    OpenBy = 1
    MaxTime = 2
    DepositAmounts = {1, 2}
    WithdrawAmounts = {1, 2}
    MaxHeld = 2
    Feeds <- MCFeeds
    Bands = {0, 5000}
    Funding <- MCFunding
    Payloads <- MCPayloads
SYMMETRY AlikeTraders
VIEW WithoutOrderData
SPECIFICATION Spec
INVARIANTS
    PassThroughIsEmpty
    SettledMeansAdvanced
    AppliesIffEveryoneCanPay
PROPERTIES
    BalanceFallsOnlyInMatch
