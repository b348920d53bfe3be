CONSTANTS
    a = a
    b = b
    v = v
    t1 = t1
    t2 = t2
    Venue = v
    None = None
    Traders <- MCTraders
    Deployers = {a}
    Tees = {t1}
    ExtensionIds = {7}
    Ciphertexts <- MCCiphertexts
    Durations = {0}
    U64 = 3
    U32 = 3
    MaxBatch = 2
    MaxOrders = 3
    OpenBy = 0
    MaxTime = 0
    DepositAmounts = {}
    WithdrawAmounts = {2}
    MaxHeld = 4
    Feeds <- MCFeeds
    Bands = {10000}
    Funding <- MCFunding
    Payloads = {}
    PriceScale = 2
SPECIFICATION VenueSpec
INVARIANTS
    OneResultPerBatch
    PayableUnlessWithdrawn
PROPERTIES
    ChargedOnlyAsOffered
    TradedWithinLimit
VIEW WithoutIds
CONSTRAINT InScope
CHECK_DEADLOCK FALSE
