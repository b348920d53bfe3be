CONSTANTS
    PriceScale = 2
    Prices = {1, 2, 4}
    OrderSizes = {1, 3}
    MaxOrders = 4
    AnyPrice = {0, 1, 2, 3, 4, 5}
SPECIFICATION Spec
INVARIANTS
    VolumeIsMaximal
    PriceFollowsTheRules
    LegsBalance
    PricePriority
    RationedInProportion
    QuoteWithinOneUnit
    ArrivalWorthAtMostOneUnit
CHECK_DEADLOCK FALSE
