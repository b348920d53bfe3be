CONSTANTS
    h1 = h1
    h2 = h2
    s1 = s1
    None = None
    Holders <- MCHolders
    TokenAmounts = {1, 2}
    MaxHeld = 3
    Callers <- MCHolders
    Owner = h1
    FeeNumerator = 3
    FeeDenominator = 4
    SwapAmounts = {1, 2, 4}
    MaxPool = 7
SPECIFICATION CustodySpec
INVARIANTS
    Solvent
    ReservesAreHeld
PROPERTIES
    OwedFollowsHeld
    ProductNeverFalls
