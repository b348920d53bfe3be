CONSTANTS
    m1 = m1
    m2 = m2
    none = none
    NoMachine = none
    Machines <- MCMachines
    MaxId = 4
    Commands <- MCCommands
    MaxFaults = 2
SPECIFICATION LiveSpec
INVARIANTS
    StateFileIsTrue
    CleanSuccessMeansProduction
PROPERTIES
    FreshStartsSucceed
