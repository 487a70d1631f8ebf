SPECIFICATION Spec
CONSTANTS
    People = {ada, ben}
    Categories = {"health", "contact"}
    Automatic = {"health"}
    After <- MCAfter
    MaxDay = 1
    Handlers = {1, 2}
    Scenarios <- MCScenarios
    MaxRequests = 4
    MaxFaults = 1
INVARIANTS
    TypeOK
    SlotRunsOnce
    SettingsAreKept
    ForgottenIsGone
CHECK_DEADLOCK FALSE
SYMMETRY PersonSymmetry
