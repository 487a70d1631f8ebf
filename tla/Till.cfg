CONSTANTS
    Accounts = {t1, t2}
    People = {Ann}
    Handlers = {h1, h2}
    Keys = {k1, k2}
    Sessions = {s1}
    Amounts = {1}
    Prices = {1, Inactive}
    MaxAttempts = 2
    TavernOps = {"press", "stripe", "void", "open", "lock", "menu", "restart"}
    Inactive = Inactive
    Everything = Everything
    NoOwner = NoOwner
    Unasked = Unasked
SPECIFICATION Spec
SYMMETRY Symmetric
INVARIANTS BalanceIsLedger
