CONSTANTS
    Mails = {m1}
    Rows = {r1, r2, r3}
    Events = {e1}
    Imports = {i1}
    Names = {a, b}
    Handlers = {h1, h2}
    Scenarios = {
        {"ask", "withdraw", "invalid", "rush", "restart"},
        {"ask", "remindUnpaid", "withdraw", "rush", "restart", "fail"},
        {"import", "withdraw", "invalid", "rush", "restart", "fail"},
        {"ask", "import", "withdraw", "invalid", "rush", "brief"},
        {"ask", "soon", "locked", "invalid", "rush", "restart", "fail"},
        {"ask", "import", "soon", "invalid", "rush", "brief"},
        {"ask", "soon", "convert", "locked", "invalid", "rush"},
        {"form", "rush"}}
    MaxRequests = 4
    MaxBrief = 3
    MaxFaults = 1
SYMMETRY NameSymmetry
SPECIFICATION Spec
INVARIANTS NobodyIsUndone NothingIsLeftBehind FormsAreSound RemindedOnce LinkWorks
CHECK_DEADLOCK FALSE
