CONSTANTS
    Characters = {c1, c2}
    Given = {c1}
    Events = {e1, e2}
    FileIds = {f1, f2}
    Quota = 1
    Handlers = {h1, h2}
    Scenarios = {{"sheet"}, {"sheet", "rush", "restart", "brief"}, {"sheet", "delete", "rush", "brief"}, {"sheet", "create", "brief"}, {"account", "rush", "brief"}, {"place", "rush", "brief"}, {"place", "delete", "linked", "rush", "brief"}, {"file", "rush"}, {"file", "migrate", "legacy", "rush", "fail", "restart"}, {"file", "migrate", "delete", "rush"}, {"talk", "linked", "rush", "brief"}, {"talk", "linked", "place", "delete", "brief"}}
    Edits = {{"name", "own"}, {"group"}, {"secret", "own"}}
    MaxRequests = 5
    MaxBrief = 3
    MaxFaults = 1
SYMMETRY EventSymmetry
SPECIFICATION Spec
INVARIANTS OwnerHasTheSay SecretIsStaffs LinksAreSound FilesAreSound ReadMeansShown
CHECK_DEADLOCK FALSE
