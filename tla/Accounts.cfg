CONSTANTS
    Members = {p, q, r}
    Guests = {g}
    Newcomers = {n1, n2}
    Invitations = {i1}
    Codes = {c1}
    Handlers = {h1, h2}
    Scenarios = {{"rush", "login", "reset", "deactivate", "restart"}, {"rush", "login", "register"}, {"oauth", "convert", "reset", "brief"}, {"rush", "member", "email", "brief"}, {"member", "deactivate", "delete"}, {"rush", "convert", "person", "brief"}, {"group", "code", "person", "invite", "brief"}, {"mail", "invite", "code", "admin", "brief"}, {"rush", "code", "invite"}, {"rush", "merge", "place", "brief"}, {"merge", "invite", "code", "admin", "brief"}, {"group", "convert", "person", "admin", "brief"}, {"rush", "deactivate", "place", "brief"}, {"rush", "deactivate", "delete", "login", "code", "brief"}, {"rush", "deactivate", "delete", "invite", "person", "brief"}, {"rush", "deactivate", "delete", "login", "mail", "brief"}, {"convert", "person", "deactivate", "delete", "brief"}, {"rush", "merge", "files", "brief"}, {"rush", "oauth", "register", "brief"}, {"rush", "off", "login", "brief"}, {"off", "on", "brief"}, {"bulk", "code", "brief"}, {"rush", "import", "member", "brief"}}
    MaxRequests = 5
    MaxFaults = 1
SPECIFICATION Spec
SYMMETRY MemberSymmetry
INVARIANTS TypeOK OldPasswordIsOut GroupsAreFlat MergeLosesNothing
CHECK_DEADLOCK FALSE
