CONSTANTS
    Snapshots = {s1, s2}
    Entries = {e1, e2}
    Mails = {m1}
    Handlers = {h1, h2}
    Scenarios = {{"push", "again", "lost"}, {"push", "checkin"}, {"push", "checkin", "cancel", "brief"}, {"push", "skew"}, {"push", "late", "checkin", "cancel", "rush", "brief"}, {"file", "late"}, {"file", "slip"}, {"file", "restart"}, {"push", "force", "again", "brief"}, {"file", "mail", "gone", "force", "brief"}, {"push", "mail", "lost", "brief"}, {"push", "mail", "restart", "brief"}, {"file", "skew", "brief"}}
    MaxReturns = 2
    MaxFaults = 1
SPECIFICATION FairSpec
INVARIANTS ReturnedComesHome
PROPERTIES OneWriter ImplementsHandover FinalReturnEnds
CHECK_DEADLOCK FALSE
