SPECIFICATION Spec
CONSTANTS
    People = {"ada", "ben"}
    FromPdf = {"ada"}
    Flags = {"VP", "Medic"}
    Tables <- MCTables
    Window = 1
    ReminderDays <- MCReminderDays
    MaxDay = 3
    Handlers = {1}
    Scenarios <- MCOneByOne
    MaxRequests = 1
    MaxJobs = 2
    MaxFaults = 1
INVARIANT RenamedRoleKeepsItsRegistrations
CHECK_DEADLOCK FALSE
