SPECIFICATION Spec
CONSTANTS
    People = {"ada", "ben"}
    FromPdf = {"ada"}
    Flags = {"VP", "Medic", "Orga"}
    Tables <- MCTables
    Window = 1
    ReminderDays <- MCReminderDays
    MaxDay = 3
    Handlers = {1, 2}
    Scenarios <- MCScenarios
    MaxRequests = 2
    MaxJobs = 2
    MaxFaults = 1
INVARIANTS
    SettingsFit
    RenamesReachEverybody
    OnlyEmptyIsDeleted
    PricesAreKept
    MailsAreCounted
    RemindersAreCounted
CHECK_DEADLOCK FALSE
