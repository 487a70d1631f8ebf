CONSTANTS
    Ann = Ann
    Ben = Ben
    Cem = Cem
    Hut = Hut
    Users = {Ann, Ben, Cem}
    Requests = {r1, r2}
    Admins = {r1, r2}
    Ops = {"register", "unregister", "cancel", "lodging", "approve", "lock", "restart"}
    AskedRoles = {"sc", "ticket"}
    Group <- AllMembers
    Children <- NoChildren
    Guardian <- NoGuardian
    Lodgings = {Hut}
    LodgingPrice <- NoPrices
    ExtraCapacity = Unlimited
    MaxQuantity = 0
    Payers = {FALSE}
    Overrides <- NoOverrides
    LimitRows <- OneSc
    LockRows <- ScLock
    SettingsRows <- AutoPromote
    BedCounts = {1}
    MaxClock = 3
    Unlimited = Unlimited
    NoLodging = NoLodging
    Nobody = Nobody
SPECIFICATION Spec
SYMMETRY Symmetric
INVARIANTS WithinLimits BedsSuffice
