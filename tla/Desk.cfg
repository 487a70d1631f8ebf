CONSTANTS
    Ann = Ann
    Ben = Ben
    Cem = Cem
    Hut = Hut
    Users = {Ann, Ben}
    Requests = {r1, r2}
    Admins = {r1, r2}
    Ops = {"register", "extras", "lodging", "beds", "unregister", "cancel", "character", "approve", "checkOut", "checkIn", "conPayer", "override", "changeRole", "restart"}
    AskedRoles = {"sc"}
    Group <- AllMembers
    Children <- NoChildren
    Guardian <- NoGuardian
    Lodgings = {Hut}
    LodgingPrice <- HutPrice
    ExtraCapacity = 1
    MaxQuantity = 1
    Payers = {TRUE}
    Overrides <- SomeOverrides
    LimitRows <- OnePlace
    LockRows <- NoLock
    SettingsRows <- AutoPromote
    BedCounts = {1, 2}
    MaxClock = 2
    Unlimited = Unlimited
    NoLodging = NoLodging
    Nobody = Nobody
SPECIFICATION Spec
SYMMETRY Symmetric
PROPERTIES PaidBookingIsFixed
