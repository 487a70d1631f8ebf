CONSTANTS
    Ann = Ann
    Ben = Ben
    Cem = Cem
    Hut = Hut
    Users = {Ann, Ben, Cem}
    Requests = {r1, r2}
    Admins = {r1}
    Ops = {"register", "cancel", "override", "limits", "settings"}
    AskedRoles = {"sc"}
    Group <- AllMembers
    Children <- AnnsChild
    Guardian <- AnnIsGuardian
    Lodgings = {}
    LodgingPrice <- NoPrices
    ExtraCapacity = Unlimited
    MaxQuantity = 0
    Payers = {FALSE}
    Overrides <- BackToTheQueue
    LimitRows <- ScGrows
    LockRows <- NoLock
    SettingsRows <- ChildrenCountOrNot
    BedCounts = {1}
    MaxClock = 4
    Unlimited = Unlimited
    NoLodging = NoLodging
    Nobody = Nobody
SPECIFICATION FairSpec
INVARIANTS NobodyStranded
PROPERTIES FairQueue PlacesAreOffered
