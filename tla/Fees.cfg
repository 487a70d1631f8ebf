CONSTANTS
    Persons = {Ann, Bob}
    Guests = {Bob}
    a1 = a1
    a2 = a2
    Attempts = {a1, a2}
    Handlers = {h1, h2}
    Provider <- StripeAndPaypal
    ListPrices = {2}
    Amounts = {4}
    Bookings = {1}
    Scenarios = {{"stripe", "restart"}, {"paypal", "restart"}, {"stripe", "paypal"}, {"paypal", "edit", "brief"}, {"stripe", "edit", "brief"}, {"stripe", "hand"}, {"stripe", "hand", "refund"}, {"hand", "bank", "edit"}, {"hand", "bank", "notice"}, {"bank", "notice", "restart"}}
    MaxClicks = 2
    MaxFaults = 1
SPECIFICATION FairSpec
INVARIANTS BookedOnce AnsweredIsAccounted BookedRefundIsReal
PROPERTIES BookingsAreJustified MoneyIsAccounted
CHECK_DEADLOCK FALSE
