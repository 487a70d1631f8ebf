-------------------------------- MODULE MCEvents --------------------------------
(* Instance of Events.tla for TLC; see Events.cfg. *)
EXTENDS Events

MCTier(until, price, conPayer) == [until |-> until, price |-> price, conPayer |-> conPayer]
MCTables ==
    {{MCTier(0, 1, FALSE)},
     {MCTier(2, 1, FALSE), MCTier(Never, 3, TRUE)},
     {MCTier(0, 1, FALSE), MCTier(3, 2, FALSE)}}
MCReminderDays == <<0, 1>>
MCScenarios ==
    {{"settings", "restart"}, {"settings", "register"}, {"settings", "edit", "extras"},
     {"delete", "register", "edit"}, {"register", "prices", "pay", "extras"},
     {"prices", "pay", "extras"}, {"prices", "unpaid", "edit", "fail"},
     {"prices", "unpaid", "restart"}, {"prices", "pricing"}, {"register", "prices", "pricing"}}
\* One administrator saving one event.
MCOneByOne == {{"settings"}}
=================================================================================
