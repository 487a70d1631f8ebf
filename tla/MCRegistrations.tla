--------------------------- MODULE MCRegistrations ---------------------------
(* Small instances of Registrations for TLC. *)
EXTENDS Registrations, TLC

CONSTANTS Ann, Ben, Cem, Hut

Symmetric == Permutations(Users) \cup Permutations(Requests)

\* People without children or managed persons, all of one account role.
NoChildren == {}
NoGuardian == [c \in {} |-> c]
AllMembers == [u \in Users |-> "member"]
\* Ben is Ann's child.
AnnsChild == {Ben}
AnnIsGuardian == (Ben :> Ann)

NoPrices == [l \in Lodgings |-> 0]
HutPrice == [l \in Lodgings |-> 5]

Caps(total, sc, nsc) ==
    ("total" :> total) @@ ("sc" :> sc) @@ ("nsc" :> nsc)
OneSc == {Caps(2, 1, Unlimited)}
OnePlace == {Caps(1, Unlimited, Unlimited)}
OneOrTwoPlaces == {Caps(1, Unlimited, Unlimited), Caps(2, Unlimited, Unlimited)}
ScGrows == {Caps(2, 1, Unlimited), Caps(2, 2, Unlimited)}
Unbounded == {Caps(Unlimited, Unlimited, Unlimited)}

NoLock == {[roles |-> {}, groups |-> {}, mode |-> "block"]}
ScLock == NoLock \cup {[roles |-> {"sc"}, groups |-> {}, mode |-> "waitlist"]}

DefaultRoles == {"sc", "nsc", "ticket"}
AutoPromote == {[autoPromote |-> TRUE, countedRoles |-> DefaultRoles, childrenExempt |-> TRUE]}
ChildrenCountOrNot ==
    AutoPromote \cup
    {[autoPromote |-> TRUE, countedRoles |-> DefaultRoles, childrenExempt |-> FALSE]}
NoOverrides == {}
BackToTheQueue == {<<"pending", "waitlisted">>}
SomeOverrides == {<<"checked_in", "checked_out">>, <<"checked_out", "checked_in">>,
                  <<"checked_out", "confirmed">>, <<"cancelled", "checked_out">>,
                  <<"pending", "waitlisted">>}
=============================================================================
