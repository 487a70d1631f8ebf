---------------------------- MODULE Registrations ----------------------------
(***************************************************************************)
(* The registrations of one event: places and their limits, the waitlist,  *)
(* the registration lock, extras, beds, the status machine and the desk.   *)
(* Translated from backend/registrations/{capacity,lock,statusMachine,     *)
(* children,repository}.js and from the handlers that change an event's    *)
(* limits, lock, lodgings or the settings and then promote waiting people. *)
(*                                                                         *)
(* One action is one SQL statement or one database transaction; a request  *)
(* keeps in req what it has read, so anything may happen between two of    *)
(* its statements.  eventLock is the SELECT ... FOR UPDATE on the events   *)
(* row.  Statements that read only what nobody changes in the model        *)
(* (waiver, price groups, questionnaires) are not steps.                   *)
(***************************************************************************)
EXTENDS Integers, FiniteSets, FiniteSetsExt

CONSTANTS
    Users,           \* people who may be registered
    Requests,        \* request handlers that may run at the same time
    Admins,          \* the requests among them in which an admin works
    Ops,             \* the operations the environment may start
    AskedRoles,      \* con roles people ask for
    Group,           \* user -> account role (users.group_id)
    Children,        \* users marked as a child while the add-on is on
    Guardian,        \* child -> the user who manages it
    Lodgings,        \* the event's lodgings
    LodgingPrice,    \* lodging -> price_cents
    ExtraCapacity,   \* capacity of the one bookable extra, or Unlimited
    MaxQuantity,     \* MAX_EXTRA_QUANTITY
    Payers,          \* whether the price tiers in use make Con-Zahler
    Overrides,       \* <<shown, new>> status pairs staff may set by hand
    LimitRows,       \* limits an admin may save
    LockRows,        \* registration locks an admin may save
    SettingsRows,    \* app_settings an admin may save
    BedCounts,       \* places an admin may give a lodging
    MaxClock,        \* bound on the timestamps handed out
    Unlimited,       \* SQL NULL in a limit
    NoLodging,       \* SQL NULL in registrations.lodging_id
    Nobody           \* no request holds the event row

ConRoles == {"sc", "nsc", "ticket", "helfer", "hilfs_orga", "orga"}
Statuses == {"pending", "confirmed", "checked_in", "checked_out", "cancelled",
             "waitlisted"}
CountedStatuses == {"pending", "confirmed", "checked_in", "checked_out"}
LimitKinds == {"total", "sc", "nsc"}
Limit == Nat \cup {Unlimited}

LimitRow == [LimitKinds -> Limit]
LockRow == [roles : SUBSET ConRoles, groups : SUBSET {Group[u] : u \in Users},
            mode : {"block", "waitlist"}]
SettingsRow == [autoPromote : BOOLEAN, countedRoles : SUBSET ConRoles,
                childrenExempt : BOOLEAN]

ASSUME FiniteAssumption == /\ IsFiniteSet(Users)
                           /\ IsFiniteSet(Requests)
                           /\ Admins \subseteq Requests
ASSUME NullAssumption == /\ Unlimited \notin Nat
                         /\ NoLodging \notin Lodgings
                         /\ Nobody \notin Requests
ASSUME PeopleAssumption == /\ Children \subseteq Users
                           /\ Guardian \in [Children -> Users]
                           /\ AskedRoles \subseteq ConRoles
ASSUME RowsAssumption == /\ Payers \subseteq BOOLEAN
                         /\ Overrides \subseteq Statuses \X Statuses
                         /\ LimitRows \subseteq LimitRow
                         /\ LockRows \subseteq LockRow
                         /\ SettingsRows \subseteq SettingsRow
                         /\ BedCounts \subseteq Limit
ASSUME NumbersAssumption == /\ MaxQuantity \in Nat
                            /\ MaxClock \in Nat
                            /\ ExtraCapacity \in Limit

VARIABLES
    reg,        \* the registrations table, one row per user
    limit,      \* limits of the events row (hard limit, else planned places)
    lock,       \* registration lock of the events row
    settings,   \* app_settings
    beds,       \* event_lodgings: lodging -> beds
    eventLock,  \* the request whose open transaction locks the events row
    clock,      \* now(), advanced whenever it is stored
    req         \* what each request is about to do and has read so far

vars == <<reg, limit, lock, settings, beds, eventLock, clock, req>>

\* A row; status "none" stands for no row.  createdAt and waitlistedAt order
\* the waitlist (0 is NULL), checkedIn and checkedOut say whether the
\* timestamp is set, paid whether paid_at is.
Row == [status : Statuses \cup {"none"}, role : ConRoles,
        createdAt : Nat, waitlistedAt : Nat, byLock : BOOLEAN,
        checkedIn : BOOLEAN, checkedOut : BOOLEAN,
        conPayer : BOOLEAN, paid : BOOLEAN,
        extras : 0..MaxQuantity, lodging : Lodgings \cup {NoLodging}]
NoRow == [status |-> "none", role |-> "ticket",
          createdAt |-> 0, waitlistedAt |-> 0, byLock |-> FALSE,
          checkedIn |-> FALSE, checkedOut |-> FALSE,
          conPayer |-> FALSE, paid |-> FALSE,
          extras |-> 0, lodging |-> NoLodging]

\* What a request waits to do next, with what it read earlier.
Request ==
    [at : {"idle"}]
    \cup [at : {"insert"}, user : Users, role : ConRoles, byLock : BOOLEAN,
          conPayer : BOOLEAN, extras : 0..MaxQuantity,
          lodging : Lodgings \cup {NoLodging}, places : Limit, time : Nat]
    \cup [at : {"assign"}, user : Users,
          lodging : Lodgings \cup {NoLodging}, places : Limit]
    \cup [at : {"unregister"}, user : Users, seen : Statuses]
    \cup [at : {"override"}, user : Users, expected : Statuses, status : Statuses]
    \cup [at : {"changeRole"}, user : Users, role : ConRoles, changed : BOOLEAN]
    \cup [at : {"approve", "checkIn"}, user : Users, pays : BOOLEAN]
    \cup [at : {"bookCash"}, user : Users]
    \cup [at : {"dropCharacter"}, user : Users, lost : BOOLEAN]
    \cup [at : {"saveLimits"}, before : LimitRow, new : LimitRow]
    \cup [at : {"promote"}]
    \cup [at : {"promoting"}, chosen : SUBSET Users]
Idle == [at |-> "idle"]
ToPromote == [at |-> "promote"]

TypeOK ==
    /\ reg \in [Users -> Row]
    /\ limit \in LimitRow
    /\ lock \in LockRow
    /\ settings \in SettingsRow
    /\ beds \in [Lodgings -> Limit]
    /\ eventLock \in Requests \cup {Nobody}
    /\ clock \in Nat
    /\ req \in [Requests -> Request]

-----------------------------------------------------------------------------
(* Places: backend/registrations/capacity.js *)

TakesPlace(u, role) ==
    /\ role \in settings.countedRoles
    /\ ~(u \in Children /\ settings.childrenExempt)

\* loadCapacity: whoever is counted against the limits right now.
Placed == {u \in Users : /\ reg[u].status \in CountedStatuses
                         /\ TakesPlace(u, reg[u].role)}

LimitsOf(role) == {"total"} \cup (LimitKinds \cap {role})
Holders(people, kind) ==
    IF kind = "total" THEN people ELSE {u \in people : reg[u].role = kind}
\* Mutant: the last place is given twice.
HasRoomForOneMore(people, kind) ==
    \/ limit[kind] = Unlimited
    \/ Cardinality(Holders(people, kind)) <= limit[kind]
HasRoom(people, kind) ==
    \/ limit[kind] = Unlimited
    \/ Cardinality(Holders(people, kind)) < limit[kind]

\* Would u need a place as role that the limits no longer have, if the people
\* given were the ones counted?
CapacityBlock(people, u, role) ==
    /\ TakesPlace(u, role)
    /\ \E kind \in LimitsOf(role) : ~HasRoom(people, kind)

(* The lock: backend/registrations/lock.js *)
LockCovers(u, role) ==
    role \in lock.roles \/ Group[u] \in lock.groups

(* Extras and beds, counted over the same statuses as places. *)
Counted == {u \in Users : reg[u].status \in CountedStatuses}
ExtrasBooked(people) == MapThenSumSet(LAMBDA u : reg[u].extras, people)
ExtrasFit(wanted, others) ==
    \/ wanted = 0
    \/ ExtraCapacity = Unlimited
    \/ wanted + ExtrasBooked(others) <= ExtraCapacity
Occupants(l) == {u \in Counted : reg[u].lodging = l}
\* Mutant: the last bed is given twice.
BedFreeForOneMore(l, places, others) ==
    \/ l = NoLodging
    \/ places = Unlimited
    \/ Cardinality(Occupants(l) \cap others) <= places
BedFree(l, places, others) ==
    \/ l = NoLodging
    \/ places = Unlimited
    \/ Cardinality(Occupants(l) \cap others) < places
Price(l) == IF l = NoLodging THEN 0 ELSE LodgingPrice[l]
Places(l) == IF l = NoLodging THEN Unlimited ELSE beds[l]

(* Children: backend/registrations/children.js *)
GuardianRegistered(u) ==
    u \in Children => reg[Guardian[u]].status \notin {"none", "cancelled"}

-----------------------------------------------------------------------------
(* The waitlist *)

Waiting == {u \in Users : reg[u].status = "waitlisted"}
\* COALESCE(waitlisted_at, created_at)
QueuedAt(u) == IF reg[u].waitlistedAt # 0 THEN reg[u].waitlistedAt
                                          ELSE reg[u].createdAt
NoLimits == \A kind \in LimitKinds : limit[kind] = Unlimited
\* Without any limit only people put there by the lock move up, and nobody
\* the lock waitlisted moves up while it still covers them.
MayMoveUp(u) == IF reg[u].byLock THEN ~LockCovers(u, reg[u].role) ELSE ~NoLimits

\* The oldest-first pass of maybePromoteFromWaitlist: u is chosen when there is
\* room beside those counted and those chosen before u.
\* Mutant: the waitlist is ordered by created_at alone.
EarlierCreated(u, chosen) ==
    {v \in chosen : reg[v].createdAt < reg[u].createdAt /\ TakesPlace(v, reg[v].role)}
Earlier(u, chosen) ==
    {v \in chosen : QueuedAt(v) < QueuedAt(u) /\ TakesPlace(v, reg[v].role)}
MoveUp(chosen) ==
    \A u \in Waiting :
        u \in chosen <=> /\ MayMoveUp(u)
                         /\ ~CapacityBlock(Placed \cup Earlier(u, chosen), u, reg[u].role)

-----------------------------------------------------------------------------
(* Steps of a request *)

Begin(p, op) == op \in Ops /\ req[p] = Idle
Goto(p, step) == req' = [req EXCEPT ![p] = step]
Done(p) == Goto(p, Idle)
Store(u, row) == reg' = [reg EXCEPT ![u] = row]
EventRowFree == eventLock = Nobody
\* A transaction that locks the event row and commits within one step.
InLockedTransaction == EventRowFree /\ UNCHANGED eventLock
Commit == eventLock' = Nobody
admin == <<limit, lock, settings, beds>>
\* Room on the bounded clock, one tick kept for every override under way.
ClockRoom ==
    clock + Cardinality({p \in Requests : req[p].at = "override"}) < MaxClock

(* The status machine: backend/registrations/statusMachine.js *)
From == [approve |-> {"pending"}, checkin |-> {"confirmed"},
         checkout |-> {"checked_in"},
         cancel |-> {"pending", "confirmed", "waitlisted"}]
To == [approve |-> "confirmed", checkin |-> "checked_in",
       checkout |-> "checked_out", cancel |-> "cancelled"]
CanMove(u, action) == reg[u].status \in From[action]
\* transitionStatus reads the status and updates WHERE status is still that:
\* either the row moves from the status it has, or the request is refused.
Moved(u, action) ==
    [reg[u] EXCEPT !.status = To[action],
                   !.checkedIn = @ \/ action = "checkin",
                   !.checkedOut = @ \/ action = "checkout"]

\* setStatus: the UPDATE of a status set by hand.
Rejoins(expected, status) ==
    status = "waitlisted" /\ expected \in CountedStatuses
Overridden(u, expected, status) ==
    [reg[u] EXCEPT
        !.status = status,
        !.waitlistedAt = IF Rejoins(expected, status) THEN clock + 1
                         ELSE IF status = "waitlisted" THEN @ ELSE 0,
        !.byLock = @ /\ status = "waitlisted" /\ ~Rejoins(expected, status),
        !.checkedIn = (status = "checked_in") \/ (status = "checked_out" /\ @),
        !.checkedOut = (status = "checked_out")]
\* Mutant: only a cancellation offers the place.
FreesPlaceByCancelling(expected, status) ==
    expected \in CountedStatuses /\ status = "cancelled"
FreesPlace(expected, status) ==
    expected \in CountedStatuses /\ status \in {"cancelled", "waitlisted"}

-----------------------------------------------------------------------------
(* Registering: registerForEvent *)

\* Everything read before the transaction: guardian, lock, lodging.  Staff and
\* PDF imports pass the lock (byLock is FALSE although it covers the person).
\* created_at will be the time this transaction began.
RegisterStart(p) ==
    /\ Begin(p, "register")
    /\ ClockRoom
    /\ \E u \in Users, role \in AskedRoles, payer \in Payers,
          n \in 0..MaxQuantity, l \in Lodgings \cup {NoLodging} :
        /\ GuardianRegistered(u)
        /\ \E byLock \in {FALSE, LockCovers(u, role)} :
            /\ byLock => lock.mode = "waitlist"
            /\ Goto(p, [at |-> "insert", user |-> u, role |-> role,
                        byLock |-> byLock, conPayer |-> payer, extras |-> n,
                        lodging |-> l, places |-> Places(l), time |-> clock + 1])
    /\ clock' = clock + 1
    /\ UNCHANGED <<reg, admin, eventLock>>

\* The transaction; it fails on a sold-out extra, a full lodging or a row that
\* exists already.  Waitlisted people hold no bed but do book extras.
Insert(p) ==
    /\ req[p].at = "insert"
    /\ InLockedTransaction
    /\ LET r == req[p]
           waits == r.byLock \/ CapacityBlock(Placed, r.user, r.role)
           l == IF waits THEN NoLodging ELSE r.lodging
       IN  IF /\ reg[r.user].status = "none"
              /\ ExtrasFit(r.extras, Counted)
              /\ BedFree(l, r.places, Users)
           THEN Store(r.user,
                      [NoRow EXCEPT !.status = IF waits THEN "waitlisted" ELSE "pending",
                                    !.role = r.role, !.createdAt = r.time,
                                    !.byLock = r.byLock, !.conPayer = r.conPayer,
                                    !.extras = r.extras, !.lodging = l])
           ELSE UNCHANGED reg
    /\ Done(p)
    /\ UNCHANGED <<admin, clock>>

(* Extras and lodging of an existing registration *)

\* Mutant: paid registrations are not closed.
ExtrasOpenWhenPaid(u) == reg[u].status \notin {"none", "cancelled"}
ExtrasOpen(u) == reg[u].status \notin {"none", "cancelled"} /\ ~reg[u].paid

\* updateRegistrationExtras: one transaction under the event lock.
ChangeExtras(u, n) ==
    /\ "extras" \in Ops
    /\ InLockedTransaction
    /\ ExtrasOpen(u)
    /\ n # reg[u].extras
    /\ ExtrasFit(n, Counted \ {u})
    /\ Store(u, [reg[u] EXCEPT !.extras = n])
    /\ UNCHANGED <<admin, clock, req>>

\* updateRegistrationLodging: resolveLodging reads the beds before the transaction.
AssignStart(p) ==
    /\ Begin(p, "lodging")
    /\ \E u \in Users, l \in Lodgings \cup {NoLodging} :
        Goto(p, [at |-> "assign", user |-> u, lodging |-> l, places |-> Places(l)])
    /\ UNCHANGED <<reg, admin, eventLock, clock>>

Assign(p) ==
    /\ req[p].at = "assign"
    /\ InLockedTransaction
    /\ LET u == req[p].user
           l == req[p].lodging
       IN  IF /\ reg[u].status \notin {"none", "cancelled"}
              /\ reg[u].status = "waitlisted" => l = NoLodging
              /\ reg[u].paid => Price(l) = Price(reg[u].lodging)
              /\ BedFree(l, req[p].places, Users \ {u})
           THEN Store(u, [reg[u] EXCEPT !.lodging = l])
           ELSE UNCHANGED reg
    /\ Done(p)
    /\ UNCHANGED <<admin, clock>>

\* replaceLodgings, as far as it changes the number of beds.
SetBeds(l, n) ==
    /\ "beds" \in Ops
    /\ InLockedTransaction
    /\ n = Unlimited \/ Cardinality(Occupants(l)) <= n
    /\ beds' = [beds EXCEPT ![l] = n]
    /\ UNCHANGED <<reg, limit, lock, settings, clock, req>>

-----------------------------------------------------------------------------
(* Leaving *)

UnregisterStart(p) ==
    /\ Begin(p, "unregister")
    /\ \E u \in Users :
        /\ reg[u].status # "none"
        /\ Goto(p, [at |-> "unregister", user |-> u, seen |-> reg[u].status])
    /\ UNCHANGED <<reg, admin, eventLock, clock>>

Deletable == {"pending", "waitlisted"}

\* A registration seen as confirmed is cancelled (setStatus), any other is
\* deleted if it is pending or waitlisted by now; only somebody SEEN as
\* pending or confirmed offers the place to the waitlist.
Unregister(p) ==
    /\ req[p].at = "unregister"
    /\ LET u == req[p].user
           seen == req[p].seen
           goes == IF seen = "confirmed" THEN {"confirmed"} ELSE Deletable
           rest == IF seen = "confirmed" THEN Overridden(u, seen, "cancelled") ELSE NoRow
       IN  IF reg[u].status \in goes
           THEN /\ Store(u, rest)
                /\ Goto(p, IF seen \in {"pending", "confirmed"} THEN ToPromote ELSE Idle)
           ELSE Done(p) /\ UNCHANGED reg
    /\ UNCHANGED <<admin, eventLock, clock>>

\* cancelRegistration by staff (also for deactivated members).
Cancel(p) ==
    /\ Begin(p, "cancel")
    /\ \E u \in Users : CanMove(u, "cancel") /\ Store(u, Moved(u, "cancel"))
    /\ Goto(p, ToPromote)
    /\ UNCHANGED <<admin, eventLock, clock>>

\* deleteCharacter: the registrations it is known to end are read first.
DropCharacterStart(p) ==
    /\ Begin(p, "character")
    /\ \E u \in Users :
        Goto(p, [at |-> "dropCharacter", user |-> u,
                 lost |-> reg[u].status # "none" /\ reg[u].role = "sc"])
    /\ UNCHANGED <<reg, admin, eventLock, clock>>

DropCharacter(p) ==
    /\ req[p].at = "dropCharacter"
    /\ LET u == req[p].user
       IN  IF reg[u].role = "sc" THEN Store(u, NoRow) ELSE UNCHANGED reg
    /\ Goto(p, IF req[p].lost THEN ToPromote ELSE Idle)
    /\ UNCHANGED <<admin, eventLock, clock>>

-----------------------------------------------------------------------------
(* The desk *)

Approve(u) ==
    /\ "approve" \in Ops
    /\ CanMove(u, "approve")
    /\ Store(u, Moved(u, "approve"))
    /\ UNCHANGED <<admin, eventLock, clock, req>>

CheckOut(u) ==
    /\ "checkOut" \in Ops
    /\ CanMove(u, "checkout")
    /\ Store(u, Moved(u, "checkout"))
    /\ UNCHANGED <<admin, eventLock, clock, req>>

\* checkIn reads the row, may approve a Con-Zahler, checks in, books the cash.
CheckInStart(p) ==
    /\ Begin(p, "checkIn")
    /\ \E u \in Users, paidConfirmed \in BOOLEAN :
        /\ reg[u].status # "none"
        /\ Goto(p, [at |-> IF reg[u].status = "pending" /\ reg[u].conPayer
                           THEN "approve" ELSE "checkIn",
                    user |-> u, pays |-> paidConfirmed /\ ~reg[u].paid])
    /\ UNCHANGED <<reg, admin, eventLock, clock>>

ApproveAtDesk(p) ==
    /\ req[p].at = "approve"
    /\ LET u == req[p].user
       IN  IF CanMove(u, "approve")
           THEN Store(u, Moved(u, "approve")) /\ Goto(p, [req[p] EXCEPT !.at = "checkIn"])
           ELSE Done(p) /\ UNCHANGED reg
    /\ UNCHANGED <<admin, eventLock, clock>>

CheckIn(p) ==
    /\ req[p].at = "checkIn"
    /\ LET u == req[p].user
       IN  IF CanMove(u, "checkin")
           THEN /\ Store(u, Moved(u, "checkin"))
                /\ Goto(p, IF req[p].pays THEN [at |-> "bookCash", user |-> u] ELSE Idle)
           ELSE Done(p) /\ UNCHANGED reg
    /\ UNCHANGED <<admin, eventLock, clock>>

\* markPaidManually, here and from the payments page.
BookCash(p) ==
    /\ req[p].at = "bookCash"
    /\ LET u == req[p].user
       IN  IF reg[u].status # "none" THEN Store(u, [reg[u] EXCEPT !.paid = TRUE])
                                     ELSE UNCHANGED reg
    /\ Done(p)
    /\ UNCHANGED <<admin, eventLock, clock>>

\* setConPayer: only open and unpaid registrations.
SetConPayer(u) ==
    /\ "conPayer" \in Ops
    /\ reg[u].status \in {"pending", "waitlisted", "confirmed"}
    /\ ~reg[u].paid
    /\ Store(u, [reg[u] EXCEPT !.conPayer = ~@])
    /\ UNCHANGED <<admin, eventLock, clock, req>>

-----------------------------------------------------------------------------
(* Changes by hand *)

\* setStatus: a status set by staff, who saw the status expected.  Taking
\* somebody onto a place is checked first unless it is forced.
OverrideStart(p) ==
    /\ Begin(p, "override")
    /\ ClockRoom
    /\ \E u \in Users, pair \in Overrides :
        /\ \/ "force" \in Ops
           \/ pair[1] \in CountedStatuses
           \/ pair[2] \notin CountedStatuses
           \/ reg[u].status = "none"
           \/ ~CapacityBlock(Placed, u, reg[u].role)
        /\ Goto(p, [at |-> "override", user |-> u, expected |-> pair[1], status |-> pair[2]])
    /\ UNCHANGED <<reg, admin, eventLock, clock>>

Override(p) ==
    /\ req[p].at = "override"
    /\ LET r == req[p]
       IN  IF reg[r.user].status = r.expected
           THEN /\ Store(r.user, Overridden(r.user, r.expected, r.status))
                /\ clock' = IF Rejoins(r.expected, r.status) THEN clock + 1 ELSE clock
                /\ Goto(p, IF FreesPlace(r.expected, r.status) THEN ToPromote ELSE Idle)
           ELSE Done(p) /\ UNCHANGED <<reg, clock>>
    /\ UNCHANGED <<admin, eventLock>>

\* setConRole: reads the old role, the lock and the counts without any lock ...
ChangeRoleStart(p) ==
    /\ Begin(p, "changeRole")
    /\ \E u \in Users, role \in AskedRoles, staff \in BOOLEAN :
        LET changed == reg[u].status # "none" /\ reg[u].role # role
        IN  /\ changed /\ ~staff => ~LockCovers(u, role)
            /\ changed /\ u \in Counted => ~CapacityBlock(Placed \ {u}, u, role)
            /\ Goto(p, [at |-> "changeRole", user |-> u, role |-> role, changed |-> changed])
    /\ UNCHANGED <<reg, admin, eventLock, clock>>

\* ... and then updates the row whatever happened since.
ChangeRole(p) ==
    /\ req[p].at = "changeRole"
    /\ LET u == req[p].user
       IN  IF reg[u].status = "none"
           THEN Done(p) /\ UNCHANGED reg
           ELSE /\ Store(u, [reg[u] EXCEPT !.role = req[p].role])
                /\ Goto(p, IF req[p].changed THEN ToPromote ELSE Idle)
    /\ UNCHANGED <<admin, eventLock, clock>>

-----------------------------------------------------------------------------
(* The event and the settings *)

\* Mutant: only the total limit is compared.
TotalChanged(before, new) == new["total"] # before["total"]
LimitsChanged(before, new) == new # before

\* PATCH /events/:id compares the limits with those it read before.
SaveLimitsStart(p) ==
    /\ p \in Admins
    /\ Begin(p, "limits")
    /\ \E new \in LimitRows : Goto(p, [at |-> "saveLimits", before |-> limit, new |-> new])
    /\ UNCHANGED <<reg, admin, eventLock, clock>>

SaveLimits(p) ==
    /\ req[p].at = "saveLimits"
    /\ InLockedTransaction
    /\ limit' = req[p].new
    /\ Goto(p, IF LimitsChanged(req[p].before, req[p].new) THEN ToPromote ELSE Idle)
    /\ UNCHANGED <<reg, lock, settings, beds, clock>>

\* PUT /events/:id/registration-lock
SaveLock(p) ==
    /\ p \in Admins
    /\ Begin(p, "lock")
    /\ InLockedTransaction
    /\ \E new \in LockRows : lock' = new
    /\ Goto(p, ToPromote)
    /\ UNCHANGED <<reg, limit, settings, beds, clock>>

\* One endpoint saves the counted roles, another the rest; both promote, unless
\* only settings like waitlistAutoPromote are sent.
SaveSettings(p) ==
    /\ p \in Admins
    /\ Begin(p, "settings")
    /\ \E new \in SettingsRows :
        /\ settings' = new
        /\ \/ /\ new = [settings EXCEPT !.countedRoles = new.countedRoles]
              /\ Goto(p, ToPromote)
           \/ /\ new.countedRoles = settings.countedRoles
              /\ Goto(p, ToPromote)
           \/ /\ new = [settings EXCEPT !.autoPromote = new.autoPromote]
              /\ Goto(p, Idle)
    /\ UNCHANGED <<reg, limit, lock, beds, eventLock, clock>>

-----------------------------------------------------------------------------
(* Moving up: maybePromoteFromWaitlist *)

\* With auto-promotion on, the transaction locks the event row, counts, and
\* picks from the waiting list it reads ...
Promote(p) ==
    /\ req[p].at = "promote"
    /\ EventRowFree
    /\ IF settings.autoPromote
       THEN \E chosen \in SUBSET Waiting :
                /\ MoveUp(chosen)
                /\ Goto(p, [at |-> "promoting", chosen |-> chosen])
                /\ eventLock' = p
       ELSE Done(p) /\ UNCHANGED eventLock
    /\ UNCHANGED <<reg, admin, clock>>

\* ... and updates those of them who are still waiting.
Promoting(p) ==
    /\ req[p].at = "promoting"
    /\ reg' = [u \in Users |->
                 IF u \in req[p].chosen /\ reg[u].status = "waitlisted"
                 THEN [reg[u] EXCEPT !.status = "pending", !.byLock = FALSE]
                 ELSE reg[u]]
    /\ Commit
    /\ Done(p)
    /\ UNCHANGED <<admin, clock>>

\* The process restarts: requests vanish, open transactions roll back.
Restart ==
    /\ "restart" \in Ops
    /\ req' = [p \in Requests |-> Idle]
    /\ eventLock' = Nobody
    /\ UNCHANGED <<reg, admin, clock>>

-----------------------------------------------------------------------------
Init ==
    /\ reg = [u \in Users |-> NoRow]
    /\ limit \in LimitRows
    /\ lock \in LockRows
    /\ settings \in SettingsRows
    /\ beds \in [Lodgings -> BedCounts]
    /\ eventLock = Nobody
    /\ clock = 0
    /\ req = [p \in Requests |-> Idle]

\* What a request does once it is under way.
Continue(p) ==
    \/ Insert(p) \/ Assign(p) \/ Unregister(p) \/ DropCharacter(p)
    \/ ApproveAtDesk(p) \/ CheckIn(p) \/ BookCash(p)
    \/ Override(p) \/ ChangeRole(p) \/ SaveLimits(p)
    \/ Promote(p) \/ Promoting(p)

\* What people, staff and admins may ask for.
Arrive(p) ==
    \/ RegisterStart(p) \/ AssignStart(p) \/ UnregisterStart(p) \/ Cancel(p)
    \/ DropCharacterStart(p) \/ CheckInStart(p) \/ OverrideStart(p)
    \/ ChangeRoleStart(p) \/ SaveLimitsStart(p) \/ SaveLock(p) \/ SaveSettings(p)

Next ==
    \/ \E p \in Requests : Arrive(p) \/ Continue(p)
    \/ \E u \in Users, n \in 0..MaxQuantity : ChangeExtras(u, n)
    \/ \E l \in Lodgings, n \in BedCounts : SetBeds(l, n)
    \/ \E u \in Users : Approve(u) \/ CheckOut(u) \/ SetConPayer(u)
    \/ Restart

Spec == Init /\ [][Next]_vars

\* PostgreSQL grants a contended row lock in the order of arrival, so a request
\* waiting for the event row gets it (strong fairness); nothing is assumed of
\* what people start.
Fairness == \A p \in Requests : SF_vars(Continue(p))
FairSpec == Spec /\ Fairness

-----------------------------------------------------------------------------
(* What the registrations promise *)

\* No limit is exceeded: the people counted are never more than the event's
\* total, SC or NSC limit (capacity.js; loadCapacity locks the event row "so two
\* registrations cannot both take the last place").
WithinLimits ==
    \A kind \in LimitKinds :
        limit[kind] = Unlimited \/ Cardinality(Holders(Placed, kind)) <= limit[kind]

\* No lodging has more occupants than places, whoever books, moves, leaves or
\* is cancelled meanwhile (assertLodgingCapacity).
BedsSuffice ==
    \A l \in Lodgings :
        beds[l] = Unlimited \/ Cardinality(Occupants(l)) <= beds[l]

\* Somebody the waitlist would move up if it were looked at now.
CouldMoveUp(u) ==
    /\ u \in Waiting
    /\ MayMoveUp(u)
    /\ ~CapacityBlock(Placed, u, reg[u].role)

\* With auto-promotion on, once every request has ended nobody is left waiting
\* who could move up: whatever freed a place also offered it
\* (maybePromoteFromWaitlist and all its callers).
NobodyStranded ==
    (settings.autoPromote /\ \A p \in Requests : req[p] = Idle)
        => \A u \in Users : ~CouldMoveUp(u)

\* checked_in_at and checked_out_at say what the status says, after any mix of
\* desk operations and statuses set by hand (transitionStatus, setStatus).
StampsMatchStatus ==
    \A u \in Users :
        /\ reg[u].status = "checked_in" => reg[u].checkedIn
        /\ reg[u].checkedOut <=> reg[u].status = "checked_out"
        /\ reg[u].checkedIn => reg[u].status \in {"checked_in", "checked_out"}

\* The event row is locked exactly while a promotion is between its reading and
\* its writing, and by that request only.
LockHeldByPromotion ==
    \A p \in Requests : req[p].at = "promoting" <=> eventLock = p

\* A promotion passes nobody over: who joined the waitlist earlier, for the same
\* role and counted by the same rule, never stays behind somebody who moves up
\* ("oldest first", ORDER BY COALESCE(waitlisted_at, created_at)).
FairQueue ==
    [][\A p \in Requests : req[p].at = "promoting" /\ req'[p] = Idle =>
         \A u, v \in Waiting :
             /\ reg'[u].status = "pending"
             /\ reg[v].role = reg[u].role
             /\ v \in Children <=> u \in Children
             /\ MayMoveUp(v)
             /\ QueuedAt(v) < QueuedAt(u)
             => reg'[v].status = "pending"]_vars

\* Only the loss of its character deletes a registration that was confirmed,
\* checked in or cancelled: withdrawing deletes pending and waitlisted rows only,
\* even when the row was approved after the withdrawal looked at it
\* (unregisterFromEvent: "money may have been paid").
ConfirmedIsKept ==
    [][\A u \in Users :
         reg'[u].status = "none" /\ reg[u].status \notin {"none", "pending", "waitlisted"}
             => \E p \in Requests : req[p].at = "dropCharacter" /\ req[p].user = u]_vars

\* What was paid for stays what was booked: while a registration is paid, neither
\* its extras nor the price of its lodging change (EXTRAS_LOCKED, LODGING_LOCKED),
\* even if the payment lands between the start and the end of the change.
PaidBookingIsFixed ==
    [][\A u \in Users :
         reg[u].paid /\ reg'[u].paid =>
             /\ reg'[u].extras = reg[u].extras
             /\ Price(reg'[u].lodging) = Price(reg[u].lodging)]_vars

\* A place somebody could move up to does not stay on offer for ever: they move
\* up, leave, or somebody else takes it.
PlacesAreOffered == \A u \in Users : CouldMoveUp(u) ~> ~CouldMoveUp(u)

=============================================================================
