------------------------- MODULE RegistrationsProofs -------------------------
(* Theorems about Registrations, for every value of its constants. *)
EXTENDS Registrations, TLAPS, FiniteSetTheorems, WellFoundedInduction

\* What a request keeps is of the right kind at every step.
LEMMA RequestFields ==
    ASSUME NEW r \in Request
    PROVE  /\ r.at = "insert" => /\ r.user \in Users
                                 /\ r.role \in ConRoles
                                 /\ r.byLock \in BOOLEAN
                                 /\ r.conPayer \in BOOLEAN
                                 /\ r.extras \in 0..MaxQuantity
                                 /\ r.lodging \in Lodgings \cup {NoLodging}
                                 /\ r.time \in Nat
           /\ r.at = "assign" => /\ r.user \in Users
                                 /\ r.lodging \in Lodgings \cup {NoLodging}
           /\ r.at = "unregister" => r.user \in Users /\ r.seen \in Statuses
           /\ r.at = "override" => /\ r.user \in Users
                                   /\ r.expected \in Statuses
                                   /\ r.status \in Statuses
           /\ r.at = "changeRole" => r.user \in Users /\ r.role \in ConRoles
           /\ r.at \in {"approve", "checkIn"} =>
                /\ r = [at |-> r.at, user |-> r.user, pays |-> r.pays]
                /\ r.user \in Users
                /\ r.pays \in BOOLEAN
           /\ r.at = "bookCash" => r.user \in Users
           /\ r.at = "dropCharacter" => r.user \in Users
           /\ r.at = "saveLimits" => r.new \in LimitRow
           /\ r.at = "promoting" => r.chosen \in SUBSET Users
  BY DEF Request

\* The value that stands for no row is typed like one.
LEMMA NoRowIsRow == NoRow \in Row
  BY NumbersAssumption DEF NoRow, Row, Statuses, ConRoles

\* A freshly created event is well typed.
LEMMA InitTypeOK == Init => TypeOK
<1> SUFFICES ASSUME Init PROVE TypeOK
  OBVIOUS
<1>1. reg \in [Users -> Row]
  BY NoRowIsRow DEF Init
<1>2. limit \in LimitRow /\ lock \in LockRow /\ settings \in SettingsRow
  BY RowsAssumption DEF Init
<1>3. beds \in [Lodgings -> Limit]
  BY RowsAssumption DEF Init
<1>4. req \in [Requests -> Request]
  BY DEF Init, Request, Idle
<1> QED
  BY <1>1, <1>2, <1>3, <1>4 DEF Init, TypeOK

-----------------------------------------------------------------------------
(* What the pieces of a step return. *)

\* Storing a well-typed row keeps the table well typed (an UPDATE or INSERT).
LEMMA StoreType ==
    ASSUME reg \in [Users -> Row], NEW u \in Users, NEW row \in Row, Store(u, row)
    PROVE  reg' \in [Users -> Row]
  BY DEF Store

\* Going on to a well-formed step keeps the requests well formed.
LEMMA GotoType ==
    ASSUME req \in [Requests -> Request], NEW p \in Requests, NEW step \in Request,
           Goto(p, step)
    PROVE  req' \in [Requests -> Request]
  BY DEF Goto

\* Ending a request keeps the requests well formed.
LEMMA DoneType ==
    ASSUME req \in [Requests -> Request], NEW p \in Requests, Done(p)
    PROVE  req' \in [Requests -> Request]
  BY GotoType DEF Done, Request, Idle

\* The two steps that carry nothing are well formed.
LEMMA ToPromoteType == ToPromote \in Request /\ Idle \in Request
  BY DEF ToPromote, Idle, Request

\* A row whose status is not "none" keeps its type under the desk's moves and
\* under a status set by hand.
LEMMA MovedType ==
    ASSUME reg \in [Users -> Row], NEW u \in Users,
           NEW action \in {"approve", "checkin", "checkout", "cancel"}
    PROVE  Moved(u, action) \in Row
<1>1. To[action] \in Statuses
  BY DEF To, Statuses
<1> QED
  BY <1>1 DEF Moved, Row

\* A status set by hand leaves a well-typed row (the UPDATE of setStatus).
LEMMA OverriddenType ==
    ASSUME reg \in [Users -> Row], clock \in Nat, NEW u \in Users,
           NEW expected \in Statuses, NEW status \in Statuses
    PROVE  Overridden(u, expected, status) \in Row
<1> DEFINE row == reg[u]
           queued == IF Rejoins(expected, status) THEN clock + 1
                     ELSE IF status = "waitlisted" THEN row.waitlistedAt ELSE 0
           byLock == row.byLock /\ status = "waitlisted" /\ ~Rejoins(expected, status)
           in == (status = "checked_in") \/ (status = "checked_out" /\ row.checkedIn)
           out == (status = "checked_out")
<1>1. row \in Row
  OBVIOUS
<1>2. queued \in Nat
  BY <1>1 DEF Row
<1>3. byLock \in BOOLEAN /\ in \in BOOLEAN /\ out \in BOOLEAN
  OBVIOUS
<1>4. Overridden(u, expected, status)
        = [row EXCEPT !.status = status, !.waitlistedAt = queued, !.byLock = byLock,
                      !.checkedIn = in, !.checkedOut = out]
  BY <1>1 DEF Overridden
<1> HIDE DEF row, queued, byLock, in, out
<1> QED
  BY <1>1, <1>2, <1>3, <1>4 DEF Row

-----------------------------------------------------------------------------
(* Type correctness *)

\* What a request starts is a request, and starting it changes no row.
LEMMA ArriveType ==
    ASSUME TypeOK, NEW p \in Requests, Arrive(p)
    PROVE  TypeOK'
<1> USE DEF TypeOK
<1>1. CASE RegisterStart(p)
  <2>1. PICK u \in Users, role \in AskedRoles, payer \in Payers, n \in 0..MaxQuantity,
             l \in Lodgings \cup {NoLodging}, byLock \in BOOLEAN :
          Goto(p, [at |-> "insert", user |-> u, role |-> role, byLock |-> byLock,
                   conPayer |-> payer, extras |-> n, lodging |-> l,
                   places |-> Places(l), time |-> clock + 1])
    BY <1>1, ZenonT(60) DEF RegisterStart, LockCovers
  <2>2. Places(l) \in Limit
    BY DEF Places, Limit
  <2>3. byLock \in BOOLEAN /\ payer \in BOOLEAN /\ role \in ConRoles
    BY RowsAssumption, PeopleAssumption
  <2>4. [at |-> "insert", user |-> u, role |-> role, byLock |-> byLock,
         conPayer |-> payer, extras |-> n, lodging |-> l,
         places |-> Places(l), time |-> clock + 1] \in Request
    BY <2>2, <2>3 DEF Request
  <2> QED
    BY <1>1, <2>1, <2>4, GotoType DEF RegisterStart, admin
<1>2. CASE AssignStart(p)
  <2>1. PICK u \in Users, l \in Lodgings \cup {NoLodging} :
          Goto(p, [at |-> "assign", user |-> u, lodging |-> l, places |-> Places(l)])
    BY <1>2 DEF AssignStart
  <2>2. Places(l) \in Limit
    BY DEF Places, Limit
  <2>3. [at |-> "assign", user |-> u, lodging |-> l, places |-> Places(l)] \in Request
    BY <2>2 DEF Request
  <2> QED
    BY <1>2, <2>1, <2>3, GotoType DEF AssignStart, admin
<1>3. CASE UnregisterStart(p)
  <2>1. PICK u \in Users :
          /\ reg[u].status # "none"
          /\ Goto(p, [at |-> "unregister", user |-> u, seen |-> reg[u].status])
    BY <1>3 DEF UnregisterStart
  <2>2. [at |-> "unregister", user |-> u, seen |-> reg[u].status] \in Request
    BY <2>1 DEF Request, Row
  <2> QED
    BY <1>3, <2>1, <2>2, GotoType DEF UnregisterStart, admin
<1>4. CASE Cancel(p)
  <2>1. PICK u \in Users : Store(u, Moved(u, "cancel"))
    BY <1>4 DEF Cancel
  <2>2. Moved(u, "cancel") \in Row
    BY MovedType
  <2> QED
    BY <1>4, <2>1, <2>2, StoreType, GotoType, ToPromoteType DEF Cancel, admin
<1>5. CASE DropCharacterStart(p)
  <2>1. PICK u \in Users :
          Goto(p, [at |-> "dropCharacter", user |-> u,
                   lost |-> reg[u].status # "none" /\ reg[u].role = "sc"])
    BY <1>5 DEF DropCharacterStart
  <2>2. [at |-> "dropCharacter", user |-> u,
         lost |-> reg[u].status # "none" /\ reg[u].role = "sc"] \in Request
    BY DEF Request
  <2> QED
    BY <1>5, <2>1, <2>2, GotoType DEF DropCharacterStart, admin
<1>6. CASE CheckInStart(p)
  <2>1. PICK u \in Users, paidConfirmed \in BOOLEAN :
          Goto(p, [at |-> IF reg[u].status = "pending" /\ reg[u].conPayer
                          THEN "approve" ELSE "checkIn",
                   user |-> u, pays |-> paidConfirmed /\ ~reg[u].paid])
    BY <1>6 DEF CheckInStart
  <2>2. [at |-> IF reg[u].status = "pending" /\ reg[u].conPayer
                THEN "approve" ELSE "checkIn",
         user |-> u, pays |-> paidConfirmed /\ ~reg[u].paid] \in Request
    BY DEF Request
  <2> QED
    BY <1>6, <2>1, <2>2, GotoType DEF CheckInStart, admin
<1>7. CASE OverrideStart(p)
  <2>1. PICK u \in Users, pair \in Overrides :
          Goto(p, [at |-> "override", user |-> u, expected |-> pair[1], status |-> pair[2]])
    BY <1>7 DEF OverrideStart
  <2>2. [at |-> "override", user |-> u, expected |-> pair[1], status |-> pair[2]] \in Request
    BY RowsAssumption DEF Request
  <2> QED
    BY <1>7, <2>1, <2>2, GotoType DEF OverrideStart, admin
<1>8. CASE ChangeRoleStart(p)
  <2>1. PICK u \in Users, role \in AskedRoles :
          Goto(p, [at |-> "changeRole", user |-> u, role |-> role,
                   changed |-> reg[u].status # "none" /\ reg[u].role # role])
    BY <1>8 DEF ChangeRoleStart
  <2>2. [at |-> "changeRole", user |-> u, role |-> role,
         changed |-> reg[u].status # "none" /\ reg[u].role # role] \in Request
    BY PeopleAssumption DEF Request
  <2> QED
    BY <1>8, <2>1, <2>2, GotoType DEF ChangeRoleStart, admin
<1>9. CASE SaveLimitsStart(p)
  <2>1. PICK new \in LimitRows : Goto(p, [at |-> "saveLimits", before |-> limit, new |-> new])
    BY <1>9 DEF SaveLimitsStart
  <2>2. [at |-> "saveLimits", before |-> limit, new |-> new] \in Request
    BY RowsAssumption DEF Request
  <2> QED
    BY <1>9, <2>1, <2>2, GotoType DEF SaveLimitsStart, admin
<1>10. CASE SaveLock(p)
  BY <1>10, RowsAssumption, GotoType, ToPromoteType DEF SaveLock, InLockedTransaction
<1>11. CASE SaveSettings(p)
  <2>1. PICK new \in SettingsRows, step \in {Idle, ToPromote} :
          settings' = new /\ Goto(p, step)
    BY <1>11 DEF SaveSettings
  <2> QED
    BY <1>11, <2>1, RowsAssumption, GotoType, ToPromoteType DEF SaveSettings
<1> QED
  BY <1>1, <1>2, <1>3, <1>4, <1>5, <1>6, <1>7, <1>8, <1>9, <1>10, <1>11 DEF Arrive

\* Registering inserts a row of the right type.
LEMMA InsertKeepsType ==
    ASSUME TypeOK, NEW p \in Requests, Insert(p)
    PROVE  TypeOK'
<1> DEFINE r == req[p]
           waits == r.byLock \/ CapacityBlock(Placed, r.user, r.role)
           l == IF waits THEN NoLodging ELSE r.lodging
           status == IF waits THEN "waitlisted" ELSE "pending"
           row == [NoRow EXCEPT !.status = status, !.role = r.role, !.createdAt = r.time,
                                !.byLock = r.byLock, !.conPayer = r.conPayer,
                                !.extras = r.extras, !.lodging = l]
<1>1. r \in Request /\ r.at = "insert"
  BY DEF TypeOK, Insert
<1>2. /\ r.user \in Users
      /\ r.role \in ConRoles
      /\ r.byLock \in BOOLEAN
      /\ r.conPayer \in BOOLEAN
      /\ r.extras \in 0..MaxQuantity
      /\ r.lodging \in Lodgings \cup {NoLodging}
      /\ r.time \in Nat
  BY <1>1, RequestFields
<1>3. row \in Row
  <2>1. status \in Statuses \cup {"none"} /\ l \in Lodgings \cup {NoLodging}
    BY <1>2 DEF Statuses
  <2> HIDE DEF r, status, l
  <2> QED
    BY <1>2, <2>1, NoRowIsRow DEF Row
<1>4. Store(r.user, row) \/ UNCHANGED reg
  BY DEF Insert
<1>5. reg' \in [Users -> Row]
  BY <1>2, <1>3, <1>4, StoreType DEF TypeOK
<1>6. req' \in [Requests -> Request]
  BY DoneType DEF Insert, TypeOK
<1> QED
  BY <1>5, <1>6 DEF Insert, TypeOK, InLockedTransaction, admin

\* What a request does once under way keeps every type.
LEMMA ContinueType ==
    ASSUME TypeOK, NEW p \in Requests, Continue(p)
    PROVE  TypeOK'
<1> DEFINE r == req[p]
<1>0. r \in Request /\ NoRow \in Row /\ Idle \in Request /\ ToPromote \in Request
  BY NoRowIsRow, ToPromoteType DEF TypeOK
<1>1. CASE Insert(p)
  BY <1>1, InsertKeepsType
<1>2. CASE Assign(p)
  <2>1. r.user \in Users /\ r.lodging \in Lodgings \cup {NoLodging}
    BY <1>0, <1>2, RequestFields DEF Assign
  <2>2. [reg[r.user] EXCEPT !.lodging = r.lodging] \in Row
    BY <2>1 DEF TypeOK, Row
  <2>3. Store(r.user, [reg[r.user] EXCEPT !.lodging = r.lodging]) \/ UNCHANGED reg
    BY <1>2 DEF Assign
  <2> QED
    BY <1>2, <2>1, <2>2, <2>3, StoreType, DoneType
       DEF Assign, TypeOK, InLockedTransaction, admin
<1>3. CASE Unregister(p)
  <2>1. r.user \in Users /\ r.seen \in Statuses
    BY <1>0, <1>3, RequestFields DEF Unregister
  <2>2. Overridden(r.user, r.seen, "cancelled") \in Row
    BY <2>1, OverriddenType DEF TypeOK, Statuses
  <2>3. PICK row \in Row, step \in Request :
          /\ Store(r.user, row) \/ UNCHANGED reg
          /\ Goto(p, step)
    BY <1>0, <1>3, <2>2 DEF Unregister, Done
  <2> QED
    BY <1>3, <2>1, <2>3, StoreType, GotoType DEF Unregister, TypeOK, admin
<1>4. CASE DropCharacter(p)
  <2>1. r.user \in Users
    BY <1>0, <1>4, RequestFields DEF DropCharacter
  <2>2. PICK step \in Request : Goto(p, step)
    BY <1>0, <1>4 DEF DropCharacter
  <2> QED
    BY <1>0, <1>4, <2>1, <2>2, StoreType, GotoType DEF DropCharacter, TypeOK, admin
<1>5. CASE ApproveAtDesk(p)
  <2>1. /\ r = [at |-> r.at, user |-> r.user, pays |-> r.pays]
        /\ r.user \in Users
        /\ r.pays \in BOOLEAN
    BY <1>0, <1>5, RequestFields DEF ApproveAtDesk
  <2>2. [r EXCEPT !.at = "checkIn"] \in Request
    BY <2>1 DEF Request
  <2>3. Moved(r.user, "approve") \in Row
    BY <2>1, MovedType DEF TypeOK
  <2> QED
    BY <1>5, <2>1, <2>2, <2>3, StoreType, GotoType, DoneType DEF ApproveAtDesk, TypeOK, admin
<1>6. CASE CheckIn(p)
  <2>1. r.user \in Users
    BY <1>0, <1>6, RequestFields DEF CheckIn
  <2>2. [at |-> "bookCash", user |-> r.user] \in Request
    BY <2>1 DEF Request
  <2>3. Moved(r.user, "checkin") \in Row
    BY <2>1, MovedType DEF TypeOK
  <2>4. PICK step \in Request : Goto(p, step)
    BY <1>0, <1>6, <2>2 DEF CheckIn, Done
  <2> QED
    BY <1>6, <2>1, <2>3, <2>4, StoreType, GotoType DEF CheckIn, TypeOK, admin
<1>7. CASE BookCash(p)
  <2>1. r.user \in Users
    BY <1>0, <1>7, RequestFields DEF BookCash
  <2>2. [reg[r.user] EXCEPT !.paid = TRUE] \in Row
    <3>1. ASSUME NEW row \in Row PROVE [row EXCEPT !.paid = TRUE] \in Row
      BY DEF Row
    <3> QED
      BY <2>1, <3>1 DEF TypeOK
  <2> QED
    BY <1>7, <2>1, <2>2, StoreType, DoneType DEF BookCash, TypeOK, admin
<1>8. CASE Override(p)
  <2>1. r.user \in Users /\ r.expected \in Statuses /\ r.status \in Statuses
    BY <1>0, <1>8, RequestFields DEF Override
  <2>2. Overridden(r.user, r.expected, r.status) \in Row
    BY <2>1, OverriddenType DEF TypeOK
  <2>3. PICK step \in Request : Goto(p, step)
    BY <1>0, <1>8 DEF Override, Done
  <2>4. clock' \in Nat
    BY <1>8 DEF Override, TypeOK
  <2> QED
    BY <1>8, <2>1, <2>2, <2>3, <2>4, StoreType, GotoType DEF Override, TypeOK, admin
<1>9. CASE ChangeRole(p)
  <2>1. r.user \in Users /\ r.role \in ConRoles
    BY <1>0, <1>9, RequestFields DEF ChangeRole
  <2>2. [reg[r.user] EXCEPT !.role = r.role] \in Row
    <3>1. ASSUME NEW row \in Row, NEW role \in ConRoles PROVE [row EXCEPT !.role = role] \in Row
      BY DEF Row
    <3> QED
      BY <2>1, <3>1 DEF TypeOK
  <2>3. PICK step \in Request : Goto(p, step)
    BY <1>0, <1>9 DEF ChangeRole, Done
  <2> QED
    BY <1>9, <2>1, <2>2, <2>3, StoreType, GotoType DEF ChangeRole, TypeOK, admin
<1>10. CASE SaveLimits(p)
  <2>1. r.new \in LimitRow
    BY <1>0, <1>10, RequestFields DEF SaveLimits
  <2>2. PICK step \in Request : Goto(p, step)
    BY <1>0, <1>10 DEF SaveLimits
  <2> QED
    BY <1>10, <2>1, <2>2, GotoType DEF SaveLimits, TypeOK, InLockedTransaction
<1>11. CASE Promote(p)
  <2>1. CASE settings.autoPromote
    <3>1. PICK chosen \in SUBSET Waiting :
            /\ Goto(p, [at |-> "promoting", chosen |-> chosen])
            /\ eventLock' = p
      BY <1>11, <2>1 DEF Promote
    <3>2. [at |-> "promoting", chosen |-> chosen] \in Request
      BY DEF Request, Waiting
    <3> QED
      BY <1>11, <3>1, <3>2, GotoType DEF Promote, TypeOK, admin
  <2>2. CASE ~settings.autoPromote
    BY <1>11, <2>2, DoneType DEF Promote, TypeOK, admin
  <2> QED
    BY <2>1, <2>2
<1>12. CASE Promoting(p)
  <2>1. ASSUME NEW u \in Users
        PROVE  [reg[u] EXCEPT !.status = "pending", !.byLock = FALSE] \in Row
    <3>1. reg[u] \in Row /\ "pending" \in Statuses
      BY DEF TypeOK, Statuses
    <3> QED
      BY <3>1 DEF Row
  <2>2. reg' \in [Users -> Row]
    BY <1>12, <2>1 DEF Promoting, TypeOK
  <2> QED
    BY <1>12, <2>2, DoneType DEF Promoting, TypeOK, Commit, admin
<1> QED
  BY <1>1, <1>2, <1>3, <1>4, <1>5, <1>6, <1>7, <1>8, <1>9, <1>10, <1>11, <1>12
     DEF Continue

\* Every value stays in its column's type, whatever is asked for.
THEOREM TypeCorrect == Spec => []TypeOK
<1>1. TypeOK /\ [Next]_vars => TypeOK'
  <2> SUFFICES ASSUME TypeOK, [Next]_vars PROVE TypeOK'
    OBVIOUS
  <2>1. ASSUME NEW p \in Requests, Arrive(p) \/ Continue(p) PROVE TypeOK'
    BY <2>1, ArriveType, ContinueType
  <2>2. ASSUME NEW u \in Users, NEW n \in 0..MaxQuantity, ChangeExtras(u, n) PROVE TypeOK'
    <3>1. [reg[u] EXCEPT !.extras = n] \in Row
      BY DEF TypeOK, Row
    <3> QED
      BY <2>2, <3>1, StoreType DEF ChangeExtras, TypeOK, InLockedTransaction, admin
  <2>3. ASSUME NEW l \in Lodgings, NEW n \in BedCounts, SetBeds(l, n) PROVE TypeOK'
    BY <2>3, RowsAssumption DEF SetBeds, TypeOK, InLockedTransaction
  <2>4. ASSUME NEW u \in Users, Approve(u) \/ CheckOut(u) \/ SetConPayer(u) PROVE TypeOK'
    <3>1. /\ Moved(u, "approve") \in Row
          /\ Moved(u, "checkout") \in Row
      BY MovedType DEF TypeOK
    <3>2. [reg[u] EXCEPT !.conPayer = ~@] \in Row
      <4>1. reg[u] \in Row
        BY DEF TypeOK
      <4> QED
        BY <4>1, ZenonT(60) DEF Row
    <3> QED
      BY <2>4, <3>1, <3>2, StoreType DEF Approve, CheckOut, SetConPayer, TypeOK, admin
  <2>5. CASE Restart
    BY <2>5, ToPromoteType DEF Restart, TypeOK, admin
  <2>6. CASE UNCHANGED vars
    BY <2>6 DEF TypeOK, vars
  <2> QED
    BY <2>1, <2>2, <2>3, <2>4, <2>5, <2>6 DEF Next
<1> QED
  BY InitTypeOK, <1>1, PTL DEF Spec

-----------------------------------------------------------------------------
(* Every way a row changes *)

\* The rows a step may leave behind for u, by what wrote them.
Withdrawn(u, row) ==
    /\ row = NoRow
    /\ reg[u].status \in {"pending", "waitlisted"}
CharacterLost(u, row) ==
    /\ row = NoRow
    /\ \E p \in Requests : req[p].at = "dropCharacter" /\ req[p].user = u
Registered(u, row) ==
    /\ \E p \in Requests :
        Insert(p) /\ req[p].user = u /\ row.createdAt = req[p].time /\ row.waitlistedAt = 0
    /\ reg[u].status = "none"
    /\ row.status \in {"pending", "waitlisted"}
    /\ ~row.checkedIn /\ ~row.checkedOut /\ ~row.paid
AtTheDesk(u, row) ==
    \E action \in {"approve", "checkin", "checkout", "cancel"} :
        CanMove(u, action) /\ row = Moved(u, action)
ByHand(u, row) ==
    \E status \in Statuses :
        /\ row = Overridden(u, reg[u].status, status)
        /\ \/ status = "cancelled" /\ reg[u].status = "confirmed"
           \/ \E p \in Requests : /\ Override(p)
                                  /\ req[p].user = u
                                  /\ req[p].expected = reg[u].status
                                  /\ req[p].status = status
MovedUp(u, row) ==
    /\ \E p \in Requests : Promoting(p) /\ u \in req[p].chosen
    /\ reg[u].status = "waitlisted"
    /\ row = [reg[u] EXCEPT !.status = "pending", !.byLock = FALSE]
Rebooked(u, row) ==
    \/ ~reg[u].paid /\ \E n \in 0..MaxQuantity : row = [reg[u] EXCEPT !.extras = n]
    \/ \E p \in Requests, l \in Lodgings \cup {NoLodging} :
          /\ Assign(p)
          /\ reg[u].paid => Price(l) = Price(reg[u].lodging)
          /\ row = [reg[u] EXCEPT !.lodging = l]
Noted(u, row) ==
    \/ row = [reg[u] EXCEPT !.paid = TRUE]
    \/ row = [reg[u] EXCEPT !.conPayer = ~@]
    \/ /\ \E p \in Requests : req[p].at = "changeRole"
       /\ \E role \in ConRoles : row = [reg[u] EXCEPT !.role = role]
Written(u, row) ==
    \/ row = reg[u]
    \/ Withdrawn(u, row) \/ CharacterLost(u, row) \/ Registered(u, row)
    \/ AtTheDesk(u, row) \/ ByHand(u, row) \/ MovedUp(u, row)
    \/ Rebooked(u, row) \/ Noted(u, row)

\* Storing one row in one of the known ways writes every row in a known way.
LEMMA StoreWrites ==
    ASSUME reg \in [Users -> Row], NEW u \in Users, NEW row, Store(u, row), Written(u, row)
    PROVE  \A v \in Users : Written(v, reg'[v])
<1> SUFFICES ASSUME NEW v \in Users PROVE Written(v, reg'[v])
  OBVIOUS
<1>1. reg'[v] = IF v = u THEN row ELSE reg[v]
  BY DEF Store
<1>2. CASE v = u
  BY <1>1, <1>2
<1>3. CASE v # u
  BY <1>1, <1>3 DEF Written
<1> QED
  BY <1>2, <1>3

\* A step that writes no row is a known way of writing.
LEMMA NothingWrites ==
    ASSUME UNCHANGED reg
    PROVE  \A v \in Users : Written(v, reg'[v])
  BY DEF Written

\* Every step of a request under way writes rows in one of the known ways.
LEMMA ContinueWrites ==
    ASSUME TypeOK, NEW p \in Requests, Continue(p)
    PROVE  \A v \in Users : Written(v, reg'[v])
<1> DEFINE r == req[p]
<1>0. r \in Request /\ reg \in [Users -> Row]
  BY DEF TypeOK
<1>1. CASE Insert(p)
  <2> DEFINE waits == r.byLock \/ CapacityBlock(Placed, r.user, r.role)
             l == IF waits THEN NoLodging ELSE r.lodging
             status == IF waits THEN "waitlisted" ELSE "pending"
             row == [NoRow EXCEPT !.status = status, !.role = r.role, !.createdAt = r.time,
                                  !.byLock = r.byLock, !.conPayer = r.conPayer,
                                  !.extras = r.extras, !.lodging = l]
  <2>1. r.user \in Users
    BY <1>0, <1>1, RequestFields DEF Insert
  <2>2. \/ UNCHANGED reg
        \/ Store(r.user, row) /\ reg[r.user].status = "none"
    BY <1>1 DEF Insert
  <2>3. /\ row.status = status
        /\ ~row.checkedIn /\ ~row.checkedOut /\ ~row.paid
        /\ row.createdAt = r.time /\ row.waitlistedAt = 0
    BY DEF NoRow
  <2>4. status \in {"pending", "waitlisted"}
    OBVIOUS
  <2> HIDE DEF row, status
  <2>5. reg[r.user].status = "none" => Written(r.user, row)
    BY <1>1, <2>3, <2>4 DEF Written, Registered
  <2> QED
    BY <1>0, <2>1, <2>2, <2>5, StoreWrites, NothingWrites
<1>2. CASE Assign(p)
  <2>1. r.user \in Users /\ r.lodging \in Lodgings \cup {NoLodging}
    BY <1>0, <1>2, RequestFields DEF Assign
  <2>2. \/ UNCHANGED reg
        \/ /\ Store(r.user, [reg[r.user] EXCEPT !.lodging = r.lodging])
           /\ reg[r.user].paid => Price(r.lodging) = Price(reg[r.user].lodging)
    BY <1>2 DEF Assign
  <2> QED
    BY <1>0, <1>2, <2>1, <2>2, StoreWrites, NothingWrites DEF Written, Rebooked
<1>3. CASE Unregister(p)
  <2>1. r.user \in Users
    BY <1>0, <1>3, RequestFields DEF Unregister
  <2>2. \/ UNCHANGED reg
        \/ /\ reg[r.user].status = "confirmed"
           /\ Store(r.user, Overridden(r.user, "confirmed", "cancelled"))
        \/ reg[r.user].status \in {"pending", "waitlisted"} /\ Store(r.user, NoRow)
    BY <1>3 DEF Unregister, Deletable
  <2> QED
    BY <1>0, <2>1, <2>2, StoreWrites, NothingWrites DEF Written, Withdrawn, ByHand, Statuses
<1>4. CASE DropCharacter(p)
  <2>1. r.user \in Users /\ r.at = "dropCharacter"
    BY <1>0, <1>4, RequestFields DEF DropCharacter
  <2>2. UNCHANGED reg \/ Store(r.user, NoRow)
    BY <1>4 DEF DropCharacter
  <2> QED
    BY <1>0, <2>1, <2>2, StoreWrites, NothingWrites DEF Written, CharacterLost
<1>5. CASE ApproveAtDesk(p) \/ CheckIn(p)
  <2>1. r.user \in Users
    BY <1>0, <1>5, RequestFields DEF ApproveAtDesk, CheckIn
  <2>2. \/ UNCHANGED reg
        \/ \E action \in {"approve", "checkin"} :
              CanMove(r.user, action) /\ Store(r.user, Moved(r.user, action))
    BY <1>5 DEF ApproveAtDesk, CheckIn
  <2> QED
    BY <1>0, <2>1, <2>2, StoreWrites, NothingWrites DEF Written, AtTheDesk
<1>6. CASE BookCash(p)
  <2>1. r.user \in Users
    BY <1>0, <1>6, RequestFields DEF BookCash
  <2> QED
    BY <1>0, <1>6, <2>1, StoreWrites, NothingWrites DEF BookCash, Written, Noted
<1>7. CASE Override(p)
  <2>1. r.user \in Users /\ r.status \in Statuses
    BY <1>0, <1>7, RequestFields DEF Override
  <2>2. \/ UNCHANGED reg
        \/ /\ r.expected = reg[r.user].status
           /\ Store(r.user, Overridden(r.user, reg[r.user].status, r.status))
    BY <1>7 DEF Override
  <2> QED
    BY <1>0, <1>7, <2>1, <2>2, StoreWrites, NothingWrites DEF Written, ByHand
<1>8. CASE ChangeRole(p)
  <2>1. r.user \in Users /\ r.role \in ConRoles
    BY <1>0, <1>8, RequestFields DEF ChangeRole
  <2> QED
    BY <1>0, <1>8, <2>1, StoreWrites, NothingWrites DEF ChangeRole, Written, Noted
<1>9. CASE SaveLimits(p) \/ Promote(p)
  BY <1>9, NothingWrites DEF SaveLimits, Promote
<1>10. CASE Promoting(p)
  BY <1>10 DEF Promoting, Written, MovedUp
<1> QED
  BY <1>1, <1>2, <1>3, <1>4, <1>5, <1>6, <1>7, <1>8, <1>9, <1>10 DEF Continue

\* No step of the system writes a row in any other way.
LEMMA NextWrites ==
    ASSUME TypeOK, [Next]_vars
    PROVE  \A v \in Users : Written(v, reg'[v])
<1>0. reg \in [Users -> Row]
  BY DEF TypeOK
<1>1. ASSUME NEW p \in Requests, Continue(p) PROVE \A v \in Users : Written(v, reg'[v])
  BY <1>1, ContinueWrites
<1>2. ASSUME NEW p \in Requests, Cancel(p) PROVE \A v \in Users : Written(v, reg'[v])
  BY <1>0, <1>2, StoreWrites DEF Cancel, Written, AtTheDesk
<1>3. ASSUME NEW p \in Requests, Arrive(p), ~Cancel(p) PROVE UNCHANGED reg
  BY <1>3 DEF Arrive, RegisterStart, AssignStart, UnregisterStart, DropCharacterStart,
              CheckInStart, OverrideStart, ChangeRoleStart, SaveLimitsStart, SaveLock,
              SaveSettings
<1>4. ASSUME NEW u \in Users, NEW n \in 0..MaxQuantity, ChangeExtras(u, n)
      PROVE  \A v \in Users : Written(v, reg'[v])
  BY <1>0, <1>4, StoreWrites DEF ChangeExtras, ExtrasOpen, Written, Rebooked
<1>5. ASSUME NEW l \in Lodgings, NEW n \in BedCounts, SetBeds(l, n) PROVE UNCHANGED reg
  BY <1>5 DEF SetBeds
<1>6. ASSUME NEW u \in Users, Approve(u) \/ CheckOut(u)
      PROVE  \A v \in Users : Written(v, reg'[v])
  BY <1>0, <1>6, StoreWrites DEF Approve, CheckOut, Written, AtTheDesk
<1>7. ASSUME NEW u \in Users, SetConPayer(u)
      PROVE  \A v \in Users : Written(v, reg'[v])
  BY <1>0, <1>7, StoreWrites DEF SetConPayer, Written, Noted
<1>8. CASE Restart \/ UNCHANGED vars
  BY <1>8, NothingWrites DEF Restart, vars
<1> QED
  BY <1>1, <1>2, <1>3, <1>4, <1>5, <1>6, <1>7, <1>8, NothingWrites DEF Next

-----------------------------------------------------------------------------
(* The properties that follow from how rows are written *)

\* A row whose timestamps say what its status says.
Stamped(row) ==
    /\ row.status = "checked_in" => row.checkedIn
    /\ row.checkedOut <=> row.status = "checked_out"
    /\ row.checkedIn => row.status \in {"checked_in", "checked_out"}

\* None of the ways of writing sets a timestamp that contradicts the status.
LEMMA WrittenIsStamped ==
    ASSUME reg \in [Users -> Row], NEW u \in Users, Stamped(reg[u]),
           NEW row, Written(u, row)
    PROVE  Stamped(row)
<1>0. reg[u] \in Row
  OBVIOUS
<1>1. CASE row = reg[u]
  BY <1>1
<1>2. CASE Withdrawn(u, row) \/ CharacterLost(u, row)
  BY <1>2 DEF Withdrawn, CharacterLost, NoRow, Stamped
<1>3. CASE Registered(u, row)
  BY <1>3 DEF Registered, Stamped
<1>4. CASE AtTheDesk(u, row)
  <2>1. PICK action \in {"approve", "checkin", "checkout", "cancel"} :
          CanMove(u, action) /\ row = Moved(u, action)
    BY <1>4 DEF AtTheDesk
  <2>2. /\ row.status = To[action]
        /\ row.checkedIn = (reg[u].checkedIn \/ action = "checkin")
        /\ row.checkedOut = (reg[u].checkedOut \/ action = "checkout")
    BY <1>0, <2>1 DEF Moved, Row
  <2>3. reg[u].status \in From[action]
    BY <2>1 DEF CanMove
  <2>4. CASE action = "approve"
    BY <2>2, <2>3, <2>4 DEF Stamped, From, To
  <2>5. CASE action = "checkin"
    BY <2>2, <2>3, <2>5 DEF Stamped, From, To
  <2>6. CASE action = "checkout"
    BY <2>2, <2>3, <2>6 DEF Stamped, From, To
  <2>7. CASE action = "cancel"
    BY <2>2, <2>3, <2>7 DEF Stamped, From, To
  <2> QED
    BY <2>4, <2>5, <2>6, <2>7
<1>5. CASE ByHand(u, row)
  <2>1. PICK status \in Statuses : row = Overridden(u, reg[u].status, status)
    BY <1>5 DEF ByHand
  <2>2. /\ row.status = status
        /\ row.checkedIn = ((status = "checked_in")
                              \/ (status = "checked_out" /\ reg[u].checkedIn))
        /\ row.checkedOut = (status = "checked_out")
    BY <1>0, <2>1 DEF Overridden, Row
  <2> QED
    BY <2>2 DEF Stamped
<1>6. CASE MovedUp(u, row) \/ Rebooked(u, row) \/ Noted(u, row)
  <2>1. /\ row.checkedIn = reg[u].checkedIn
        /\ row.checkedOut = reg[u].checkedOut
        /\ \/ row.status = reg[u].status
           \/ row.status = "pending" /\ reg[u].status = "waitlisted"
    BY <1>0, <1>6 DEF MovedUp, Rebooked, Noted, Row
  <2> QED
    BY <2>1 DEF Stamped
<1> QED
  BY <1>1, <1>2, <1>3, <1>4, <1>5, <1>6 DEF Written

\* The desk's timestamps and the status never disagree.
THEOREM StampsCorrect == Spec => []StampsMatchStatus
<1>1. Init => StampsMatchStatus
  BY DEF Init, StampsMatchStatus, NoRow
<1>2. TypeOK /\ StampsMatchStatus /\ [Next]_vars => StampsMatchStatus'
  <2> SUFFICES ASSUME TypeOK, StampsMatchStatus, [Next]_vars,
                      NEW u \in Users
               PROVE  Stamped(reg'[u])
    BY DEF StampsMatchStatus, Stamped
  <2>1. Stamped(reg[u])
    BY DEF StampsMatchStatus, Stamped
  <2>2. Written(u, reg'[u])
    BY NextWrites
  <2> QED
    BY <2>1, <2>2, WrittenIsStamped DEF TypeOK
<1> QED
  BY <1>1, <1>2, TypeCorrect, PTL DEF Spec

\* Only the loss of a character deletes a row past the waitlist.
LEMMA WrittenKeepsConfirmed ==
    ASSUME reg \in [Users -> Row], NEW u \in Users, NEW row, Written(u, row),
           row.status = "none",
           reg[u].status \notin {"none", "pending", "waitlisted"}
    PROVE  CharacterLost(u, row)
<1>0. reg[u] \in Row
  OBVIOUS
<1>1. ~Withdrawn(u, row) /\ ~Registered(u, row)
  BY DEF Withdrawn, Registered
<1>2. ~AtTheDesk(u, row)
  <2>1. ASSUME NEW action \in {"approve", "checkin", "checkout", "cancel"}
        PROVE  Moved(u, action).status # "none"
    <3>1. To[action] # "none"
      BY DEF To
    <3> QED
      BY <1>0, <3>1 DEF Moved, Row
  <2> QED
    BY <2>1 DEF AtTheDesk
<1>3. ~ByHand(u, row)
  BY <1>0 DEF ByHand, Overridden, Row, Statuses
<1>4. ~MovedUp(u, row) /\ ~Rebooked(u, row) /\ ~Noted(u, row)
  BY <1>0 DEF MovedUp, Rebooked, Noted, Row
<1> QED
  BY <1>1, <1>2, <1>3, <1>4 DEF Written

\* Withdrawing never deletes a registration somebody else confirmed meanwhile.
THEOREM ConfirmedIsKeptCorrect == Spec => ConfirmedIsKept
<1>1. ASSUME TypeOK, [Next]_vars, NEW u \in Users, reg'[u].status = "none",
             reg[u].status \notin {"none", "pending", "waitlisted"}
      PROVE  \E p \in Requests : req[p].at = "dropCharacter" /\ req[p].user = u
  BY <1>1, NextWrites, WrittenKeepsConfirmed DEF TypeOK, CharacterLost
<1>2. TypeOK /\ [Next]_vars =>
        [\A u \in Users :
           reg'[u].status = "none" /\ reg[u].status \notin {"none", "pending", "waitlisted"}
             => \E p \in Requests : req[p].at = "dropCharacter" /\ req[p].user = u]_vars
  BY <1>1
<1> QED
  BY <1>2, TypeCorrect, PTL DEF Spec, ConfirmedIsKept

\* None of the ways of writing re-prices a row that stays paid.
LEMMA WrittenKeepsPaid ==
    ASSUME reg \in [Users -> Row], NEW u \in Users, NEW row, Written(u, row),
           reg[u].paid, row.paid
    PROVE  row.extras = reg[u].extras /\ Price(row.lodging) = Price(reg[u].lodging)
<1>0. reg[u] \in Row
  OBVIOUS
<1>1. ~Withdrawn(u, row) /\ ~CharacterLost(u, row) /\ ~Registered(u, row)
  BY DEF Withdrawn, CharacterLost, Registered, NoRow
<1>2. CASE AtTheDesk(u, row)
  BY <1>0, <1>2 DEF AtTheDesk, Moved, Row
<1>3. CASE ByHand(u, row)
  BY <1>0, <1>3 DEF ByHand, Overridden, Row
<1>4. CASE MovedUp(u, row) \/ Noted(u, row)
  BY <1>0, <1>4 DEF MovedUp, Noted, Row
<1>5. CASE Rebooked(u, row)
  BY <1>0, <1>5 DEF Rebooked, Row
<1> QED
  BY <1>1, <1>2, <1>3, <1>4, <1>5 DEF Written

\* What was paid for stays what was booked.
THEOREM PaidBookingIsFixedCorrect == Spec => PaidBookingIsFixed
<1>1. ASSUME TypeOK, [Next]_vars, NEW u \in Users, reg[u].paid, reg'[u].paid
      PROVE  /\ reg'[u].extras = reg[u].extras
             /\ Price(reg'[u].lodging) = Price(reg[u].lodging)
  BY <1>1, NextWrites, WrittenKeepsPaid DEF TypeOK
<1>2. TypeOK /\ [Next]_vars =>
        [\A u \in Users :
           reg[u].paid /\ reg'[u].paid =>
             /\ reg'[u].extras = reg[u].extras
             /\ Price(reg'[u].lodging) = Price(reg[u].lodging)]_vars
  BY <1>1
<1> QED
  BY <1>2, TypeCorrect, PTL DEF Spec, PaidBookingIsFixed

-----------------------------------------------------------------------------
(* Every way a request goes on *)

\* Waits in which a request neither holds the event row nor is about to take
\* anybody onto a place by itself.
QuietWaits == {"idle", "promote", "assign", "unregister", "dropCharacter",
               "approve", "checkIn", "bookCash"}

Follows(p, step) ==
    \/ /\ step.at \in QuietWaits
       /\ step.at = "assign" => AssignStart(p)
       /\ req[p].at # "promoting"
       /\ UNCHANGED eventLock
    \/ RegisterStart(p) /\ step.at = "insert" /\ step.time = clock + 1
    \/ OverrideStart(p) /\ step.at = "override" /\ <<step.expected, step.status>> \in Overrides
    \/ ChangeRoleStart(p) /\ step.at = "changeRole"
    \/ SaveLimitsStart(p) /\ step.at = "saveLimits"
    \/ Promote(p) /\ step.at = "promoting" /\ eventLock' = p
    \/ Promoting(p) /\ step = Idle

\* A request that begins goes where its own operation sends it, and takes no
\* lock.
LEMMA ArriveFollows ==
    ASSUME TypeOK, NEW p \in Requests, Arrive(p)
    PROVE  \E step : Goto(p, step) /\ Follows(p, step)
<1> USE DEF Follows, QuietWaits
<1>0. req[p] = Idle /\ Idle.at = "idle" /\ ToPromote.at = "promote"
  BY DEF Arrive, RegisterStart, AssignStart, UnregisterStart, Cancel, DropCharacterStart,
         CheckInStart, OverrideStart, ChangeRoleStart, SaveLimitsStart, SaveLock,
         SaveSettings, Begin, Idle, ToPromote
<1>1. CASE RegisterStart(p)
  <2>1. PICK u \in Users, role \in AskedRoles, payer \in Payers, n \in 0..MaxQuantity,
             l \in Lodgings \cup {NoLodging}, byLock \in BOOLEAN :
          Goto(p, [at |-> "insert", user |-> u, role |-> role, byLock |-> byLock,
                   conPayer |-> payer, extras |-> n, lodging |-> l,
                   places |-> Places(l), time |-> clock + 1])
    BY <1>1, ZenonT(60) DEF RegisterStart, LockCovers
  <2> QED
    BY <1>1, <2>1
<1>2. CASE AssignStart(p)
  BY <1>0, <1>2 DEF AssignStart
<1>3. CASE UnregisterStart(p)
  BY <1>0, <1>3 DEF UnregisterStart
<1>4. CASE Cancel(p)
  BY <1>0, <1>4 DEF Cancel
<1>5. CASE DropCharacterStart(p)
  BY <1>0, <1>5 DEF DropCharacterStart
<1>6. CASE CheckInStart(p)
  <2>1. PICK u \in Users, paidConfirmed \in BOOLEAN :
          Goto(p, [at |-> IF reg[u].status = "pending" /\ reg[u].conPayer
                          THEN "approve" ELSE "checkIn",
                   user |-> u, pays |-> paidConfirmed /\ ~reg[u].paid])
    BY <1>6 DEF CheckInStart
  <2> QED
    BY <1>0, <1>6, <2>1 DEF CheckInStart
<1>7. CASE OverrideStart(p)
  <2>1. PICK u \in Users, pair \in Overrides :
          Goto(p, [at |-> "override", user |-> u, expected |-> pair[1], status |-> pair[2]])
    BY <1>7 DEF OverrideStart
  <2>2. pair = <<pair[1], pair[2]>>
    BY RowsAssumption
  <2> QED
    BY <1>7, <2>1, <2>2
<1>8. CASE ChangeRoleStart(p)
  <2>1. PICK u \in Users, role \in AskedRoles :
          Goto(p, [at |-> "changeRole", user |-> u, role |-> role,
                   changed |-> reg[u].status # "none" /\ reg[u].role # role])
    BY <1>8 DEF ChangeRoleStart
  <2> QED
    BY <1>8, <2>1
<1>9. CASE SaveLimitsStart(p)
  BY <1>9 DEF SaveLimitsStart
<1>10. CASE SaveLock(p)
  BY <1>0, <1>10 DEF SaveLock, InLockedTransaction
<1>11. CASE SaveSettings(p)
  BY <1>0, <1>11 DEF SaveSettings
<1> QED
  BY <1>1, <1>2, <1>3, <1>4, <1>5, <1>6, <1>7, <1>8, <1>9, <1>10, <1>11 DEF Arrive

\* A request under way goes where its own step sends it; only a promotion locks
\* the event row, and only its end frees it.
LEMMA ContinueFollows ==
    ASSUME TypeOK, NEW p \in Requests, Continue(p)
    PROVE  \E step : Goto(p, step) /\ Follows(p, step)
<1> USE DEF Follows, QuietWaits
<1>0. Idle.at = "idle" /\ ToPromote.at = "promote"
  BY DEF Idle, ToPromote
<1>1. CASE Insert(p) \/ Assign(p)
  BY <1>0, <1>1 DEF Insert, Assign, InLockedTransaction, Done
<1>2. CASE Unregister(p) \/ DropCharacter(p)
  BY <1>0, <1>2 DEF Unregister, DropCharacter, Done
<1>3. CASE ApproveAtDesk(p)
  <2>1. [req[p] EXCEPT !.at = "checkIn"].at = "checkIn"
    BY <1>3, RequestFields DEF ApproveAtDesk, TypeOK
  <2> QED
    BY <1>0, <1>3, <2>1 DEF ApproveAtDesk, Done
<1>4. CASE CheckIn(p) \/ BookCash(p)
  BY <1>0, <1>4 DEF CheckIn, BookCash, Done
<1>5. CASE Override(p) \/ ChangeRole(p)
  BY <1>0, <1>5 DEF Override, ChangeRole, Done
<1>6. CASE SaveLimits(p)
  BY <1>0, <1>6 DEF SaveLimits, InLockedTransaction
<1>7. CASE Promote(p)
  <2>1. CASE settings.autoPromote
    <3>1. PICK chosen \in SUBSET Waiting :
            Goto(p, [at |-> "promoting", chosen |-> chosen]) /\ eventLock' = p
      BY <1>7, <2>1 DEF Promote
    <3> QED
      BY <1>7, <3>1
  <2>2. CASE ~settings.autoPromote
    BY <1>0, <1>7, <2>2 DEF Promote, Done
  <2> QED
    BY <2>1, <2>2
<1>8. CASE Promoting(p)
  BY <1>8 DEF Promoting, Done
<1> QED
  BY <1>1, <1>2, <1>3, <1>4, <1>5, <1>6, <1>7, <1>8 DEF Continue

\* Steps outside the requests leave them and the lock alone, except a restart.
LEMMA OthersLeaveRequests ==
    ASSUME [Next]_vars, ~ \E p \in Requests : Arrive(p) \/ Continue(p)
    PROVE  \/ UNCHANGED <<req, eventLock>>
           \/ req' = [p \in Requests |-> Idle] /\ eventLock' = Nobody
  BY DEF Next, ChangeExtras, SetBeds, Approve, CheckOut, SetConPayer, Restart,
         InLockedTransaction, vars

\* The event row is locked by a running promotion, and by nothing else.
THEOREM LockCorrect == Spec => []LockHeldByPromotion
<1>1. Init => LockHeldByPromotion
  BY NullAssumption DEF Init, LockHeldByPromotion, Idle
<1>2. TypeOK /\ LockHeldByPromotion /\ [Next]_vars => LockHeldByPromotion'
  <2> SUFFICES ASSUME TypeOK, LockHeldByPromotion, [Next]_vars,
                      NEW q \in Requests
               PROVE  req'[q].at = "promoting" <=> eventLock' = q
    BY DEF LockHeldByPromotion
  <2> USE DEF LockHeldByPromotion
  <2>1. CASE \E p \in Requests : Arrive(p) \/ Continue(p)
    <3>0. PICK p \in Requests : \E step : Goto(p, step) /\ Follows(p, step)
      BY <2>1, ArriveFollows, ContinueFollows
    <3>1. PICK step : Goto(p, step) /\ Follows(p, step)
      BY <3>0
    <3>2. req'[q] = IF q = p THEN step ELSE req[q]
      BY <3>1 DEF Goto, TypeOK
    <3>3. CASE step.at \in QuietWaits /\ req[p].at # "promoting" /\ UNCHANGED eventLock
      BY <3>2, <3>3 DEF QuietWaits
    <3>4. CASE RegisterStart(p) \/ OverrideStart(p) \/ ChangeRoleStart(p) \/ SaveLimitsStart(p)
      <4>1. req[p].at = "idle" /\ UNCHANGED eventLock
        BY <3>4 DEF RegisterStart, OverrideStart, ChangeRoleStart, SaveLimitsStart, Begin, Idle
      <4>2. step.at # "promoting"
        BY <3>1, <3>4, <4>1 DEF Follows, QuietWaits, Promote, Promoting
      <4> QED
        BY <3>2, <4>1, <4>2
    <3>5. CASE Promote(p) /\ step.at = "promoting" /\ eventLock' = p
      BY <3>2, <3>5, NullAssumption DEF Promote, EventRowFree
    <3>6. CASE Promoting(p) /\ step = Idle
      <4>1. eventLock = p /\ eventLock' = Nobody /\ Idle.at = "idle"
        BY <3>6 DEF Promoting, Commit, Idle
      <4> QED
        BY <3>2, <3>6, <4>1, NullAssumption
    <3> QED
      BY <3>1, <3>3, <3>4, <3>5, <3>6 DEF Follows
  <2>2. CASE ~ \E p \in Requests : Arrive(p) \/ Continue(p)
    BY <2>2, OthersLeaveRequests, NullAssumption DEF Idle
  <2> QED
    BY <2>1, <2>2
<1> QED
  BY <1>1, <1>2, TypeCorrect, PTL DEF Spec

-----------------------------------------------------------------------------
(* Why no limit is exceeded: the proof of WithinLimits for every number of *)
(* people, requests and places.                                            *)
(*                                                                         *)
(* It needs that people are only taken onto a place under the lock of the  *)
(* event row (registering and moving up).  setConRole and a status set by  *)
(* hand do it without that lock; what they can do instead is shown by a    *)
(* counterexample of TLC, see README.md.                                   *)
OnlyLockedAdmissions ==
    /\ Ops \cap {"changeRole", "limits", "settings"} = {}
    /\ \A pair \in Overrides : pair[2] \in CountedStatuses => pair[1] \in CountedStatuses

-----------------------------------------------------------------------------
(* The inductive invariant *)

\* Nothing under way takes anybody onto a place without the lock.
NothingUnlocked ==
    \A p \in Requests :
        /\ req[p].at \notin {"changeRole", "saveLimits"}
        /\ req[p].at = "override" =>
              (req[p].status \in CountedStatuses => req[p].expected \in CountedStatuses)

\* Timestamps of the queue are handed out once: no two people share one, and
\* none lies in the future or belongs to a registration still to be inserted.
HasRow == {u \in Users : reg[u].status # "none"}
TimesOf(u) == {reg[u].createdAt, reg[u].waitlistedAt} \ {0}
TimesApart ==
    /\ \A u \in HasRow : reg[u].createdAt # 0 /\ \A t \in TimesOf(u) : t <= clock
    /\ \A u, v \in HasRow : u # v => TimesOf(u) \cap TimesOf(v) = {}
    /\ \A p \in Requests : req[p].at = "insert" =>
          /\ req[p].time \in 1..clock
          /\ \A u \in HasRow : req[p].time \notin TimesOf(u)
          /\ \A q \in Requests : q # p /\ req[q].at = "insert" => req[q].time # req[p].time

\* The places taken, together with those a running promotion is about to give.
Reserved ==
    {u \in Users : /\ reg[u].status # "none"
                   /\ TakesPlace(u, reg[u].role)
                   /\ \E p \in Requests : req[p].at = "promoting" /\ u \in req[p].chosen}
Fits ==
    \A kind \in LimitKinds :
        \/ limit[kind] = Unlimited
        \/ Cardinality(Holders(Placed \cup Reserved, kind)) <= limit[kind]

IInv == TypeOK /\ LockHeldByPromotion /\ NothingUnlocked /\ TimesApart /\ Fits

-----------------------------------------------------------------------------
(* Nothing unlocked *)

\* Every request's record is as it was, or the next step of its own action.
LEMMA RequestsFollow ==
    ASSUME TypeOK, [Next]_vars, NEW q \in Requests
    PROVE  \/ req'[q] = req[q]
           \/ req'[q] = Idle
           \/ Follows(q, req'[q])
<1>1. CASE \E p \in Requests : Arrive(p) \/ Continue(p)
  <2>0. PICK p \in Requests : \E step : Goto(p, step) /\ Follows(p, step)
    BY <1>1, ArriveFollows, ContinueFollows
  <2>1. PICK step : Goto(p, step) /\ Follows(p, step)
    BY <2>0
  <2>2. req'[q] = IF q = p THEN step ELSE req[q]
    BY <2>1 DEF Goto, TypeOK
  <2> QED
    BY <2>1, <2>2
<1>2. CASE ~ \E p \in Requests : Arrive(p) \/ Continue(p)
  BY <1>2, OthersLeaveRequests
<1> QED
  BY <1>1, <1>2

\* No step starts or keeps a request that could take a place without the lock.
LEMMA NothingUnlockedStep ==
    ASSUME OnlyLockedAdmissions, TypeOK, NothingUnlocked, [Next]_vars
    PROVE  NothingUnlocked'
<1> SUFFICES ASSUME NEW q \in Requests
             PROVE  /\ req'[q].at \notin {"changeRole", "saveLimits"}
                    /\ req'[q].at = "override" =>
                         (req'[q].status \in CountedStatuses
                            => req'[q].expected \in CountedStatuses)
  BY DEF NothingUnlocked
<1>1. CASE req'[q] = req[q]
  BY <1>1 DEF NothingUnlocked
<1>2. CASE req'[q] = Idle
  BY <1>2 DEF Idle
<1>3. CASE Follows(q, req'[q])
  <2>1. ~ChangeRoleStart(q) /\ ~SaveLimitsStart(q)
    BY DEF ChangeRoleStart, SaveLimitsStart, Begin, OnlyLockedAdmissions
  <2>2. CASE OverrideStart(q) /\ req'[q].at = "override"
             /\ <<req'[q].expected, req'[q].status>> \in Overrides
    BY <2>2 DEF OnlyLockedAdmissions
  <2> QED
    BY <1>3, <2>1, <2>2 DEF Follows, QuietWaits, Idle
<1> QED
  BY <1>1, <1>2, <1>3, RequestsFollow

-----------------------------------------------------------------------------
(* Timestamps are handed out once *)

\* now() stands still or moves on by one tick.
LEMMA ClockStep ==
    ASSUME TypeOK, [Next]_vars
    PROVE  clock' = clock \/ clock' = clock + 1
<1>1. ASSUME NEW p \in Requests, Arrive(p) \/ Continue(p)
      PROVE  clock' = clock \/ clock' = clock + 1
  BY <1>1 DEF Arrive, RegisterStart, AssignStart, UnregisterStart, Cancel,
       DropCharacterStart, CheckInStart, OverrideStart, ChangeRoleStart, SaveLimitsStart,
       SaveLock, SaveSettings, Continue, Insert, Assign, Unregister, DropCharacter,
       ApproveAtDesk, CheckIn, BookCash, Override, ChangeRole, SaveLimits, Promote, Promoting
<1> QED
  BY <1>1 DEF Next, ChangeExtras, SetBeds, Approve, CheckOut, SetConPayer, Restart, vars

\* Where the timestamps of a row come from.
LEMMA TimesStep ==
    ASSUME TypeOK, [Next]_vars, NEW u \in Users, reg'[u].status # "none"
    PROVE  \/ /\ reg[u].status # "none"
              /\ reg'[u].createdAt = reg[u].createdAt
              /\ reg'[u].waitlistedAt \in {0, reg[u].waitlistedAt}
           \/ \E p \in Requests : /\ Insert(p)
                                  /\ reg'[u].createdAt = req[p].time
                                  /\ reg'[u].waitlistedAt = 0
                                  /\ req[p].user = u
           \/ \E p \in Requests : /\ Override(p)
                                  /\ req[p].user = u
                                  /\ reg[u].status # "none"
                                  /\ reg'[u].createdAt = reg[u].createdAt
                                  /\ reg'[u].waitlistedAt = clock + 1
                                  /\ clock' = clock + 1
<1> DEFINE row == reg'[u]
<1>0. reg[u] \in Row /\ Written(u, row)
  BY NextWrites DEF TypeOK
<1>1. CASE row = reg[u]
  BY <1>1
<1>2. CASE Withdrawn(u, row) \/ CharacterLost(u, row)
  BY <1>2 DEF Withdrawn, CharacterLost, NoRow
<1>3. CASE Registered(u, row)
  BY <1>3 DEF Registered
<1>4. CASE AtTheDesk(u, row)
  <2>1. PICK action \in {"approve", "checkin", "checkout", "cancel"} :
          CanMove(u, action) /\ row = Moved(u, action)
    BY <1>4 DEF AtTheDesk
  <2>2. row.createdAt = reg[u].createdAt /\ row.waitlistedAt = reg[u].waitlistedAt
    BY <1>0, <2>1 DEF Moved, Row
  <2>3. reg[u].status # "none"
    <3>1. "none" \notin From[action]
      BY DEF From
    <3> QED
      BY <2>1, <3>1 DEF CanMove
  <2> QED
    BY <2>2, <2>3
<1>5. CASE ByHand(u, row)
  <2>1. PICK status \in Statuses :
          /\ row = Overridden(u, reg[u].status, status)
          /\ \/ status = "cancelled" /\ reg[u].status = "confirmed"
             \/ \E p \in Requests : /\ Override(p)
                                    /\ req[p].user = u
                                    /\ req[p].expected = reg[u].status
                                    /\ req[p].status = status
    BY <1>5 DEF ByHand
  <2>2. /\ row.createdAt = reg[u].createdAt
        /\ row.waitlistedAt = IF Rejoins(reg[u].status, status) THEN clock + 1
                              ELSE IF status = "waitlisted" THEN reg[u].waitlistedAt ELSE 0
    BY <1>0, <2>1 DEF Overridden, Row
  <2>3. CASE status = "cancelled" /\ reg[u].status = "confirmed"
    BY <2>2, <2>3 DEF Rejoins
  <2>4. CASE \E p \in Requests : /\ Override(p)
                                 /\ req[p].user = u
                                 /\ req[p].expected = reg[u].status
                                 /\ req[p].status = status
    <3>1. PICK p \in Requests : /\ Override(p)
                                /\ req[p].user = u
                                /\ req[p].expected = reg[u].status
                                /\ req[p].status = status
      BY <2>4
    <3>2. reg[u].status # "none"
      BY <3>1, RequestFields DEF Override, TypeOK, Statuses
    <3>3. clock' = IF Rejoins(reg[u].status, status) THEN clock + 1 ELSE clock
      BY <3>1 DEF Override
    <3> QED
      BY <2>2, <3>1, <3>2, <3>3
  <2> QED
    BY <2>1, <2>3, <2>4
<1>6. CASE MovedUp(u, row) \/ Rebooked(u, row) \/ Noted(u, row)
  <2>1. /\ row.createdAt = reg[u].createdAt /\ row.waitlistedAt = reg[u].waitlistedAt
        /\ row.status = reg[u].status \/ reg[u].status = "waitlisted"
    BY <1>0, <1>6 DEF MovedUp, Rebooked, Noted, Row
  <2> QED
    BY <2>1
<1> QED
  BY <1>0, <1>1, <1>2, <1>3, <1>4, <1>5, <1>6 DEF Written

\* Two requests never write in one step.
LEMMA OneWriter ==
    ASSUME TypeOK, NEW p \in Requests, NEW q \in Requests,
           Insert(p) \/ Override(p), Insert(q) \/ Override(q)
    PROVE  p = q
<1>1. PICK step : Goto(p, step)
  BY DEF Insert, Override, Done
<1>2. req'[q].at \in {"idle", "promote"} /\ req[q].at \in {"insert", "override"}
  BY DEF Insert, Override, Done, Goto, Idle, ToPromote, TypeOK
<1>3. p # q => req'[q] = req[q]
  BY <1>1 DEF Goto, TypeOK
<1> QED
  BY <1>2, <1>3

\* The timestamps of a row after a step: as before, those of its insertion, or
\* with the tick of its return to the waitlist.
Kept(u) == u \in HasRow /\ TimesOf(u)' \subseteq TimesOf(u)
Inserted(u) ==
    \E p \in Requests : Insert(p) /\ req[p].user = u /\ TimesOf(u)' = {req[p].time} \ {0}
Requeued(u) ==
    /\ u \in HasRow
    /\ TimesOf(u)' \subseteq TimesOf(u) \cup {clock + 1}
    /\ clock' = clock + 1
    /\ \E p \in Requests : Override(p) /\ req[p].user = u

\* Every row after a step has the timestamps it had, those of its insertion, or
\* a new one for its return to the waitlist.
LEMMA RowTimes ==
    ASSUME TypeOK, [Next]_vars, NEW u \in Users, u \in HasRow'
    PROVE  /\ Kept(u) \/ Inserted(u) \/ Requeued(u)
           /\ \/ u \in HasRow /\ reg'[u].createdAt = reg[u].createdAt
              \/ \E p \in Requests : Insert(p) /\ reg'[u].createdAt = req[p].time
<1>0. reg'[u].status # "none"
  BY DEF HasRow
<1>1. CASE /\ reg[u].status # "none"
           /\ reg'[u].createdAt = reg[u].createdAt
           /\ reg'[u].waitlistedAt \in {0, reg[u].waitlistedAt}
  BY <1>1 DEF Kept, HasRow, TimesOf
<1>2. CASE \E p \in Requests : /\ Insert(p)
                               /\ reg'[u].createdAt = req[p].time
                               /\ reg'[u].waitlistedAt = 0
                               /\ req[p].user = u
  BY <1>2 DEF Inserted, TimesOf
<1>3. CASE \E p \in Requests : /\ Override(p)
                               /\ req[p].user = u
                               /\ reg[u].status # "none"
                               /\ reg'[u].createdAt = reg[u].createdAt
                               /\ reg'[u].waitlistedAt = clock + 1
                               /\ clock' = clock + 1
  BY <1>3 DEF Requeued, HasRow, TimesOf
<1> QED
  BY <1>0, <1>1, <1>2, <1>3, TimesStep

\* A request about to insert was already, or has just drawn the next tick.
LEMMA InsertTimes ==
    ASSUME TypeOK, [Next]_vars, NEW p \in Requests, req'[p].at = "insert"
    PROVE  \/ req'[p] = req[p] /\ ~Insert(p)
           \/ RegisterStart(p) /\ req'[p].time = clock + 1
<1>1. Insert(p) => req'[p] = Idle
  BY DEF Insert, Done, Goto, TypeOK
<1>2. CASE req'[p] = req[p]
  BY <1>1, <1>2 DEF Idle
<1>3. CASE Follows(p, req'[p])
  BY <1>3 DEF Follows, QuietWaits, Idle
<1> QED
  BY <1>2, <1>3, RequestsFollow DEF Idle

\* No step hands a timestamp out a second time.
LEMMA TimesApartStep ==
    ASSUME TypeOK, TimesApart, [Next]_vars
    PROVE  TimesApart'
<1>0. /\ clock \in Nat /\ clock' \in Nat /\ clock <= clock'
      /\ \A u \in HasRow : u \in Users /\ \A t \in TimesOf(u) : t \in Nat /\ t <= clock
  <2>1. \A u \in Users : reg[u].createdAt \in Nat /\ reg[u].waitlistedAt \in Nat
    BY DEF TypeOK, Row
  <2> QED
    BY <2>1, ClockStep DEF TypeOK, TimesApart, TimesOf, HasRow
<1>1. ASSUME NEW p \in Requests, Insert(p)
      PROVE  /\ clock' = clock
             /\ req[p].at = "insert"
             /\ req[p].time \in 1..clock
             /\ \A u \in HasRow : req[p].time \notin TimesOf(u)
  BY <1>1 DEF Insert, TimesApart
<1>2. ASSUME NEW u \in HasRow'
      PROVE  /\ reg'[u].createdAt # 0
             /\ \A t \in TimesOf(u)' : t <= clock'
  <2>0. u \in Users
    BY DEF HasRow
  <2>1. reg'[u].createdAt # 0
    BY <1>0, <1>1, <2>0, RowTimes DEF TimesApart
  <2>2. CASE Kept(u)
    BY <1>0, <2>1, <2>2 DEF Kept
  <2>3. CASE Inserted(u)
    BY <1>0, <1>1, <2>1, <2>3 DEF Inserted
  <2>4. CASE Requeued(u)
    BY <1>0, <2>1, <2>4 DEF Requeued
  <2> QED
    BY <2>0, <2>1, <2>2, <2>3, <2>4, RowTimes
<1>3. ASSUME NEW u \in HasRow', NEW v \in HasRow', u # v
      PROVE  TimesOf(u)' \cap TimesOf(v)' = {}
  <2>0. u \in Users /\ v \in Users
    BY DEF HasRow
  <2>1. ASSUME NEW a \in Users, NEW b \in Users, a # b, Inserted(a)
        PROVE  ~Inserted(b) /\ ~Requeued(b)
    <3>1. PICK p \in Requests : Insert(p) /\ req[p].user = a
      BY <2>1 DEF Inserted
    <3> QED
      BY <2>1, <3>1, <1>1, <1>0, OneWriter DEF Inserted, Requeued
  <2>2. ASSUME NEW a \in Users, NEW b \in Users, Inserted(a), Kept(b)
        PROVE  TimesOf(a)' \cap TimesOf(b)' = {}
    <3>1. PICK p \in Requests : Insert(p) /\ TimesOf(a)' = {req[p].time} \ {0}
      BY <2>2 DEF Inserted
    <3> QED
      BY <2>2, <3>1, <1>1 DEF Kept
  <2>3. ASSUME NEW a \in Users, NEW b \in Users, a # b, Requeued(a), Kept(b)
        PROVE  TimesOf(a)' \cap TimesOf(b)' = {}
    <3>1. a \in HasRow /\ b \in HasRow /\ TimesOf(a) \cap TimesOf(b) = {}
      BY <2>3 DEF Kept, Requeued, TimesApart
    <3>2. clock + 1 \notin TimesOf(b)
      BY <1>0, <3>1
    <3> QED
      BY <2>3, <3>1, <3>2 DEF Kept, Requeued
  <2>4. ~(Requeued(u) /\ Requeued(v))
    BY <1>3, OneWriter DEF Requeued
  <2>5. Kept(u) /\ Kept(v) => TimesOf(u)' \cap TimesOf(v)' = {}
    BY <1>3 DEF Kept, TimesApart
  <2>6. /\ Kept(u) \/ Inserted(u) \/ Requeued(u)
        /\ Kept(v) \/ Inserted(v) \/ Requeued(v)
    BY <2>0, RowTimes
  <2>7. /\ ~(Inserted(u) /\ Inserted(v))
        /\ ~(Inserted(u) /\ Requeued(v))
        /\ ~(Inserted(v) /\ Requeued(u))
    BY <1>3, <2>0, <2>1
  <2>8. /\ Inserted(u) /\ Kept(v) => TimesOf(u)' \cap TimesOf(v)' = {}
        /\ Inserted(v) /\ Kept(u) => TimesOf(u)' \cap TimesOf(v)' = {}
    BY <2>0, <2>2
  <2>9. /\ Requeued(u) /\ Kept(v) => TimesOf(u)' \cap TimesOf(v)' = {}
        /\ Requeued(v) /\ Kept(u) => TimesOf(u)' \cap TimesOf(v)' = {}
    BY <1>3, <2>0, <2>3
  <2> QED
    BY <2>4, <2>5, <2>6, <2>7, <2>8, <2>9
<1>4. ASSUME NEW p \in Requests, req'[p].at = "insert"
      PROVE  /\ req'[p].time \in 1..clock'
             /\ \A u \in HasRow' : req'[p].time \notin TimesOf(u)'
             /\ \A q \in Requests : q # p /\ req'[q].at = "insert"
                                      => req'[q].time # req'[p].time
  <2>1. CASE req'[p] = req[p] /\ ~Insert(p)
    <3>1. /\ req[p].time \in 1..clock
          /\ \A u \in HasRow : req[p].time \notin TimesOf(u)
          /\ \A q \in Requests : q # p /\ req[q].at = "insert" => req[q].time # req[p].time
      BY <1>4, <2>1 DEF TimesApart
    <3>2. ASSUME NEW u \in HasRow' PROVE req[p].time \notin TimesOf(u)'
      <4>0. u \in Users
        BY DEF HasRow
      <4>1. CASE Kept(u)
        BY <3>1, <4>1 DEF Kept
      <4>2. CASE Inserted(u)
        <5>1. PICK q \in Requests : Insert(q) /\ TimesOf(u)' = {req[q].time} \ {0}
          BY <4>2 DEF Inserted
        <5> QED
          BY <1>1, <2>1, <3>1, <5>1
      <4>3. CASE Requeued(u)
        BY <1>0, <3>1, <4>3 DEF Requeued
      <4> QED
        BY <4>0, <4>1, <4>2, <4>3, RowTimes
    <3>3. ASSUME NEW q \in Requests, q # p, req'[q].at = "insert"
          PROVE  req'[q].time # req[p].time
      BY <1>0, <3>1, <3>3, InsertTimes
    <3> QED
      BY <1>0, <2>1, <3>1, <3>2, <3>3
  <2>2. CASE RegisterStart(p) /\ req'[p].time = clock + 1
    <3>1. clock' = clock + 1 /\ UNCHANGED reg
      BY <2>2 DEF RegisterStart
    <3>2. \A u \in HasRow' : u \in HasRow /\ TimesOf(u)' = TimesOf(u)
      BY <3>1 DEF HasRow, TimesOf
    <3>3. ASSUME NEW q \in Requests, q # p, req'[q].at = "insert"
          PROVE  req'[q].time # clock + 1
      <4>1. PICK step : Goto(p, step)
        BY <2>2 DEF RegisterStart
      <4>2. req'[q] = req[q]
        BY <3>3, <4>1 DEF Goto, TypeOK
      <4>3. req[q].time \in 1..clock
        BY <3>3, <4>2 DEF TimesApart
      <4> QED
        BY <1>0, <4>2, <4>3
    <3>4. \A u \in HasRow' : clock + 1 \notin TimesOf(u)'
      BY <1>0, <3>2
    <3> QED
      BY <1>0, <2>2, <3>1, <3>3, <3>4
  <2> QED
    BY <1>4, <2>1, <2>2, InsertTimes
<1> QED
  BY <1>2, <1>3, <1>4 DEF TimesApart

-----------------------------------------------------------------------------
(* Nobody else takes a place *)

\* Neither the limits nor the settings change.
LEMMA RulesStay ==
    ASSUME OnlyLockedAdmissions, NothingUnlocked, [Next]_vars
    PROVE  UNCHANGED <<limit, settings>>
<1>1. ASSUME NEW p \in Requests, Arrive(p) PROVE UNCHANGED <<limit, settings>>
  <2>1. ~SaveSettings(p) /\ ~SaveLimitsStart(p)
    BY DEF SaveSettings, SaveLimitsStart, Begin, OnlyLockedAdmissions
  <2> QED
    BY <1>1, <2>1 DEF Arrive, RegisterStart, AssignStart, UnregisterStart, Cancel,
       DropCharacterStart, CheckInStart, OverrideStart, ChangeRoleStart, SaveLock, admin
<1>2. ASSUME NEW p \in Requests, Continue(p) PROVE UNCHANGED <<limit, settings>>
  <2>1. ~SaveLimits(p)
    BY DEF SaveLimits, NothingUnlocked
  <2> QED
    BY <1>2, <2>1 DEF Continue, Insert, Assign, Unregister, DropCharacter, ApproveAtDesk,
       CheckIn, BookCash, Override, ChangeRole, Promote, Promoting, admin
<1> QED
  BY <1>1, <1>2 DEF Next, ChangeExtras, SetBeds, Approve, CheckOut, SetConPayer, Restart,
     vars, admin

\* Somebody promoted at this moment.
BeingPromoted(u) == \E p \in Requests : req[p].at = "promoting" /\ u \in req[p].chosen

\* A registration that was not just inserted keeps its role, and comes onto a
\* place only from another counted status or out of a running promotion.
LEMMA RowStep ==
    ASSUME TypeOK, NothingUnlocked, [Next]_vars, \A p \in Requests : ~Insert(p),
           NEW u \in Users, reg'[u].status # "none"
    PROVE  /\ reg[u].status # "none"
           /\ reg'[u].role = reg[u].role
           /\ reg'[u].status \in CountedStatuses
                => reg[u].status \in CountedStatuses \/ BeingPromoted(u)
<1> DEFINE row == reg'[u]
<1>0. reg[u] \in Row /\ Written(u, row)
  BY NextWrites DEF TypeOK
<1>1. CASE row = reg[u]
  BY <1>1
<1>2. CASE Withdrawn(u, row) \/ CharacterLost(u, row)
  BY <1>2 DEF Withdrawn, CharacterLost, NoRow
<1>3. CASE Registered(u, row)
  BY <1>3 DEF Registered
<1>4. CASE AtTheDesk(u, row)
  <2>1. PICK action \in {"approve", "checkin", "checkout", "cancel"} :
          CanMove(u, action) /\ row = Moved(u, action)
    BY <1>4 DEF AtTheDesk
  <2>2. row.role = reg[u].role /\ row.status = To[action]
    BY <1>0, <2>1 DEF Moved, Row
  <2>3. reg[u].status \in From[action]
    BY <2>1 DEF CanMove
  <2>4. "none" \notin From[action]
    BY DEF From
  <2>5. To[action] \in CountedStatuses => From[action] \subseteq CountedStatuses
    BY DEF From, To, CountedStatuses
  <2> QED
    BY <2>2, <2>3, <2>4, <2>5
<1>5. CASE ByHand(u, row)
  <2>1. PICK status \in Statuses :
          /\ row = Overridden(u, reg[u].status, status)
          /\ \/ status = "cancelled" /\ reg[u].status = "confirmed"
             \/ \E p \in Requests : /\ Override(p)
                                    /\ req[p].user = u
                                    /\ req[p].expected = reg[u].status
                                    /\ req[p].status = status
    BY <1>5 DEF ByHand
  <2>2. row.role = reg[u].role /\ row.status = status
    BY <1>0, <2>1 DEF Overridden, Row
  <2>3. CASE status = "cancelled" /\ reg[u].status = "confirmed"
    BY <2>2, <2>3 DEF CountedStatuses
  <2>4. CASE \E p \in Requests : /\ Override(p)
                                 /\ req[p].expected = reg[u].status
                                 /\ req[p].status = status
    <3>1. PICK p \in Requests : /\ Override(p)
                                /\ req[p].expected = reg[u].status
                                /\ req[p].status = status
      BY <2>4
    <3>2. reg[u].status # "none"
      BY <3>1, RequestFields DEF Override, TypeOK, Statuses
    <3>3. status \in CountedStatuses => reg[u].status \in CountedStatuses
      BY <3>1 DEF Override, NothingUnlocked
    <3> QED
      BY <2>2, <3>2, <3>3
  <2> QED
    BY <2>1, <2>3, <2>4
<1>6. CASE MovedUp(u, row)
  <2>1. row.role = reg[u].role /\ reg[u].status = "waitlisted"
    BY <1>0, <1>6 DEF MovedUp, Row
  <2> QED
    BY <1>6, <2>1 DEF MovedUp, BeingPromoted, Promoting
<1>7. CASE Rebooked(u, row) \/ Noted(u, row)
  <2>1. row.role = reg[u].role /\ row.status = reg[u].status
    BY <1>0, <1>7 DEF Rebooked, Noted, Row, NothingUnlocked
  <2> QED
    BY <2>1
<1> QED
  BY <1>0, <1>1, <1>2, <1>3, <1>4, <1>5, <1>6, <1>7 DEF Written

\* A promotion under way began in this step or was under way before.
LEMMA PromotingStep ==
    ASSUME TypeOK, [Next]_vars, NEW p \in Requests, req'[p].at = "promoting"
    PROVE  req'[p] = req[p] \/ Promote(p)
<1>1. CASE Follows(p, req'[p])
  BY <1>1 DEF Follows, QuietWaits, Idle
<1> QED
  BY <1>1, RequestsFollow DEF Idle

\* Steps other than registering and promoting take nobody onto a new place.
LEMMA LimitsFitElsewhere ==
    ASSUME OnlyLockedAdmissions, TypeOK, NothingUnlocked, Fits, [Next]_vars,
           \A p \in Requests : ~Insert(p) /\ ~Promote(p)
    PROVE  Fits'
<1>1. UNCHANGED <<limit, settings>>
  BY RulesStay
<1>2. \A u \in Users : \A role : TakesPlace(u, role)' = TakesPlace(u, role)
  BY <1>1 DEF TakesPlace
<1>3. ASSUME NEW u \in Users, BeingPromoted(u)'
      PROVE  BeingPromoted(u)
  BY <1>3, PromotingStep DEF BeingPromoted
<1>4. ASSUME NEW u \in (Placed \cup Reserved)'
      PROVE  u \in Placed \cup Reserved /\ reg'[u].role = reg[u].role
  <2>0. u \in Users
    BY DEF Placed, Reserved
  <2>1. reg'[u].status # "none" /\ TakesPlace(u, reg'[u].role)
    BY <1>2, <2>0 DEF Placed, Reserved, CountedStatuses
  <2>2. /\ reg[u].status # "none"
        /\ reg'[u].role = reg[u].role
        /\ reg'[u].status \in CountedStatuses
             => reg[u].status \in CountedStatuses \/ BeingPromoted(u)
    BY <2>0, <2>1, RowStep
  <2>3. reg'[u].status \in CountedStatuses \/ BeingPromoted(u)'
    BY DEF Placed, Reserved, BeingPromoted
  <2>4. reg[u].status \in CountedStatuses \/ BeingPromoted(u)
    BY <1>3, <2>0, <2>2, <2>3
  <2> QED
    BY <2>0, <2>1, <2>2, <2>4 DEF Placed, Reserved, BeingPromoted
<1>5. ASSUME NEW kind \in LimitKinds, limit[kind] # Unlimited
      PROVE  Cardinality(Holders(Placed \cup Reserved, kind)') <= limit[kind]
  <2>1. Holders(Placed \cup Reserved, kind)' \subseteq Holders(Placed \cup Reserved, kind)
    BY <1>4 DEF Holders
  <2>2. IsFiniteSet(Holders(Placed \cup Reserved, kind))
    BY FiniteAssumption, FS_Subset DEF Holders, Placed, Reserved
  <2>3. /\ Cardinality(Holders(Placed \cup Reserved, kind)') \in Nat
        /\ Cardinality(Holders(Placed \cup Reserved, kind)) \in Nat
        /\ Cardinality(Holders(Placed \cup Reserved, kind)')
              <= Cardinality(Holders(Placed \cup Reserved, kind))
    BY <2>1, <2>2, FS_Subset, FS_CardinalityType
  <2>4. limit[kind] \in Nat
    BY <1>5 DEF TypeOK, LimitRow, Limit
  <2> QED
    BY <1>5, <2>3, <2>4 DEF Fits
<1> QED
  BY <1>1, <1>5 DEF Fits

-----------------------------------------------------------------------------
(* A promotion gives no more places than there are *)

\* Among people waiting one is last, behind all the others.
LEMMA LastInQueue ==
    ASSUME TypeOK, TimesApart, NEW S, S \subseteq Waiting, S # {}
    PROVE  \E w \in S : \A u \in S \ {w} : QueuedAt(u) < QueuedAt(w)
<1> DEFINE T == {clock - QueuedAt(u) : u \in S}
<1>1. ASSUME NEW u \in S
      PROVE  QueuedAt(u) \in TimesOf(u) /\ QueuedAt(u) \in Nat /\ QueuedAt(u) <= clock
  <2>1. u \in HasRow /\ u \in Users /\ reg[u] \in Row
    BY DEF Waiting, HasRow, TypeOK
  <2>2. QueuedAt(u) \in TimesOf(u)
    BY <2>1 DEF QueuedAt, TimesOf, TimesApart
  <2> QED
    BY <2>1, <2>2 DEF TimesApart, QueuedAt, Row
<1>2. T \subseteq Nat /\ T # {}
  BY <1>1 DEF TypeOK
<1>3. PICK least \in T : \A t \in T : ~(<<t, least>> \in OpToRel(<, Nat))
  BY <1>2, NatLessThanWellFounded, WFMin
<1>4. PICK w \in S : least = clock - QueuedAt(w)
  OBVIOUS
<1>5. ASSUME NEW u \in S PROVE QueuedAt(u) <= QueuedAt(w)
  <2>1. ~(clock - QueuedAt(u) < clock - QueuedAt(w))
    BY <1>2, <1>3, <1>4 DEF OpToRel
  <2> QED
    BY <1>1, <2>1 DEF TypeOK
<1>6. ASSUME NEW u \in S \ {w} PROVE QueuedAt(u) # QueuedAt(w)
  <2>1. u \in HasRow /\ w \in HasRow
    BY DEF Waiting, HasRow
  <2>2. QueuedAt(u) \in TimesOf(u) /\ QueuedAt(w) \in TimesOf(w)
    BY <1>1
  <2> QED
    BY <2>1, <2>2 DEF TimesApart
<1> QED
  BY <1>1, <1>5, <1>6

\* Everybody the promotion picks fits: the last of them was only picked because
\* there was room beside all the others.
LEMMA MoveUpFits ==
    ASSUME TypeOK, TimesApart, Fits, NEW chosen \in SUBSET Waiting, MoveUp(chosen),
           NEW kind \in LimitKinds, limit[kind] # Unlimited
    PROVE  LET taking == {u \in chosen : TakesPlace(u, reg[u].role)}
           IN  Cardinality(Holders(Placed \cup taking, kind)) <= limit[kind]
<1> DEFINE taking == {u \in chosen : TakesPlace(u, reg[u].role)}
           S == Holders(taking, kind)
           all == Holders(Placed \cup taking, kind)
<1> SUFFICES Cardinality(all) <= limit[kind]
  OBVIOUS
<1>0. /\ limit[kind] \in Nat
      /\ Placed \subseteq Users /\ chosen \subseteq Users
      /\ \A X \in SUBSET Users : IsFiniteSet(X) /\ Cardinality(X) \in Nat
  BY FiniteAssumption, FS_Subset, FS_CardinalityType
     DEF TypeOK, LimitRow, Limit, Placed, Waiting
<1>1. CASE S = {}
  <2>1. all \subseteq Holders(Placed \cup Reserved, kind)
    BY <1>1 DEF Holders
  <2>2. Holders(Placed \cup Reserved, kind) \in SUBSET Users
    BY <1>0 DEF Holders, Reserved
  <2>3. /\ Cardinality(all) <= Cardinality(Holders(Placed \cup Reserved, kind))
        /\ Cardinality(all) \in Nat
        /\ Cardinality(Holders(Placed \cup Reserved, kind)) \in Nat
    BY <1>0, <2>1, <2>2, FS_Subset
  <2> QED
    BY <1>0, <2>3 DEF Fits
<1>2. CASE S # {}
  <2>1. S \subseteq Waiting
    BY DEF Holders
  <2>2. PICK w \in S : \A u \in S \ {w} : QueuedAt(u) < QueuedAt(w)
    BY <1>2, <2>1, LastInQueue
  <2>3. /\ w \in chosen
        /\ w \in Waiting
        /\ TakesPlace(w, reg[w].role)
        /\ kind \in LimitsOf(reg[w].role)
    BY DEF Holders, LimitsOf
  <2> DEFINE beside == Holders(Placed \cup Earlier(w, chosen), kind)
  <2>4. HasRoom(Placed \cup Earlier(w, chosen), kind)
    BY <2>3 DEF MoveUp, CapacityBlock, Waiting
  <2>5. Cardinality(beside) < limit[kind]
    BY <1>0, <2>4 DEF HasRoom
  <2>6. all \subseteq beside \cup {w}
    BY <2>2 DEF Holders, Earlier
  <2>7. beside \in SUBSET Users /\ beside \cup {w} \in SUBSET Users
    BY <1>0, <2>3 DEF Holders, Earlier, Waiting
  <2> HIDE DEF beside, all
  <2>8. Cardinality(beside \cup {w}) <= Cardinality(beside) + 1
    <3>1. IsFiniteSet(beside) /\ Cardinality(beside) \in Nat
      BY <1>0, <2>7
    <3>2. Cardinality(beside \cup {w})
            = IF w \in beside THEN Cardinality(beside) ELSE Cardinality(beside) + 1
      BY <3>1, FS_AddElement, Zenon
    <3> QED
      BY <3>1, <3>2
  <2>9. Cardinality(all) <= Cardinality(beside \cup {w})
    BY <1>0, <2>6, <2>7, FS_Subset
  <2>10. Cardinality(all) \in Nat
    <3>1. all \in SUBSET Users
      BY <2>6, <2>7
    <3> QED
      BY <1>0, <3>1
  <2>11. Cardinality(beside) \in Nat /\ Cardinality(beside \cup {w}) \in Nat
    BY <1>0, <2>7
  <2> QED
    BY <1>0, <2>5, <2>8, <2>9, <2>10, <2>11
<1> QED
  BY <1>1, <1>2

\* A promotion that begins reserves no more places than the limits leave.
LEMMA LimitsFitPromote ==
    ASSUME OnlyLockedAdmissions, TypeOK, LockHeldByPromotion, NothingUnlocked, TimesApart,
           Fits, [Next]_vars, NEW p \in Requests, Promote(p)
    PROVE  Fits'
<1>1. UNCHANGED <<limit, settings, reg>>
  BY RulesStay DEF Promote
<1>2. \A u \in Users : \A role : TakesPlace(u, role)' = TakesPlace(u, role)
  BY <1>1 DEF TakesPlace
<1>3. Placed' = Placed /\ \A S, kind : Holders(S, kind)' = Holders(S', kind)
  BY <1>1, <1>2 DEF Placed, Holders
<1>4. \A q \in Requests : req[q].at # "promoting"
  BY NullAssumption DEF LockHeldByPromotion, Promote, EventRowFree
<1> SUFFICES ASSUME NEW kind \in LimitKinds, limit[kind] # Unlimited
             PROVE  Cardinality(Holders(Placed \cup Reserved, kind)') <= limit[kind]
  BY <1>1 DEF Fits
<1>5. limit[kind] \in Nat
  BY DEF TypeOK, LimitRow, Limit
<1>6. \A S \in SUBSET Users : IsFiniteSet(S) /\ Cardinality(S) \in Nat
  BY FiniteAssumption, FS_Subset, FS_CardinalityType
<1>7. CASE settings.autoPromote
  <2>1. PICK chosen \in SUBSET Waiting :
          MoveUp(chosen) /\ Goto(p, [at |-> "promoting", chosen |-> chosen])
    BY <1>7 DEF Promote
  <2> DEFINE taking == {u \in chosen : TakesPlace(u, reg[u].role)}
             all == Holders(Placed \cup taking, kind)
  <2>2. \A q \in Requests : req'[q] = IF q = p THEN [at |-> "promoting", chosen |-> chosen]
                                             ELSE req[q]
    BY <2>1 DEF Goto, TypeOK
  <2>3. Reserved' \subseteq taking
    BY <1>1, <1>2, <1>4, <2>2 DEF Reserved
  <2>4. Holders(Placed \cup Reserved, kind)' \subseteq all
    BY <1>1, <1>3, <2>3 DEF Holders
  <2>5. all \in SUBSET Users
    BY DEF Holders, Placed, Waiting
  <2>6. Cardinality(all) <= limit[kind]
    BY <2>1, MoveUpFits
  <2>7. Cardinality(Holders(Placed \cup Reserved, kind)') <= Cardinality(all)
    BY <1>6, <2>4, <2>5, FS_Subset
  <2>8. Cardinality(Holders(Placed \cup Reserved, kind)') \in Nat
    BY <1>6, <2>4, <2>5
  <2> QED
    BY <1>5, <1>6, <2>5, <2>6, <2>7, <2>8
<1>8. CASE ~settings.autoPromote
  <2>1. \A q \in Requests : req'[q] = IF q = p THEN Idle ELSE req[q]
    BY <1>8 DEF Promote, Done, Goto, TypeOK
  <2>2. Reserved' = {}
    BY <1>4, <2>1 DEF Reserved, Idle
  <2>3. Holders(Placed \cup Reserved, kind)' \subseteq Holders(Placed \cup Reserved, kind)
    BY <1>1, <1>3, <2>2 DEF Holders
  <2>4. Holders(Placed \cup Reserved, kind) \in SUBSET Users
    BY DEF Holders, Placed, Reserved
  <2>5. /\ Cardinality(Holders(Placed \cup Reserved, kind)')
             <= Cardinality(Holders(Placed \cup Reserved, kind))
        /\ Cardinality(Holders(Placed \cup Reserved, kind)') \in Nat
        /\ Cardinality(Holders(Placed \cup Reserved, kind)) \in Nat
    BY <1>6, <2>3, <2>4, FS_Subset
  <2> QED
    BY <1>5, <2>5 DEF Fits
<1> QED
  BY <1>7, <1>8

-----------------------------------------------------------------------------
(* A registration takes a place only where there is room *)

\* The row a registration leaves behind.
LEMMA InsertRow ==
    ASSUME TypeOK, NEW p \in Requests, Insert(p)
    PROVE  LET r == req[p]
               waits == r.byLock \/ CapacityBlock(Placed, r.user, r.role)
           IN  \/ UNCHANGED reg
               \/ /\ reg[r.user].status = "none"
                  /\ \A u \in Users \ {r.user} : reg'[u] = reg[u]
                  /\ reg'[r.user].role = r.role
                  /\ reg'[r.user].status = IF waits THEN "waitlisted" ELSE "pending"
<1> DEFINE r == req[p]
           waits == r.byLock \/ CapacityBlock(Placed, r.user, r.role)
           l == IF waits THEN NoLodging ELSE r.lodging
           status == IF waits THEN "waitlisted" ELSE "pending"
           row == [NoRow EXCEPT !.status = status, !.role = r.role, !.createdAt = r.time,
                                !.byLock = r.byLock, !.conPayer = r.conPayer,
                                !.extras = r.extras, !.lodging = l]
<1>1. r.user \in Users /\ reg \in [Users -> Row]
  BY RequestFields DEF Insert, TypeOK
<1>2. \/ UNCHANGED reg
      \/ Store(r.user, row) /\ reg[r.user].status = "none"
  BY DEF Insert
<1>3. row.role = r.role /\ row.status = status
  BY DEF NoRow
<1> HIDE DEF row, status
<1>4. Store(r.user, row) => /\ \A u \in Users \ {r.user} : reg'[u] = reg[u]
                            /\ reg'[r.user] = row
  BY <1>1 DEF Store
<1> USE DEF status
<1> QED
  BY <1>2, <1>3, <1>4

\* A registration inserted under the lock exceeds no limit, because at that
\* moment nothing is reserved.
LEMMA LimitsFitInsert ==
    ASSUME OnlyLockedAdmissions, TypeOK, LockHeldByPromotion, NothingUnlocked, Fits,
           [Next]_vars, NEW p \in Requests, Insert(p)
    PROVE  Fits'
<1> DEFINE r == req[p]
           waits == r.byLock \/ CapacityBlock(Placed, r.user, r.role)
<1>1. UNCHANGED <<limit, settings>>
  BY RulesStay
<1>2. \A u \in Users : \A role : TakesPlace(u, role)' = TakesPlace(u, role)
  BY <1>1 DEF TakesPlace
<1>3. \A q \in Requests : req[q].at # "promoting" /\ req'[q].at # "promoting"
  <2>1. \A q \in Requests : req[q].at # "promoting"
    BY NullAssumption DEF LockHeldByPromotion, Insert, InLockedTransaction, EventRowFree
  <2>2. \A q \in Requests : req'[q] = IF q = p THEN Idle ELSE req[q]
    BY DEF Insert, Done, Goto, TypeOK
  <2> QED
    BY <2>1, <2>2 DEF Idle
<1>4. Reserved' = {}
  BY <1>3 DEF Reserved
<1>5. r.user \in Users /\ reg \in [Users -> Row]
  BY RequestFields DEF Insert, TypeOK
<1>6. \/ UNCHANGED reg
      \/ /\ reg[r.user].status = "none"
         /\ \A u \in Users \ {r.user} : reg'[u] = reg[u]
         /\ reg'[r.user].role = r.role
         /\ reg'[r.user].status = IF waits THEN "waitlisted" ELSE "pending"
  BY InsertRow
<1> HIDE DEF r, waits
<1> SUFFICES ASSUME NEW kind \in LimitKinds, limit[kind] # Unlimited
             PROVE  Cardinality(Holders(Placed, kind)') <= limit[kind]
  BY <1>1, <1>4 DEF Fits, Holders
<1> DEFINE before == Holders(Placed, kind)
           after == Holders(Placed, kind)'
<1>7. /\ IsFiniteSet(before) /\ Cardinality(before) \in Nat
      /\ IsFiniteSet(after) /\ Cardinality(after) \in Nat
      /\ IsFiniteSet(before \cup {r.user})
      /\ limit[kind] \in Nat
  <2>1. before \subseteq Users /\ after \subseteq Users
    BY DEF Holders, Placed
  <2> QED
    BY <1>5, <2>1, FiniteAssumption, FS_Subset, FS_CardinalityType, FS_AddElement
       DEF TypeOK, LimitRow, Limit
<1>8. Cardinality(before) <= limit[kind]
  <2>1. Holders(Placed \cup Reserved, kind) = before
    BY <1>3 DEF Reserved, Holders
  <2> QED
    BY <2>1 DEF Fits
<1>9. CASE after \subseteq before
  <2>1. Cardinality(after) <= Cardinality(before)
    BY <1>7, <1>9, FS_Subset
  <2> QED
    BY <1>7, <1>8, <2>1
<1>10. CASE ~(after \subseteq before)
  <2>1. /\ ~waits
        /\ TakesPlace(r.user, r.role)
        /\ kind \in LimitsOf(r.role)
        /\ after \subseteq before \cup {r.user}
    BY <1>2, <1>5, <1>6, <1>10
       DEF Holders, Placed, CountedStatuses, LimitsOf
  <2>2. HasRoom(Placed, kind)
    BY <2>1 DEF waits, CapacityBlock
  <2>3. Cardinality(before) < limit[kind]
    BY <1>7, <2>2 DEF HasRoom
  <2> HIDE DEF before, after
  <2>4. Cardinality(before \cup {r.user}) <= Cardinality(before) + 1
    <3>1. Cardinality(before \cup {r.user})
            = IF r.user \in before THEN Cardinality(before) ELSE Cardinality(before) + 1
      BY <1>7, FS_AddElement, Zenon
    <3> QED
      BY <1>7, <3>1
  <2>5. Cardinality(after) <= Cardinality(before \cup {r.user})
    BY <1>7, <2>1, FS_Subset
  <2>6. Cardinality(before \cup {r.user}) \in Nat /\ Cardinality(after) \in Nat
    BY <1>7, FS_CardinalityType
  <2>7. Cardinality(after) <= limit[kind]
    BY <1>7, <2>3, <2>4, <2>5, <2>6
  <2> QED
    BY <2>7 DEF after
<1> QED
  BY <1>9, <1>10

-----------------------------------------------------------------------------
(* The theorem *)

\* Whoever registers, withdraws, is cancelled, approved, moved up or loses a
\* character, in any order and with any number of requests at once: no limit is
\* exceeded, as long as nobody is taken onto a place without the event's lock.
THEOREM LimitsCorrect ==
    ASSUME OnlyLockedAdmissions
    PROVE  Spec => []WithinLimits
<1>1. Init => IInv
  <2> SUFFICES ASSUME Init PROVE IInv
    OBVIOUS
  <2>1. TypeOK
    BY InitTypeOK
  <2>2. \A p \in Requests : req[p].at = "idle"
    BY DEF Init, Idle
  <2>3. HasRow = {} /\ Placed = {}
    BY DEF Init, HasRow, Placed, NoRow, CountedStatuses
  <2>4. LockHeldByPromotion /\ NothingUnlocked /\ TimesApart
    BY <2>2, <2>3, NullAssumption DEF Init, LockHeldByPromotion, NothingUnlocked, TimesApart
  <2>5. Fits
    <3>1. Placed \cup Reserved = {}
      BY <2>2, <2>3 DEF Reserved
    <3>2. \A kind \in LimitKinds : Holders(Placed \cup Reserved, kind) = {}
      BY <3>1 DEF Holders
    <3>3. Cardinality({}) = 0 /\ \A kind \in LimitKinds : limit[kind] \in Limit
      BY <2>1, FS_EmptySet DEF TypeOK, LimitRow
    <3>4. ASSUME NEW kind \in LimitKinds
          PROVE  limit[kind] = Unlimited \/ 0 <= limit[kind]
      BY <3>3 DEF Limit
    <3> QED
      BY <3>2, <3>3, <3>4 DEF Fits
  <2> QED
    BY <2>1, <2>4, <2>5 DEF IInv
<1>2. TypeOK' /\ LockHeldByPromotion' /\ IInv /\ [Next]_vars => IInv'
  <2> SUFFICES ASSUME TypeOK', LockHeldByPromotion', IInv, [Next]_vars PROVE IInv'
    OBVIOUS
  <2> USE DEF IInv
  <2>1. NothingUnlocked'
    BY NothingUnlockedStep
  <2>2. TimesApart'
    BY TimesApartStep
  <2>3. Fits'
    BY LimitsFitInsert, LimitsFitPromote, LimitsFitElsewhere
  <2> QED
    BY <2>1, <2>2, <2>3
<1>3. IInv => WithinLimits
  <2> SUFFICES ASSUME IInv, NEW kind \in LimitKinds, limit[kind] # Unlimited
               PROVE  Cardinality(Holders(Placed, kind)) <= limit[kind]
    BY DEF WithinLimits
  <2> DEFINE all == Holders(Placed \cup Reserved, kind)
  <2>1. Holders(Placed, kind) \subseteq all /\ all \subseteq Users
    BY DEF Holders, Placed, Reserved
  <2>2. /\ Cardinality(Holders(Placed, kind)) \in Nat
        /\ Cardinality(all) \in Nat
        /\ Cardinality(Holders(Placed, kind)) <= Cardinality(all)
    BY <2>1, FiniteAssumption, FS_Subset, FS_CardinalityType
  <2> QED
    BY <2>2 DEF IInv, Fits, TypeOK, LimitRow, Limit
<1> QED
  BY <1>1, <1>2, <1>3, TypeCorrect, LockCorrect, PTL DEF Spec

-----------------------------------------------------------------------------
(* Why a promotion passes nobody over                                      *)
(*                                                                         *)
(* The people are chosen in one statement and moved up in another.  In     *)
(* between somebody may be put on the waitlist by hand; it needs that they *)
(* go to its end.  That fails for a cancelled person who is put back with  *)
(* the old time, for a role changed meanwhile, and for somebody chosen who *)
(* gets a place by hand and is sent back to the queue before the statement *)
(* that moves people up.                                                   *)
OnlyJoiningAtTheEnd ==
    /\ "changeRole" \notin Ops
    /\ \A pair \in Overrides :
         /\ pair[2] \in CountedStatuses => pair[1] \in CountedStatuses
         /\ pair[2] = "waitlisted" => pair[1] \in CountedStatuses

\* What is under way puts people to the end of the queue only.
JoiningAtTheEnd ==
    \A p \in Requests :
        /\ req[p].at # "changeRole"
        /\ req[p].at = "override" =>
             /\ req[p].status \in CountedStatuses => req[p].expected \in CountedStatuses
             /\ req[p].status = "waitlisted" => req[p].expected \in CountedStatuses

\* Whoever a promotion left out comes after everybody like them whom it chose.
Alike(u, v) == reg[u].role = reg[v].role /\ (u \in Children <=> v \in Children)
NobodyPassed ==
    \A p \in Requests : req[p].at = "promoting" =>
        /\ \A u \in req[p].chosen : reg[u].status \notin CountedStatuses
        /\ \A u \in req[p].chosen \cap Waiting, v \in Waiting \ req[p].chosen :
             Alike(u, v) /\ MayMoveUp(v) => QueuedAt(u) <= QueuedAt(v)

QInv == TypeOK /\ LockHeldByPromotion /\ TimesApart /\ JoiningAtTheEnd /\ NobodyPassed

\* No step starts a request that does anything else to the queue.
LEMMA JoiningAtTheEndStep ==
    ASSUME OnlyJoiningAtTheEnd, TypeOK, JoiningAtTheEnd, [Next]_vars
    PROVE  JoiningAtTheEnd'
<1> SUFFICES ASSUME NEW q \in Requests
             PROVE  /\ req'[q].at # "changeRole"
                    /\ req'[q].at = "override" =>
                         /\ req'[q].status \in CountedStatuses
                              => req'[q].expected \in CountedStatuses
                         /\ req'[q].status = "waitlisted"
                              => req'[q].expected \in CountedStatuses
  BY DEF JoiningAtTheEnd
<1>1. CASE req'[q] = req[q]
  BY <1>1 DEF JoiningAtTheEnd
<1>2. CASE req'[q] = Idle
  BY <1>2 DEF Idle
<1>3. CASE Follows(q, req'[q])
  <2>1. ~ChangeRoleStart(q)
    BY DEF ChangeRoleStart, Begin, OnlyJoiningAtTheEnd
  <2>2. CASE OverrideStart(q) /\ req'[q].at = "override"
             /\ <<req'[q].expected, req'[q].status>> \in Overrides
    BY <2>2 DEF OnlyJoiningAtTheEnd
  <2> QED
    BY <1>3, <2>1, <2>2 DEF Follows, QuietWaits, Idle
<1> QED
  BY <1>1, <1>2, <1>3, RequestsFollow

\* The row somebody waiting has after a step in which nobody registers.
LEMMA QueueStep ==
    ASSUME TypeOK, JoiningAtTheEnd, [Next]_vars, \A p \in Requests : ~Insert(p),
           NEW u \in Users
    PROVE  /\ reg'[u].status \in CountedStatuses =>
                \/ reg[u].status \in CountedStatuses
                \/ \E p \in Requests : Promoting(p) /\ u \in req[p].chosen
           /\ reg'[u].status = "waitlisted" =>
                \/ /\ reg[u].status = "waitlisted"
                   /\ reg'[u].role = reg[u].role /\ reg'[u].byLock = reg[u].byLock
                   /\ reg'[u].createdAt = reg[u].createdAt
                   /\ reg'[u].waitlistedAt = reg[u].waitlistedAt
                \/ /\ reg[u].status \in CountedStatuses
                   /\ reg'[u].waitlistedAt = clock + 1
<1> DEFINE row == reg'[u]
<1>0. reg[u] \in Row /\ Written(u, row)
  BY NextWrites DEF TypeOK
<1>1. CASE row = reg[u]
  BY <1>1
<1>2. CASE Withdrawn(u, row) \/ CharacterLost(u, row)
  BY <1>2 DEF Withdrawn, CharacterLost, NoRow, CountedStatuses
<1>3. CASE Registered(u, row)
  BY <1>3 DEF Registered
<1>4. CASE AtTheDesk(u, row)
  <2>1. PICK action \in {"approve", "checkin", "checkout", "cancel"} :
          CanMove(u, action) /\ row = Moved(u, action)
    BY <1>4 DEF AtTheDesk
  <2>2. row.status = To[action] /\ reg[u].status \in From[action]
    BY <1>0, <2>1 DEF Moved, Row, CanMove
  <2>3. To[action] # "waitlisted"
    BY DEF To
  <2>4. To[action] \in CountedStatuses => From[action] \subseteq CountedStatuses
    BY DEF From, To, CountedStatuses
  <2> QED
    BY <2>2, <2>3, <2>4
<1>5. CASE ByHand(u, row)
  <2>1. PICK status \in Statuses :
          /\ row = Overridden(u, reg[u].status, status)
          /\ \/ status = "cancelled" /\ reg[u].status = "confirmed"
             \/ \E p \in Requests : /\ Override(p)
                                    /\ req[p].user = u
                                    /\ req[p].expected = reg[u].status
                                    /\ req[p].status = status
    BY <1>5 DEF ByHand
  <2>2. /\ row.status = status
        /\ row.waitlistedAt = IF Rejoins(reg[u].status, status) THEN clock + 1
                              ELSE IF status = "waitlisted" THEN reg[u].waitlistedAt ELSE 0
    BY <1>0, <2>1 DEF Overridden, Row
  <2>3. CASE status = "cancelled" /\ reg[u].status = "confirmed"
    BY <2>2, <2>3 DEF CountedStatuses
  <2>4. CASE \E p \in Requests : /\ Override(p)
                                 /\ req[p].expected = reg[u].status
                                 /\ req[p].status = status
    <3>1. /\ status \in CountedStatuses => reg[u].status \in CountedStatuses
          /\ status = "waitlisted" => reg[u].status \in CountedStatuses
      BY <2>4 DEF Override, JoiningAtTheEnd
    <3> QED
      BY <2>2, <3>1 DEF Rejoins
  <2> QED
    BY <2>1, <2>3, <2>4
<1>6. CASE MovedUp(u, row)
  <2>1. row.status = "pending"
    BY <1>0, <1>6 DEF MovedUp, Row
  <2> QED
    BY <1>6, <2>1 DEF MovedUp
<1>7. CASE Rebooked(u, row) \/ Noted(u, row)
  <2>1. /\ row.role = reg[u].role /\ row.status = reg[u].status
        /\ row.byLock = reg[u].byLock /\ row.createdAt = reg[u].createdAt
        /\ row.waitlistedAt = reg[u].waitlistedAt
    BY <1>0, <1>7 DEF Rebooked, Noted, Row, JoiningAtTheEnd
  <2> QED
    BY <2>1
<1> QED
  BY <1>0, <1>1, <1>2, <1>3, <1>4, <1>5, <1>6, <1>7 DEF Written

\* While a promotion holds the event row, nobody registers and neither the limits
\* nor the registration lock change.
LEMMA RowIsLocked ==
    ASSUME TypeOK, LockHeldByPromotion, [Next]_vars,
           NEW p \in Requests, req[p].at = "promoting"
    PROVE  UNCHANGED <<limit, lock>> /\ \A q \in Requests : ~Insert(q) /\ ~Promote(q)
<1>1. ~EventRowFree
  BY NullAssumption DEF LockHeldByPromotion, EventRowFree
<1>2. ASSUME NEW q \in Requests, Arrive(q) \/ Continue(q)
      PROVE  UNCHANGED <<limit, lock>> /\ ~Insert(q) /\ ~Promote(q)
  BY <1>1, <1>2 DEF Arrive, RegisterStart, AssignStart, UnregisterStart, Cancel,
       DropCharacterStart, CheckInStart, OverrideStart, ChangeRoleStart, SaveLimitsStart,
       SaveLock, SaveSettings, Continue, Insert, Assign, Unregister, DropCharacter,
       ApproveAtDesk, CheckIn, BookCash, Override, ChangeRole, SaveLimits, Promote,
       Promoting, InLockedTransaction, admin
<1>3. \A q \in Requests : ~Insert(q) /\ ~Promote(q)
  BY <1>1 DEF Insert, Promote, InLockedTransaction
<1> QED
  BY <1>2, <1>3 DEF Next, ChangeExtras, SetBeds, Approve, CheckOut, SetConPayer, Restart, vars,
     admin

\* The pass over the queue leaves somebody out only if nobody like them who came
\* later is chosen: what was taken before the one was taken before the other.
LEMMA MoveUpPassesNobody ==
    ASSUME TypeOK, NEW chosen \in SUBSET Waiting, MoveUp(chosen),
           NEW u \in chosen, NEW v \in Waiting \ chosen, Alike(u, v), MayMoveUp(v),
           QueuedAt(v) < QueuedAt(u)
    PROVE  FALSE
<1> DEFINE role == reg[u].role
           before == Placed \cup Earlier(u, chosen)
           sooner == Placed \cup Earlier(v, chosen)
<1>1. u \in Waiting /\ u \in Users /\ v \in Users
  BY DEF Waiting
<1>2. \A w \in Users : QueuedAt(w) \in Nat
  BY DEF QueuedAt, TypeOK, Row
<1>3. ~CapacityBlock(before, u, role) /\ CapacityBlock(sooner, v, role)
  BY <1>1 DEF MoveUp, Alike
<1>4. TakesPlace(u, role) <=> TakesPlace(v, role)
  BY DEF TakesPlace, Alike
<1>5. PICK kind \in LimitsOf(role) : ~HasRoom(sooner, kind) /\ HasRoom(before, kind)
  BY <1>3, <1>4 DEF CapacityBlock
<1>6. sooner \subseteq before /\ before \subseteq Users
  BY <1>1, <1>2 DEF Earlier, Placed, Waiting
<1>7. Holders(sooner, kind) \subseteq Holders(before, kind) /\ Holders(before, kind) \subseteq Users
  BY <1>6 DEF Holders
<1>8. /\ Cardinality(Holders(sooner, kind)) \in Nat
      /\ Cardinality(Holders(before, kind)) \in Nat
      /\ Cardinality(Holders(sooner, kind)) <= Cardinality(Holders(before, kind))
  BY <1>7, FiniteAssumption, FS_Subset, FS_CardinalityType
<1>9. kind \in LimitKinds /\ limit[kind] \in Nat \cup {Unlimited}
  BY DEF LimitsOf, LimitKinds, TypeOK, LimitRow, Limit
<1> QED
  BY <1>5, <1>8, <1>9 DEF HasRoom

\* Nobody is passed over, whatever is done by hand while a promotion is under way.
LEMMA NobodyPassedStep ==
    ASSUME QInv, [Next]_vars
    PROVE  NobodyPassed'
<1> SUFFICES ASSUME NEW p \in Requests, req'[p].at = "promoting"
             PROVE  /\ \A u \in req'[p].chosen : reg'[u].status \notin CountedStatuses
                    /\ \A u \in req'[p].chosen \cap Waiting', v \in Waiting' \ req'[p].chosen :
                         Alike(u, v)' /\ MayMoveUp(v)' => QueuedAt(u)' <= QueuedAt(v)'
  BY DEF NobodyPassed
<1> USE DEF QInv
<1>0. \A u \in Users : /\ QueuedAt(u) \in Nat
                       /\ u \in Waiting => QueuedAt(u) <= clock
  <2>1. SUFFICES ASSUME NEW u \in Users
                 PROVE  QueuedAt(u) \in Nat /\ (u \in Waiting => QueuedAt(u) <= clock)
    OBVIOUS
  <2>2. reg[u].createdAt \in Nat /\ reg[u].waitlistedAt \in Nat
    BY DEF TypeOK, Row
  <2>3. QueuedAt(u) \in Nat
    BY <2>2 DEF QueuedAt
  <2>4. ASSUME u \in Waiting PROVE QueuedAt(u) <= clock
    <3>1. u \in HasRow
      BY <2>4 DEF Waiting, HasRow
    <3>2. QueuedAt(u) \in TimesOf(u)
      BY <3>1 DEF QueuedAt, TimesOf, TimesApart
    <3> QED
      BY <3>1, <3>2 DEF TimesApart
  <2> QED
    BY <2>3, <2>4
<1>1. CASE Promote(p)
  <2>1. settings.autoPromote
    BY <1>1 DEF Promote, Done, Goto, TypeOK, Idle
  <2>2. PICK chosen \in SUBSET Waiting :
          MoveUp(chosen) /\ Goto(p, [at |-> "promoting", chosen |-> chosen])
    BY <1>1, <2>1 DEF Promote
  <2>3. req'[p] = [at |-> "promoting", chosen |-> chosen] /\ UNCHANGED <<reg, limit, lock>>
    BY <1>1, <2>2 DEF Goto, TypeOK, Promote, admin
  <2>4. /\ Waiting' = Waiting
        /\ \A u, v \in Users : Alike(u, v)' = Alike(u, v)
        /\ \A u \in Users : MayMoveUp(u)' = MayMoveUp(u) /\ QueuedAt(u)' = QueuedAt(u)
    BY <2>3 DEF Waiting, Alike, MayMoveUp, NoLimits, LockCovers, QueuedAt
  <2>5. \A u \in chosen : u \in Users /\ reg[u].status \notin CountedStatuses
    BY DEF Waiting, CountedStatuses
  <2>6. ASSUME NEW u \in chosen, NEW v \in Waiting \ chosen, Alike(u, v), MayMoveUp(v)
        PROVE  QueuedAt(u) <= QueuedAt(v)
    <3>1. ~(QueuedAt(v) < QueuedAt(u))
      BY <2>2, <2>6, MoveUpPassesNobody
    <3>2. u \in Users /\ v \in Users
      BY <2>5 DEF Waiting
    <3> QED
      BY <1>0, <3>1, <3>2
  <2>7. \A v \in Waiting : v \in Users
    BY DEF Waiting
  <2> QED
    BY <2>3, <2>4, <2>5, <2>6, <2>7
<1>2. CASE req'[p] = req[p]
  <2>1. req[p].at = "promoting" /\ req[p].chosen \in SUBSET Users
    BY <1>2, RequestFields DEF TypeOK
  <2>2. UNCHANGED <<limit, lock>> /\ \A q \in Requests : ~Insert(q)
    BY <2>1, RowIsLocked
  <2>3. \A q \in Requests : ~Promoting(q)
    <3>1. ASSUME NEW q \in Requests, Promoting(q) PROVE FALSE
      <4>1. q = p
        BY <2>1, <3>1 DEF Promoting, LockHeldByPromotion
      <4>2. req'[p] = Idle
        BY <3>1, <4>1 DEF Promoting, Done, Goto, TypeOK
      <4> QED
        BY <1>2, <2>1, <4>2 DEF Idle
    <3> QED
      BY <3>1
  <2>4. ASSUME NEW u \in req[p].chosen
        PROVE  reg[u].status \notin CountedStatuses /\ reg'[u].status \notin CountedStatuses
    <3>1. reg[u].status \notin CountedStatuses
      BY <2>1 DEF NobodyPassed
    <3> QED
      BY <2>1, <2>2, <2>3, <3>1, QueueStep
  <2>5. ASSUME NEW u \in req[p].chosen \cap Waiting', NEW v \in Waiting' \ req[p].chosen,
               Alike(u, v)', MayMoveUp(v)'
        PROVE  QueuedAt(u)' <= QueuedAt(v)'
    <3>0. u \in Users /\ v \in Users /\ reg'[u].status = "waitlisted"
          /\ reg'[v].status = "waitlisted"
      BY DEF Waiting
    <3>1. /\ reg[u].status = "waitlisted"
          /\ reg'[u].role = reg[u].role /\ reg'[u].createdAt = reg[u].createdAt
          /\ reg'[u].waitlistedAt = reg[u].waitlistedAt
      BY <2>2, <2>4, <3>0, QueueStep
    <3>2. QueuedAt(u)' = QueuedAt(u) /\ u \in Waiting
      BY <3>0, <3>1 DEF QueuedAt, Waiting
    <3>3. CASE /\ reg[v].status = "waitlisted"
               /\ reg'[v].role = reg[v].role /\ reg'[v].byLock = reg[v].byLock
               /\ reg'[v].createdAt = reg[v].createdAt
               /\ reg'[v].waitlistedAt = reg[v].waitlistedAt
      <4>1. /\ QueuedAt(v)' = QueuedAt(v) /\ v \in Waiting
            /\ Alike(u, v) /\ MayMoveUp(v)
        BY <2>2, <2>5, <3>0, <3>1, <3>3
           DEF QueuedAt, Waiting, Alike, MayMoveUp, NoLimits, LockCovers
      <4> QED
        BY <2>1, <2>5, <3>2, <4>1 DEF NobodyPassed
    <3>4. CASE reg'[v].waitlistedAt = clock + 1
      <4>1. clock \in Nat
        BY DEF TypeOK
      <4>2. QueuedAt(v)' = clock + 1
        BY <3>4, <4>1 DEF QueuedAt
      <4> QED
        BY <1>0, <3>0, <3>2, <4>1, <4>2
    <3> QED
      BY <2>2, <3>0, <3>3, <3>4, QueueStep
  <2> QED
    BY <1>2, <2>4, <2>5
<1> QED
  BY <1>1, <1>2, PromotingStep

\* A promotion passes nobody over ("oldest first", maybePromoteFromWaitlist), for any
\* number of people, promotions and statuses set by hand that send people to the end of the
\* queue.
THEOREM FairQueueCorrect ==
    ASSUME OnlyJoiningAtTheEnd
    PROVE  Spec => FairQueue
<1>1. Init => TimesApart /\ JoiningAtTheEnd /\ NobodyPassed
  <2> SUFFICES ASSUME Init PROVE TimesApart /\ JoiningAtTheEnd /\ NobodyPassed
    OBVIOUS
  <2>1. /\ \A u \in Users : reg[u].status = "none"
        /\ \A p \in Requests : req[p].at = "idle"
    BY DEF Init, NoRow, Idle
  <2> QED
    BY <2>1 DEF TimesApart, HasRow, JoiningAtTheEnd, NobodyPassed
<1>2. TypeOK' /\ LockHeldByPromotion' /\ QInv /\ [Next]_vars => QInv'
  BY JoiningAtTheEndStep, TimesApartStep, NobodyPassedStep DEF QInv
<1>3. QInv /\ [Next]_vars
        => [\A p \in Requests : req[p].at = "promoting" /\ req'[p] = Idle =>
              \A u, v \in Waiting :
                /\ reg'[u].status = "pending"
                /\ reg[v].role = reg[u].role
                /\ v \in Children <=> u \in Children
                /\ MayMoveUp(v)
                /\ QueuedAt(v) < QueuedAt(u)
                => reg'[v].status = "pending"]_vars
  <2> SUFFICES ASSUME QInv, [Next]_vars,
                      NEW p \in Requests, req[p].at = "promoting",
                      NEW u \in Waiting, NEW v \in Waiting,
                      reg'[u].status = "pending", Alike(u, v), MayMoveUp(v),
                      QueuedAt(v) < QueuedAt(u)
               PROVE  reg'[v].status = "pending"
    BY DEF Alike
  <2> USE DEF QInv
  <2>1. u \in Users /\ v \in Users /\ reg[u].status = "waitlisted"
        /\ reg[v].status = "waitlisted"
    BY DEF Waiting
  <2>2. PICK q \in Requests : Promoting(q) /\ u \in req[q].chosen
    <3>1. \A q \in Requests : ~Insert(q)
      BY RowIsLocked
    <3> QED
      BY <2>1, <3>1, QueueStep DEF CountedStatuses
  <2>3. q = p
    BY <2>2 DEF Promoting, LockHeldByPromotion
  <2>4. v \in req[p].chosen
    <3>1. QueuedAt(u) \in Nat /\ QueuedAt(v) \in Nat
      BY <2>1 DEF QueuedAt, TypeOK, Row
    <3>2. v \notin req[p].chosen => QueuedAt(u) <= QueuedAt(v)
      BY <2>2, <2>3 DEF NobodyPassed
    <3> QED
      BY <3>1, <3>2
  <2>5. reg'[v] = [reg[v] EXCEPT !.status = "pending", !.byLock = FALSE]
    BY <2>1, <2>2, <2>3, <2>4 DEF Promoting
  <2>6. reg[v] \in Row
    BY <2>1 DEF TypeOK
  <2> QED
    BY <2>5, <2>6 DEF Row
<1> QED
  BY <1>1, <1>2, <1>3, TypeCorrect, LockCorrect, PTL DEF Spec, FairQueue, QInv

-----------------------------------------------------------------------------
(* Why no lodging is given to more people than it has places               *)
(*                                                                         *)
(* Beds are counted under the lock of the event row, but the number of     *)
(* places was read before: it must not be lowered in between.  And whoever *)
(* comes (back) onto a place must not bring a bed along that was given to  *)
(* somebody else meanwhile: who is cancelled, or put on the waitlist by    *)
(* hand, keeps the lodging in the row while nobody counts it.              *)
OnlyCountedBeds ==
    /\ "beds" \notin Ops
    /\ \A pair \in Overrides :
         /\ pair[1] = "cancelled" => pair[2] = "cancelled"
         /\ pair[2] = "waitlisted" => pair[1] = "waitlisted"

\* What is under way knows the number of places, and brings nobody back.
BedsRead ==
    \A p \in Requests :
        /\ req[p].at \in {"insert", "assign"} => req[p].places = Places(req[p].lodging)
        /\ req[p].at = "override" =>
             /\ req[p].expected = "cancelled" => req[p].status = "cancelled"
             /\ req[p].status = "waitlisted" => req[p].expected = "waitlisted"
\* Whoever waits has no bed in the row.
WaitersHaveNoBed ==
    \A u \in Users : reg[u].status \in {"none", "waitlisted"} => reg[u].lodging = NoLodging

BInv == TypeOK /\ BedsRead /\ WaitersHaveNoBed /\ BedsSuffice

LEMMA BedsStay ==
    ASSUME OnlyCountedBeds, [Next]_vars
    PROVE  UNCHANGED beds
<1>1. ASSUME NEW p \in Requests, Arrive(p) \/ Continue(p) PROVE UNCHANGED beds
  BY <1>1 DEF Arrive, RegisterStart, AssignStart, UnregisterStart, Cancel,
       DropCharacterStart, CheckInStart, OverrideStart, ChangeRoleStart, SaveLimitsStart,
       SaveLock, SaveSettings, Continue, Insert, Assign, Unregister, DropCharacter,
       ApproveAtDesk, CheckIn, BookCash, Override, ChangeRole, SaveLimits, Promote,
       Promoting, admin
<1> QED
  BY <1>1 DEF Next, ChangeExtras, SetBeds, Approve, CheckOut, SetConPayer, Restart, vars, admin,
     OnlyCountedBeds

\* A request that is about to give a bed read the number of places that still holds.
LEMMA BedsReadStep ==
    ASSUME OnlyCountedBeds, TypeOK, BedsRead, [Next]_vars
    PROVE  BedsRead'
<1> SUFFICES ASSUME NEW q \in Requests
             PROVE  /\ req'[q].at \in {"insert", "assign"} =>
                         req'[q].places = Places(req'[q].lodging)
                    /\ req'[q].at = "override" =>
                         /\ req'[q].expected = "cancelled" => req'[q].status = "cancelled"
                         /\ req'[q].status = "waitlisted" => req'[q].expected = "waitlisted"
  BY BedsStay DEF BedsRead, Places
<1>1. CASE req'[q] = req[q]
  BY <1>1 DEF BedsRead
<1>2. CASE req'[q] = Idle
  BY <1>2 DEF Idle
<1>3. CASE RegisterStart(q)
  <2>1. PICK u \in Users, role \in AskedRoles, payer \in Payers, n \in 0..MaxQuantity,
             l \in Lodgings \cup {NoLodging}, byLock \in BOOLEAN :
          Goto(q, [at |-> "insert", user |-> u, role |-> role, byLock |-> byLock,
                   conPayer |-> payer, extras |-> n, lodging |-> l,
                   places |-> Places(l), time |-> clock + 1])
    BY <1>3, ZenonT(60) DEF RegisterStart, LockCovers
  <2>2. req'[q] = [at |-> "insert", user |-> u, role |-> role, byLock |-> byLock,
                   conPayer |-> payer, extras |-> n, lodging |-> l,
                   places |-> Places(l), time |-> clock + 1]
    BY <2>1 DEF Goto, TypeOK
  <2> QED
    BY <2>2
<1>4. CASE AssignStart(q)
  <2>1. PICK u \in Users, l \in Lodgings \cup {NoLodging} :
          Goto(q, [at |-> "assign", user |-> u, lodging |-> l, places |-> Places(l)])
    BY <1>4 DEF AssignStart
  <2>2. req'[q] = [at |-> "assign", user |-> u, lodging |-> l, places |-> Places(l)]
    BY <2>1 DEF Goto, TypeOK
  <2> QED
    BY <2>2
<1>5. CASE Follows(q, req'[q]) /\ ~RegisterStart(q) /\ ~AssignStart(q)
  <2>1. CASE OverrideStart(q) /\ req'[q].at = "override"
             /\ <<req'[q].expected, req'[q].status>> \in Overrides
    BY <2>1 DEF OnlyCountedBeds
  <2> QED
    BY <1>5, <2>1 DEF Follows, QuietWaits, Idle
<1> QED
  BY <1>1, <1>2, <1>3, <1>4, <1>5, RequestsFollow

\* Only registering and booking a lodging give somebody a bed; every other step leaves the
\* lodgings as they are, or takes them away with the row, and takes onto a place only who
\* has no bed or has been counted all along.
LEMMA BedsElsewhere ==
    ASSUME TypeOK, BedsRead, WaitersHaveNoBed, [Next]_vars,
           \A p \in Requests : ~Insert(p) /\ ~Assign(p), NEW u \in Users
    PROVE  /\ reg'[u].lodging \in {reg[u].lodging, NoLodging}
           /\ reg'[u].status \in {"none", "waitlisted"} => reg'[u].lodging = NoLodging
           /\ reg'[u].status \in CountedStatuses =>
                reg[u].status \in CountedStatuses \/ reg'[u].lodging = NoLodging
<1> DEFINE row == reg'[u]
<1>0. /\ reg[u] \in Row /\ Written(u, row)
      /\ reg[u].status \in {"none", "waitlisted"} => reg[u].lodging = NoLodging
  BY NextWrites DEF TypeOK, WaitersHaveNoBed
<1>s. reg[u].status \in CountedStatuses \cup {"cancelled", "waitlisted", "none"}
  BY <1>0 DEF Row, Statuses, CountedStatuses
<1>1. CASE row = reg[u]
  BY <1>0, <1>1, <1>s DEF CountedStatuses
<1>2. CASE Withdrawn(u, row) \/ CharacterLost(u, row)
  BY <1>2 DEF Withdrawn, CharacterLost, NoRow, CountedStatuses
<1>3. CASE Registered(u, row)
  BY <1>3 DEF Registered
<1>4. CASE AtTheDesk(u, row)
  <2>1. PICK action \in {"approve", "checkin", "checkout", "cancel"} :
          CanMove(u, action) /\ row = Moved(u, action)
    BY <1>4 DEF AtTheDesk
  <2>2. /\ row.status = To[action] /\ reg[u].status \in From[action]
        /\ row.lodging = reg[u].lodging
    BY <1>0, <2>1 DEF Moved, Row, CanMove
  <2>3. To[action] \notin {"none", "waitlisted"}
    BY DEF To
  <2>4. To[action] \in CountedStatuses => From[action] \subseteq CountedStatuses
    BY DEF From, To, CountedStatuses
  <2> QED
    BY <2>2, <2>3, <2>4
<1>5. CASE ByHand(u, row)
  <2>1. PICK status \in Statuses :
          /\ row = Overridden(u, reg[u].status, status)
          /\ \/ status = "cancelled" /\ reg[u].status = "confirmed"
             \/ \E p \in Requests : /\ Override(p)
                                    /\ req[p].user = u
                                    /\ req[p].expected = reg[u].status
                                    /\ req[p].status = status
    BY <1>5 DEF ByHand
  <2>2. row.status = status /\ row.lodging = reg[u].lodging /\ status # "none"
    BY <1>0, <2>1 DEF Overridden, Row, Statuses
  <2>3. CASE status = "cancelled" /\ reg[u].status = "confirmed"
    BY <2>2, <2>3 DEF CountedStatuses
  <2>4. CASE \E p \in Requests : /\ Override(p)
                                 /\ req[p].expected = reg[u].status
                                 /\ req[p].status = status
    <3>1. /\ reg[u].status = "cancelled" => status = "cancelled"
          /\ status = "waitlisted" => reg[u].status = "waitlisted"
      BY <2>4 DEF Override, BedsRead
    <3> QED
      BY <1>0, <1>s, <2>2, <3>1 DEF CountedStatuses
  <2> QED
    BY <2>1, <2>3, <2>4
<1>6. CASE MovedUp(u, row)
  <2>1. row.status = "pending" /\ row.lodging = NoLodging
    BY <1>0, <1>6 DEF MovedUp, Row
  <2> QED
    BY <1>0, <1>6, <2>1 DEF MovedUp
<1>7. CASE Rebooked(u, row) \/ Noted(u, row)
  <2>1. row.lodging = reg[u].lodging /\ row.status = reg[u].status
    BY <1>0, <1>7 DEF Rebooked, Noted, Row
  <2> QED
    BY <1>0, <2>1
<1> QED
  BY <1>0, <1>1, <1>2, <1>3, <1>4, <1>5, <1>6, <1>7 DEF Written

\* A bed is given to one person where one is free, and everybody else keeps theirs.
LEMMA OneMoreOccupant ==
    ASSUME TypeOK, BedsSuffice, UNCHANGED beds, NEW u \in Users, NEW l, NEW others,
           BedFree(l, Places(l), others), Occupants(l) \ others \subseteq {u},
           \A v \in Users \ {u} : reg'[v] = reg[v],
           reg'[u].lodging \in {l, NoLodging},
           l \in Lodgings \cup {NoLodging}
    PROVE  BedsSuffice'
<1> SUFFICES ASSUME NEW k \in Lodgings, beds[k] # Unlimited
             PROVE  Cardinality(Occupants(k)') <= beds[k]
  BY DEF BedsSuffice
<1>0. beds[k] \in Nat /\ k # NoLodging
  BY NullAssumption DEF TypeOK, Limit
<1>1. /\ \A X \in SUBSET Users : IsFiniteSet(X) /\ Cardinality(X) \in Nat
      /\ Occupants(k) \subseteq Users /\ Occupants(k)' \subseteq Users
  BY FiniteAssumption, FS_Subset, FS_CardinalityType DEF Occupants, Counted
<1>2. Cardinality(Occupants(k)) <= beds[k]
  BY <1>0 DEF BedsSuffice
<1>3. CASE k # l
  <2>1. Occupants(k)' \subseteq Occupants(k)
    BY <1>0, <1>3 DEF Occupants, Counted
  <2> QED
    BY <1>0, <1>1, <1>2, <2>1, FS_Subset
<1>4. CASE k = l
  <2> DEFINE there == Occupants(l) \cap others
  <2>1. Cardinality(there) < beds[k]
    BY <1>0, <1>4 DEF BedFree, Places
  <2>2. Occupants(k)' \subseteq there \cup {u}
    BY <1>4 DEF Occupants, Counted
  <2>3. there \subseteq Users /\ there \cup {u} \subseteq Users
    BY <1>1, <1>4
  <2>4. Cardinality(there \cup {u}) <= Cardinality(there) + 1
    <3>1. IsFiniteSet(there) /\ Cardinality(there) \in Nat
      BY <1>1, <2>3
    <3> HIDE DEF there
    <3>2. Cardinality(there \cup {u})
            = IF u \in there THEN Cardinality(there) ELSE Cardinality(there) + 1
      BY <3>1, FS_AddElement, Zenon
    <3> QED
      BY <3>1, <3>2
  <2>5. Cardinality(Occupants(k)') <= Cardinality(there \cup {u})
    <3>1. IsFiniteSet(there \cup {u})
      BY <1>1, <2>3
    <3> QED
      BY <2>2, <3>1, FS_Subset
  <2> QED
    BY <1>0, <1>1, <2>1, <2>3, <2>4, <2>5
<1> QED
  BY <1>3, <1>4

\* Registering gives a bed only where one is free, and none to who waits.
LEMMA InsertBeds ==
    ASSUME BInv, UNCHANGED beds, NEW p \in Requests, Insert(p)
    PROVE  BedsSuffice' /\ WaitersHaveNoBed'
<1> USE DEF BInv
<1> DEFINE r == req[p]
           waits == r.byLock \/ CapacityBlock(Placed, r.user, r.role)
           l == IF waits THEN NoLodging ELSE r.lodging
           status == IF waits THEN "waitlisted" ELSE "pending"
           row == [NoRow EXCEPT !.status = status, !.role = r.role, !.createdAt = r.time,
                                !.byLock = r.byLock, !.conPayer = r.conPayer,
                                !.extras = r.extras, !.lodging = l]
<1>1. /\ r.user \in Users /\ reg \in [Users -> Row] /\ r.lodging \in Lodgings \cup {NoLodging}
      /\ r.places = Places(r.lodging)
  BY RequestFields DEF Insert, TypeOK, BedsRead
<1>2. CASE UNCHANGED reg
  BY <1>2 DEF BedsSuffice, WaitersHaveNoBed, Occupants, Counted
<1>3. CASE Store(r.user, row) /\ BedFree(l, r.places, Users)
  <2>1. row.lodging = l /\ row.status = status
    BY DEF NoRow
  <2>2. BedFree(l, Places(l), Users)
    BY <1>1, <1>3 DEF BedFree
  <2>3. l \in Lodgings \cup {NoLodging} /\ (status = "waitlisted" => l = NoLodging)
        /\ status # "none"
    BY <1>1
  <2> HIDE DEF row, l, status
  <2>4. /\ \A v \in Users \ {r.user} : reg'[v] = reg[v]
        /\ reg'[r.user] = row
    BY <1>1, <1>3 DEF Store
  <2>5. WaitersHaveNoBed'
    BY <2>1, <2>3, <2>4 DEF WaitersHaveNoBed
  <2>6. Occupants(l) \ Users \subseteq {r.user}
    BY DEF Occupants, Counted
  <2>7. BedsSuffice'
    BY <1>1, <2>1, <2>2, <2>3, <2>4, <2>6, OneMoreOccupant
  <2> QED
    BY <2>5, <2>7
<1> QED
  BY <1>2, <1>3 DEF Insert

\* Moving gives a bed only where one is free besides the mover's own, and none to who waits.
LEMMA AssignBeds ==
    ASSUME BInv, UNCHANGED beds, NEW p \in Requests, Assign(p)
    PROVE  BedsSuffice' /\ WaitersHaveNoBed'
<1> USE DEF BInv
<1> DEFINE u == req[p].user
           l == req[p].lodging
<1>1. /\ u \in Users /\ reg \in [Users -> Row] /\ l \in Lodgings \cup {NoLodging}
      /\ req[p].places = Places(l)
  BY RequestFields DEF Assign, TypeOK, BedsRead
<1>2. CASE UNCHANGED reg
  BY <1>2 DEF BedsSuffice, WaitersHaveNoBed, Occupants, Counted
<1>3. CASE /\ reg[u].status \notin {"none", "cancelled"}
           /\ reg[u].status = "waitlisted" => l = NoLodging
           /\ BedFree(l, req[p].places, Users \ {u})
           /\ Store(u, [reg[u] EXCEPT !.lodging = l])
  <2>1. /\ \A v \in Users \ {u} : reg'[v] = reg[v]
        /\ reg'[u] = [reg[u] EXCEPT !.lodging = l]
    BY <1>1, <1>3 DEF Store
  <2>2. reg'[u].lodging = l /\ reg'[u].status = reg[u].status
    BY <1>1, <2>1 DEF Row
  <2>3. WaitersHaveNoBed'
    BY <1>3, <2>1, <2>2 DEF WaitersHaveNoBed
  <2>4. Occupants(l) \ (Users \ {u}) \subseteq {u}
    BY DEF Occupants, Counted
  <2>5. BedFree(l, Places(l), Users \ {u}) /\ reg'[u].lodging \in {l, NoLodging}
    BY <1>1, <1>3, <2>2
  <2> HIDE DEF u, l
  <2>6. BedsSuffice'
    BY <1>1, <2>1, <2>4, <2>5, OneMoreOccupant
  <2> QED
    BY <2>3, <2>6
<1> QED
  BY <1>2, <1>3 DEF Assign

\* No lodging is given to more people than it has places (assertLodgingCapacity), for any
\* number of people, lodgings and requests, as long as places are not taken away and nobody
\* who is not counted comes back with a bed.
THEOREM BedsCorrect ==
    ASSUME OnlyCountedBeds
    PROVE  Spec => []BedsSuffice
<1>1. Init /\ TypeOK => BInv
  <2> SUFFICES ASSUME Init, TypeOK PROVE BInv
    OBVIOUS
  <2>1. /\ \A u \in Users : reg[u].status = "none" /\ reg[u].lodging = NoLodging
        /\ \A p \in Requests : req[p].at = "idle"
    BY DEF Init, NoRow, Idle
  <2>2. \A l : Occupants(l) = {}
    BY <2>1 DEF Occupants, Counted, CountedStatuses
  <2>3. \A l \in Lodgings : beds[l] = Unlimited \/ 0 <= beds[l]
    BY DEF TypeOK, Limit
  <2> QED
    BY <2>1, <2>2, <2>3, FS_EmptySet DEF BInv, BedsRead, WaitersHaveNoBed, BedsSuffice
<1>2. TypeOK' /\ BInv /\ [Next]_vars => BInv'
  <2> SUFFICES ASSUME TypeOK', BInv, [Next]_vars PROVE BInv'
    OBVIOUS
  <2> USE DEF BInv
  <2>1. UNCHANGED beds /\ BedsRead'
    BY BedsStay, BedsReadStep
  <2>2. CASE \E p \in Requests : Insert(p) \/ Assign(p)
    BY <2>1, <2>2, InsertBeds, AssignBeds
  <2>3. CASE \A p \in Requests : ~Insert(p) /\ ~Assign(p)
    <3>1. WaitersHaveNoBed'
      BY <2>3, BedsElsewhere DEF WaitersHaveNoBed
    <3>2. ASSUME NEW l \in Lodgings, beds[l] # Unlimited
          PROVE  Cardinality(Occupants(l)') <= beds[l]
      <4>1. l # NoLodging /\ beds[l] \in Nat /\ Cardinality(Occupants(l)) <= beds[l]
        BY <3>2, NullAssumption DEF TypeOK, Limit, BedsSuffice
      <4>2. Occupants(l)' \subseteq Occupants(l) /\ Occupants(l) \subseteq Users
        BY <2>3, <4>1, BedsElsewhere DEF Occupants, Counted
      <4>3. /\ Cardinality(Occupants(l)') \in Nat /\ Cardinality(Occupants(l)) \in Nat
            /\ Cardinality(Occupants(l)') <= Cardinality(Occupants(l))
        BY <4>2, FiniteAssumption, FS_Subset, FS_CardinalityType
      <4> QED
        BY <4>1, <4>3
    <3> QED
      BY <2>1, <3>1, <3>2 DEF BedsSuffice
  <2> QED
    BY <2>1, <2>2, <2>3
<1>3. BInv => BedsSuffice
  BY DEF BInv
<1> QED
  BY <1>1, <1>2, <1>3, TypeCorrect, PTL DEF Spec

=============================================================================
