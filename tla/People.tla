------------------------------- MODULE People -------------------------------
(***************************************************************************)
(* Who is who: accounts and guests, how they log in and get a password,    *)
(* how they are invited, deactivated, deleted and merged, and the groups   *)
(* they join.  Translated from backend/auth, members, invitations,         *)
(* groupTree, managedPersons and middleware/authenticate.js.               *)
(*                                                                         *)
(* A password is the number of passwords its account has had.  Links that  *)
(* were used, replaced or ran out only make a request fail, so requests    *)
(* are made with valid links and tokens are not in the state.  Each person *)
(* has at most one registration, which stands for those to all events.     *)
(***************************************************************************)
EXTENDS Integers, Sequences, FiniteSets, SequencesExt

CONSTANTS
    Members,      \* people with an account
    Guests,       \* people who registered without an account
    Newcomers,    \* ids that new rows of users get
    Invitations,  \* ids of invitations to become a member
    Codes,        \* ids of join codes
    Handlers,     \* requests handled at the same time
    Scenarios,    \* which kinds of operations may happen together in one behaviour
    MaxRequests,  \* bound on requests started
    MaxFaults     \* bound on restarts

Users == Members \cup Guests \cup Newcomers
NoUser == "nobody"
NoItem == "none"

ASSUME PeopleAssumption ==
    /\ IsFiniteSet(Users) /\ NoUser \notin Users
    /\ Members \cap Guests = {} /\ Newcomers \cap (Members \cup Guests) = {}
ASSUME LimitsAssumption == MaxRequests \in Nat /\ MaxFaults \in Nat

VARIABLES
    users,        \* the rows of users, with the registration
    sessions,     \* who is logged in, and with which password they did
    invitations,  \* invitations to become a member
    invites,      \* group_invitations
    codes,        \* group_join_codes
    job,          \* the statements each handler still has to run
    history,      \* what the properties have to know about the past
    requests,     \* how many requests were started
    faults,       \* how many restarts there were
    ops           \* the kinds of operations that happen in this behaviour

pvars == <<users, sessions, invitations, invites, codes, job, history, requests, faults,
           ops>>

MaybeUser == Users \cup {NoUser}
\* An e-mail address, and an account at a provider with this address, is named after
\* the person who has it in the beginning; logins are the providers' accounts linked.
Row ==
    [kind : {"free", "guest", "account", "deleted"}, active : BOOLEAN,
     verified : BOOLEAN, password : Nat, address : MaybeUser,
     parent : MaybeUser, manager : MaybeUser, named : BOOLEAN, memberOnly : BOOLEAN,
     place : {"none", "open", "cancelled"}, paid : BOOLEAN,
     files : Nat, portrait : BOOLEAN, logins : SUBSET Users]
Step ==
    [do : {"openSession", "insert", "setPassword", "endSessions", "cancelPlace",
           "delete", "setAddress", "move", "activate", "signUp", "name", "code",
           "person", "claim", "accept", "redeem", "playGroup", "storeFile",
           "appear", "link", "invite", "off", "on", "group"},
     user : MaybeUser, other : MaybeUser, address : MaybeUser,
     item : Invitations \cup Codes \cup {NoItem}, password : Nat]
Excuses ==
    [interrupted : SUBSET Users, overtaken : SUBSET Users, merged : SUBSET Users,
     below : SUBSET Users, disturbed : SUBSET Users, lost : SUBSET Users,
     joined : [Codes -> Nat]]

Exists(u) == u \in Users /\ users[u].kind \in {"guest", "account"}

\* Together with the unique indexes on the e-mail address and the provider's account.
TypeOK ==
    /\ users \in [Users -> Row]
    /\ \A u, v \in Users :
         u # v => /\ users[u].address = users[v].address => users[u].address = NoUser
                  /\ users[u].logins \cap users[v].logins = {}
    /\ sessions \subseteq [user : Users, password : Nat, late : BOOLEAN]
    /\ invitations \in
         [Invitations -> [state : {"none", "sent"}, for : MaybeUser, by : MaybeUser,
                          address : MaybeUser, redeemed : BOOLEAN,
                          cancelled : BOOLEAN, made : SUBSET Users]]
    /\ invites \subseteq [parent : Users, child : MaybeUser, address : MaybeUser]
    /\ codes \in [Codes -> [manager : MaybeUser, max : Nat, used : Nat]]
    /\ job \in [Handlers -> Seq(Step)]
    /\ history \in Excuses
    /\ requests \in 0..MaxRequests /\ faults \in 0..MaxFaults
    /\ ops \in Scenarios

-----------------------------------------------------------------------------
Idle(h) == job[h] = <<>>
Doing(h, what) == job[h] # <<>> /\ Head(job[h]).do = what
Now(h) == Head(job[h])
Steps(h) == {job[h][i] : i \in DOMAIN job[h]}
Running == UNION {Steps(h) : h \in Handlers}
\* An id out of several, of which it makes no difference which one it is.
Fresh(id, ids) == ids # {} /\ id = CHOOSE x \in ids : TRUE
Does(kinds) == kinds \cap ops # {}

Do(what, u) ==
    [do |-> what, user |-> u, other |-> NoUser, address |-> NoUser, item |-> NoItem,
     password |-> 0]

\* A request starts. (Unless "rush", it waits until all others are answered.)
Request ==
    /\ "rush" \in ops \/ \A h \in Handlers : Idle(h)
    /\ requests < (IF "brief" \in ops THEN MaxRequests - 1 ELSE MaxRequests)
    /\ requests' = requests + 1
\* A request that takes several statements.
Start(h, steps) ==
    /\ Request /\ Fresh(h, {g \in Handlers : Idle(g)})
    /\ job' = [job EXCEPT ![h] = steps]
    /\ UNCHANGED <<faults, ops>>
\* A request whose statements are as good as one.
Once == Request /\ UNCHANGED <<job, faults, ops>>
\* The next statement of a request.
Then(h, steps) ==
    /\ job' = [job EXCEPT ![h] = steps \o Tail(@)]
    /\ UNCHANGED <<requests, faults, ops>>
\* The handler answers with an error; what it had still to do is not done, unless it is
\* about the others of a bulk action.
OfBulk(steps) == \A i \in DOMAIN steps : steps[i].do \in {"off", "on", "group"}
Refuse(h) ==
    /\ job' = [job EXCEPT ![h] = IF OfBulk(Tail(@)) THEN Tail(@) ELSE <<>>]
    /\ UNCHANGED <<requests, faults, ops>>
Past(field, more) == history' = [history EXCEPT ![field] = @ \cup more]
When(condition, set) == IF condition THEN set ELSE {}

\* A merge holds both accounts' rows: others' updates of them, and rows that refer to
\* them, have to wait. A redemption holds the code's row.
Unlocked(u) == \A step \in Running : step.do = "move" => u \notin {step.user, step.other}
CodeUnlocked(c) == \A step \in Running : step.do = "redeem" => step.item # c

Unused(a) == a = NoUser \/ \A u \in Users : users[u].address # a
\* The id of the next row of users.
NextRow(n) ==
    Fresh(n, {x \in Newcomers : users[x].kind = "free"
                 /\ \A step \in Running : x \notin {step.user, step.other}})
Account(a, password) ==
    [kind |-> "account", active |-> TRUE, verified |-> TRUE, password |-> password,
     address |-> a, parent |-> NoUser, manager |-> NoUser, named |-> FALSE,
     memberOnly |-> FALSE, place |-> "none", paid |-> FALSE, files |-> 0,
     portrait |-> FALSE, logins |-> {}]
Guest(a) == [Account(a, 0) EXCEPT !.kind = "guest", !.verified = FALSE]

-----------------------------------------------------------------------------
(* Logging in *)

\* POST login reads the row and compares the password...
Login(h, u) ==
    /\ Does({"login"}) /\ users[u].kind = "account" /\ users[u].password > 0
    /\ users[u].active /\ users[u].verified
    /\ Start(h, <<[Do("openSession", u) EXCEPT !.password = users[u].password]>>)
    /\ UNCHANGED <<users, sessions, invitations, invites, codes, history>>
\* ... and then there is a session, whatever became of the account meanwhile.
OpenSession(h) ==
    /\ Doing(h, "openSession") /\ Unlocked(Now(h).user)
    /\ LET u == Now(h).user
       IN  IF Exists(u)
           THEN /\ sessions' = sessions \cup
                     {[user |-> u, password |-> Now(h).password,
                       late |-> Now(h).password # users[u].password \/ ~users[u].active]}
                /\ Then(h, <<>>)
           ELSE Refuse(h) /\ UNCHANGED sessions
    /\ UNCHANGED <<users, invitations, invites, codes, history>>
\* Back from a provider: its account is linked, or the address is somebody's and the
\* provider has verified it, or there will be a new account. Nobody deactivated gets in.
OAuthLogin(h, x) ==
    /\ Does({"oauth"})
    /\ LET holders == {u \in Users : x \in users[u].logins}
           owners == {u \in Users : Exists(u) /\ users[u].address = x}
           enter(u) == [Do("openSession", u) EXCEPT !.password = users[u].password]
           link(u) == [Do("link", u) EXCEPT !.address = x]
       IN  \/ \E u \in holders : users[u].active /\ Start(h, <<enter(u)>>)
           \/ /\ holders = {}
              /\ \E u \in owners : users[u].active /\ Start(h, <<link(u), enter(u)>>)
           \/ /\ holders = {} /\ owners = {}
              /\ \E n \in Newcomers :
                   /\ NextRow(n)
                   /\ Start(h, <<[Do("appear", n) EXCEPT !.address = x], link(n), enter(n)>>)
    /\ UNCHANGED <<users, sessions, invitations, invites, codes, history>>
\* findOrCreateOAuthUser: the new row, unless the address was taken meanwhile...
Appear(h) ==
    /\ Doing(h, "appear")
    /\ IF Unused(Now(h).address)
       THEN /\ \E verified \in BOOLEAN :
                 users' = [users EXCEPT ![Now(h).user] =
                             [Account(Now(h).address, 0) EXCEPT !.verified = verified]]
            /\ Then(h, <<>>)
       ELSE Refuse(h) /\ UNCHANGED users
    /\ UNCHANGED <<sessions, invitations, invites, codes, history>>
Unlinked(x) == \A u \in Users : x \notin users[u].logins
\* ... and the link, unless somebody else made one meanwhile.
Link(h) ==
    /\ Doing(h, "link") /\ Unlocked(Now(h).user)
    /\ LET u == Now(h).user
           x == Now(h).address
       IN  IF Exists(u) /\ Unlinked(x)
           THEN users' = [users EXCEPT ![u].logins = @ \cup {x}] /\ Then(h, <<>>)
           ELSE Refuse(h) /\ UNCHANGED users
    /\ UNCHANGED <<sessions, invitations, invites, codes, history>>
Logout(s) ==
    /\ Does({"login"}) /\ Once
    /\ sessions' = sessions \ {s}
    /\ UNCHANGED <<users, invitations, invites, codes, history>>

\* POST register: the address is looked up, the password hashed, the row inserted.
Register(h, n, a) ==
    /\ Does({"register"}) /\ NextRow(n) /\ Unused(a)
    /\ Start(h, <<[Do("insert", n) EXCEPT !.address = a]>>)
    /\ UNCHANGED <<users, sessions, invitations, invites, codes, history>>
\* Mutant: the address is not looked at again (no unique index).
InsertAnyway(h) ==
    /\ Doing(h, "insert")
    /\ users' = [users EXCEPT ![Now(h).user] = Account(Now(h).address, 1)]
    /\ Then(h, <<>>)
    /\ UNCHANGED <<sessions, invitations, invites, codes, history>>
InsertAccount(h) ==
    /\ Doing(h, "insert")
    /\ IF Unused(Now(h).address)
       THEN /\ users' = [users EXCEPT ![Now(h).user] =
                           [Account(Now(h).address, 1) EXCEPT !.verified = FALSE]]
            /\ Then(h, <<>>)
       ELSE Refuse(h) /\ UNCHANGED users
    /\ UNCHANGED <<sessions, invitations, invites, codes, history>>
Verify(u) ==
    /\ Does({"register"}) /\ Once /\ Unlocked(u)
    /\ users[u].kind = "account" /\ users[u].active /\ ~users[u].verified
    /\ users' = [users EXCEPT ![u].verified = TRUE]
    /\ UNCHANGED <<sessions, invitations, invites, codes, history>>

\* Mutant: the sessions are ended first.
ResetBackwards(u) == <<Do("endSessions", u), Do("setPassword", u)>>
\* POST password-reset/confirm, after the account was found by the link.
ResetSteps(u) == <<Do("setPassword", u), Do("endSessions", u)>>
ResetPassword(h, u) ==
    /\ Does({"reset"}) /\ users[u].kind = "account" /\ users[u].active
    /\ Start(h, ResetSteps(u))
    /\ UNCHANGED <<users, sessions, invitations, invites, codes, history>>
SetPassword(h) ==
    /\ Doing(h, "setPassword") /\ Unlocked(Now(h).user)
    /\ users' = IF Exists(Now(h).user)
                THEN [users EXCEPT ![Now(h).user].password = @ + 1,
                                   ![Now(h).user].verified = TRUE]
                ELSE users
    /\ Then(h, <<>>)
    /\ UNCHANGED <<sessions, invitations, invites, codes, history>>
SessionsOf(u) == {s \in sessions : s.user = u}
EndSessions(h) ==
    /\ Doing(h, "endSessions")
    /\ sessions' = sessions \ SessionsOf(Now(h).user)
    /\ Then(h, <<>>)
    /\ UNCHANGED <<users, invitations, invites, codes, history>>

\* PUT email: the address is looked up, then written unless it was taken meanwhile.
ChangeEmail(h, u, a) ==
    /\ Does({"email"}) /\ Exists(u) /\ Unused(a) /\ a # NoUser
    /\ Start(h, <<[Do("setAddress", u) EXCEPT !.address = a]>>)
    /\ UNCHANGED <<users, sessions, invitations, invites, codes, history>>
SetAddress(h) ==
    /\ Doing(h, "setAddress") /\ Unlocked(Now(h).user)
    /\ LET u == Now(h).user
       IN  IF Unused(Now(h).address) /\ Exists(u)
           THEN /\ users' = [users EXCEPT ![u].address = Now(h).address,
                                          ![u].verified = TRUE]
                /\ Then(h, <<>>)
           ELSE Refuse(h) /\ UNCHANGED users
    /\ UNCHANGED <<sessions, invitations, invites, codes, history>>

-----------------------------------------------------------------------------
(* Staff: deactivating, deleting, merging *)

\* One transaction; the registrations are cancelled afterwards.
Deactivate(h, u) ==
    /\ Does({"deactivate"}) /\ Exists(u) /\ Unlocked(u)
    /\ users' = [users EXCEPT ![u].active = FALSE]
    /\ sessions' = sessions \ SessionsOf(u)
    /\ Start(h, IF users[u].place = "open" THEN <<Do("cancelPlace", u)>> ELSE <<>>)
    /\ UNCHANGED <<invitations, invites, codes, history>>
CancelPlace(h) ==
    /\ Doing(h, "cancelPlace")
    /\ users' = IF users[Now(h).user].place = "open"
                THEN [users EXCEPT ![Now(h).user].place = "cancelled"] ELSE users
    /\ Then(h, <<>>)
    /\ UNCHANGED <<sessions, invitations, invites, codes, history>>
Reactivate(u) ==
    /\ Does({"deactivate"}) /\ Once /\ Exists(u) /\ ~users[u].active /\ Unlocked(u)
    /\ users' = [users EXCEPT ![u].active = TRUE]
    /\ UNCHANGED <<sessions, invitations, invites, codes, history>>

\* A bulk action does the same for one after the other, whatever comes of each...
Bulk(h, u, v) ==
    /\ \/ Does({"off"}) /\ Start(h, <<Do("off", u), Do("off", v)>>)
       \/ Does({"on"}) /\ Start(h, <<Do("on", u), Do("on", v)>>)
       \/ /\ Does({"bulk"})
          /\ \E manager \in Users :
               Start(h, <<[Do("group", u) EXCEPT !.other = manager],
                          [Do("group", v) EXCEPT !.other = manager]>>)
    /\ u # v /\ UNCHANGED <<users, sessions, invitations, invites, codes, history>>
BulkDeactivate(h) ==
    /\ Doing(h, "off") /\ Unlocked(Now(h).user)
    /\ LET u == Now(h).user
       IN  IF Exists(u)
           THEN /\ users' = [users EXCEPT ![u].active = FALSE]
                /\ sessions' = sessions \ SessionsOf(u)
                /\ Then(h, IF users[u].place = "open" THEN <<Do("cancelPlace", u)>>
                           ELSE <<>>)
           ELSE Refuse(h) /\ UNCHANGED <<users, sessions>>
    /\ UNCHANGED <<invitations, invites, codes, history>>
BulkReactivate(h) ==
    /\ Doing(h, "on") /\ Unlocked(Now(h).user)
    /\ users' = IF Exists(Now(h).user) THEN [users EXCEPT ![Now(h).user].active = TRUE]
                ELSE users
    /\ Then(h, <<>>)
    /\ UNCHANGED <<sessions, invitations, invites, codes, history>>

\* DELETE members/:id reads that the member is deactivated...
Delete(h, u) ==
    /\ Does({"delete"}) /\ Exists(u) /\ ~users[u].active
    /\ Start(h, <<Do("delete", u)>>)
    /\ UNCHANGED <<users, sessions, invitations, invites, codes, history>>

Detached(row, u) ==
    [row EXCEPT !.parent = IF @ = u THEN NoUser ELSE @,
                !.manager = IF @ = u THEN NoUser ELSE @]
Erased(rows, u) ==
    [v \in Users |-> IF v = u THEN [Guest(NoUser) EXCEPT !.kind = "deleted"]
                     ELSE Detached(rows[v], u)]
WithCodesOf(u, owner) ==
    [c \in Codes |-> IF codes[c].manager = u THEN [codes[c] EXCEPT !.manager = owner]
                     ELSE codes[c]]
\* ... and then the row goes with all that belongs to it, unless an invitation names it.
DeleteRow(h) ==
    /\ Doing(h, "delete")
    /\ LET u == Now(h).user
       IN  /\ Unlocked(u)
           /\ \A c \in Codes : codes[c].manager = u => CodeUnlocked(c)
           /\ IF Exists(u) /\ \A i \in Invitations : u \notin {invitations[i].for,
                                                              invitations[i].by}
              THEN /\ users' = Erased(users, u)
                   /\ sessions' = sessions \ SessionsOf(u)
                   /\ invites' = {v \in invites : u \notin {v.parent, v.child}}
                   /\ codes' = WithCodesOf(u, NoUser)
                   /\ Then(h, <<>>)
              ELSE Refuse(h) /\ UNCHANGED <<users, sessions, invites, codes>>
    /\ UNCHANGED <<invitations, history>>

\* Mutant: payments of a cancelled registration are not counted.
ConflictsIfOpen(keep, drop) ==
    users[keep].place # "none" /\ users[drop].place = "open"
FindConflicts(keep, drop) ==
    /\ users[keep].place # "none" /\ users[drop].place # "none"
    /\ users[drop].place = "open" \/ users[drop].paid
\* Both rows are locked; then the registrations are compared...
Merge(h, keep, drop) ==
    /\ Does({"merge"}) /\ keep # drop /\ Exists(keep) /\ Exists(drop)
    /\ Unlocked(keep) /\ Unlocked(drop)
    /\ ~FindConflicts(keep, drop)
    /\ Start(h, <<[Do("move", keep) EXCEPT !.other = drop]>>)
    /\ UNCHANGED <<users, sessions, invitations, invites, codes, history>>

Renamed(x, keep, drop) == IF x = drop THEN keep ELSE x
NotSelf(x, u) == IF x = u THEN NoUser ELSE x
\* A column moves as a whole or, if one row collides with a unique index, not at all:
\* account_files has one profile picture, group_invitations one row for each pair.
Repointed(rows, keep, drop) ==
    LET moved == {[v EXCEPT !.parent = Renamed(@, keep, drop)] : v \in rows}
        parents == IF Cardinality(moved) = Cardinality(rows) THEN moved ELSE rows
        both == {[v EXCEPT !.child = Renamed(@, keep, drop)] : v \in parents}
    IN  IF Cardinality(both) = Cardinality(parents) THEN both ELSE parents
\* ... who belonged to the dropped account belongs to the kept one, ...
Pointed(row, keep, drop) ==
    [row EXCEPT !.parent = Renamed(@, keep, drop), !.manager = Renamed(@, keep, drop)]
\* ... which takes over the registration if it has none, the files and the logins.
TakenOver(row, keep, other) ==
    LET takes == row.place = "none"
        filesMove == ~(row.portrait /\ other.portrait)
    IN  [row EXCEPT !.parent = NotSelf(@, keep), !.manager = NotSelf(@, keep),
                    !.place = IF takes THEN other.place ELSE @,
                    !.paid = IF takes THEN other.paid ELSE @,
                    !.files = IF filesMove THEN @ + other.files ELSE @,
                    !.portrait = @ \/ other.portrait,
                    !.logins = @ \cup other.logins]
\* ... What cannot go to the kept account is deleted with the dropped one.
MoveAll(h) ==
    /\ Doing(h, "move")
    /\ LET keep == Now(h).user
           drop == Now(h).other
           pointed == [v \in Users |-> Pointed(users[v], keep, drop)]
           kept == [pointed EXCEPT ![keep] = TakenOver(pointed[keep], keep, users[drop])]
       IN  /\ users' = Erased(kept, drop)
           /\ sessions' = sessions \ SessionsOf(drop)
           /\ invitations' = [i \in Invitations |->
                [invitations[i] EXCEPT !.for = Renamed(@, keep, drop),
                                       !.by = Renamed(@, keep, drop)]]
           /\ invites' = {v \in Repointed(invites, keep, drop) :
                            drop \notin {v.parent, v.child}}
           /\ codes' = WithCodesOf(drop, keep)
           /\ history' = [history EXCEPT
                !.merged = @ \cup {keep},
                !.lost = @ \cup When(/\ users[keep].place # "none"
                                     /\ users[drop].place = "open" \/ users[drop].paid,
                                     {drop})]
    /\ Then(h, <<>>)

OwnFiles(u) == Does({"files"}) /\ users[u].kind = "account" /\ users[u].active
\* Files of the account: the quota is looked at, the file stored, the row inserted.
UploadFile(h, u) ==
    /\ OwnFiles(u)
    /\ Start(h, <<Do("storeFile", u)>>)
    /\ UNCHANGED <<users, sessions, invitations, invites, codes, history>>
InsertFile(h) ==
    /\ Doing(h, "storeFile") /\ Unlocked(Now(h).user)
    /\ LET u == Now(h).user
       IN  IF Exists(u)
           THEN users' = [users EXCEPT ![u].files = @ + 1] /\ Then(h, <<>>)
           ELSE Refuse(h) /\ UNCHANGED users
    /\ UNCHANGED <<sessions, invitations, invites, codes, history>>
\* One of them is the profile picture, or none.
SetPortrait(u) ==
    /\ OwnFiles(u) /\ Once /\ users[u].files > 0
    /\ \E chosen \in BOOLEAN : users' = [users EXCEPT ![u].portrait = chosen]
    /\ UNCHANGED <<sessions, invitations, invites, codes, history>>
DeleteFile(u) ==
    /\ OwnFiles(u) /\ Once /\ users[u].files > 0
    /\ \E portrait \in IF users[u].files > 1 THEN {FALSE, users[u].portrait} ELSE {FALSE} :
         users' = [users EXCEPT ![u].files = @ - 1, ![u].portrait = portrait]
    /\ UNCHANGED <<sessions, invitations, invites, codes, history>>

\* What the registration desk and the payments do to a registration meanwhile.
Place(u) == Exists(u) /\ Does({"place"}) /\ Once
Disturb(u) == Past("disturbed", When(~Unlocked(u), {u}))
TakePlace(u) ==
    /\ Place(u) /\ users[u].place = "none" /\ Unlocked(u)
    /\ users' = [users EXCEPT ![u].place = "open"]
    /\ UNCHANGED <<sessions, invitations, invites, codes, history>>
Withdraw(u) ==
    /\ Place(u) /\ users[u].place = "open"
    /\ users' = [users EXCEPT ![u].place = "cancelled"]
    /\ UNCHANGED <<sessions, invitations, invites, codes, history>>
Reinstate(u) ==
    /\ Place(u) /\ users[u].place = "cancelled"
    /\ users' = [users EXCEPT ![u].place = "open"] /\ Disturb(u)
    /\ UNCHANGED <<sessions, invitations, invites, codes>>
Pay(u) ==
    /\ Place(u) /\ users[u].place # "none" /\ ~users[u].paid
    /\ users' = [users EXCEPT ![u].paid = TRUE] /\ Disturb(u)
    /\ UNCHANGED <<sessions, invitations, invites, codes>>

-----------------------------------------------------------------------------
(* Invitations to become a member *)

Open(i) ==
    invitations[i].state = "sent" /\ ~invitations[i].redeemed /\ ~invitations[i].cancelled
NewInvitation(i) == Fresh(i, {j \in Invitations : invitations[j].state = "none"})
Invitation(for, by, a) ==
    [state |-> "sent", for |-> for, by |-> by, address |-> a, redeemed |-> FALSE,
     cancelled |-> FALSE, made |-> {}]

\* POST members/invite. Without an address the account is made at once.
Invite(h, i, a) ==
    /\ Does({"member"}) /\ NewInvitation(i) /\ Unused(a)
    /\ invitations' = [invitations EXCEPT ![i] = Invitation(NoUser, NoUser, a)]
    /\ \/ a # NoUser /\ Start(h, <<>>)
       \/ /\ a = NoUser
          /\ \E n \in Newcomers :
               /\ NextRow(n)
               /\ Start(h, <<[Do("activate", n) EXCEPT !.item = i]>>)
    /\ UNCHANGED <<users, sessions, invites, codes, history>>
\* POST members/import: nothing is imported if there is an open invitation for an
\* address; somebody who has an account is only renamed...
Import(h, a) ==
    /\ Does({"import"}) /\ a # NoUser /\ \E i \in Invitations : NewInvitation(i)
    /\ \A i \in Invitations : Open(i) => invitations[i].address # a
    /\ Start(h, IF Unused(a) THEN <<[Do("invite", NoUser) EXCEPT !.address = a]>> ELSE <<>>)
    /\ UNCHANGED <<users, sessions, invitations, invites, codes, history>>
\* ... and the others are invited, whoever else has invited them meanwhile.
InsertInvitation(h) ==
    /\ Doing(h, "invite")
    /\ \E i \in Invitations :
         /\ NewInvitation(i)
         /\ invitations' = [invitations EXCEPT ![i] = Invitation(NoUser, NoUser, Now(h).address)]
    /\ Then(h, <<>>)
    /\ UNCHANGED <<users, sessions, invites, codes, history>>
\* A guest gets an account: a link made by the staff or by the person's manager.
Convert(h, i, g, by) ==
    /\ Does({"convert"}) /\ NewInvitation(i) /\ users[g].kind = "guest" /\ Unlocked(g)
    /\ by \in {NoUser, users[g].manager}
    /\ by # NoUser => users[by].active /\ users[by].parent = NoUser
                      /\ ~users[by].memberOnly
    /\ invitations' = [invitations EXCEPT ![i] = Invitation(g, by, users[g].address)]
    /\ Start(h, <<>>)
    /\ UNCHANGED <<users, sessions, invites, codes, history>>
CancelInvitation(i) ==
    /\ Does({"member", "convert", "import"}) /\ Once
    /\ invitations[i].state = "sent" /\ ~invitations[i].cancelled
    /\ invitations' = [invitations EXCEPT ![i].cancelled = TRUE]
    /\ UNCHANGED <<users, sessions, invites, codes, history>>

\* POST invite/redeem: the invitation is read, the password hashed, ...
Redeem(h, i, u, a) ==
    /\ Does({"member", "convert", "import"}) /\ Open(i)
    /\ \/ invitations[i].for = u
       \/ invitations[i].for = NoUser /\ NextRow(u)
    /\ a # NoUser /\ invitations[i].address \in {a, NoUser}
    /\ Start(h, <<[Do("activate", u) EXCEPT !.item = i, !.address = a, !.password = 1],
                  [Do("openSession", u) EXCEPT !.password = 1]>>)
    /\ UNCHANGED <<users, sessions, invitations, invites, codes, history>>
\* An admin activates it instead, without a password.
ActivateDirectly(h, i, u) ==
    /\ Does({"member", "convert"}) /\ Open(i) /\ invitations[i].address # NoUser
    /\ \/ invitations[i].for = u
       \/ invitations[i].for = NoUser /\ NextRow(u)
    /\ Start(h, <<[Do("activate", u) EXCEPT !.item = i,
                                            !.address = invitations[i].address]>>)
    /\ UNCHANGED <<users, sessions, invitations, invites, codes, history>>

MarkRedeemed(i) == ~invitations[i].redeemed
\* ... and in one transaction the account is made, or the guest's row becomes one, and
\* the invitation marked. (That it was cancelled meanwhile is not looked at.) Who was
\* logged in by OAuth as a guest stays so: there was no password before.
Activate(h) ==
    /\ Doing(h, "activate")
    /\ LET u == Now(h).user
           i == Now(h).item
           a == Now(h).address
           guest == invitations[i].for # NoUser
           mine == IF guest /\ users[u].address # NoUser THEN users[u].address ELSE a
           row == IF guest THEN [users[u] EXCEPT !.kind = "account", !.verified = TRUE,
                                   !.password = Now(h).password, !.manager = NoUser,
                                   !.address = mine]
                  ELSE Account(a, Now(h).password)
       IN  /\ Unlocked(u)
           /\ IF /\ guest => users[u].kind = "guest"
                 /\ mine = users[u].address \/ Unused(mine)
                 /\ MarkRedeemed(i)
              THEN /\ users' = [users EXCEPT ![u] = row]
                   /\ sessions' = {IF s.user = u THEN [s EXCEPT !.password = Now(h).password]
                                   ELSE s : s \in sessions}
                   /\ invitations' = [invitations EXCEPT ![i].redeemed = TRUE,
                                                         ![i].made = @ \cup {u}]
                   /\ Then(h, <<>>)
              ELSE Refuse(h) /\ UNCHANGED <<users, sessions, invitations>>
    /\ UNCHANGED <<invites, codes, history>>

-----------------------------------------------------------------------------
(* Groups *)

Able(u) == users[u].kind = "account" /\ users[u].active
\* requireGroupManager: members of a group manage nothing.
MayManage(u) == Able(u) /\ ~users[u].memberOnly /\ users[u].parent = NoUser
TopLevel(u) == Able(u) /\ users[u].parent = NoUser
\* Mutant: join codes do not make a manager.
LeadsSomebody(u) ==
    users[u].named \/ \E v \in Users : Exists(v) /\ u \in {users[v].manager, users[v].parent}
Leads(u) ==
    \/ users[u].named
    \/ \E v \in Users : u \in {users[v].manager, users[v].parent}
    \/ \E c \in Codes : codes[c].manager = u
\* joinBlocker finds nothing, and the other one is at the top.
CanJoin(parent, u) ==
    parent # u /\ TopLevel(parent) /\ Able(u) /\ users[u].parent = NoUser /\ ~Leads(u)

\* What a manager sets up passes the middleware before it is written.
Ask(h, u, step) ==
    /\ MayManage(u) /\ Start(h, <<step>>)
    /\ UNCHANGED <<users, sessions, invitations, invites, codes, history>>
AskName(h, u) == Does({"group"}) /\ Ask(h, u, Do("name", u))
AskCode(h, u, max) ==
    Does({"code"}) /\ Ask(h, u, [Do("code", u) EXCEPT !.password = max])
AskPerson(h, u, n) ==
    Does({"person"}) /\ NextRow(n) /\ Ask(h, u, [Do("person", u) EXCEPT !.other = n])
AskClaim(h, u, g) ==
    Does({"person"}) /\ users[g].kind = "guest"
    /\ Ask(h, u, [Do("claim", u) EXCEPT !.other = g])

\* That the manager joined a group meanwhile is not looked at again.
Overtaken(ok, who) == Past("overtaken", When(~ok, who))
SetGroupName(h) ==
    /\ Doing(h, "name") /\ Unlocked(Now(h).user)
    /\ \E named \in BOOLEAN :
         users' = IF Exists(Now(h).user) THEN [users EXCEPT ![Now(h).user].named = named]
                  ELSE users
    /\ Overtaken(MayManage(Now(h).user), {Now(h).user}) /\ Then(h, <<>>)
    /\ UNCHANGED <<sessions, invitations, invites, codes>>
CreateJoinCode(h) ==
    /\ Doing(h, "code") /\ Unlocked(Now(h).user)
    /\ \E c \in Codes :
         /\ Fresh(c, {d \in Codes : codes[d].max = 0})
         /\ IF Exists(Now(h).user)
            THEN /\ codes' = [codes EXCEPT ![c] = [manager |-> Now(h).user, used |-> 0,
                                                   max |-> Now(h).password]]
                 /\ Then(h, <<>>)
            ELSE Refuse(h) /\ UNCHANGED codes
    /\ Overtaken(MayManage(Now(h).user), {Now(h).user})
    /\ UNCHANGED <<users, sessions, invitations, invites>>
CreateManagedPerson(h) ==
    /\ Doing(h, "person") /\ Unlocked(Now(h).user)
    /\ IF Exists(Now(h).user)
       THEN /\ users' = [users EXCEPT ![Now(h).other] =
                           [Guest(NoUser) EXCEPT !.manager = Now(h).user]]
            /\ Then(h, <<>>)
       ELSE Refuse(h) /\ UNCHANGED users
    /\ Overtaken(MayManage(Now(h).user), {Now(h).user})
    /\ UNCHANGED <<sessions, invitations, invites, codes>>
ClaimPerson(h) ==
    /\ Doing(h, "claim") /\ Unlocked(Now(h).user) /\ Unlocked(Now(h).other)
    /\ LET g == Now(h).other
       IN  IF /\ Exists(Now(h).user) /\ users[g].kind = "guest" /\ users[g].active
              /\ users[g].manager = NoUser
           THEN users' = [users EXCEPT ![g].manager = Now(h).user] /\ Then(h, <<>>)
           ELSE Refuse(h) /\ UNCHANGED users
    /\ Overtaken(MayManage(Now(h).user), {Now(h).user})
    /\ UNCHANGED <<sessions, invitations, invites, codes>>

\* Somebody with an account is invited if they could join; others by mail.
InviteById(u, v) ==
    /\ Does({"invite"}) /\ Once /\ MayManage(u) /\ CanJoin(u, v) /\ Unlocked(u)
    /\ Unlocked(v)
    /\ invites' = invites \cup {[parent |-> u, child |-> v, address |-> NoUser]}
    /\ UNCHANGED <<users, sessions, invitations, codes, history>>
InviteNewPerson(u, a) ==
    /\ Does({"mail"}) /\ Once /\ MayManage(u) /\ Unlocked(u)
    /\ \A v \in Users : ~(users[v].address = a /\ Able(v))
    /\ invites' = invites \cup {[parent |-> u, child |-> NoUser, address |-> a]}
    /\ UNCHANGED <<users, sessions, invitations, codes, history>>
\* The invitee declines, or the manager takes the invitation back.
RemoveInvite(v) ==
    /\ Does({"invite", "mail"}) /\ Once
    /\ v.child # NoUser \/ MayManage(v.parent)
    /\ invites' = invites \ {v}
    /\ UNCHANGED <<users, sessions, invitations, codes, history>>

\* acceptInvitation, redeemJoinCode and setPlayGroup check first...
AcceptInvitation(h, v) ==
    /\ Does({"invite"}) /\ v.child # NoUser /\ Able(v.child)
    /\ \/ /\ CanJoin(v.parent, v.child)
          /\ Start(h, <<[Do("accept", v.child) EXCEPT !.other = v.parent]>>)
          /\ UNCHANGED invites
       \/ /\ ~CanJoin(v.parent, v.child)
          /\ users[v.child].parent = NoUser /\ ~Leads(v.child)
          /\ invites' = invites \ {v}
          /\ Start(h, <<>>)
    /\ UNCHANGED <<users, sessions, invitations, codes, history>>
CodeFree(c) == CodeUnlocked(c)
RedeemJoinCode(h, u, c) ==
    /\ Does({"code"}) /\ codes[c].manager # NoUser /\ codes[c].used < codes[c].max
    /\ CodeFree(c) /\ CanJoin(codes[c].manager, u)
    /\ Start(h, <<[Do("redeem", u) EXCEPT !.other = codes[c].manager, !.item = c]>>)
    /\ UNCHANGED <<users, sessions, invitations, invites, codes, history>>
MayPutInto(u, manager) ==
    /\ users[u].kind = "account" /\ users[u].manager = NoUser
    /\ u # manager /\ ~Leads(u)
    /\ TopLevel(manager) /\ users[manager].manager = NoUser
SetPlayGroup(h, u, manager) ==
    /\ Does({"admin"}) /\ MayPutInto(u, manager)
    /\ Start(h, <<[Do("playGroup", u) EXCEPT !.other = manager]>>)
    /\ UNCHANGED <<users, sessions, invitations, invites, codes, history>>

\* In a bulk action each is checked when it is their turn.
BulkPlayGroup(h) ==
    /\ Doing(h, "group")
    /\ IF MayPutInto(Now(h).user, Now(h).other)
       THEN Then(h, <<[Do("playGroup", Now(h).user) EXCEPT !.other = Now(h).other]>>)
       ELSE Refuse(h)
    /\ UNCHANGED <<users, sessions, invitations, invites, codes, history>>

InvitesTo(u) == {v \in invites : v.child = u}
\* ... and then write the row.
JoinGroup(h) ==
    /\ Doing(h, "accept") \/ Doing(h, "playGroup")
    /\ LET u == Now(h).user
           parent == Now(h).other
       IN  /\ Unlocked(u) /\ Unlocked(parent)
           /\ IF Exists(parent)
              THEN /\ users' = IF Exists(u) THEN [users EXCEPT ![u].parent = parent]
                               ELSE users
                   /\ invites' = IF Doing(h, "accept") THEN invites \ InvitesTo(u)
                                 ELSE invites
                   /\ Overtaken(TopLevel(parent) /\ ~Leads(u), {u, parent})
                   /\ Then(h, <<>>)
              ELSE Refuse(h) /\ UNCHANGED <<users, invites, history>>
    /\ UNCHANGED <<sessions, invitations, codes>>
\* Somebody who joined a group meanwhile does not join by code any more.
JoinByCode(h) ==
    /\ Doing(h, "redeem")
    /\ LET u == Now(h).user
           parent == Now(h).other
           c == Now(h).item
       IN  /\ Unlocked(u) /\ Unlocked(parent)
           /\ IF Exists(u) /\ users[u].parent = NoUser /\ Exists(parent)
              THEN /\ users' = [users EXCEPT ![u].parent = parent]
                   /\ codes' = [codes EXCEPT ![c].used = @ + 1]
                   /\ invites' = invites \ InvitesTo(u)
                   /\ history' = [history EXCEPT
                        !.joined[c] = @ + 1,
                        !.overtaken = @ \cup When(~TopLevel(parent) \/ Leads(u),
                                                  {u, parent})]
                   /\ Then(h, <<>>)
              ELSE Refuse(h) /\ UNCHANGED <<users, codes, invites, history>>
    /\ UNCHANGED <<sessions, invitations>>

\* POST group-invite/redeem makes an account below the one who invited. (That this one
\* is still at the top is not looked at.)
SignUp(h, v, n) ==
    /\ Does({"mail"}) /\ v.child = NoUser /\ NextRow(n) /\ users[v.parent].active
    /\ Start(h, <<[Do("signUp", n) EXCEPT !.other = v.parent, !.address = v.address],
                  [Do("openSession", n) EXCEPT !.password = 1]>>)
    /\ UNCHANGED <<users, sessions, invitations, invites, codes, history>>
InsertMember(h) ==
    /\ Doing(h, "signUp")
    /\ LET parent == Now(h).other
           a == Now(h).address
       IN  /\ Unlocked(parent)
           /\ IF Unused(a) /\ Exists(parent)
              THEN /\ users' = [users EXCEPT ![Now(h).user] =
                         [Account(a, 1) EXCEPT !.parent = parent, !.memberOnly = TRUE]]
                   /\ invites' = {v \in invites : v.address # a}
                   /\ Past("below", When(users[parent].parent # NoUser, {parent}))
                   /\ Then(h, <<>>)
              ELSE Refuse(h) /\ UNCHANGED <<users, invites, history>>
    /\ UNCHANGED <<sessions, invitations, codes>>

\* Leaving, being removed by the manager, or being taken out by an admin.
Leave(u) ==
    /\ Does({"invite", "code", "admin"}) /\ Once /\ Unlocked(u)
    /\ users[u].parent # NoUser
    /\ users' = [users EXCEPT ![u].parent = NoUser]
    /\ UNCHANGED <<sessions, invitations, invites, codes, history>>
ReleasePerson(u) ==
    /\ Does({"person"}) /\ Once /\ Unlocked(u)
    /\ users[u].manager # NoUser /\ MayManage(users[u].manager)
    /\ users' = [users EXCEPT ![u].manager = NoUser]
    /\ UNCHANGED <<sessions, invitations, invites, codes, history>>
DeleteJoinCode(c) ==
    /\ Does({"code"}) /\ Once /\ CodeUnlocked(c)
    /\ codes[c].manager # NoUser /\ MayManage(codes[c].manager)
    /\ codes' = [codes EXCEPT ![c].manager = NoUser]
    /\ UNCHANGED <<users, sessions, invitations, invites, history>>

-----------------------------------------------------------------------------
\* The process restarts, or a statement fails.
Restart(h) ==
    /\ "restart" \in ops /\ ~Idle(h) /\ faults < MaxFaults /\ faults' = faults + 1
    /\ job' = [job EXCEPT ![h] = <<>>]
    /\ Past("interrupted", {step.user : step \in {s \in Steps(h) : s.do = "endSessions"}})
    /\ UNCHANGED <<users, sessions, invitations, invites, codes, requests, ops>>

Places == {<<"none", FALSE>>, <<"open", FALSE>>, <<"open", TRUE>>,
           <<"cancelled", FALSE>>, <<"cancelled", TRUE>>}
Init ==
    /\ ops \in Scenarios
    /\ \E place \in [Members -> IF "place" \in ops THEN Places ELSE {<<"none", FALSE>>}] :
         users = [u \in Users |->
            IF u \in Members
            THEN [Account(u, 1) EXCEPT !.place = place[u][1], !.paid = place[u][2],
                                       !.files = IF "files" \in ops THEN 2 ELSE 0]
            ELSE IF u \in Guests THEN Guest(u)
            ELSE [Guest(NoUser) EXCEPT !.kind = "free"]]
    /\ sessions = {} /\ invites = {}
    /\ invitations = [i \in Invitations |->
                        [Invitation(NoUser, NoUser, NoUser) EXCEPT !.state = "none"]]
    /\ codes = [c \in Codes |-> [manager |-> NoUser, max |-> 0, used |-> 0]]
    /\ job = [h \in Handlers |-> <<>>]
    /\ history = [interrupted |-> {}, overtaken |-> {}, merged |-> {}, below |-> {},
                  disturbed |-> {}, lost |-> {}, joined |-> [c \in Codes |-> 0]]
    /\ requests = 0 /\ faults = 0

Proceed(h) ==
    \/ OpenSession(h) \/ InsertAccount(h) \/ SetPassword(h) \/ EndSessions(h)
    \/ SetAddress(h) \/ InsertFile(h) \/ CancelPlace(h)
    \/ Appear(h) \/ Link(h) \/ InsertInvitation(h)
    \/ BulkDeactivate(h) \/ BulkReactivate(h) \/ BulkPlayGroup(h)
    \/ DeleteRow(h) \/ MoveAll(h) \/ Activate(h)
    \/ SetGroupName(h) \/ CreateJoinCode(h) \/ CreateManagedPerson(h) \/ ClaimPerson(h)
    \/ JoinGroup(h) \/ JoinByCode(h) \/ InsertMember(h)
Accounts(h) ==
    \E u \in Users :
        \/ Login(h, u) \/ OAuthLogin(h, u) \/ ResetPassword(h, u) \/ Verify(u)
        \/ Deactivate(h, u) \/ Reactivate(u) \/ Delete(h, u)
        \/ \E v \in Users : Register(h, u, v) \/ ChangeEmail(h, u, v)
                           \/ Merge(h, u, v) \/ Bulk(h, u, v)
        \/ TakePlace(u) \/ Withdraw(u) \/ Reinstate(u) \/ Pay(u)
        \/ UploadFile(h, u) \/ SetPortrait(u) \/ DeleteFile(u)
Inviting(h) ==
    \E i \in Invitations :
        \/ \E a \in MaybeUser : Invite(h, i, a)
        \/ \E g \in Users, by \in MaybeUser : Convert(h, i, g, by)
        \/ CancelInvitation(i)
        \/ \E a \in Users : Import(h, a)
        \/ \E u, a \in Users : Redeem(h, i, u, a) \/ ActivateDirectly(h, i, u)
Grouping(h) ==
    \/ \E u \in Users :
        \/ AskName(h, u) \/ Leave(u) \/ ReleasePerson(u)
        \/ \E max \in 1..2 : AskCode(h, u, max)
        \/ \E v \in Users :
             \/ AskPerson(h, u, v) \/ AskClaim(h, u, v)
             \/ InviteById(u, v) \/ InviteNewPerson(u, v) \/ SetPlayGroup(h, u, v)
        \/ \E c \in Codes : RedeemJoinCode(h, u, c) \/ DeleteJoinCode(c)
    \/ \E v \in invites :
        \/ AcceptInvitation(h, v) \/ RemoveInvite(v)
        \/ \E n \in Users : SignUp(h, v, n)

Next ==
    \/ \E h \in Handlers :
         Proceed(h) \/ Accounts(h) \/ Inviting(h) \/ Grouping(h) \/ Restart(h)
    \/ \E s \in sessions : Logout(s)

Spec == Init /\ [][Next]_pvars

-----------------------------------------------------------------------------
(* What must hold *)

\* An invitation makes one account at most, however often and by whomever it is redeemed
\* or activated, and whatever becomes of that account (activateInvitation, markRedeemed).
InvitedOnce ==
    \A i \in Invitations : Cardinality(invitations[i].made) <= 1

\* After a password was reset or an account deactivated nobody is logged in who was before;
\* except by a login that read the row earlier, until the reset has ended the sessions,
\* and if it never does because of a restart (password-reset/confirm, deactivateMember).
OldPasswordIsOut ==
    \A s \in sessions :
        \/ s.password = users[s.user].password /\ users[s.user].active
        \/ s.late \/ s.user \in history.interrupted
        \/ \E step \in Running : step.do = "endSessions" /\ step.user = s.user

\* Nobody who belongs to a group has one: no name, no code, no persons and no members
\* (groupTree: "groups are flat"). Except after a merge, after a sign-up by mail below
\* somebody who had joined a group meanwhile, and where the check of a request was
\* overtaken by another request before it wrote.
GroupsAreFlat ==
    \A u \in Users \ (history.merged \cup history.below \cup history.overtaken) :
        users[u].parent # NoUser =>
            /\ ~users[u].named
            /\ \A v \in Users : u \notin {users[v].parent, users[v].manager}
            /\ \A c \in Codes : codes[c].manager # u

\* A join code is redeemed by as many people as it counts, and by no more than it was made
\* for, however many redeem it at the same time (redeemJoinCode).
CodesAreLimited ==
    \A c \in Codes : history.joined[c] = codes[c].used /\ codes[c].used <= codes[c].max

\* A merge loses no place and no payment, except those that come back or are paid
\* between its comparison and its end (findConflicts, mergeAccounts).
MergeLosesNothing == history.lost \subseteq history.disturbed

=============================================================================
