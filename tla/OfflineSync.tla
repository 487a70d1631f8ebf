---------------------------- MODULE OfflineSync ----------------------------
(***************************************************************************)
(* How an event is handed over to an offline instance at the site and      *)
(* comes back: delegation, snapshot, import, return packages by file or    *)
(* over the network, the merge, its conflicts, the emergency release, and  *)
(* the mails written on site.  Translated from backend/instanceAuthority,  *)
(* offlinePackage, offlineMerge, offlineRoutes.js and emailLog/outbox.js.  *)
(*                                                                         *)
(* One tavern account and one registration stand for the data that is      *)
(* handed over; every booking is one cent.  A snapshot is imported on one  *)
(* laptop, and a file is imported as what it was exported for.             *)
(***************************************************************************)
EXTENDS Integers, Sequences, FiniteSets, FiniteSetsExt, SequencesExt

CONSTANTS
    Snapshots,   \* the ids that delegations get
    Entries,     \* the ids that bookings get
    Mails,       \* the mails written on site
    Handlers,    \* request handlers, online and on the laptops, at the same time
    Scenarios,   \* which kinds of operations may happen together in one behaviour
    MaxReturns,  \* bound on return packages built
    MaxFaults    \* bound on restarts, lost requests and answers, failing mails

NoSnapshot == "none"
Online == "online"
CheckIn == "checkin"

ASSUME IdsAssumption ==
    /\ Online \notin Snapshots /\ NoSnapshot \notin Snapshots
    /\ CheckIn \notin Entries
ASSUME EntriesAssumption == IsFiniteSet(Entries)
ASSUME BoundsAssumption == MaxReturns \in Nat /\ MaxFaults \in Nat

VARIABLES
    authority,  \* the event's row in instance_authority online
    log,        \* snapshot_log: what happened to each snapshot
    online,     \* the account and the registration online
    merges,     \* offline_merges
    conflicts,  \* sync_conflicts
    outbox,     \* mail_outbox online, and how often each mail was sent
    laptop,     \* the database made from each snapshot, as file and on the laptop
    files,      \* return packages saved as a file
    job,        \* the statements each handler still has to run
    history,    \* what the properties have to know about the past
    returns,    \* how many return packages were built
    faults,     \* how often something was lost, failed or restarted
    ops         \* the kinds of operations that happen in this behaviour

ovars == <<authority, log, online, merges, conflicts, outbox, laptop, files, job,
           history, returns, faults, ops>>

Writes == Entries \cup {CheckIn}
Books == [ledger : SUBSET Entries, balance : Int,
          status : {"confirmed", "checked_in", "cancelled"}]
MaybeSnapshot == Snapshots \cup {NoSnapshot}
Package ==
    [snapshot : Snapshots, generation : Nat, final : BOOLEAN, skewed : BOOLEAN,
     books : Books, mails : SUBSET Mails]
Conflict ==
    [snapshot : Snapshots, generation : Nat,
     type : {"registration_changed_online", "balance_mismatch", "forced_release",
             "clock_skew"},
     entity : {"registration", "tavern_account", "package"}, books : Books,
     resolution : {"open", "offline", "merged", "online"}]
Step ==
    [do : {"write"}, what : Writes]
    \cup [do : {"export"}, for : Snapshots]
    \cup [do : {"copy"}, for : Snapshots, snapshot : Snapshots, generation : Nat,
          books : Books]
    \cup [do : {"become", "number", "retire", "abandon"}, snapshot : MaybeSnapshot]
    \cup [do : {"seal"}, snapshot : Snapshots, generation : Nat, books : Books,
          final : BOOLEAN, push : BOOLEAN, retires : BOOLEAN]
    \cup [do : {"save", "receive", "merge"}, package : Package]
    \cup [do : {"emergency", "flush"}]
    \cup [do : {"return"}, for : MaybeSnapshot, result : {"returned", "forced"}]
    \cup [do : {"release"}, for : MaybeSnapshot, result : {"returned", "forced"},
          snapshot : MaybeSnapshot]
    \cup [do : {"commit"}, conflict : Conflict, last : BOOLEAN,
          resolution : {"offline", "merged", "online"}]
    \cup [do : {"recheck", "settle"}, snapshot : Snapshots, generation : Nat]
    \cup [do : {"deliver"}, mails : SUBSET Mails]
    \cup [do : {"mark"}, mail : Mails]

TypeOK ==
    /\ authority \in [role : {"primary", "delegated"}, snapshot : MaybeSnapshot,
                      generation : Nat]
    /\ (authority.role = "delegated") = (authority.snapshot # NoSnapshot)
    /\ log \in [Snapshots -> SUBSET {"delegated", "interim", "returned", "forced"}]
    /\ online \in Books
    /\ merges \subseteq [snapshot : Snapshots, generation : Nat, pending : BOOLEAN,
                         mode : {"final", "interim", "forced"}, queued : BOOLEAN]
    /\ conflicts \subseteq Conflict
    /\ outbox \in [Mails -> [state : {"none", "queued", "sent"}, copies : Nat]]
    /\ laptop \in [Snapshots ->
          [role : {"none", "file", "loaded", "offline_primary", "retired"},
           handed : Nat, generation : Nat, books : Books, mails : SUBSET Mails]]
    /\ files \subseteq Package
    /\ job \in [Handlers -> Seq(Step)]
    /\ history \in [slipped : SUBSET Entries,
                    late : SUBSET (Snapshots \X (Writes \cup Mails)),
                    closing : SUBSET Snapshots, unanswered : SUBSET Snapshots,
                    mistaken : SUBSET Snapshots]
    /\ returns \in 0..MaxReturns /\ faults \in 0..MaxFaults
    /\ ops \in Scenarios

-----------------------------------------------------------------------------
Delegated == authority.role = "delegated"
DelegatedAs(s) == Delegated /\ authority.snapshot = s
Idle(h) == job[h] = <<>>
\* An id out of several, of which it makes no difference which one it is.
Fresh(id, ids) == ids # {} /\ id = CHOOSE x \in ids : TRUE
Doing(h, what) == job[h] # <<>> /\ Head(job[h]).do = what
Now(h) == Head(job[h])
\* A request is taken by an idle handler.
Start(h, steps) ==
    /\ Fresh(h, {g \in Handlers : Idle(g)})
    /\ job' = [job EXCEPT ![h] = steps]
Then(h, steps) == job' = [job EXCEPT ![h] = steps \o Tail(@)]
\* The handler answers with an error; what it had still to do is not done.
Refuse(h) == job' = [job EXCEPT ![h] = <<>>]
Steps(h) == {job[h][i] : i \in DOMAIN job[h]}
Has(h, what) == \E step \in Steps(h) : step.do = what
Running == UNION {Steps(h) : h \in Handlers}
Fault(kind) == kind \in ops /\ faults < MaxFaults /\ faults' = faults + 1
Past(field, more) == history' = [history EXCEPT ![field] = @ \cup more]

Sum(books) == Cardinality(books.ledger)
Booked(books, w) ==
    IF w = CheckIn THEN [books EXCEPT !.status = "checked_in"]
    ELSE [books EXCEPT !.ledger = @ \cup {w}, !.balance = @ + 1]
UsedEntries ==
    online.ledger \cup {step.what : step \in {x \in Running : x.do = "write"}}
    \cup UNION {laptop[s].books.ledger : s \in Snapshots}
\* Bookings get a new id; a check-in needs a confirmed registration.
New(books, w) ==
    IF w = CheckIn THEN "checkin" \in ops /\ books.status = "confirmed"
    ELSE Fresh(w, Entries \ UsedEntries) /\ ("brief" \in ops => UsedEntries = {})

OpenConflicts(s) == {c \in conflicts : c.snapshot = s /\ c.resolution = "open"}
Pending(s) == {m \in merges : m.snapshot = s /\ m.pending}
Unsent == {m \in Mails : outbox[m].state = "queued"}

-----------------------------------------------------------------------------
(* Writing online *)

\* A request to the tavern or the check-in passes the guard before it writes.
PassGuard(h, w) ==
    /\ ~Delegated /\ New(online, w)
    /\ Start(h, <<[do |-> "write", what |-> w]>>)
    /\ UNCHANGED <<authority, log, online, merges, conflicts, outbox, laptop, files,
                   history, returns, faults>>

\* Bookings written while an offline instance holds the books.
Slipped(w) == Past("slipped", IF Delegated THEN {w} \ {CheckIn} ELSE {})
Write(h) ==
    /\ Doing(h, "write")
    /\ online' = Booked(online, Now(h).what)
    /\ Slipped(Now(h).what)
    /\ Then(h, <<>>)
    /\ UNCHANGED <<authority, log, merges, conflicts, outbox, laptop, files, returns,
                   faults>>

\* An online top-up is booked by the payment webhook, which no guard stops.
WebhookTopUp(e) ==
    /\ "slip" \in ops /\ New(online, e)
    /\ online' = Booked(online, e)
    /\ Slipped(e)
    /\ UNCHANGED <<authority, log, merges, conflicts, outbox, laptop, files, job,
                   returns, faults>>

\* Registrations go on online.
CancelOnline ==
    /\ "cancel" \in ops /\ online.status = "confirmed"
    /\ online' = [online EXCEPT !.status = "cancelled"]
    /\ UNCHANGED <<authority, log, merges, conflicts, outbox, laptop, files, job,
                   history, returns, faults>>

-----------------------------------------------------------------------------
(* Delegating and ending a delegation *)

ReturnToPrimary(s) == <<[do |-> "return", for |-> s, result |-> "returned"]>>

\* POST snapshot: the role changes first, then the file is made. (Unless "slip", nobody
\* is writing at that moment.)
Delegate(h, s) ==
    /\ ~Delegated /\ Fresh(s, {t \in Snapshots : log[t] = {}})
    /\ "again" \in ops \/ \A t \in Snapshots : log[t] = {}
    /\ "slip" \in ops \/ \A g \in Handlers : ~Has(g, "write")
    /\ authority' = [role |-> "delegated", snapshot |-> s,
                     generation |-> authority.generation + 1]
    /\ log' = [log EXCEPT ![s] = {"delegated"}]
    /\ Start(h, <<[do |-> "export", for |-> s]>>)
    /\ UNCHANGED <<online, merges, conflicts, outbox, laptop, files, history, returns,
                   faults>>

\* The accounts are read before the ledger; whose snapshot it is, here.
Export(h) ==
    /\ Doing(h, "export")
    /\ Then(h, IF Delegated
               THEN <<[do |-> "copy", for |-> Now(h).for, snapshot |-> authority.snapshot,
                       generation |-> authority.generation, books |-> online]>>
               ELSE ReturnToPrimary(Now(h).for))
    /\ UNCHANGED <<authority, log, online, merges, conflicts, outbox, laptop, files,
                   history, returns, faults>>

Copy(h) ==
    /\ Doing(h, "copy")
    /\ LET s == Now(h).snapshot
       IN  laptop' = IF laptop[s].role # "none" THEN laptop
                     ELSE [laptop EXCEPT ![s] =
                       [role |-> "file", handed |-> Now(h).generation, generation |-> 0,
                        books |-> [Now(h).books EXCEPT !.ledger = online.ledger],
                        mails |-> {}]]
    /\ Past("mistaken", {Now(h).snapshot} \ {Now(h).for})
    /\ Then(h, <<>>)
    /\ UNCHANGED <<authority, log, online, merges, conflicts, outbox, files, returns,
                   faults>>

\* A failing export takes the delegation back.
ExportFails(h) ==
    /\ Doing(h, "export") \/ Doing(h, "copy")
    /\ Fault("restart")
    /\ Then(h, ReturnToPrimary(Now(h).for))
    /\ UNCHANGED <<authority, log, online, merges, conflicts, outbox, laptop, files,
                   history, returns>>

Released ==
    [role |-> "primary", snapshot |-> NoSnapshot, generation |-> authority.generation + 1]

\* returnToPrimary and forceRelease read which snapshot is out, for the log...
ReadSnapshot(h) ==
    /\ Doing(h, "return")
    /\ Then(h, <<[do |-> "release", for |-> Now(h).for, result |-> Now(h).result,
                  snapshot |-> authority.snapshot]>>)
    /\ UNCHANGED <<authority, log, online, merges, conflicts, outbox, laptop, files,
                   history, returns, faults>>

\* ... and then end whatever delegation there is.
EndDelegation(h) ==
    /\ Doing(h, "release")
    /\ LET s == Now(h).snapshot
       IN  IF Delegated /\ s # NoSnapshot
           THEN /\ authority' = Released
                /\ log' = [log EXCEPT ![s] = @ \cup {Now(h).result}]
                /\ Past("mistaken", {authority.snapshot, s} \ {Now(h).for})
                /\ Then(h, <<>>)
           ELSE Refuse(h) /\ UNCHANGED <<authority, log, history>>
    /\ UNCHANGED <<online, merges, conflicts, outbox, laptop, files, returns, faults>>

\* POST release refuses while conflicts are open; POST release-force does not.
Release(h) ==
    /\ "force" \in ops /\ Delegated
    /\ OpenConflicts(authority.snapshot) = {}
    /\ Start(h, <<[do |-> "emergency"]>>)
    /\ UNCHANGED <<authority, log, online, merges, conflicts, outbox, laptop, files,
                   history, returns, faults>>
ReleaseForce(h) ==
    /\ "force" \in ops /\ Delegated
    /\ Start(h, <<[do |-> "emergency"]>>)
    /\ UNCHANGED <<authority, log, online, merges, conflicts, outbox, laptop, files,
                   history, returns, faults>>
Emergency(h) ==
    /\ Doing(h, "emergency")
    /\ LET s == authority.snapshot
       IN  Then(h, <<[do |-> "return", for |-> s, result |-> "forced"],
                     [do |-> "abandon", snapshot |-> s]>>)
    /\ UNCHANGED <<authority, log, online, merges, conflicts, outbox, laptop, files,
                   history, returns, faults>>
Abandon(h) ==
    /\ Doing(h, "abandon")
    /\ merges' = {[m EXCEPT !.pending = @ /\ m.snapshot # Now(h).snapshot] : m \in merges}
    /\ Then(h, <<>>)
    /\ UNCHANGED <<authority, log, online, conflicts, outbox, laptop, files, history,
                   returns, faults>>

-----------------------------------------------------------------------------
(* The laptop *)

\* The database is filled in one transaction; a half import is repeated after a wipe.
Import(h, s) ==
    /\ laptop[s].role \in {"file", "loaded"}
    /\ \A g \in Handlers : ~Has(g, "become")
    /\ laptop' = [laptop EXCEPT ![s].role = "loaded"]
    /\ Start(h, <<[do |-> "become", snapshot |-> s], [do |-> "number", snapshot |-> s]>>)
    /\ UNCHANGED <<authority, log, online, merges, conflicts, outbox, files, history,
                   returns, faults>>
BecomeOfflinePrimary(h) ==
    /\ Doing(h, "become")
    /\ laptop' = [laptop EXCEPT ![Now(h).snapshot].role = "offline_primary"]
    /\ Then(h, <<>>)
    /\ UNCHANGED <<authority, log, online, merges, conflicts, outbox, files, history,
                   returns, faults>>
SetGeneration(h) ==
    /\ Doing(h, "number")
    /\ laptop' = [laptop EXCEPT ![Now(h).snapshot].generation =
                    laptop[Now(h).snapshot].handed]
    /\ Then(h, <<>>)
    /\ UNCHANGED <<authority, log, online, merges, conflicts, outbox, files, history,
                   returns, faults>>

\* Nothing on the laptop asks whether it is retired. (Unless "late", the staff stops
\* when the final return is made.)
MayWork(s) ==
    \/ laptop[s].role = "offline_primary" /\ s \notin history.closing
    \/ "late" \in ops /\ laptop[s].role \in {"offline_primary", "retired"}
Late(s, what) == Past("late", IF s \in history.closing THEN {<<s, what>>} ELSE {})

LaptopWrite(s, w) ==
    /\ MayWork(s) /\ New(laptop[s].books, w)
    /\ laptop' = [laptop EXCEPT ![s].books = Booked(@, w)]
    /\ Late(s, w)
    /\ UNCHANGED <<authority, log, online, merges, conflicts, outbox, files, job,
                   returns, faults>>

\* Mails are parked in the laptop's own outbox.
LaptopMail(s, m) ==
    /\ "mail" \in ops /\ MayWork(s)
    /\ \A t \in Snapshots : m \notin laptop[t].mails
    /\ laptop' = [laptop EXCEPT ![s].mails = @ \cup {m}]
    /\ Late(s, m)
    /\ UNCHANGED <<authority, log, online, merges, conflicts, outbox, files, job,
                   returns, faults>>

\* Mutant: the interim package retires.
RetiresAfterInterim(s, final) == ~final /\ laptop[s].role = "offline_primary"
Retires(s, final) == final /\ laptop[s].role = "offline_primary"

\* A return package, interim or final: registrations and accounts are read first. A
\* retired laptop offers the final one only.
Build(h, s, final, push) ==
    /\ (IF push THEN "push" ELSE "file") \in ops
    /\ returns < MaxReturns /\ ("brief" \in ops => returns = 0)
    /\ returns' = returns + 1
    /\ \/ laptop[s].role = "offline_primary"
       \/ laptop[s].role = "retired" /\ final
    /\ Start(h, <<[do |-> "seal", snapshot |-> s, generation |-> laptop[s].generation,
                   books |-> laptop[s].books, final |-> final, push |-> push,
                   retires |-> Retires(s, final)]>>)
    /\ Past("closing", IF final THEN {s} ELSE {})
    /\ UNCHANGED <<authority, log, online, merges, conflicts, outbox, laptop, files,
                   faults>>

\* Then the ledger and the outbox are read, and the next package gets a higher number.
\* A file is handed out after the laptop has retired; a push retires on a good answer.
Seal(h) ==
    /\ Doing(h, "seal")
    /\ LET s == Now(h).snapshot
           books == [Now(h).books EXCEPT !.ledger = laptop[s].books.ledger]
           retire == IF Now(h).retires THEN <<[do |-> "retire", snapshot |-> s]>> ELSE <<>>
       IN  \E skewed \in IF "skew" \in ops THEN BOOLEAN ELSE {FALSE} :
             LET p == [snapshot |-> s, generation |-> Now(h).generation,
                       final |-> Now(h).final, skewed |-> skewed, books |-> books,
                       mails |-> laptop[s].mails]
             IN  /\ Then(h, IF Now(h).push
                            THEN <<[do |-> "receive", package |-> p]>> \o retire
                            ELSE Append(retire, [do |-> "save", package |-> p]))
                 /\ laptop' = IF laptop[s].role # "offline_primary" THEN laptop
                              ELSE [laptop EXCEPT ![s].generation = @ + 1]
    /\ UNCHANGED <<authority, log, online, merges, conflicts, outbox, files, history,
                   returns, faults>>

\* (Retiring twice is an invalid transition.)
Retire(h) ==
    /\ Doing(h, "retire")
    /\ LET s == Now(h).snapshot
       IN  IF laptop[s].role = "offline_primary"
           THEN laptop' = [laptop EXCEPT ![s].role = "retired"] /\ Then(h, <<>>)
           ELSE Refuse(h) /\ UNCHANGED laptop
    /\ UNCHANGED <<authority, log, online, merges, conflicts, outbox, files, history,
                   returns, faults>>

Save(h) ==
    /\ Doing(h, "save")
    /\ files' = files \cup {Now(h).package}
    /\ Then(h, <<>>)
    /\ UNCHANGED <<authority, log, online, merges, conflicts, outbox, laptop, history,
                   returns, faults>>

-----------------------------------------------------------------------------
(* Merging a return package *)

\* The return token is the current delegation's, or the push is refused.
Receive(h) ==
    /\ Doing(h, "receive")
    /\ LET p == Now(h).package
       IN  IF DelegatedAs(p.snapshot)
           THEN Then(h, <<[do |-> "merge", package |-> p]>>)
           ELSE Refuse(h)
    /\ UNCHANGED <<authority, log, online, merges, conflicts, outbox, laptop, files,
                   history, returns, faults>>

Applied(p) == {m \in merges : m.snapshot = p.snapshot /\ m.generation = p.generation}
Normal(p) == DelegatedAs(p.snapshot)
\* Mutant: an older package of the delegation is still accepted.
AcceptableAnyAge(p) == Normal(p) \/ "forced" \in log[p.snapshot]
\* SNAPSHOT_RETIRED, WRONG_SNAPSHOT and NOT_DELEGATED, or OUTDATED_GENERATION.
Acceptable(p) ==
    IF Normal(p) THEN p.generation >= authority.generation
    ELSE "forced" \in log[p.snapshot]

NewConflict(p, type, entity) ==
    [snapshot |-> p.snapshot, generation |-> p.generation, type |-> type,
     entity |-> entity, books |-> p.books, resolution |-> "open"]
SkewOf(p) == {c \in conflicts : /\ c.type = "clock_skew" /\ c.snapshot = p.snapshot
                                /\ c.generation = p.generation}
\* A package with a deviating clock waits until an admin accepts the deviation.
HeldBack(p) == p.skewed /\ \A c \in SkewOf(p) : c.resolution # "offline"

Touched(p) == p.books.status = "checked_in" /\ online.status # "checked_in"
Balanced(p) == Sum(p.books) = p.books.balance
Flag(broken, conflict) == IF broken THEN {conflict} ELSE {}
\* Mutant: a wrong balance is left out silently.
FoundRegistrations(p) ==
    IF Normal(p)
    THEN Flag(Touched(p) /\ online.status = "cancelled",
              NewConflict(p, "registration_changed_online", "registration"))
    ELSE {}
\* Normally only what cannot be applied; after a forced release all that differs, where
\* an account differs if its balance does.
Found(p) ==
    IF Normal(p)
    THEN Flag(Touched(p) /\ online.status = "cancelled",
              NewConflict(p, "registration_changed_online", "registration"))
         \cup Flag(~Balanced(p), NewConflict(p, "balance_mismatch", "tavern_account"))
    ELSE Flag(Touched(p), NewConflict(p, "forced_release", "registration"))
         \cup Flag(p.books.balance # online.balance,
                   NewConflict(p, "forced_release", "tavern_account"))

\* Ledger rows are inserted unless they are there; the balance is the package's.
Applying(p) ==
    [ledger |-> IF Balanced(p) THEN online.ledger \cup p.books.ledger ELSE online.ledger,
     balance |-> IF Balanced(p) THEN p.books.balance ELSE online.balance,
     status |-> IF Touched(p) /\ online.status # "cancelled" THEN "checked_in"
                ELSE online.status]
Queue(mails) ==
    [m \in Mails |-> IF m \in mails /\ outbox[m].state = "none"
                     THEN [outbox[m] EXCEPT !.state = "queued"] ELSE outbox[m]]

\* The transaction; it holds the event's row. `rest` is what the laptop does when the
\* answer is good, and `returns` what follows the commit.
MergeReturnPackage(h, p, rest) ==
    \/ \* Applied before: a file is answered with the old report, a push refused.
       /\ Applied(p) # {}
       /\ job' = [job EXCEPT ![h] = IF \E m \in Applied(p) : m.queued
                                    THEN <<[do |-> "flush"]>> ELSE <<>>]
       /\ UNCHANGED <<authority, log, online, merges, conflicts, outbox>>
    \/ /\ Applied(p) = {} /\ ~Acceptable(p)
       /\ Refuse(h)
       /\ UNCHANGED <<authority, log, online, merges, conflicts, outbox>>
    \/ /\ Applied(p) = {} /\ Acceptable(p) /\ HeldBack(p)
       /\ conflicts' = conflicts \cup {NewConflict(p, "clock_skew", "package")}
       /\ Refuse(h)
       /\ UNCHANGED <<authority, log, online, merges, outbox>>
    \/ /\ Applied(p) = {} /\ Acceptable(p) /\ ~HeldBack(p)
       /\ LET mode == IF ~Normal(p) THEN "forced"
                      ELSE IF p.final THEN "final" ELSE "interim"
              queued == Normal(p) /\ \E m \in p.mails : outbox[m].state = "none"
              clean == mode = "final" /\ Found(p) = {}
          IN  /\ conflicts' = conflicts \cup Found(p)
              /\ merges' = merges \cup
                   {[snapshot |-> p.snapshot, generation |-> p.generation, mode |-> mode,
                     pending |-> mode = "final" /\ Found(p) # {}, queued |-> queued]}
              /\ online' = IF Normal(p) THEN Applying(p) ELSE online
              /\ outbox' = IF Normal(p) THEN Queue(p.mails) ELSE outbox
              /\ authority' = IF Normal(p)
                              THEN [authority EXCEPT !.generation =
                                      Max({@, p.generation}) + 1]
                              ELSE authority
              /\ log' = IF mode # "interim" THEN log
                        ELSE [log EXCEPT ![p.snapshot] = @ \cup {"interim"}]
              /\ job' = [job EXCEPT ![h] =
                   (IF clean THEN ReturnToPrimary(p.snapshot) ELSE <<>>)
                   \o (IF queued THEN <<[do |-> "flush"]>> ELSE <<>>) \o rest]

Merge(h) ==
    /\ Doing(h, "merge")
    /\ MergeReturnPackage(h, Now(h).package, Tail(job[h]))
    /\ UNCHANGED <<laptop, files, history, returns, faults>>
\* POST return-import, as often as the admin likes.
ImportFile(h, p) ==
    /\ p \in files /\ Fresh(h, {g \in Handlers : Idle(g)})
    /\ MergeReturnPackage(h, p, <<>>)
    /\ UNCHANGED <<laptop, files, history, returns, faults>>

-----------------------------------------------------------------------------
(* Conflicts *)

Allowed(c) ==
    {"offline", "online"} \cup (IF c.type = "balance_mismatch" THEN {"merged"} ELSE {})

\* "online" also stands for "ignored". The conflict's row is locked; how many are left is
\* counted before the commit. (Unless "rush", one conflict is resolved after the other.)
Resolve(h, c, resolution) ==
    /\ c \in conflicts /\ c.resolution = "open" /\ resolution \in Allowed(c)
    /\ \A step \in Running :
         step.do = "commit" => "rush" \in ops /\ step.conflict # c
    /\ Start(h, <<[do |-> "commit", conflict |-> c, resolution |-> resolution,
                   last |-> OpenConflicts(c.snapshot) = {c}]>>)
    /\ UNCHANGED <<authority, log, online, merges, conflicts, outbox, laptop, files,
                   history, returns, faults>>

Adopted(c, resolution) ==
    IF resolution = "online" THEN online
    ELSE CASE c.entity = "registration" -> [online EXCEPT !.status = c.books.status]
           [] c.entity = "tavern_account" ->
                [online EXCEPT !.ledger = @ \cup c.books.ledger,
                               !.balance = IF resolution = "merged" THEN Sum(c.books)
                                           ELSE c.books.balance]
           [] c.entity = "package" -> online

\* Mutant: the last resolution does not end the delegation.
CommitOnly(h) ==
    /\ Doing(h, "commit")
    /\ LET c == Now(h).conflict
       IN  /\ conflicts' = (conflicts \ {c})
                \cup {[c EXCEPT !.resolution = Now(h).resolution]}
           /\ online' = Adopted(c, Now(h).resolution)
           /\ Then(h, <<>>)
    /\ UNCHANGED <<authority, log, merges, outbox, laptop, files, history, returns, faults>>
\* After the last one a final return ends the delegation.
CommitResolution(h) ==
    /\ Doing(h, "commit")
    /\ LET c == Now(h).conflict
           s == c.snapshot
       IN  /\ conflicts' = (conflicts \ {c})
                \cup {[c EXCEPT !.resolution = Now(h).resolution]}
           /\ online' = Adopted(c, Now(h).resolution)
           /\ \/ /\ Now(h).last
                 /\ \E m \in Pending(s) :
                      Then(h, <<[do |-> "recheck", snapshot |-> s,
                                 generation |-> m.generation]>>)
              \/ /\ ~Now(h).last \/ Pending(s) = {}
                 /\ Then(h, <<>>)
    /\ UNCHANGED <<authority, log, merges, outbox, laptop, files, history, returns, faults>>

Recheck(h) ==
    /\ Doing(h, "recheck")
    /\ LET s == Now(h).snapshot
           settle == <<[do |-> "settle", snapshot |-> s, generation |-> Now(h).generation]>>
       IN  Then(h, IF DelegatedAs(s) THEN ReturnToPrimary(s) \o settle ELSE settle)
    /\ UNCHANGED <<authority, log, online, merges, conflicts, outbox, laptop, files,
                   history, returns, faults>>
Settle(h) ==
    /\ Doing(h, "settle")
    /\ merges' = {[m EXCEPT !.pending = @ /\ ~(/\ m.snapshot = Now(h).snapshot
                                               /\ m.generation = Now(h).generation)] :
                    m \in merges}
    /\ Then(h, <<>>)
    /\ UNCHANGED <<authority, log, online, conflicts, outbox, laptop, files, history,
                   returns, faults>>

-----------------------------------------------------------------------------
(* Mails written on site *)

\* One after the other; which one comes first makes no difference.
Sending(mails) == IF mails = {} THEN <<>> ELSE <<[do |-> "deliver", mails |-> mails]>>
Flush(h) ==
    /\ Doing(h, "flush")
    /\ Then(h, Sending(Unsent))
    /\ UNCHANGED <<authority, log, online, merges, conflicts, outbox, laptop, files,
                   history, returns, faults>>
\* The background job does the same every six hours.
MailHousekeeping(h) ==
    /\ Unsent # {} /\ Start(h, Sending(Unsent))
    /\ UNCHANGED <<authority, log, online, merges, conflicts, outbox, laptop, files,
                   history, returns, faults>>

\* A recipient who no longer exists is marked as sent without a mail.
Deliver(h) ==
    /\ Doing(h, "deliver")
    /\ \E m \in Now(h).mails :
         LET others == Sending(Now(h).mails \ {m})
         IN  \/ /\ outbox' = [outbox EXCEPT ![m].copies = @ + 1]
                /\ Then(h, <<[do |-> "mark", mail |-> m]>> \o others)
             \/ /\ "gone" \in ops
                /\ outbox' = [outbox EXCEPT ![m].state = "sent"]
                /\ Then(h, others)
    /\ UNCHANGED <<authority, log, online, merges, conflicts, laptop, files, history,
                   returns, faults>>
\* SMTP refuses: the mail stays in the outbox, the next one is tried.
DeliverFails(h) ==
    /\ Doing(h, "deliver") /\ Fault("lost")
    /\ \E m \in Now(h).mails : Then(h, Sending(Now(h).mails \ {m}))
    /\ UNCHANGED <<authority, log, online, merges, conflicts, outbox, laptop, files,
                   history, returns>>
Mark(h) ==
    /\ Doing(h, "mark")
    /\ outbox' = [outbox EXCEPT ![Now(h).mail].state = "sent"]
    /\ Then(h, <<>>)
    /\ UNCHANGED <<authority, log, online, merges, conflicts, laptop, files, history,
                   returns, faults>>

-----------------------------------------------------------------------------
(* Faults *)

Waiting(h) == Has(h, "retire") /\ ~Has(h, "save")
Unanswered(h) ==
    Past("unanswered", IF ~Waiting(h) THEN {}
                       ELSE {step.snapshot : step \in {x \in Steps(h) : x.do = "retire"}})
\* A push is lost on the way, or its answer is, or takes longer than two minutes.
LoseRequest(h) ==
    /\ Doing(h, "receive") /\ Fault("lost")
    /\ Refuse(h) /\ Unanswered(h)
    /\ UNCHANGED <<authority, log, online, merges, conflicts, outbox, laptop, files,
                   returns>>
\* What the laptop was to do with the answer, its retiring, is the last of the job.
LoseAnswer(h) ==
    /\ Waiting(h) /\ Fault("lost")
    /\ job' = [job EXCEPT ![h] = Front(@)]
    /\ Unanswered(h)
    /\ UNCHANGED <<authority, log, online, merges, conflicts, outbox, laptop, files,
                   returns>>
\* A handler ends between two statements: the process restarts or a statement fails.
Restart(h) ==
    /\ ~Idle(h) /\ Fault("restart")
    /\ Refuse(h) /\ Unanswered(h)
    /\ UNCHANGED <<authority, log, online, merges, conflicts, outbox, laptop, files,
                   returns>>

-----------------------------------------------------------------------------
NothingYet == [ledger |-> {}, balance |-> 0, status |-> "confirmed"]
Init ==
    /\ authority = [role |-> "primary", snapshot |-> NoSnapshot, generation |-> 0]
    /\ log = [s \in Snapshots |-> {}]
    /\ online = NothingYet
    /\ merges = {} /\ conflicts = {} /\ files = {}
    /\ outbox = [m \in Mails |-> [state |-> "none", copies |-> 0]]
    /\ laptop = [s \in Snapshots |-> [role |-> "none", handed |-> 0, generation |-> 0,
                                      books |-> NothingYet, mails |-> {}]]
    /\ job = [h \in Handlers |-> <<>>]
    /\ history = [slipped |-> {}, late |-> {}, closing |-> {}, unanswered |-> {},
                  mistaken |-> {}]
    /\ returns = 0 /\ faults = 0
    /\ ops \in Scenarios

\* The next statement of a handler.
Proceed(h) ==
    \/ Write(h) \/ Export(h) \/ Copy(h) \/ ReadSnapshot(h) \/ EndDelegation(h)
    \/ Emergency(h) \/ Abandon(h) \/ BecomeOfflinePrimary(h) \/ SetGeneration(h)
    \/ Seal(h) \/ Retire(h) \/ Save(h) \/ Receive(h) \/ Merge(h)
    \/ CommitResolution(h) \/ Recheck(h) \/ Settle(h)
    \/ Flush(h) \/ Deliver(h) \/ Mark(h)

Request(h) ==
    \/ \E w \in Writes : PassGuard(h, w)
    \/ \E s \in Snapshots :
        \/ Delegate(h, s) \/ Import(h, s)
        \/ \E final, push \in BOOLEAN : Build(h, s, final, push)
    \/ Release(h) \/ ReleaseForce(h) \/ MailHousekeeping(h)
    \/ \E p \in files : ImportFile(h, p)
    \/ \E c \in conflicts, r \in {"offline", "merged", "online"} : Resolve(h, c, r)

Next ==
    /\ \/ \E h \in Handlers :
            \/ Proceed(h) \/ Request(h)
            \/ ExportFails(h) \/ DeliverFails(h)
            \/ LoseRequest(h) \/ LoseAnswer(h) \/ Restart(h)
       \/ \E e \in Entries : WebhookTopUp(e)
       \/ CancelOnline
       \/ \E s \in Snapshots :
            \/ \E w \in Writes : LaptopWrite(s, w)
            \/ \E m \in Mails : LaptopMail(s, m)
    /\ UNCHANGED ops

\* A handler runs on until its request is answered, and the background job comes back.
Fairness ==
    /\ \A h \in Handlers : WF_ovars(Proceed(h) /\ UNCHANGED ops)
    /\ WF_ovars((\E h \in Handlers : MailHousekeeping(h)) /\ UNCHANGED ops)

Spec == Init /\ [][Next]_ovars
FairSpec == Spec /\ Fairness

-----------------------------------------------------------------------------
(* What must hold *)

Reviewed(s, entity) == {c \in conflicts : c.snapshot = s /\ c.entity = entity}
\* What was on the laptop in time is online, or an admin was asked about it.
CameHome(s) ==
    LET timely(what) == <<s, what>> \notin history.late
    IN  /\ \A e \in laptop[s].books.ledger :
             timely(e) => \/ e \in online.ledger
                          \/ \E c \in Reviewed(s, "tavern_account") : e \in c.books.ledger
        /\ laptop[s].books.status = "checked_in" /\ timely(CheckIn)
             => online.status = "checked_in" \/ Reviewed(s, "registration") # {}
        /\ \A m \in laptop[s].mails : timely(m) => outbox[m].state # "none"
\* Once a delegation has been returned, all that was booked or checked in on its laptop
\* before the final return was made is online, or an admin was asked about it, and its
\* mails are in the outbox (mergeReturnPackage). Except for a delegation that the request
\* for another one exported or ended.
ReturnedComesHome ==
    \A s \in Snapshots \ history.mistaken : "returned" \in log[s] => CameHome(s)

AboutToRetire(s) == \E step \in Running : step.do = "retire" /\ step.snapshot = s
Worked(s) ==
    /\ laptop[s].role \in {"offline_primary", "retired"}
    /\ <<laptop'[s].books, laptop'[s].mails>> # <<laptop[s].books, laptop[s].mails>>
\* Nobody books, checks in or mails on a laptop beside the server: who does works for the
\* delegation of the day, except after an emergency release, or when the request for another
\* delegation exported or ended this one. Or the final return has been made. From then on
\* nothing keeps the laptop from being written to, although offlineRoutes.js:43 says
\* "read-only afterwards"; but it is retired, or about to be, unless it never heard that its
\* return was taken over (the transitions of instanceAuthority, POST return-push).
OneWriter ==
    [][\A s \in Snapshots : Worked(s) =>
           \/ DelegatedAs(s) \/ "forced" \in log[s] \/ s \in history.mistaken
           \/ /\ s \in history.closing
              /\ \/ laptop[s].role = "retired" \/ s \in history.unanswered
                 \/ AboutToRetire(s)]_ovars

Current == IF Delegated THEN authority.snapshot ELSE Online
Gone == {s \in Snapshots : log[s] # {}} \ {Current}
Copies == [s \in Snapshots |-> laptop[s].books.ledger \ history.slipped]
Returned == {<<m.snapshot, m.generation>> : m \in {n \in merges : n.mode # "forced"}}
Counted == online.ledger \ history.slipped
AccountConflicts == {c \in conflicts : c.entity = "tavern_account"}
UnderReview == UNION {c.books.ledger \ history.slipped : c \in AccountConflicts}
\* The hand-over as it is meant: one holder at a time, returns that only get newer, and
\* nothing else in the books but what was reviewed. Bookings that slipped through online
\* are not counted.
Meant == INSTANCE Handover WITH
    holder <- Current, gone <- Gone, copy <- Copies, returns <- Returned,
    books <- Counted, review <- UnderReview
ImplementsHandover == Meant!HandoverSpec

Settled(s) ==
    OpenConflicts(s) = {} /\ \E m \in merges : m.snapshot = s /\ m.mode = "final"
\* A final return that was taken over, and whose conflicts are all resolved, ends the
\* delegation, unless the process restarts or two admins resolve at the same time
\* (mergeReturnPackage, resolveConflict).
FinalReturnEnds ==
    \A s \in Snapshots :
        Settled(s) ~> ~DelegatedAs(s) \/ faults > 0 \/ "rush" \in ops
=============================================================================
