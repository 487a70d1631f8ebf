------------------------------- MODULE Retention -------------------------------
(***************************************************************************)
(* What happens to the data of people by the clock: scheduled backups, the *)
(* restoring of a backup, and the deletion of personal data some time      *)
(* after an event has ended.  Translated from backend/backup, from         *)
(* backend/privacy and from startBackgroundJobs in backend/server.js, with *)
(* the requests that write the same rows: forms, accounts and character    *)
(* sheets that are saved, changes of others that are taken back, and the   *)
(* settings of the backups.                                                *)
(*                                                                         *)
(* There is one event.  What somebody entered is the time of the clock at  *)
(* which it was saved, None if there is nothing.  The clock ticks with     *)
(* every request and job that begins.                                      *)
(***************************************************************************)
EXTENDS Integers, Sequences, FiniteSets

CONSTANTS
    People,        \* people registered for the event
    Categories,    \* categories of personal data
    After,         \* how many days after the end of the event each is deleted
    Automatic,     \* the categories that are deleted without being asked
    MaxDay,        \* bound on days
    Handlers,      \* requests and jobs under way at the same time
    Scenarios,     \* which kinds of operations may happen together in one behaviour
    MaxRequests,   \* bound on requests and deletions, less by one with forms or backups
    MaxFaults      \* bound on restarts and failing steps

None == 0
Never == MaxDay + 1

ASSUME RetentionAssumption ==
    /\ Automatic \subseteq Categories /\ "none" \notin Categories /\ After \in [Categories -> Nat]
    /\ {MaxDay, MaxRequests, MaxFaults} \subseteq Nat

VARIABLES
    day,           \* the date
    slot,          \* whether the time of day chosen for backups has come
    data,          \* what people entered: in the form, in the account, in the sheet
    consent,       \* who agreed that account and character data are kept
    elsewhere,     \* who is registered for another event that has not ended
    reviews,       \* changes by somebody else that a person may still take back
    event,         \* when the event ended and which categories were deleted
    settings,      \* the row of backup_settings: the schedule and its last run
    files,         \* the backups in the folder of the server
    job,           \* the statements each handler still has to run, and what it has read
    history,       \* what the properties have to know about the past
    clock,         \* requests and jobs begun
    requests,      \* requests and deletions begun
    faults,        \* faults so far
    ops            \* the kinds of operations that happen in this behaviour

persons == <<data, consent, elsewhere, reviews>>
backups == <<settings, files>>
time == <<day, slot>>
rvars == <<time, persons, event, backups, job, history, clock, requests, faults, ops>>

Days == 0..MaxDay
Places == {"answers", "accounts", "sheets"}
Form == [Categories -> Nat]
Data == [Places -> [People -> Form]]
\* "cut": when the deletion began; "kept": whose data it left alone. The code keeps neither.
Event ==
    [ended : Days \cup {Never}, deleted : SUBSET Categories, cut : Form,
     kept : SUBSET (Categories \X Places \X People)]
Settings ==
    [enabled : BOOLEAN, keep : 1..2, change : Nat, lastRun : Days \cup {Never},
     status : {"none", "running", "ok", "partial", "error"}]
Review == [n : Nat, place : Places, person : People, category : Categories, from : Nat]
File == [n : Nat, data : Data, consent : SUBSET People, event : Event, torn : BOOLEAN]
Parts == {"participants", "events"}
Kinds == {"none", "backup", "deletion", "request"}

TypeOK ==
    /\ day \in Days /\ slot \in BOOLEAN
    /\ data \in Data /\ consent \subseteq People /\ elsewhere \subseteq People
    /\ reviews \subseteq Review
    /\ event \in Event /\ settings \in Settings
    /\ files \subseteq File /\ \A f, g \in files : f.n = g.n => f = g
    /\ \A h \in Handlers :
         /\ job[h].kind \in Kinds /\ job[h].n \in 0..clock
         /\ job[h].rows \subseteq People \X Form
         /\ {job[h].settings, job[h].was} \subseteq Settings
         /\ job[h].file \in File
         /\ \A g \in Handlers : job[g].kind = "backup" /\ job[h].kind = "backup" => g = h
    /\ clock \in Nat /\ requests \in 0..MaxRequests /\ faults \in 0..MaxFaults
    /\ ops \in Scenarios

-----------------------------------------------------------------------------
NoForm == [c \in Categories |-> None]
NoData == [place \in Places |-> [p \in People |-> NoForm]]
NoEvent == [ended |-> Never, deleted |-> {}, cut |-> NoForm, kept |-> {}]
NoSettings == [enabled |-> FALSE, keep |-> 1, change |-> 0, lastRun |-> Never, status |-> "none"]
NoFile == [n |-> 0, data |-> NoData, consent |-> {}, event |-> NoEvent, torn |-> FALSE]
Done ==
    [kind |-> "none", todo |-> <<>>, day |-> 0, n |-> 0, category |-> "none", rows |-> {},
     settings |-> NoSettings, was |-> NoSettings, outcome |-> "ok", file |-> NoFile,
     kept |-> {}, place |-> "none", person |-> "none", form |-> NoForm, keeps |-> FALSE]
Idle(h) == job[h] = Done
\* Mutant: a backup does not look whether one is running already.
RunningUnknown(kind) == FALSE
Running(kind) == \E h \in Handlers : job[h].kind = kind
Doing(h, what) == job[h].todo # <<>> /\ Head(job[h].todo) = what
Does(kind) == kind \in ops
When(condition, set) == IF condition THEN set ELSE {}

Begin(h, begun) ==
    /\ Idle(h) /\ h = CHOOSE g \in Handlers : Idle(g)
    /\ clock' = clock + 1
    /\ job' = [job EXCEPT ![h] = [begun EXCEPT !.n = clock + 1, !.day = day]]
    /\ UNCHANGED <<faults, ops>>
BeginJob(h, begun) == Begin(h, begun) /\ UNCHANGED requests
Writes == Does("edit") \/ Does("review")
Limit == IF Writes \/ Does("backup") THEN MaxRequests - 1 ELSE MaxRequests
BeginRequest(h, begun) == Begin(h, begun) /\ requests < Limit /\ requests' = requests + 1
AtOnce ==
    /\ requests < Limit /\ requests' = requests + 1 /\ clock' = clock + 1
    /\ UNCHANGED <<job, faults, ops>>
Left(j) == [j EXCEPT !.todo = Tail(@)]
Become(h, left) == job' = [job EXCEPT ![h] = IF left.todo = <<>> THEN Done ELSE left]
Then(h, left) == Become(h, left) /\ UNCHANGED <<clock, requests, faults, ops>>
Fails(h, left) ==
    /\ Does("fail") /\ faults < MaxFaults /\ faults' = faults + 1
    /\ Become(h, left) /\ UNCHANGED <<clock, requests, ops>>

\* Time passes while nothing is under way, in behaviours with "midnight" at any moment.
Passes == Does("midnight") \/ \A h \in Handlers : Idle(h)
Waits == UNCHANGED <<persons, event, backups, job, history, clock, requests, faults, ops>>
NextDay == Passes /\ day < MaxDay /\ day' = day + 1 /\ slot' = FALSE /\ Waits
SlotComes == Does("backup") /\ Passes /\ ~slot /\ slot' = TRUE /\ UNCHANGED day /\ Waits
\* The server stops and starts again: what was under way is gone, the flag "running" too.
Restart ==
    /\ Does("restart") /\ faults < MaxFaults /\ faults' = faults + 1
    /\ \E h \in Handlers : ~Idle(h)
    /\ job' = [h \in Handlers |-> Done]
    /\ UNCHANGED <<time, persons, event, backups, history, clock, requests, ops>>

-----------------------------------------------------------------------------
(* Backups *)

\* isDue: once a day, at or after the chosen time.
IsDue == settings.enabled /\ slot /\ (settings.lastRun = Never \/ settings.lastRun < day)
\* Mutant: the day is marked as done when the run is over.
RunStepsMarkedLast == <<"dump", "dumpEvent", "deliver", "prune", "read", "take", "read", "end">>
\* "Mark the slot as taken first": each mark is read and written back with all settings.
RunSteps == <<"read", "take", "dump", "dumpEvent", "deliver", "prune", "read", "end">>
\* runScheduledBackupIfDue, every minute. The settings it works with are those it reads now.
RunScheduledBackup(h) ==
    /\ Does("backup") /\ ~Running("backup") /\ IsDue
    /\ BeginJob(h, [Done EXCEPT !.kind = "backup", !.todo = RunSteps, !.settings = settings])
    /\ UNCHANGED <<time, persons, event, backups, history>>
\* Mutant: the settings read at the beginning of the run are written back at its end.
ReadOnce(j) == IF Len(j.todo) > 2 THEN settings ELSE j.settings
Read(j) == settings
ReadState(h) ==
    /\ Doing(h, "read")
    /\ Then(h, [Left(job[h]) EXCEPT !.settings = Read(job[h]), !.was = settings])
    /\ UNCHANGED <<time, persons, event, backups, history>>
\* Who writes over the mark of a run, and who over an admin's change, that came after it read.
Overwriting(j) ==
    [history EXCEPT
        !.again = @ \cup When(settings.lastRun # j.was.lastRun, {settings.lastRun}),
        !.changed = @ \/ settings.change # j.was.change]
\* saveScheduleState
SaveState(h) ==
    /\ Doing(h, "take") \/ Doing(h, "end")
    /\ LET j == job[h]
       IN  /\ settings' = IF Doing(h, "take")
                          THEN [j.settings EXCEPT !.lastRun = j.day, !.status = "running"]
                          ELSE [j.settings EXCEPT !.status = j.outcome]
           /\ history' = Overwriting(j)
           /\ Then(h, Left(j))
    /\ UNCHANGED <<time, persons, event, files>>
\* setBackupSettings reads, and writes everything back with the admin's changes. A schedule
\* switched on just now counts as run today.
SetBackupSettings(h, enabled, keep) ==
    /\ Does("admin")
    /\ BeginRequest(h,
         [Done EXCEPT
            !.kind = "request", !.todo = <<"save">>, !.was = settings,
            !.settings = [settings EXCEPT
                            !.enabled = enabled, !.keep = keep, !.change = clock + 1,
                            !.lastRun = IF enabled /\ ~settings.enabled THEN day ELSE @]])
    /\ UNCHANGED <<time, persons, event, backups, history>>
SaveSettings(h) ==
    /\ Doing(h, "save")
    /\ settings' = job[h].settings
    /\ history' = [Overwriting(job[h]) EXCEPT !.changed = history.changed, !.saved = job[h].n]
    /\ Then(h, Left(job[h]))
    /\ UNCHANGED <<time, persons, event, files>>

\* POST /backup/export: the same without a schedule, and nothing is pruned.
ExportByHand(h) ==
    /\ Does("restore")
    /\ BeginRequest(h, [Done EXCEPT !.kind = "request", !.todo = <<"dump", "dumpEvent", "deliver">>])
    /\ UNCHANGED <<time, persons, event, backups, history>>
\* buildBackup reads the tables of the participants and then those of the events.
Dump(h) ==
    /\ Doing(h, "dump")
    /\ Then(h, [Left(job[h]) EXCEPT
                  !.file = [NoFile EXCEPT !.n = clock, !.data = data, !.consent = consent]])
    /\ history' = IF job[h].kind = "backup"
                  THEN [history EXCEPT !.runs[job[h].day] = @ + 1] ELSE history
    /\ UNCHANGED <<time, persons, event, backups>>
DumpEvent(h) ==
    /\ Doing(h, "dumpEvent")
    /\ Then(h, [Left(job[h]) EXCEPT
                  !.file.event = event, !.file.torn = job[h].file.data # data])
    /\ UNCHANGED <<time, persons, event, backups, history>>
DumpFails(h) ==
    /\ Doing(h, "dump") /\ job[h].kind = "backup"
    /\ Fails(h, [job[h] EXCEPT !.todo = <<"read", "end">>, !.outcome = "error"])
    /\ UNCHANGED <<time, persons, event, backups, history>>
\* deliver writes the file under the minute it was made in
Deliver(h) ==
    /\ Doing(h, "deliver")
    /\ files' = {f \in files : f.n # job[h].file.n} \cup {job[h].file}
    /\ Then(h, Left(job[h]))
    /\ UNCHANGED <<time, persons, event, settings, history>>
DeliverFails(h) ==
    /\ Doing(h, "deliver") /\ job[h].kind = "backup"
    /\ Fails(h, [job[h] EXCEPT !.todo = <<"read", "end">>, !.outcome = "partial"])
    /\ UNCHANGED <<time, persons, event, backups, history>>
Newer(f) == {g \in files : g.n > f.n}
\* pruneLocal, with the number of files the run read when it began
Prune(h) ==
    /\ Doing(h, "prune")
    /\ files' = {f \in files : Cardinality(Newer(f)) < job[h].settings.keep}
    /\ Then(h, Left(job[h]))
    /\ UNCHANGED <<time, persons, event, settings, history>>

\* Data and the marks of deletions come from the same moment, and no deletion is under way.
Whole(f, parts) == parts = Parts /\ ~f.torn /\ \A h \in Handlers : job[h].category = "none"
\* POST /backup/restore merges the chosen parts in one transaction. Rows are overwritten with
\* what the file has. "restored": data and the marks of deletions may no longer agree.
Restore(f, parts) ==
    /\ Does("restore") /\ f \in files /\ AtOnce
    /\ data' = IF "participants" \in parts THEN f.data ELSE data
    /\ consent' = IF "participants" \in parts THEN f.consent ELSE consent
    /\ event' = IF "events" \in parts THEN f.event ELSE event
    /\ history' = [history EXCEPT !.restored = @ \/ ~Whole(f, parts)]
    /\ UNCHANGED <<time, elsewhere, reviews, backups>>

-----------------------------------------------------------------------------
(* The data of people *)

\* What follows a change by somebody else: the person gets it to look at.
Steps(by) == IF by = "other" THEN <<"write", "record">> ELSE <<"write">>
\* PUT ot-fields, PATCH /account and PUT /characters/:id read everything somebody entered,
\* those who look after a group what a member entered (PUT /group-tree/:id/account-fields and
\* PUT /characters/:id) ...
Edit(h, by, place, p, c, keeps) ==
    /\ Does(IF by = "other" THEN "review" ELSE "edit")
    /\ requests + 1 < Limit   \* a bound: the last request saves nothing
    /\ place # "accounts" \/ by = "other" => ~keeps
    /\ place = "answers" => by = "owner"
    /\ BeginRequest(h, [Done EXCEPT
                          !.kind = "request", !.todo = Steps(by), !.place = place, !.person = p,
                          !.category = "none", !.form = data[place][p], !.keeps = keeps,
                          !.outcome = c])
    /\ UNCHANGED <<time, persons, event, backups, history>>
Crossing(place, p, form) ==
    history.crossed \cup When(data[place][p] # form, {<<place, p>>})
\* ... and write everything back with what was sent. The consent goes with one's own account.
WriteForm(h) ==
    /\ Doing(h, "write")
    /\ LET j == job[h]
       IN  /\ data' = [data EXCEPT ![j.place][j.person] = [j.form EXCEPT ![j.outcome] = clock]]
           /\ consent' = IF j.place # "accounts" \/ j.todo = Steps("other") THEN consent
                         ELSE IF j.keeps THEN consent \cup {j.person} ELSE consent \ {j.person}
           /\ history' = [history EXCEPT !.crossed = Crossing(j.place, j.person, j.form)]
           /\ Then(h, Left(j))
    /\ UNCHANGED <<time, elsewhere, reviews, event, backups>>
\* recordReview: what was there before, to be put back if the person does not agree
RecordReview(h) ==
    /\ Doing(h, "record")
    /\ LET j == job[h]
       IN  reviews' = reviews \cup
             {[n |-> j.n, place |-> j.place, person |-> j.person, category |-> j.outcome,
               from |-> j.form[j.outcome]]}
    /\ Then(h, Left(job[h]))
    /\ UNCHANGED <<time, data, consent, elsewhere, event, backups, history>>
\* Some of the category is deleted already, or is about to be.
Deleting(c) == c \in event.deleted \/ \E h \in Handlers : job[h].category = c
Returned(r) == When(Deleting(r.category), {<<r.category, r.place, r.person>>})
\* resolveReview, in one transaction: the change is accepted, or the value from before is put
\* back whatever has happened to it since. It does not look whether that value is to be gone.
ResolveReview(r, accepted) ==
    /\ Does("review") /\ AtOnce
    /\ reviews' = reviews \ {r}
    /\ data' = IF accepted THEN data ELSE [data EXCEPT ![r.place][r.person][r.category] = r.from]
    /\ history' = [history EXCEPT !.returned = @ \cup (IF accepted THEN {} ELSE Returned(r))]
    /\ UNCHANGED <<time, consent, elsewhere, event, backups>>
\* Somebody registers for another event, or that event ends.
RegisterElsewhere(p) ==
    /\ Does("edit") /\ AtOnce
    /\ elsewhere' = IF p \in elsewhere THEN elsewhere \ {p} ELSE elsewhere \cup {p}
    /\ UNCHANGED <<time, data, consent, reviews, event, backups, history>>
\* setEventEnded
EndEvent ==
    /\ Does("privacy") /\ event.ended = Never /\ AtOnce
    /\ event' = [event EXCEPT !.ended = day]
    /\ UNCHANGED <<time, persons, backups, history>>
ReopenEvent ==
    /\ Does("reopen") /\ event.ended # Never /\ AtOnce
    /\ event' = [event EXCEPT !.ended = Never]
    /\ UNCHANGED <<time, persons, backups, history>>

-----------------------------------------------------------------------------
(* Deleting *)

\* privacyStatus: "due"
Due(c) == event.ended # Never /\ event.ended + After[c] <= day /\ c \notin event.deleted
\* Mutant: the category counts as deleted before anything was.
DeletionMarkedFirst == <<"mark", "readAnswers", "wipe", "readAccounts", "wipe", "wipeSheets">>
DeletionSteps == <<"readAnswers", "wipe", "readAccounts", "wipe", "wipeSheets", "mark">>
Deletion(c) == [Done EXCEPT !.kind = "deletion", !.todo = DeletionSteps, !.category = c]
\* runPrivacyDeletion, by hand
RunDeletion(h, c) ==
    /\ Does("privacy") /\ Due(c) /\ BeginRequest(h, Deletion(c))
    /\ UNCHANGED <<time, persons, event, backups, history>>
\* runDueAutoDeletions, every six hours; one category after the other. Nothing keeps a run from
\* beginning while another one is under way.
RunCleanup(h, c) ==
    /\ Does("privacy") /\ Due(c) /\ c \in Automatic
    /\ BeginRequest(h, Deletion(c))
    /\ UNCHANGED <<time, persons, event, backups, history>>
\* Account and character data go unless the person agreed, or is registered elsewhere.
Forgettable(p) == p \notin consent /\ p \notin elsewhere
Wiped(form, c) == [form EXCEPT ![c] = None]
Kept(c, place) == {<<c, place, p>> : p \in {q \in People : ~Forgettable(q)}}
Over(j, rows) == IF rows = {} THEN Left([j EXCEPT !.rows = {}]) ELSE [j EXCEPT !.rows = rows]
ReadRows(h, place, who, kept) ==
    Then(h, Over([Left(job[h]) EXCEPT !.place = place, !.kept = kept],
                 {<<p, data[place][p]>> : p \in who}))
ReadAnswers(h) ==
    /\ Doing(h, "readAnswers") /\ ReadRows(h, "answers", People, {})
    /\ UNCHANGED <<time, persons, event, backups, history>>
ReadAccounts(h) ==
    /\ Doing(h, "readAccounts")
    /\ ReadRows(h, "accounts", {p \in People : Forgettable(p)}, Kept(job[h].category, "accounts"))
    /\ UNCHANGED <<time, persons, event, backups, history>>
\* One row after the other is written back as it was read, without the category.
WipeRow(h) ==
    /\ Doing(h, "wipe")
    /\ LET j == job[h]
       IN  \E row \in j.rows :
             /\ data' = [data EXCEPT ![j.place][row[1]] = Wiped(row[2], j.category)]
             /\ history' = [history EXCEPT !.crossed = Crossing(j.place, row[1], row[2])]
             /\ Then(h, Over(j, j.rows \ {row}))
    /\ UNCHANGED <<time, consent, elsewhere, reviews, event, backups>>
\* wipeCharacterFields: one UPDATE
WipeSheets(h) ==
    /\ Doing(h, "wipeSheets")
    /\ LET c == job[h].category
       IN  /\ data' = [data EXCEPT !["sheets"] =
                         [p \in People |-> IF Forgettable(p) THEN Wiped(@[p], c) ELSE @[p]]]
           /\ Then(h, [Left(job[h]) EXCEPT !.kept = @ \cup Kept(c, "sheets")])
    /\ UNCHANGED <<time, consent, elsewhere, reviews, event, backups, history>>
MarkDeleted(h) ==
    /\ Doing(h, "mark")
    /\ LET j == job[h]
       IN  event' = [event EXCEPT !.deleted = @ \cup {j.category}, !.cut[j.category] = j.n,
                                  !.kept = {k \in @ : k[1] # j.category} \cup j.kept]
    /\ Then(h, Left(job[h]))
    /\ UNCHANGED <<time, persons, backups, history>>

-----------------------------------------------------------------------------
Init ==
    /\ ops \in Scenarios /\ day = 0 /\ slot = FALSE
    /\ data = [place \in Places |-> [p \in People |-> [c \in Categories |-> 1]]]
    /\ consent \in (IF Writes THEN {{}} ELSE {{p} : p \in People}) /\ elsewhere = {}
    /\ reviews = {}
    /\ event = [NoEvent EXCEPT !.ended = IF Writes THEN 0 ELSE Never]
    /\ settings = NoSettings /\ files = {}
    /\ job = [h \in Handlers |-> Done]
    /\ history = [runs |-> [d \in Days |-> 0], again |-> {}, changed |-> FALSE, saved |-> 0,
                  crossed |-> {}, returned |-> {}, restored |-> FALSE]
    /\ clock = 1 /\ requests = 0 /\ faults = 0

Ask(h) ==
    \/ RunScheduledBackup(h) \/ ExportByHand(h)
    \/ \E enabled \in BOOLEAN, keep \in 1..2 : SetBackupSettings(h, enabled, keep)
    \/ \E by \in {"owner", "other"}, place \in Places, p \in People, c \in Categories,
          keeps \in BOOLEAN : Edit(h, by, place, p, c, keeps)
    \/ \E c \in Categories : RunDeletion(h, c) \/ RunCleanup(h, c)
Step(h) ==
    \/ ReadState(h) \/ SaveState(h) \/ SaveSettings(h)
    \/ Dump(h) \/ DumpEvent(h) \/ Deliver(h) \/ Prune(h)
    \/ WriteForm(h) \/ RecordReview(h) \/ ReadAnswers(h) \/ ReadAccounts(h) \/ WipeRow(h)
    \/ WipeSheets(h) \/ MarkDeleted(h)
Next ==
    \/ NextDay \/ SlotComes \/ Restart \/ EndEvent \/ ReopenEvent
    \/ \E h \in Handlers : Ask(h) \/ Step(h) \/ DumpFails(h) \/ DeliverFails(h)
    \/ \E f \in files, parts \in SUBSET Parts \ {{}} : Restore(f, parts)
    \/ \E p \in People : RegisterElsewhere(p)
    \/ \E r \in reviews, accepted \in BOOLEAN : ResolveReview(r, accepted)

Spec == Init /\ [][Next]_rvars

-----------------------------------------------------------------------------
(* Properties *)

\* A day has at most one scheduled backup, whatever stops the server on the way, unless
\* somebody saved settings read before the mark of the run over it.
SlotRunsOnce == \A d \in Days : history.runs[d] > 1 => d \in history.again

\* The settings stored are those an admin saved last: the marks of a run do not bring back
\* older ones, unless the admin saved between the reading and the writing of one mark.
SettingsAreKept == settings.change = history.saved \/ history.changed

\* A category that counts as deleted is gone: nobody has a value left that was saved before
\* the deletion began, except data kept on purpose, data somebody else wrote back at the same
\* moment, data brought back by a part of a backup, and a value that was put back after the
\* deletion because the person did not agree to a change that somebody else had made before it.
ForgottenIsGone ==
    \A c \in event.deleted, place \in Places, p \in People :
      \/ data[place][p][c] = None \/ data[place][p][c] >= event.cut[c]
      \/ <<c, place, p>> \in event.kept \/ <<place, p>> \in history.crossed
      \/ <<c, place, p>> \in history.returned \/ history.restored
================================================================================
