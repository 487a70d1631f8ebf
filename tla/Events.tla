--------------------------------- MODULE Events ---------------------------------
(***************************************************************************)
(* The settings of events and the prices that follow from them: creating,  *)
(* changing, activating and deleting events, the price of a registration,  *)
(* and the two jobs that look at prices: turning unpaid people into        *)
(* Con-Zahler with mails before a tier ends, and reminding the orga of     *)
(* unpaid PDF forms.  Translated from backend/events, from                 *)
(* registrations/conPayerAutomation and unpaidReminders, with the requests *)
(* on registrations that read an event first and write afterwards.         *)
(*                                                                         *)
(* Registrations are those for "con"; the other event only has a code.     *)
(* There is one extra, of price 1, and one Teilnahmegruppe.                *)
(***************************************************************************)
EXTENDS Integers, Sequences, FiniteSets

CONSTANTS
    People,        \* people who may register for the con
    FromPdf,       \* those of them whose registration came in by an imported PDF
    Flags,         \* names of special roles
    Tables,        \* price tables: sets of tiers (last day, price, pays at the con)
    Window,        \* how many days before a tier ends people are mailed
    ReminderDays,  \* days after the registration on which the orga is reminded
    MaxDay,        \* bound on days; the con is on the last one
    Handlers,      \* requests and jobs under way at the same time
    Scenarios,     \* which kinds of operations may happen together in one behaviour
    MaxRequests,   \* bound on requests
    MaxJobs,       \* bound on runs of the jobs
    MaxFaults      \* bound on restarts and failing mails

Never == MaxDay + 1
NoPrice == -1
Tier == [until : 0..Never, price : Nat, conPayer : BOOLEAN]

ASSUME EventsAssumption ==
    /\ FromPdf \subseteq People /\ ReminderDays \in Seq(Nat)
    /\ Tables \subseteq (SUBSET Tier) \ {{}} /\ Tables # {} /\ "none" \notin Flags
    /\ \A table \in Tables, s, t \in UNION Tables :
         {s, t} \subseteq table /\ s.until = t.until => s = t
    /\ {Window, MaxDay, MaxRequests, MaxJobs, MaxFaults} \subseteq Nat /\ IsFiniteSet(Handlers)

VARIABLES
    day,           \* the date
    events,        \* the rows of events
    regs,          \* the registrations for the con
    job,           \* the statements each handler still has to run, and what it has read
    mails,         \* how often somebody was mailed about a deadline, or listed for the orga
    history,       \* what the properties have to know about the past
    requests,      \* requests begun
    jobs,          \* jobs begun
    faults,        \* faults so far
    ops            \* the kinds of operations that happen in this behaviour

evars == <<day, events, regs, job, mails, history, requests, jobs, faults, ops>>

Days == 0..MaxDay
Names == {"con", "next"}
Codes == {"none", "LARP1"}
Limit == 0..2   \* 0: no limit
NoFlag == "none"
Event ==
    [exists : BOOLEAN, active : BOOLEAN, code : Codes, capacity : Limit, hard : Limit,
     flags : SUBSET Flags, offered : BOOLEAN, table : Tables]
Reg ==
    [status : {"none", "open", "cancelled"}, flag : Flags \cup {NoFlag}, extra : {0, 1},
     list : Nat \cup {NoPrice}, due : Nat \cup {NoPrice}, paid : BOOLEAN, paidFor : Int,
     conPayer : BOOLEAN, optin : BOOLEAN, mailedFor : Days \cup {Never},
     sent : Nat, created : Days]
Does(kind) == kind \in ops
\* One more where a booking is cancelled before the event is deleted, and one more run where
\* prices change back and forth between the runs.
Requests == MaxRequests + IF Does("delete") THEN 1 ELSE 0
Jobs == MaxJobs + IF Does("pricing") /\ ~Does("register") THEN 1 ELSE 0
Kinds == {"none", "put", "rename", "request", "delete", "prices", "unpaid"}

TypeOK ==
    /\ day \in Days /\ events \in [Names -> Event] /\ regs \in [People -> Reg]
    /\ \A h \in Handlers :
         /\ job[h].kind \in Kinds /\ job[h].event \in Event /\ job[h].reg \in Reg
         /\ job[h].rows \subseteq People
    /\ mails \in [deadline : [People -> [Days -> Nat]], listed : [People -> Nat]]
    /\ requests \in 0..Requests /\ jobs \in 0..Jobs /\ faults \in 0..MaxFaults
    /\ ops \in Scenarios

-----------------------------------------------------------------------------
AnyTable == CHOOSE table \in Tables : TRUE
AnyFlag == CHOOSE flag \in Flags : TRUE
NoEvent ==
    [exists |-> FALSE, active |-> FALSE, code |-> "none", capacity |-> 0, hard |-> 0,
     flags |-> {}, offered |-> FALSE, table |-> AnyTable]
NoReg ==
    [status |-> "none", flag |-> NoFlag, extra |-> 0, list |-> NoPrice, due |-> NoPrice,
     paid |-> FALSE, paidFor |-> 0, conPayer |-> FALSE, optin |-> FALSE, mailedFor |-> Never,
     sent |-> 0, created |-> 0]
Done ==
    [kind |-> "none", todo |-> <<>>, day |-> 0, name |-> "con", event |-> NoEvent,
     was |-> NoEvent, renames |-> <<>>, meant |-> <<>>, force |-> FALSE,
     person |-> "none", reg |-> NoReg,
     rows |-> {}, tables |-> AnyTable]
Idle(h) == job[h] = Done
Running(kind) == \E h \in Handlers : job[h].kind = kind
Doing(h, what) == job[h].todo # <<>> /\ Head(job[h].todo) = what
When(condition, set) == IF condition THEN set ELSE {}
There(p) == regs[p].status # "none"
con == events["con"]

Begin(h, begun) ==
    /\ Idle(h) /\ h = CHOOSE g \in Handlers : Idle(g)
    /\ job' = [job EXCEPT ![h] = [begun EXCEPT !.day = day]]
    /\ UNCHANGED <<faults, ops>>
BeginRequest(h, begun) ==
    Begin(h, begun) /\ requests < Requests /\ requests' = requests + 1 /\ UNCHANGED jobs
BeginJob(h, begun) ==
    Begin(h, begun) /\ jobs < Jobs /\ jobs' = jobs + 1 /\ UNCHANGED requests
AtOnce ==
    requests < Requests /\ requests' = requests + 1 /\ UNCHANGED <<job, jobs, faults, ops>>
Left(j) == [j EXCEPT !.todo = Tail(@)]
Become(h, left) == job' = [job EXCEPT ![h] = IF left.todo = <<>> THEN Done ELSE left]
Then(h, left) == Become(h, left) /\ UNCHANGED <<requests, jobs, faults, ops>>

Clock == Does("prices") \/ Does("unpaid")
\* Time only passes while nothing is under way, and where a job looks at it.
NextDay ==
    /\ Clock /\ \A h \in Handlers : Idle(h)
    /\ day < MaxDay /\ day' = day + 1
    /\ UNCHANGED <<events, regs, job, mails, history, requests, jobs, faults, ops>>
\* The server stops and starts again, or a statement fails: the rest is never run.
Stop(h) ==
    /\ Does("restart") /\ faults < MaxFaults /\ faults' = faults + 1 /\ ~Idle(h)
    /\ job' = [job EXCEPT ![h] = Done]
    /\ history' = [history EXCEPT
                     !.stopped = TRUE,
                     !.unsent = @ \cup When(Doing(h, "send"), {job[h].person}),
                     !.uncounted = @ \cup When(Doing(h, "count"), job[h].rows)]
    /\ UNCHANGED <<day, events, regs, mails, requests, jobs, ops>>

-----------------------------------------------------------------------------
(* The settings of an event *)

\* validateLimits: the hard limit needs a planned one, and is not below it.
LimitsFit(e) == e.hard # 0 => e.capacity # 0 /\ e.hard >= e.capacity
\* What the body of PUT /events/:id may change at a time; the rest keeps what the row has.
Changed(e, was, next) ==
    [e EXCEPT !.capacity = IF next.capacity # was.capacity THEN next.capacity ELSE @,
              !.hard = IF next.hard # was.hard THEN next.hard ELSE @,
              !.flags = IF next.flags # was.flags THEN next.flags ELSE @,
              !.offered = IF next.offered # was.offered THEN next.offered ELSE @,
              !.table = IF next.table # was.table THEN next.table ELSE @,
              !.code = IF next.code # was.code THEN next.code ELSE @]
PutSteps(was, next, renames) ==
    (IF was.offered /\ ~next.offered THEN <<"checkExtras">> ELSE <<>>)
    \o (IF next.code # was.code /\ next.code # "none" THEN <<"checkCode">> ELSE <<>>)
    \o [i \in DOMAIN renames |-> "rename"] \o <<"update">>
\* The name a role is to have: the one the form gave it.
Meant(flag, renames) ==
    IF \E i \in DOMAIN renames : renames[i][1] = flag
    THEN LET i == CHOOSE i \in DOMAIN renames : renames[i][1] = flag IN renames[i][2]
    ELSE flag
\* PUT /events/:id, validated with the event as it is read first
Put(h, name, next, renames) ==
    /\ events[name].exists /\ (next # events[name] \/ renames # <<>>) /\ LimitsFit(next)
    /\ BeginRequest(h, [Done EXCEPT
                          !.kind = IF renames = <<>> THEN "put" ELSE "rename",
                          !.todo = PutSteps(events[name], next, renames), !.name = name,
                          !.event = next, !.was = events[name],
                          !.renames = renames,
                          !.meant = IF renames = <<>> THEN <<>>
                                    ELSE [p \in People |-> Meant(regs[p].flag, renames)]])
    /\ UNCHANGED <<day, events, regs, mails, history>>
PutLimits(h, name) ==
    /\ Does("settings")
    /\ \E c, l \in Limit :
         Put(h, name, [events[name] EXCEPT !.capacity = c, !.hard = l], <<>>)
PutCode(h, name) ==
    Does("settings") /\ \E c \in Codes : Put(h, name, [events[name] EXCEPT !.code = c], <<>>)
PutExtras(h) == Does("settings") /\ Put(h, "con", [con EXCEPT !.offered = ~@], <<>>)
PutPricing(h) ==
    Does("pricing") /\ \E table \in Tables : Put(h, "con", [con EXCEPT !.table = table], <<>>)
\* One role gets another name, or two roles change their names.
PutFlags(h) ==
    /\ Does("settings")
    /\ \E from \in con.flags : \E to \in Flags \ {from} :
         IF to \in con.flags THEN Put(h, "con", con, << <<from, to>>, <<to, from>> >>)
         ELSE Put(h, "con", [con EXCEPT !.flags = (@ \ {from}) \cup {to}], << <<from, to>> >>)

Refuse(h) ==
    Then(h, [job[h] EXCEPT !.todo = <<>>]) /\ UNCHANGED <<day, events, regs, mails, history>>
Pass(h) == Then(h, Left(job[h])) /\ UNCHANGED <<day, events, regs, mails, history>>
\* Mutant: whoever has cancelled does not count.
BookedAndOpen == \E p \in People : regs[p].extra = 1 /\ regs[p].status = "open"
\* "An extra that is already booked can't disappear"
Booked == \E p \in People : regs[p].extra = 1
CheckExtras(h) == Doing(h, "checkExtras") /\ IF Booked THEN Refuse(h) ELSE Pass(h)
\* findEventByCodeCI
Taken(code, name) ==
    \E other \in Names \ {name} : events[other].exists /\ events[other].code = code
CheckCode(h) ==
    /\ Doing(h, "checkCode")
    /\ IF Taken(job[h].event.code, job[h].name) THEN Refuse(h) ELSE Pass(h)
\* Mutant: the role of those who have cancelled is left as it was.
RenamedIfOpen(reg, from, to) ==
    [reg EXCEPT !.flag = IF @ = from /\ reg.status = "open" THEN to ELSE @]
\* "A renamed special role keeps its registrations"
Renamed(reg, from, to) == [reg EXCEPT !.flag = IF @ = from THEN to ELSE @]
Rename(h) ==
    /\ Doing(h, "rename")
    /\ LET next == Head(job[h].renames)
       IN  regs' = [p \in People |-> Renamed(regs[p], next[1], next[2])]
    /\ Then(h, [Left(job[h]) EXCEPT !.renames = Tail(@)])
    /\ UNCHANGED <<day, events, mails, history>>
Limits(e) == <<e.capacity, e.hard>>
\* What was checked is no longer so, or somebody else renames roles at the same time.
Crossed(h) ==
    LET j == job[h]
    IN  \/ j.event.code \notin {"none", j.was.code} /\ Taken(j.event.code, j.name)
        \/ j.was.offered /\ ~j.event.offered /\ Booked
        \/ Limits(j.event) # Limits(j.was) /\ Limits(events[j.name]) # Limits(j.was)
        \/ j.kind = "rename" /\ \E g \in Handlers \ {h} : job[g].kind = "rename"
\* updateEvent. Only what the body had is written.
Update(h) ==
    /\ Doing(h, "update")
    /\ LET j == job[h]
       IN  /\ events' = IF events[j.name].exists
                        THEN [events EXCEPT ![j.name] = Changed(@, j.was, j.event)] ELSE events
           /\ history' = [history EXCEPT !.crossed = @ \/ Crossed(h),
                                         !.repriced = @ \/ j.was.table # j.event.table]
           /\ Then(h, Left(j))
    /\ UNCHANGED <<day, regs, mails>>
\* POST /events. Where an event was deleted, the new one comes after the last request for it.
CreateEvent(h, code) ==
    /\ Does("settings") /\ ~events["next"].exists /\ \A g \in Handlers : job[g].name # "next"
    /\ BeginRequest(h, [Done EXCEPT
                          !.kind = "request", !.name = "next",
                          !.todo = IF code = "none" THEN <<"insert">> ELSE <<"checkCode", "insert">>,
                          !.event = [NoEvent EXCEPT !.exists = TRUE, !.code = code]])
    /\ UNCHANGED <<day, events, regs, mails, history>>
InsertEvent(h) ==
    /\ Doing(h, "insert")
    /\ events' = [events EXCEPT !["next"] = job[h].event]
    /\ history' = [history EXCEPT
                     !.crossed = @ \/ (job[h].event.code # "none" /\ Taken(job[h].event.code, "next"))]
    /\ Then(h, Left(job[h])) /\ UNCHANGED <<day, regs, mails>>
\* activateEvent reads whether the event is there, and sets the mark of every row in one UPDATE.
Activate(h, name) ==
    /\ Does("settings") /\ events[name].exists
    /\ BeginRequest(h, [Done EXCEPT !.kind = "request", !.name = name, !.todo = <<"activate">>])
    /\ UNCHANGED <<day, events, regs, mails, history>>
SetActive(h) ==
    /\ Doing(h, "activate")
    /\ events' = [n \in Names |-> [events[n] EXCEPT !.active = events[n].exists /\ n = job[h].name]]
    /\ Then(h, Left(job[h])) /\ UNCHANGED <<day, regs, mails, history>>
\* Mutant: whoever has cancelled does not count.
NobodyOpen(name) == name = "con" => \A p \in People : regs[p].status # "open"
NobodyRegistered(name) == name = "con" => ~(\E p \in People : There(p))
\* deleteEvent looks for registrations first ...
Delete(h, name, force) ==
    /\ Does("delete") /\ events[name].exists
    /\ force \/ NobodyRegistered(name)
    /\ BeginRequest(h, [Done EXCEPT !.kind = "delete", !.name = name, !.todo = <<"delete">>,
                                    !.force = force])
    /\ UNCHANGED <<day, events, regs, mails, history>>
\* ... and the registrations go with the row.
DeleteRow(h) ==
    /\ Doing(h, "delete")
    /\ LET j == job[h] gone == When(j.name = "con", {p \in People : There(p)})
       IN  /\ events' = [events EXCEPT ![j.name] = NoEvent]
           /\ regs' = [p \in People |-> IF p \in gone THEN NoReg ELSE regs[p]]
           /\ history' = [history EXCEPT !.lost = @ \cup When(~j.force, gone)]
           /\ Then(h, Left(j))
    /\ UNCHANGED <<day, mails>>

-----------------------------------------------------------------------------
(* Registrations *)

\* resolvePriceForGroup: the first tier that has not run out
Ahead(table, d) == {t \in table : t.until >= d}
HasTier(table, d) == Ahead(table, d) # {}
TierAt(table, d) == CHOOSE t \in Ahead(table, d) : \A u \in Ahead(table, d) : t.until <= u.until
ListPrice(table, d) == IF HasTier(table, d) THEN TierAt(table, d).price ELSE NoPrice
PaysAtCon(table, d) == HasTier(table, d) /\ TierAt(table, d).conPayer
\* amountDueFor: nothing is known without a price and without extras
AmountDue(list, extra) ==
    IF list = NoPrice THEN (IF extra = 0 THEN NoPrice ELSE extra) ELSE list + extra
NewReg(flag, extra, optin) ==
    [NoReg EXCEPT !.status = "open", !.flag = flag, !.extra = extra, !.optin = optin,
                  !.list = ListPrice(con.table, day), !.conPayer = PaysAtCon(con.table, day),
                  !.due = AmountDue(ListPrice(con.table, day), extra), !.created = day]
\* registerForEvent takes flags, extras and the price from the event as it is read first (with
\* staff registering, who need no active event) ...
Register(h, p, flag, extra, optin) ==
    /\ Does("register") /\ con.exists /\ ~There(p)
    /\ flag \in con.flags \cup {NoFlag} /\ (extra = 1 => con.offered)
    /\ BeginRequest(h, [Done EXCEPT !.kind = "request", !.todo = <<"register">>, !.person = p,
                                    !.reg = NewReg(flag, extra, optin)])
    /\ UNCHANGED <<day, events, regs, mails, history>>
Stale(j) ==
    \/ j.reg.flag \notin con.flags \cup {NoFlag}
    \/ j.reg.flag # NoFlag /\ \E g \in Handlers : job[g].was.flags # job[g].event.flags
    \/ j.reg.extra = 1 /\ ~con.offered
\* ... and inserts the row.
InsertReg(h) ==
    /\ Doing(h, "register")
    /\ LET j == job[h]
       IN  IF con.exists /\ ~There(j.person)
           THEN /\ regs' = [regs EXCEPT ![j.person] = j.reg]
                /\ history' = [history EXCEPT !.crossed = @ \/ Stale(j),
                                              !.late = @ \cup When(Running("delete"), {j.person})]
                /\ Then(h, Left(j)) /\ UNCHANGED <<day, events, mails>>
           ELSE Refuse(h)
\* updateRegistrationOtFields writes the flags back as they were read, if none are sent.
EditForm(h, p, flag) ==
    /\ Does("edit") /\ There(p) /\ flag \in con.flags \cup {NoFlag, regs[p].flag}
    /\ BeginRequest(h, [Done EXCEPT !.kind = "request", !.todo = <<"write">>, !.person = p,
                                    !.reg = [NoReg EXCEPT !.flag = flag]])
    /\ UNCHANGED <<day, events, regs, mails, history>>
WriteForm(h) ==
    /\ Doing(h, "write")
    /\ LET j == job[h]
       IN  IF There(j.person)
           THEN /\ regs' = [regs EXCEPT ![j.person].flag = j.reg.flag]
                /\ history' = [history EXCEPT !.crossed = @ \/ Stale(j)]
                /\ Then(h, Left(j)) /\ UNCHANGED <<day, events, mails>>
           ELSE Refuse(h)
\* updateRegistrationExtras reads the event, and then moves the amount by the difference
BookExtra(h, p, extra) ==
    /\ Does("extras") /\ There(p) /\ (extra = 1 => con.offered)
    /\ BeginRequest(h, [Done EXCEPT !.kind = "request", !.todo = <<"extra">>, !.person = p,
                                    !.reg = [NoReg EXCEPT !.extra = extra]])
    /\ UNCHANGED <<day, events, regs, mails, history>>
WriteExtra(h) ==
    /\ Doing(h, "extra")
    /\ LET j == job[h] r == regs[j.person] due == IF r.due = NoPrice THEN 0 ELSE r.due
       IN  IF r.status = "open" /\ ~r.paid
           THEN /\ regs' = [regs EXCEPT
                              ![j.person].extra = j.reg.extra,
                              ![j.person].due =
                                IF r.due = NoPrice /\ j.reg.extra = 0 THEN NoPrice
                                ELSE IF due + j.reg.extra - r.extra > 0
                                     THEN due + j.reg.extra - r.extra ELSE 0]
                /\ history' = [history EXCEPT
                                 !.crossed = @ \/ Stale(j),
                                 !.unpriced = @ \cup When(r.list = NoPrice, {j.person})]
                /\ Then(h, Left(j)) /\ UNCHANGED <<day, events, mails>>
           ELSE Refuse(h)
Saved(p, reg) ==
    AtOnce /\ regs' = [regs EXCEPT ![p] = reg] /\ UNCHANGED <<day, events, mails, history>>
Cancel(p) ==
    Does("edit") /\ regs[p].status = "open" /\ Saved(p, [regs[p] EXCEPT !.status = "cancelled"])
\* markPaidManually and the payment providers: the amount due at that moment
Pay(p) ==
    /\ Does("pay") /\ regs[p].status = "open" /\ ~regs[p].paid /\ regs[p].due # NoPrice
    /\ Saved(p, [regs[p] EXCEPT !.paid = TRUE, !.paidFor = @ + regs[p].due])
\* POST /public/deadline-optout/:token
OptOut(p) == Does("edit") /\ regs[p].optin /\ Saved(p, [regs[p] EXCEPT !.optin = FALSE])
\* setConPayer: only while open and unpaid
SetConPayer(p) ==
    /\ Does("pay") /\ regs[p].status = "open" /\ ~regs[p].paid
    /\ Saved(p, [regs[p] EXCEPT !.conPayer = ~@])

-----------------------------------------------------------------------------
(* The jobs *)

Unpaid(r) == r.status = "open" /\ ~r.paid /\ ~r.conPayer
\* runConPayerAutomation, a few times a day by a timer that does not ask whether the last run has
\* ended; convertToConPayers reads rows and price tables ...
RunPrices(h) ==
    /\ Does("prices")
    /\ BeginJob(h, [Done EXCEPT !.kind = "prices", !.todo = <<"convert", "list", "mail">>,
                                !.tables = con.table,
                                !.rows = {p \in People : Unpaid(regs[p])}])
    /\ UNCHANGED <<day, events, regs, mails, history>>
\* Mutant: the amount is the price of the tier, extras or not.
RepricedAsNew(r, price) == [r EXCEPT !.conPayer = TRUE, !.list = price, !.due = price]
\* The difference to the list price, so that extras and what was agreed by hand stay.
Repriced(r, price) ==
    LET list == IF r.list = NoPrice THEN 0 ELSE r.list
    IN  [r EXCEPT !.conPayer = TRUE, !.list = price,
                  !.due = IF @ = NoPrice THEN NoPrice
                          ELSE IF @ - list + price > 0 THEN @ - list + price ELSE 0]
\* Mutant: who has paid meanwhile is not looked at again.
MayConvertAnyone(r) == r.status # "none"
MayConvert(r) == r.status # "none" /\ ~r.paid /\ ~r.conPayer
\* ... and marks and reprices one row after the other, if it is still unpaid.
Convert(h) ==
    /\ Doing(h, "convert")
    /\ LET j == job[h]
       IN  IF j.rows = {} \/ ~PaysAtCon(j.tables, j.day)
           THEN Then(h, Left([j EXCEPT !.rows = {}])) /\ UNCHANGED <<regs, history>>
           ELSE \E p \in j.rows :
                  /\ regs' = IF MayConvert(regs[p])
                             THEN [regs EXCEPT ![p] = Repriced(@, ListPrice(j.tables, j.day))]
                             ELSE regs
                  /\ history' = [history EXCEPT !.unpriced = @ \cup When(regs[p].due = NoPrice, {p})]
                  /\ Then(h, [j EXCEPT !.rows = @ \ {p}])
    /\ UNCHANGED <<day, events, mails>>
\* sendGuestDeadlineMails: who asked for it and is still unpaid
ListForMails(h) ==
    /\ Doing(h, "list")
    /\ Then(h, [Left(job[h]) EXCEPT !.tables = con.table,
                                    !.rows = {p \in People : Unpaid(regs[p]) /\ regs[p].optin}])
    /\ UNCHANGED <<day, events, regs, mails, history>>
\* a deadline ahead, near enough, and no news to somebody who registered in its last days
Near(table, p, d) ==
    /\ HasTier(table, d) /\ TierAt(table, d).until # Never
    /\ LET start == TierAt(table, d).until - Window IN d >= start /\ regs[p].created < start
\* Mutant: the mark is written without looking at it.
ClaimableAlways(p, deadline) == There(p)
Claimable(p, deadline) == There(p) /\ regs[p].mailedFor # deadline
\* The deadline is claimed first, then the mail is sent.
Claim(h) ==
    /\ Doing(h, "mail")
    /\ LET j == job[h] deadline == TierAt(j.tables, j.day).until
       IN  IF j.rows = {} THEN Then(h, Left(j)) /\ UNCHANGED regs
           ELSE \E p \in j.rows :
                  IF Near(j.tables, p, j.day) /\ Claimable(p, deadline)
                  THEN /\ regs' = [regs EXCEPT ![p].mailedFor = deadline]
                       /\ Then(h, [j EXCEPT !.rows = @ \ {p}, !.person = p,
                                            !.todo = <<"send">> \o @])
                  ELSE Then(h, [j EXCEPT !.rows = @ \ {p}]) /\ UNCHANGED regs
    /\ UNCHANGED <<day, events, mails, history>>
SendMail(h) ==
    /\ Doing(h, "send")
    /\ LET j == job[h]
       IN  /\ mails' = [mails EXCEPT !.deadline[j.person][TierAt(j.tables, j.day).until] = @ + 1]
           /\ Then(h, [Left(j) EXCEPT !.person = "none"])
    /\ UNCHANGED <<day, events, regs, history>>
\* The mail failed: the claim is taken back.
MailFails(h) ==
    /\ Doing(h, "send") /\ Does("fail") /\ faults < MaxFaults /\ faults' = faults + 1
    /\ regs' = [regs EXCEPT ![job[h].person].mailedFor = Never]
    /\ Become(h, [Left(job[h]) EXCEPT !.person = "none"])
    /\ UNCHANGED <<day, events, mails, history, requests, jobs, ops>>

ReminderDue(r) ==
    r.sent < Len(ReminderDays) /\ r.created + ReminderDays[r.sent + 1] <= day
\* The runs that have somebody on their list, and those of them that have mailed it.
Reminding(p) == {h \in Handlers : job[h].kind = "unpaid" /\ p \in job[h].rows}
Counting(p) == {h \in Handlers : Doing(h, "count") /\ p \in job[h].rows}
\* runUnpaidReminders: one mail to the orga with everyone who is due. Nothing is claimed before
\* the mail, so that a second run started meanwhile lists the same people.
RunUnpaid(h) ==
    /\ Does("unpaid")
    /\ LET due == {p \in FromPdf : Unpaid(regs[p]) /\ ReminderDue(regs[p])}
       IN  /\ due # {}
           /\ BeginJob(h, [Done EXCEPT !.kind = "unpaid", !.todo = <<"remind", "count">>,
                                       !.rows = due])
           /\ history' = [history EXCEPT !.doubled = @ \cup {p \in due : Reminding(p) # {}}]
    /\ UNCHANGED <<day, events, regs, mails>>
Remind(h) ==
    /\ Doing(h, "remind")
    /\ mails' = [mails EXCEPT !.listed =
                   [p \in People |-> @[p] + IF p \in job[h].rows THEN 1 ELSE 0]]
    /\ Then(h, Left(job[h])) /\ UNCHANGED <<day, events, regs, history>>
\* Mutant: counted whether or not somebody got it.
CountAnyway(j) == Left(j)
\* "Only count the reminder when somebody actually got it"
GivenUp(j) == [j EXCEPT !.todo = <<>>]
\* Nobody could be reached.
RemindFails(h) ==
    /\ Doing(h, "remind") /\ Does("fail") /\ faults < MaxFaults /\ faults' = faults + 1
    /\ Become(h, GivenUp(job[h]))
    /\ UNCHANGED <<day, events, regs, mails, history, requests, jobs, ops>>
CountReminder(h) ==
    /\ Doing(h, "count")
    /\ regs' = [p \in People |-> IF p \in job[h].rows /\ There(p)
                                 THEN [regs[p] EXCEPT !.sent = @ + 1] ELSE regs[p]]
    /\ Then(h, Left(job[h])) /\ UNCHANGED <<day, events, mails, history>>

-----------------------------------------------------------------------------
\* Where nobody registers, everybody has, on the first day.
Registered ==
    {NewReg(flag, IF flag = AnyFlag THEN 1 ELSE 0, TRUE) : flag \in con.flags \cup {NoFlag}}
Init ==
    /\ ops \in Scenarios /\ day = 0
    /\ \E table \in IF Clock THEN Tables ELSE {AnyTable},
          flags \in IF Does("settings") THEN {some \in SUBSET Flags : AnyFlag \in some}
                    ELSE {{}} :
            events = [n \in Names |->
                        IF n = "con" THEN [NoEvent EXCEPT !.exists = TRUE, !.flags = flags,
                                             !.offered = TRUE, !.table = table]
                        ELSE NoEvent]
    /\ regs \in IF Does("register") THEN {[p \in People |-> NoReg]} ELSE [People -> Registered]
    /\ job = [h \in Handlers |-> Done]
    /\ mails = [deadline |-> [p \in People |-> [d \in Days |-> 0]],
                listed |-> [p \in People |-> 0]]
    /\ history = [crossed |-> FALSE, repriced |-> FALSE, stopped |-> FALSE, lost |-> {},
                  late |-> {}, unpriced |-> {}, unsent |-> {}, uncounted |-> {}, doubled |-> {}]
    /\ requests = 0 /\ jobs = 0 /\ faults = 0

Ask(h) ==
    \/ \E name \in Names : PutLimits(h, name) \/ PutCode(h, name) \/ Activate(h, name)
    \/ PutExtras(h) \/ PutPricing(h) \/ PutFlags(h) \/ \E code \in Codes : CreateEvent(h, code)
    \/ \E name \in Names, force \in BOOLEAN : Delete(h, name, force)
    \/ \E p \in People, flag \in Flags \cup {NoFlag}, extra \in {0, 1}, optin \in BOOLEAN :
         Register(h, p, flag, extra, optin)
    \/ \E p \in People, flag \in Flags \cup {NoFlag} : EditForm(h, p, flag)
    \/ \E p \in People, extra \in {0, 1} : BookExtra(h, p, extra)
Step(h) ==
    \/ CheckExtras(h) \/ CheckCode(h) \/ Rename(h) \/ Update(h) \/ InsertEvent(h) \/ SetActive(h)
    \/ DeleteRow(h) \/ InsertReg(h) \/ WriteForm(h) \/ WriteExtra(h)
    \/ Convert(h) \/ ListForMails(h) \/ Claim(h) \/ SendMail(h) \/ Remind(h) \/ CountReminder(h)
Next ==
    \/ NextDay
    \/ \E h \in Handlers :
         \/ Ask(h) \/ RunPrices(h) \/ RunUnpaid(h) \/ Step(h)
         \/ MailFails(h) \/ RemindFails(h) \/ Stop(h)
    \/ \E p \in People : Cancel(p) \/ Pay(p) \/ OptOut(p) \/ SetConPayer(p)
Spec == Init /\ [][Next]_evars

-----------------------------------------------------------------------------
(* Properties *)

\* What PUT and POST check before they write also holds afterwards, although nothing is
\* locked in between: limits that fit together, codes that differ, one active event, booked
\* extras that are still offered - unless two requests crossed.
SettingsFit ==
    \/ history.crossed
    \/ /\ \A name \in Names : LimitsFit(events[name])
       /\ \A n, m \in Names : n # m /\ events[n].code = events[m].code => events[n].code = "none"
       /\ \A n, m \in Names : events[n].active /\ events[m].active => n = m
       /\ \A p \in People : regs[p].extra = 1 => con.offered

\* A renamed special role keeps its registrations: whoever has one has one of the event's,
\* unless the renaming is under way or was interrupted, or somebody saved in between.
RenamesReachEverybody ==
    \A p \in People :
      \/ regs[p].flag \in con.flags \cup {NoFlag}
      \/ Running("rename") \/ history.crossed \/ history.stopped

\* The same for two roles that change their names: when the names have been replaced, everybody
\* has the one the form gave to theirs.
RenamedRoleKeepsItsRegistrations ==
    \A h \in Handlers : Doing(h, "update") /\ job[h].meant # <<>> =>
      \A p \in People : regs[p].flag = job[h].meant[p]

\* Without "force" an event only goes when nobody is registered; whoever is lost registered
\* while it was being deleted.
OnlyEmptyIsDeleted == history.lost \subseteq history.late

\* The amount due is the list price and the extras, whatever the jobs and requests did to it
\* at the same time, and it is what was paid as long as the registration counts as paid. Only
\* whoever registered when every tier had run out, and has no price, is left to the orga.
PricesAreKept ==
    \A p \in People :
      /\ regs[p].paid => regs[p].due = regs[p].paidFor
      /\ There(p) /\ p \notin history.unpriced =>
           regs[p].due = AmountDue(regs[p].list, regs[p].extra)

\* Everybody gets one mail per deadline, however many runs overlap, stop or fail to send, and
\* who is marked as mailed was, but for a run that stopped between the mark and its mail. Prices
\* changed back to an earlier deadline mail about it again.
MailsAreCounted ==
    \/ history.repriced
    \/ \A p \in People :
         /\ \A d \in Days : mails.deadline[p][d] <= 1
         /\ regs[p].mailedFor # Never =>
              \/ mails.deadline[p][regs[p].mailedFor] = 1 \/ p \in history.unsent
              \/ \E h \in Handlers : Doing(h, "send") /\ job[h].person = p

\* The orga is reminded of somebody as often as it is counted, never less: a difference comes
\* only from a run that stopped between its mail and the count. And each time on its day, no more
\* often than set, unless two runs had the same person on their lists at once, which nothing
\* keeps them from.
RemindersAreCounted ==
    \A p \in People : There(p) =>
      LET counted == regs[p].sent + Cardinality(Counting(p))
      IN  /\ mails.listed[p] >= counted
          /\ mails.listed[p] = counted \/ p \in history.uncounted
          /\ \/ counted = 0 \/ p \in history.doubled
             \/ counted <= Len(ReminderDays) /\ regs[p].created + ReminderDays[counted] <= day
================================================================================
