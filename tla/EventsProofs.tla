------------------------------ MODULE EventsProofs ------------------------------
(* Theorems about Events, for every number of people, roles, tiers, days,    *)
(* handlers and faults, and for every set of scenarios.                      *)
EXTENDS Events, SequenceTheorems, FiniteSetTheorems, WellFoundedInduction, TLAPS

-----------------------------------------------------------------------------
(* What a handler still has to do *)

Put1 == <<"update">>
Put2 == <<"checkExtras", "update">>
Put3 == <<"checkCode", "update">>
Put4 == <<"checkExtras", "checkCode", "update">>
PutLeft == {Put1, Put2, Put3, Put4}
Rename1 == <<"rename", "update">>
Rename2 == <<"rename", "rename", "update">>
RenameLeft == {Put1, Rename1, Rename2}
Insert1 == <<"insert">>
Insert2 == <<"checkCode", "insert">>
Activating == <<"activate">>
Registering == <<"register">>
Writing == <<"write">>
Booking == <<"extra">>
RequestLeft == {Insert1, Insert2, Activating, Registering, Writing, Booking}
Deleting == <<"delete">>
Prices3 == <<"convert", "list", "mail">>
Prices2 == <<"list", "mail">>
Prices1 == <<"mail">>
Sending == <<"send", "mail">>
PricesLeft == {Prices3, Prices2, Prices1, Sending}
Unpaid2 == <<"remind", "count">>
Unpaid1 == <<"count">>
UnpaidLeft == {Unpaid2, Unpaid1}
Todo == {<<>>, Deleting} \cup PutLeft \cup RenameLeft \cup RequestLeft
        \cup PricesLeft \cup UnpaidLeft

Roles == Flags \cup {NoFlag}
Renamings == {<<>>} \cup {<<r>> : r \in Flags \X Flags}
             \cup {<<r, s>> : r \in Flags \X Flags, s \in Flags \X Flags}
Job ==
    [kind : Kinds, todo : Todo, day : Days, name : Names, event : Event, was : Event,
     renames : Renamings, meant : {<<>>} \cup [People -> Roles], force : BOOLEAN,
     person : People \cup {"none"}, reg : Reg, rows : SUBSET People, tables : Tables]
Mails == [deadline : [People -> [Days -> Nat]], listed : [People -> Nat]]
Past ==
    [crossed : BOOLEAN, repriced : BOOLEAN, stopped : BOOLEAN, lost : SUBSET People,
     late : SUBSET People, unpriced : SUBSET People, unsent : SUBSET People,
     uncounted : SUBSET People, doubled : SUBSET People]

\* Which statements a job may still have before it.
Listed(j) ==
    /\ j.kind = "none" => j = Done
    /\ j.kind = "put" => j.todo \in PutLeft
    /\ j.kind = "rename" => j.todo \in RenameLeft
    /\ j.kind = "request" => j.todo \in RequestLeft
    /\ j.kind = "delete" => j.todo = Deleting
    /\ j.kind = "prices" => j.todo \in PricesLeft
    /\ j.kind = "unpaid" => j.todo \in UnpaidLeft
    /\ j.kind \notin {"prices", "unpaid"} => j.rows = {}
    /\ j.todo \in {Registering, Writing, Booking, Sending} => j.person \in People
\* What is saved of an event was validated; saving renames roles or sends others, never both.
Validated(j) ==
    /\ j.kind \in {"put", "rename"} => LimitsFit(j.event)
    /\ j.kind = "put" => j.event.flags = j.was.flags
    /\ j.kind = "rename" =>
         /\ j.name = "con" /\ j.event.table = j.was.table /\ j.event.code = j.was.code
         /\ j.event.offered = j.was.offered
    /\ j.todo \in {Insert1, Insert2} =>
         /\ j.name = "next" /\ j.event.exists /\ ~j.event.active /\ LimitsFit(j.event)
    /\ j.kind \notin {"put", "rename"} => j.event.flags = j.was.flags
\* Each renaming that is left leads to a role the event is to have.
Renaming(j) ==
    j.kind = "rename" =>
      /\ j.todo = Rename1 =>
           \E from, to \in Flags :
             /\ j.renames = << <<from, to>> >> /\ to \in j.event.flags
             /\ j.was.flags \ {from} \subseteq j.event.flags
      /\ j.todo = Rename2 =>
           \E from, to \in Flags :
             /\ j.renames = << <<from, to>>, <<to, from>> >>
             /\ {from, to} \subseteq j.was.flags /\ j.event.flags = j.was.flags
\* A registration about to be inserted has its price and owes it.
Priced(reg) == reg.due = AmountDue(reg.list, reg.extra)
Registers(j) ==
    j.todo = Registering =>
      /\ j.reg.status = "open" /\ Priced(j.reg) /\ ~j.reg.paid /\ j.reg.paidFor = 0
      /\ j.reg.mailedFor = Never /\ j.reg.sent = 0
Fits(j) == Listed(j) /\ Validated(j) /\ Renaming(j) /\ Registers(j)

JobsFit == \A h \in Handlers : Fits(job[h]) /\ (~Idle(h) => job[h].day = day)

Typed ==
    /\ day \in Days /\ events \in [Names -> Event] /\ regs \in [People -> Reg]
    /\ job \in [Handlers -> Job] /\ mails \in Mails /\ history \in Past
    /\ requests \in 0..Requests /\ jobs \in 0..Jobs /\ faults \in 0..MaxFaults
    /\ ops \in Scenarios

\* There are no registrations without an event, and nothing is kept of what is gone.
RowsFit ==
    /\ \A name \in Names : ~events[name].exists => events[name] = NoEvent
    /\ \A p \in People : There(p) => con.exists
    /\ \A p \in People : ~There(p) => regs[p] = NoReg

\* The roles people have while the event's are renamed.
Current(j) == IF j.todo = Put1 THEN j.event.flags ELSE j.was.flags
FlagsKnown ==
    /\ \A h \in Handlers : job[h].kind = "rename" =>
         /\ con.exists => con.flags = job[h].was.flags
         /\ \A p \in People : regs[p].flag \in Current(job[h]) \cup {NoFlag}
    /\ (\A h \in Handlers : job[h].kind # "rename") =>
         \A p \in People : regs[p].flag \in con.flags \cup {NoFlag}
Overlapping ==
    \E g, h \in Handlers : g # h /\ job[g].kind = "rename" /\ job[h].kind = "rename"
FlagsFit == history.crossed \/ history.stopped \/ Overlapping \/ FlagsKnown

\* Whoever is there when an event is deleted without force came while it was deleted.
Unforced(j) == j.kind = "delete" /\ j.name = "con" /\ ~j.force
DeletesFit ==
    \A h \in Handlers : Unforced(job[h]) => {p \in People : There(p)} \subseteq history.late

PricesFit == \A p \in People : ~regs[p].paid => regs[p].paidFor = 0

\* A job looks at people who are registered, and mails by the prices of the event.
Looks(j, e, rs) ==
    j.kind \in {"prices", "unpaid"} /\ e.exists => \A p \in j.rows : rs[p].status # "none"
LooksFit == \A h \in Handlers : Looks(job[h], con, regs)

\* The next deadline, and who is being mailed about it.
Deadline(table, d) == TierAt(table, d).until
MailedNow(p) == \E h \in Handlers : job[h].todo = Sending /\ job[h].person = p
\* Nobody is mailed about a deadline to come, and about the next one only who is marked.
Dated(r, sent, e, d) ==
    e.exists /\ HasTier(e.table, d) =>
      \A k \in Days : sent[k] > 0 =>
        k <= Deadline(e.table, d) /\ (k = Deadline(e.table, d) => r.mailedFor = k)
\* Who was never registered was never mailed.
Fresh(r, sent, e) == e.exists /\ r.status = "none" => \A k \in Days : sent[k] = 0
\* Who is being mailed has the mark, and has no mail yet.
Sends(j, e, rs, deadline) ==
    /\ j.todo \in {Prices1, Sending} /\ e.exists =>
         j.tables = e.table \/ (j.todo = Prices1 /\ j.rows = {})
    /\ j.todo = Sending =>
         /\ HasTier(j.tables, j.day) /\ Deadline(j.tables, j.day) \in Days
         /\ deadline[j.person][Deadline(j.tables, j.day)] = 0
         /\ e.exists => /\ rs[j.person].status # "none"
                        /\ rs[j.person].mailedFor = Deadline(j.tables, j.day)
\* No two runs mail the same person, although several may be under way.
SendApart ==
    \A g, h \in Handlers :
        job[g].todo = Sending /\ job[h].todo = Sending /\ job[g].person = job[h].person => g = h
Mailed(p) ==
    /\ \A d \in Days : mails.deadline[p][d] <= 1
    /\ regs[p].mailedFor # Never =>
         mails.deadline[p][regs[p].mailedFor] = 1 \/ MailedNow(p) \/ p \in history.unsent
    /\ Dated(regs[p], mails.deadline[p], con, day)
    /\ Fresh(regs[p], mails.deadline[p], con)
MailsKnown ==
    /\ \A p \in People : Mailed(p)
    /\ \A h \in Handlers : Sends(job[h], con, regs, mails.deadline)
    /\ SendApart
MailsFit == history.repriced \/ MailsKnown

\* A reminder that was due: its number, and its day.
OnItsDay(r, n, d) == n <= Len(ReminderDays) /\ r.created + ReminderDays[n] <= d
\* Whoever is on no two lists at once is reminded when it is due; who is on one is due.
InTime(r, reminding, d) ==
    /\ r.sent = 0 \/ OnItsDay(r, r.sent, d)
    /\ reminding # {} => OnItsDay(r, r.sent + 1, d)
\* Who was mailed to the orga, and who is about to be counted.
Listings(r, listed, counting) == listed >= r.sent + Cardinality(counting)
AllCounted(r, listed, counting) == listed = r.sent + Cardinality(counting)
Reminded(p) ==
    /\ There(p) =>
         /\ Listings(regs[p], mails.listed[p], Counting(p))
         /\ p \notin history.uncounted => AllCounted(regs[p], mails.listed[p], Counting(p))
         /\ p \notin history.doubled => InTime(regs[p], Reminding(p), day)
    /\ ~There(p) /\ con.exists => mails.listed[p] = 0
    /\ p \notin history.doubled => \A g, h \in Reminding(p) : g = h
RemindsFit == \A p \in People : Reminded(p)

EInv ==
    /\ Typed /\ JobsFit /\ RowsFit /\ SettingsFit /\ FlagsFit
    /\ DeletesFit /\ OnlyEmptyIsDeleted /\ PricesFit /\ PricesAreKept /\ LooksFit /\ MailsFit
    /\ RemindsFit

-----------------------------------------------------------------------------
(* Jobs *)

\* The next statement of a job, and what is left after it.
Follows(left, what, rest) == left # <<>> /\ Head(left) = what /\ Tail(left) = rest
LEMMA PutFollows ==
    /\ Follows(Put1, "update", <<>>) /\ Follows(Put2, "checkExtras", Put1)
    /\ Follows(Put3, "checkCode", Put1) /\ Follows(Put4, "checkExtras", Put3)
    /\ Follows(Rename1, "rename", Put1) /\ Follows(Rename2, "rename", Rename1)
  BY DEF Follows, Put1, Put2, Put3, Put4, Rename1, Rename2
LEMMA RequestFollows ==
    /\ Follows(Insert1, "insert", <<>>) /\ Follows(Insert2, "checkCode", Insert1)
    /\ Follows(Activating, "activate", <<>>) /\ Follows(Registering, "register", <<>>)
    /\ Follows(Writing, "write", <<>>) /\ Follows(Booking, "extra", <<>>)
    /\ Follows(Deleting, "delete", <<>>)
  BY DEF Follows, Insert1, Insert2, Activating, Registering, Writing, Booking, Deleting
LEMMA JobFollows ==
    /\ Follows(Prices3, "convert", Prices2) /\ Follows(Prices2, "list", Prices1)
    /\ Follows(Prices1, "mail", <<>>) /\ Follows(Sending, "send", Prices1)
    /\ Follows(Unpaid2, "remind", Unpaid1) /\ Follows(Unpaid1, "count", <<>>)
  BY DEF Follows, Prices3, Prices2, Prices1, Sending, Unpaid2, Unpaid1

\* The next statement says where in its list a job is.
LEMMA WhereItIs ==
    ASSUME NEW j \in Job, j.todo # <<>>
    PROVE  /\ Head(j.todo) = "update" => j.todo = Put1
           /\ Head(j.todo) = "checkExtras" => j.todo \in {Put2, Put4}
           /\ Head(j.todo) = "checkCode" => j.todo \in {Put3, Insert2}
           /\ Head(j.todo) = "rename" => j.todo \in {Rename1, Rename2}
           /\ Head(j.todo) = "insert" => j.todo = Insert1
           /\ Head(j.todo) = "activate" => j.todo = Activating
           /\ Head(j.todo) = "register" => j.todo = Registering
           /\ Head(j.todo) = "write" => j.todo = Writing
           /\ Head(j.todo) = "extra" => j.todo = Booking
           /\ Head(j.todo) = "delete" => j.todo = Deleting
           /\ Head(j.todo) = "convert" => j.todo = Prices3
           /\ Head(j.todo) = "list" => j.todo = Prices2
           /\ Head(j.todo) = "mail" => j.todo = Prices1
           /\ Head(j.todo) = "send" => j.todo = Sending
           /\ Head(j.todo) = "remind" => j.todo = Unpaid2
           /\ Head(j.todo) = "count" => j.todo = Unpaid1
<1>1. j.todo \in Todo
  BY DEF Job
<1>2. CASE j.todo \in PutLeft \cup RenameLeft
  BY <1>2, PutFollows DEF PutLeft, RenameLeft, Follows
<1>3. CASE j.todo \in RequestLeft \cup {Deleting}
  BY <1>3, RequestFollows DEF RequestLeft, Follows
<1>4. CASE j.todo \in PricesLeft \cup UnpaidLeft
  BY <1>4, JobFollows DEF PricesLeft, UnpaidLeft, Follows
<1> QED
  BY <1>1, <1>2, <1>3, <1>4 DEF Todo


\* What is left to do tells what kind of job it is.
LEMMA HeadsDiffer ==
    /\ \A list \in PutLeft \cup RenameLeft :
         list # <<>> /\ Head(list) \in {"update", "checkExtras", "checkCode", "rename"}
    /\ \A list \in RequestLeft \ {Insert2} :
         list # <<>> /\ Head(list) \in {"insert", "activate", "register", "write", "extra"}
    /\ Deleting # <<>> /\ Head(Deleting) = "delete"
    /\ \A list \in PricesLeft :
         list # <<>> /\ Head(list) \in {"convert", "list", "mail", "send"}
    /\ \A list \in UnpaidLeft : list # <<>> /\ Head(list) \in {"remind", "count"}
  BY SMTT(30), PutFollows, RequestFollows, JobFollows
     DEF Follows, PutLeft, RenameLeft, RequestLeft, PricesLeft, UnpaidLeft
LEMMA InsertIsNoPut ==
    Insert2 \notin PutLeft \cup RenameLeft /\ Insert2 # <<>> /\ Head(Insert2) = "checkCode"
<1>1. Insert2[2] = "insert" /\ Put3[2] = "update" /\ Head(Insert2) = "checkCode"
  BY DEF Insert2, Put3
<1>2. Insert2 # Put3
  BY <1>1
<1>3. \A list \in {Put1, Put2, Put4, Rename1, Rename2} : Head(list) # "checkCode"
  BY PutFollows DEF Follows
<1> QED
  BY <1>1, <1>2, <1>3, RequestFollows DEF PutLeft, RenameLeft, Follows
LEMMA KindIs ==
    ASSUME NEW j \in Job, Listed(j)
    PROVE  /\ j.todo = <<>> => j = Done
           /\ j.todo # <<>> => j.kind # "none"
           /\ j.todo \in PutLeft \cup RenameLeft => j.kind \in {"put", "rename"}
           /\ j.todo \in {Rename1, Rename2} => j.kind = "rename"
           /\ j.todo \in {Put2, Put3, Put4} => j.kind = "put"
           /\ j.todo \in RequestLeft => j.kind = "request"
           /\ j.todo = Deleting => j.kind = "delete"
           /\ j.todo \in PricesLeft => j.kind = "prices"
           /\ j.todo \in UnpaidLeft => j.kind = "unpaid"
<1>1. /\ j.kind \in Kinds
      /\ j.kind = "none" => j.todo = <<>>
  BY DEF Job, Listed, Done
<1>2. j.todo \in {Rename1, Rename2} => j.todo \notin PutLeft
  BY PutFollows DEF PutLeft, Follows
<1>3. j.todo \in {Put2, Put3, Put4} => j.todo \notin RenameLeft
  BY PutFollows DEF RenameLeft, Follows
<1>4. \A list \in RequestLeft : list \notin PutLeft \cup RenameLeft \cup PricesLeft \cup UnpaidLeft
                                /\ list # Deleting /\ list # <<>>
  BY HeadsDiffer, InsertIsNoPut
<1>5. \A list \in PricesLeft \cup UnpaidLeft \cup {Deleting} : list \notin PutLeft \cup RenameLeft
  BY HeadsDiffer
<1>6. PricesLeft \cap UnpaidLeft = {} /\ Deleting \notin PricesLeft \cup UnpaidLeft
  BY HeadsDiffer
<1>7. \A list \in PutLeft \cup RenameLeft \cup PricesLeft \cup UnpaidLeft \cup {Deleting} : list # <<>>
  BY HeadsDiffer
<1> QED
  BY <1>1, <1>2, <1>3, <1>4, <1>5, <1>6, <1>7 DEF Listed, Kinds, PutLeft, RenameLeft

LEMMA Constants ==
    /\ MaxDay \in Nat /\ 0 \in Days /\ Never \in Nat /\ Tables # {} /\ NoFlag \notin Flags
    /\ Window \in Nat /\ Len(ReminderDays) \in Nat
    /\ AnyTable \in Tables /\ Tables \subseteq SUBSET Tier
    /\ NoEvent \in Event /\ NoReg \in Reg
<1>1. /\ MaxDay \in Nat /\ 0 \in Days /\ Never \in Nat /\ Tables # {} /\ NoFlag \notin Flags
      /\ Window \in Nat /\ Len(ReminderDays) \in Nat /\ Tables \subseteq SUBSET Tier
  BY EventsAssumption DEF Days, Never, NoFlag
<1>2. AnyTable \in Tables
  BY <1>1 DEF AnyTable
<1>3. NoEvent \in Event
  BY <1>2 DEF NoEvent, Event, Codes, Limit
<1>4. NoReg \in Reg
  BY <1>1 DEF NoReg, Reg, NoPrice
<1> QED
  BY <1>1, <1>2, <1>3, <1>4

\* A handler with nothing to do.
LEMMA DoneFits ==
    /\ Done \in Job /\ Fits(Done) /\ Done.kind = "none" /\ Done.todo = <<>> /\ Done.rows = {}
    /\ Done.name = "con" /\ Done.reg = NoReg /\ Done.event = NoEvent /\ Done.was = NoEvent
<1>1. /\ Done.kind = "none" /\ Done.todo = <<>> /\ Done.rows = {} /\ Done.name = "con"
      /\ Done.reg = NoReg /\ Done.event = NoEvent /\ Done.was = NoEvent
  BY DEF Done
<1>2. <<>> \in Todo /\ <<>> \in Renamings
  BY DEF Todo, Renamings
<1>3. Done \in Job
  BY <1>2, Constants DEF Done, Job, Kinds, Names
<1>4. /\ <<>> \notin PutLeft \cup RenameLeft \cup RequestLeft \cup PricesLeft \cup UnpaidLeft
      /\ <<>> # Deleting
  BY HeadsDiffer, InsertIsNoPut
<1>5. Listed(Done) /\ Validated(Done) /\ Renaming(Done) /\ Registers(Done)
  BY <1>1, <1>4 DEF Listed, Validated, Renaming, Registers, RequestLeft, PricesLeft
<1> QED
  BY <1>1, <1>3, <1>5 DEF Fits

\* A job after one statement; a list that is empty ends the job.
Moved(h, left) == job' = [job EXCEPT ![h] = IF left.todo = <<>> THEN Done ELSE left]
Continues(h, left) ==
    left.todo # <<>> =>
      left \in Job /\ Fits(left) /\ left.kind = job[h].kind /\ left.day = job[h].day
LEMMA MovedFits ==
    ASSUME job \in [Handlers -> Job], JobsFit, NEW h \in Handlers, NEW left,
           day' = day, ~Idle(h), Moved(h, left), Continues(h, left)
    PROVE  job' \in [Handlers -> Job] /\ JobsFit'
<1>1. /\ \A g \in Handlers \ {h} : job'[g] = job[g]
      /\ job'[h] = IF left.todo = <<>> THEN Done ELSE left
  BY DEF Moved
<1>2. job'[h] \in Job /\ Fits(job'[h]) /\ (job'[h] # Done => job'[h].day = job[h].day)
  BY <1>1, DoneFits DEF Continues
<1>3. job' \in [Handlers -> Job]
  BY <1>1, <1>2 DEF Moved
<1>4. \A g \in Handlers : Fits(job'[g]) /\ (job'[g] # Done => job'[g].day = day)
  BY <1>1, <1>2 DEF JobsFit, Idle
<1>5. JobsFit'
  BY <1>4 DEF JobsFit, Idle, Fits
<1> QED
  BY <1>3, <1>5

-----------------------------------------------------------------------------
(* What a step leaves alone *)

SameRow(r, s) == s = r \/ (r.status # "none" /\ s.status # "none")
SamePrice(r, s) ==
    /\ s.paid = r.paid /\ s.paidFor = r.paidFor /\ s.due = r.due /\ s.list = r.list
    /\ s.extra = r.extra
SameCount(r, s) == s.sent = r.sent /\ s.created = r.created
SameMail(r, s) == s.mailedFor = r.mailedFor /\ SameCount(r, s)
Grows(past, then) ==
    /\ past.crossed => then.crossed
    /\ past.repriced => then.repriced
    /\ past.stopped => then.stopped
    /\ past.lost = then.lost /\ past.late \subseteq then.late
    /\ past.unpriced \subseteq then.unpriced /\ past.unsent \subseteq then.unsent
    /\ past.uncounted \subseteq then.uncounted /\ past.doubled \subseteq then.doubled
Others(h) == \A g \in Handlers \ {h} : job'[g] = job[g]

LEMMA RowsStay ==
    ASSUME RowsFit, \A p \in People : SameRow(regs[p], regs'[p]),
           \A name \in Names : /\ events'[name].exists = events[name].exists
                               /\ events[name].exists \/ events'[name] = events[name]
    PROVE  RowsFit'
<1>1. "con" \in Names
  BY DEF Names
<1> QED
  BY <1>1 DEF RowsFit, SameRow, There, con

LEMMA SettingsStay ==
    ASSUME SettingsFit, events' = events, history.crossed => history'.crossed,
           \A p \in People : regs'[p].extra = regs[p].extra
    PROVE  SettingsFit'
  BY DEF SettingsFit, LimitsFit, con

LEMMA FlagsStay ==
    ASSUME FlagsFit, NEW h \in Handlers, Others(h), Grows(history, history'),
           job[h].kind # "rename", job'[h].kind # "rename",
           con'.flags = con.flags, con'.exists = con.exists,
           \A p \in People : regs'[p].flag = regs[p].flag
    PROVE  FlagsFit'
<1>1. CASE history.crossed \/ history.stopped
  BY <1>1 DEF FlagsFit, Grows
<1>2. CASE Overlapping
  BY <1>2 DEF FlagsFit, Overlapping, Others
<1>3. CASE FlagsKnown
  <2>1. \A g \in Handlers : job'[g].kind = "rename" => job'[g] = job[g]
    BY DEF Others
  <2>2. \A g \in Handlers : job[g].kind = "rename" => job'[g] = job[g]
    BY DEF Others
  <2>3. \A g \in Handlers : job'[g].kind = "rename" =>
           /\ con'.exists => con'.flags = job'[g].was.flags
           /\ \A p \in People : regs'[p].flag \in Current(job'[g]) \cup {NoFlag}
    BY <1>3, <2>1 DEF FlagsKnown
  <2>4. (\A g \in Handlers : job'[g].kind # "rename") =>
           \A p \in People : regs'[p].flag \in con'.flags \cup {NoFlag}
    BY <1>3, <2>2 DEF FlagsKnown
  <2>5. FlagsKnown'
    BY <2>3, <2>4 DEF FlagsKnown, Current
  <2> QED
    BY <2>5 DEF FlagsFit
<1> QED
  BY <1>1, <1>2, <1>3 DEF FlagsFit

LEMMA DeletesStay ==
    ASSUME DeletesFit, OnlyEmptyIsDeleted, NEW h \in Handlers, Others(h),
           Grows(history, history'), Unforced(job'[h]) => Unforced(job[h]),
           \A p \in People : SameRow(regs[p], regs'[p])
    PROVE  DeletesFit' /\ OnlyEmptyIsDeleted'
<1>1. \A g \in Handlers : Unforced(job'[g]) => Unforced(job[g])
  BY DEF Others
<1>2. \A p \in People : There(p)' => There(p)
  BY DEF SameRow, There
<1>3. \A g \in Handlers : Unforced(job'[g]) => {p \in People : There(p)'} \subseteq history'.late
  BY <1>1, <1>2 DEF DeletesFit, Grows
<1>4. DeletesFit'
  BY <1>3 DEF DeletesFit, Unforced
<1> QED
  BY <1>4 DEF OnlyEmptyIsDeleted, Grows

LEMMA PricesStay ==
    ASSUME PricesFit, PricesAreKept, Grows(history, history'),
           \A p \in People : SamePrice(regs[p], regs'[p]) /\ SameRow(regs[p], regs'[p])
    PROVE  PricesFit' /\ PricesAreKept'
<1>1. \A p \in People : There(p)' => There(p)
  BY DEF SameRow, There
<1>2. PricesFit'
  BY DEF PricesFit, SamePrice
<1>3. PricesAreKept'
  BY <1>1 DEF PricesAreKept, SamePrice, Grows, AmountDue
<1> QED
  BY <1>2, <1>3

LEMMA LooksStay ==
    ASSUME LooksFit, NEW h \in Handlers, Others(h), con'.exists = con.exists,
           \A p \in People : SameRow(regs[p], regs'[p]),
           Looks(job'[h], con, regs), job' \in [Handlers -> Job]
    PROVE  LooksFit'
<1>1. \A g \in Handlers : Looks(job'[g], con, regs)
  BY DEF LooksFit, Others
<1>2. \A p \in People : (regs'[p].status = "none") <=> (regs[p].status = "none")
  BY DEF SameRow
<1>3. \A g \in Handlers : Looks(job'[g], con', regs')
  BY <1>1, <1>2 DEF Looks, Job
<1> QED
  BY <1>3 DEF LooksFit, Looks


\* The deadline mails stay as they were, and whoever acts mails nobody, or stops before it does.
LEMMA MailsStay ==
    ASSUME Typed, JobsFit, MailsFit, NEW h \in Handlers, Others(h), Grows(history, history'), day' = day,
           mails'.deadline = mails.deadline, con'.exists = con.exists, con'.table = con.table,
           job[h].todo = Sending => job[h].person \in history'.unsent, job'[h].todo # Sending,
           MailsKnown /\ job'[h].todo = Prices1 /\ con.exists => job'[h].tables = con.table,
           \A p \in People : SameRow(regs[p], regs'[p]) /\ regs'[p].mailedFor = regs[p].mailedFor
    PROVE  MailsFit'
<1>1. CASE history.repriced
  BY <1>1 DEF MailsFit, Grows
<1>2. CASE MailsKnown
  <2>1. \A g \in Handlers : job'[g].todo = Sending => job'[g] = job[g] /\ job[g].todo = Sending
    BY DEF Others
  <2>2. \A g \in Handlers : job[g].todo = Sending => job'[g] = job[g] \/ g = h
    BY DEF Others
  <2>3. \A p \in People : MailedNow(p) => MailedNow(p)' \/ p \in history'.unsent
    BY <2>2 DEF MailedNow
  <2>4. \A p \in People : /\ (regs'[p].status = "none") <=> (regs[p].status = "none")
                          /\ regs'[p].mailedFor = regs[p].mailedFor
    BY DEF SameRow
  <2>5. ASSUME NEW p \in People
        PROVE  /\ \A d \in Days : mails'.deadline[p][d] <= 1
               /\ regs'[p].mailedFor # Never =>
                    \/ mails'.deadline[p][regs'[p].mailedFor] = 1
                    \/ MailedNow(p)' \/ p \in history'.unsent
    BY <1>2, <2>3, <2>4 DEF MailsKnown, Mailed, Grows
  <2>6. ASSUME NEW p \in People
        PROVE  /\ Dated(regs'[p], mails'.deadline[p], con', day')
               /\ Fresh(regs'[p], mails'.deadline[p], con')
    BY <1>2, <2>4 DEF MailsKnown, Mailed, Dated, Fresh
  <2>7. ASSUME NEW g \in Handlers
        PROVE  Sends(job'[g], con', regs', mails'.deadline)
    <3>1. Sends(job[g], con, regs, mails.deadline)
      BY <1>2 DEF MailsKnown
    <3>2. CASE g = h
      BY <1>2, <3>2 DEF Sends
    <3>3. CASE g # h
      <4>1. job'[g] = job[g]
        BY <3>3 DEF Others
      <4>2. CASE job[g].todo = Sending /\ job[g].person \in People
        BY <3>1, <4>1, <4>2, <2>4 DEF Sends
      <4>3. CASE job[g].todo # Sending
        BY <3>1, <4>1, <4>3 DEF Sends
      <4> QED
        BY <4>2, <4>3 DEF JobsFit, Fits, Listed
    <3> QED
      BY <3>2, <3>3
  <2>8. SendApart'
    BY <1>2, <2>1 DEF MailsKnown, SendApart
  <2>9. MailsKnown'
    BY <2>5, <2>6, <2>7, <2>8 DEF MailsKnown, Mailed, MailedNow, SendApart
  <2> QED
    BY <2>9 DEF MailsFit
<1> QED
  BY <1>1, <1>2 DEF MailsFit

\* Who has mailed its list and not counted it, one handler at a time.
LEMMA CountsMove ==
    ASSUME Typed, Typed', NEW h \in Handlers, Others(h), NEW p \in People
    PROVE  /\ Cardinality(Counting(p)) \in Nat /\ Cardinality(Counting(p)') \in Nat
           /\ LET was == job[h].todo = Unpaid1 /\ p \in job[h].rows
                  is == job'[h].todo = Unpaid1 /\ p \in job'[h].rows
              IN  Cardinality(Counting(p)') =
                    IF was /\ ~is THEN Cardinality(Counting(p)) - 1
                    ELSE IF is /\ ~was THEN Cardinality(Counting(p)) + 1
                    ELSE Cardinality(Counting(p))
           /\ Counting(p) \subseteq {g \in Handlers : job[g].todo = Unpaid1 /\ p \in job[g].rows}
           /\ job[h].todo = Unpaid1 /\ p \in job[h].rows => Cardinality(Counting(p)) > 0
<1>1. \A g \in Handlers : job[g] \in Job /\ job'[g] \in Job
  BY DEF Typed
<1>2. \A g \in Handlers : /\ Doing(g, "count") <=> job[g].todo = Unpaid1
                          /\ Doing(g, "count")' <=> job'[g].todo = Unpaid1
  BY <1>1, WhereItIs, JobFollows DEF Doing, Follows
<1> DEFINE before == {g \in Handlers : job[g].todo = Unpaid1 /\ p \in job[g].rows}
           after == {g \in Handlers : job'[g].todo = Unpaid1 /\ p \in job'[g].rows}
<1>3. Counting(p) = before /\ Counting(p)' = after
  BY <1>2 DEF Counting
<1>4. IsFiniteSet(before) /\ IsFiniteSet(after)
  <2>1. before \in SUBSET Handlers /\ after \in SUBSET Handlers /\ IsFiniteSet(Handlers)
    BY EventsAssumption
  <2> QED
    BY <2>1, FS_Subset
<1>5. /\ h \in before <=> job[h].todo = Unpaid1 /\ p \in job[h].rows
      /\ h \in after <=> job'[h].todo = Unpaid1 /\ p \in job'[h].rows
      /\ after \ {h} = before \ {h}
  BY DEF Others
<1> HIDE DEF before, after
<1>6. Cardinality(before) \in Nat /\ Cardinality(after) \in Nat
  BY <1>4, FS_CardinalityType
<1>7. /\ Cardinality(before \ {h}) = IF h \in before THEN Cardinality(before) - 1 ELSE Cardinality(before)
      /\ Cardinality(after \ {h}) = IF h \in after THEN Cardinality(after) - 1 ELSE Cardinality(after)
      /\ Cardinality(before \ {h}) \in Nat
  BY <1>4, FS_RemoveElement, FS_CardinalityType
<1>8. Cardinality(after) = IF h \in before /\ h \notin after THEN Cardinality(before) - 1
                           ELSE IF h \in after /\ h \notin before THEN Cardinality(before) + 1
                           ELSE Cardinality(before)
  <2>1. PICK n : n = Cardinality(before)
    OBVIOUS
  <2>2. PICK m : m = Cardinality(after)
    OBVIOUS
  <2>3. PICK k : k = Cardinality(before \ {h})
    OBVIOUS
  <2>4. k = Cardinality(after \ {h})
    BY <1>5, <2>3
  <2>5. n \in Nat /\ m \in Nat /\ k \in Nat
    BY <1>6, <1>7, <2>1, <2>2, <2>3
  <2>6. k = IF h \in before THEN n - 1 ELSE n
    BY <1>7, <2>1, <2>3
  <2>7. k = IF h \in after THEN m - 1 ELSE m
    BY <1>7, <2>2, <2>4
  <2>8. m = IF h \in before /\ h \notin after THEN n - 1
            ELSE IF h \in after /\ h \notin before THEN n + 1 ELSE n
    BY <2>5, <2>6, <2>7
  <2> QED
    BY <2>1, <2>2, <2>8
<1>9. h \in before => Cardinality(before) > 0
  BY <1>6, <1>7
<1> QED
  BY <1>3, <1>5, <1>6, <1>8, <1>9 DEF before

\* Who is on no list is not about to be counted.
LEMMA CountingIs ==
    ASSUME Typed, JobsFit, NEW p \in People
    PROVE  /\ Counting(p) \subseteq Reminding(p) /\ IsFiniteSet(Counting(p))
           /\ Cardinality(Counting(p)) \in Nat
           /\ Reminding(p) = {} => Cardinality(Counting(p)) = 0
<1>1. \A g \in Handlers : Doing(g, "count") => job[g].kind = "unpaid"
  <2>1. SUFFICES ASSUME NEW g \in Handlers, Doing(g, "count") PROVE job[g].kind = "unpaid"
    OBVIOUS
  <2>2. job[g] \in Job /\ Listed(job[g])
    BY DEF Typed, JobsFit, Fits
  <2>3. job[g].todo = Unpaid1
    BY <2>1, <2>2, WhereItIs DEF Doing
  <2> QED
    BY <2>2, <2>3, KindIs DEF UnpaidLeft
<1>2. Counting(p) \subseteq Reminding(p) /\ Counting(p) \in SUBSET Handlers
  BY <1>1 DEF Counting, Reminding
<1>3. IsFiniteSet(Counting(p))
  BY <1>2, EventsAssumption, FS_Subset
<1> QED
  BY <1>2, <1>3, FS_CardinalityType, FS_EmptySet

\* Whoever acts neither begins a list, nor mails or counts one; or stops before counting it.
LEMMA RemindsStay ==
    ASSUME Typed, Typed', JobsFit, JobsFit', LooksFit, RemindsFit, NEW h \in Handlers, Others(h),
           Grows(history, history'), mails'.listed = mails.listed, day' = day,
           con'.exists => con.exists, job'[h].kind # "unpaid",
           job[h].todo = Unpaid1 => job[h].rows \subseteq history'.uncounted,
           \A p \in People :
             \/ SameRow(regs[p], regs'[p]) /\ SameCount(regs[p], regs'[p])
             \/ ~There(p) /\ con.exists /\ regs'[p].sent = 0
             \/ regs'[p].status = "none" /\ ~con'.exists
    PROVE  RemindsFit'
<1>1. SUFFICES ASSUME NEW p \in People PROVE Reminded(p)'
  BY DEF RemindsFit
<1>2. job'[h].todo # Unpaid1
  <2>1. job'[h] \in Job /\ Listed(job'[h])
    BY DEF Typed, JobsFit, Fits
  <2> QED
    BY <2>1, KindIs DEF UnpaidLeft
<1>3. /\ Cardinality(Counting(p)') \in Nat /\ Cardinality(Counting(p)) \in Nat
      /\ Cardinality(Counting(p)') <= Cardinality(Counting(p))
      /\ p \notin history'.uncounted => Cardinality(Counting(p)') = Cardinality(Counting(p))
  <2>1. PICK was \in BOOLEAN : was <=> job[h].todo = Unpaid1 /\ p \in job[h].rows
    OBVIOUS
  <2>2. /\ Cardinality(Counting(p)) \in Nat /\ Cardinality(Counting(p)') \in Nat
        /\ Cardinality(Counting(p)') =
             IF was THEN Cardinality(Counting(p)) - 1 ELSE Cardinality(Counting(p))
    BY <1>2, <2>1, CountsMove
  <2>3. was => p \in history'.uncounted
    BY <2>1
  <2> QED
    BY <2>2, <2>3
<1>4. Reminding(p)' \subseteq Reminding(p)
  BY DEF Reminding, Others
<1>5. Reminded(p)
  BY DEF RemindsFit
<1>6. p \notin history'.doubled => \A g, k \in Reminding(p)' : g = k
  BY <1>4, <1>5 DEF Reminded, Grows
<1>7. CASE SameRow(regs[p], regs'[p]) /\ SameCount(regs[p], regs'[p])
  <2>1. There(p)' <=> There(p)
    BY <1>7 DEF SameRow, There
  <2>2. There(p)' =>
          /\ Listings(regs'[p], mails'.listed[p], Counting(p)')
          /\ p \notin history'.uncounted => AllCounted(regs'[p], mails'.listed[p], Counting(p)')
    <3>1. regs[p].sent \in Nat /\ mails.listed[p] \in Nat
      BY DEF Typed, Reg, Mails
    <3> QED
      BY <1>3, <1>5, <1>7, <2>1, <3>1 DEF Reminded, Grows, SameCount, Listings, AllCounted
  <2>3. There(p)' /\ p \notin history'.doubled => InTime(regs'[p], Reminding(p)', day')
    BY <1>4, <1>5, <1>7, <2>1 DEF Reminded, Grows, SameCount, InTime, OnItsDay
  <2>4. ~There(p)' /\ con'.exists => mails'.listed[p] = 0
    BY <1>5, <2>1 DEF Reminded
  <2> QED
    BY <1>6, <2>2, <2>3, <2>4 DEF Reminded
<1>8. CASE ~There(p) /\ con.exists /\ regs'[p].sent = 0
  <2>1. Reminding(p) = {}
    BY <1>8 DEF Reminding, LooksFit, Looks, There
  <2>2. mails.listed[p] = 0 /\ Cardinality(Counting(p)) = 0 /\ Reminding(p)' = {}
    BY <1>4, <1>5, <1>8, <2>1, CountingIs DEF Reminded
  <2>3. Listings(regs'[p], mails'.listed[p], Counting(p)')
        /\ AllCounted(regs'[p], mails'.listed[p], Counting(p)')
    BY <1>3, <1>8, <2>2 DEF Listings, AllCounted
  <2>4. InTime(regs'[p], Reminding(p)', day')
    BY <1>8, <2>2 DEF InTime
  <2> QED
    BY <1>6, <2>2, <2>3, <2>4 DEF Reminded
<1>9. CASE regs'[p].status = "none" /\ ~con'.exists
  BY <1>6, <1>9 DEF Reminded, There
<1> QED
  BY <1>7, <1>8, <1>9

-----------------------------------------------------------------------------
(* What begins *)

\* Only a run of the reminders looks at whoever is on another's list.
Starts(j) ==
    IF j.kind = "unpaid"
    THEN /\ history' = [history EXCEPT !.doubled = @ \cup {p \in j.rows : Reminding(p) # {}}]
         /\ \A p \in j.rows : There(p) /\ OnItsDay(regs[p], regs[p].sent + 1, day)
    ELSE history' = history
Started(h) ==
    /\ UNCHANGED <<day, events, regs, mails, faults, ops>> /\ Starts(job'[h])
    /\ requests' \in 0..Requests /\ jobs' \in 0..Jobs
    /\ job[h] = Done /\ job' = [job EXCEPT ![h] = job'[h]] /\ job'[h] \in Job /\ Fits(job'[h])
    /\ job'[h].day = day
    /\ Looks(job'[h], con, regs) /\ job'[h].todo \notin {Sending, Unpaid1, Prices1}
    /\ Unforced(job'[h]) => \A p \in People : ~There(p)
    /\ job'[h].kind = "rename" =>
         con.exists /\ job'[h].was = con /\ job'[h].todo \in {Rename1, Rename2}

LEMMA StartedPast ==
    ASSUME Typed, NEW h \in Handlers, Started(h)
    PROVE  /\ history' \in Past /\ Grows(history, history')
           /\ history'.crossed = history.crossed /\ history'.stopped = history.stopped
           /\ history'.repriced = history.repriced /\ history'.lost = history.lost
           /\ history'.late = history.late /\ history'.unpriced = history.unpriced
           /\ history'.uncounted = history.uncounted
           /\ job'[h].kind = "unpaid" =>
                history'.doubled = history.doubled \cup {p \in job'[h].rows : Reminding(p) # {}}
<1>1. history \in Past /\ job'[h].rows \subseteq People
  BY DEF Typed, Started, Job
<1>2. CASE job'[h].kind = "unpaid"
  <2>1. PICK more : more = {p \in job'[h].rows : Reminding(p) # {}}
    OBVIOUS
  <2>2. history' = [history EXCEPT !.doubled = @ \cup more] /\ more \subseteq People
    BY <1>1, <1>2, <2>1 DEF Started, Starts
  <2>3. /\ history' \in Past /\ history'.doubled = history.doubled \cup more
        /\ history'.crossed = history.crossed /\ history'.stopped = history.stopped
        /\ history'.repriced = history.repriced /\ history'.lost = history.lost
        /\ history'.late = history.late /\ history'.unpriced = history.unpriced
        /\ history'.uncounted = history.uncounted /\ history'.unsent = history.unsent
    BY <1>1, <2>2 DEF Past
  <2> QED
    BY <2>1, <2>3 DEF Grows
<1>3. CASE job'[h].kind # "unpaid"
  BY <1>1, <1>3 DEF Started, Starts, Grows
<1> QED
  BY <1>2, <1>3

LEMMA StartedFlags ==
    ASSUME EInv, NEW h \in Handlers, Started(h)
    PROVE  FlagsFit'
<1>1. /\ Others(h) /\ job[h].kind # "rename" /\ events' = events /\ regs' = regs
      /\ history'.crossed = history.crossed /\ history'.stopped = history.stopped
  BY DoneFits, StartedPast DEF Started, Others, EInv, Typed
<1>2. Grows(history, history') /\ con' = con
  BY <1>1, StartedPast DEF EInv, con
<1>3. CASE job'[h].kind # "rename"
  BY <1>1, <1>2, <1>3, FlagsStay DEF EInv
<1>4. CASE job'[h].kind = "rename"
  <2>1. con.exists /\ job'[h].was = con /\ Current(job'[h]) = con.flags
    <3>1. Put1 \notin {Rename1, Rename2}
      BY PutFollows DEF Follows
    <3> QED
      BY <1>4, <3>1 DEF Started, Current
  <2>2. CASE history.crossed \/ history.stopped
    BY <2>2, <1>1 DEF FlagsFit
  <2>3. CASE \E g \in Handlers : job[g].kind = "rename"
    <3>1. PICK g \in Handlers : job[g].kind = "rename"
      BY <2>3
    <3>2. g # h /\ job'[g].kind = "rename"
      BY <3>1, <1>1 DEF Others
    <3>3. Overlapping'
      BY <3>2, <1>4 DEF Overlapping
    <3> QED
      BY <3>3 DEF FlagsFit
  <2>4. CASE ~(history.crossed \/ history.stopped) /\ \A g \in Handlers : job[g].kind # "rename"
    <3>1. FlagsKnown
      BY <2>4 DEF EInv, FlagsFit, Overlapping
    <3>2. \A p \in People : regs'[p].flag \in Current(job'[h]) \cup {NoFlag}
      BY <3>1, <2>1, <2>4, <1>1 DEF FlagsKnown
    <3>3. \A g \in Handlers : job'[g].kind = "rename" => g = h
      BY <2>4 DEF Started, Others, EInv, Typed
    <3>4. FlagsKnown'
      BY <3>2, <3>3, <2>1, <1>2, <1>4 DEF FlagsKnown, Current
    <3> QED
      BY <3>4 DEF FlagsFit
  <2> QED
    BY <2>2, <2>3, <2>4
<1> QED
  BY <1>3, <1>4

LEMMA StartedReminds ==
    ASSUME EInv, Typed', JobsFit', NEW h \in Handlers, Started(h)
    PROVE  RemindsFit'
<1>1. /\ Others(h) /\ job[h] = Done /\ Done.kind = "none" /\ Done.todo = <<>>
      /\ day' = day /\ regs' = regs /\ mails' = mails /\ con' = con
      /\ Grows(history, history')
  BY DoneFits, StartedPast DEF Started, Others, EInv, Typed, con
<1>2. <<>> # Unpaid1 /\ job'[h].todo # Unpaid1
  BY HeadsDiffer DEF Started, UnpaidLeft
<1>3. CASE job'[h].kind # "unpaid"
  <2>1. \A p \in People : SameRow(regs[p], regs'[p]) /\ SameMail(regs[p], regs'[p])
    BY <1>1 DEF SameRow, SameMail, SameCount
  <2> QED
    BY <1>1, <1>2, <1>3, <2>1, RemindsStay DEF EInv, SameMail
<1>4. CASE job'[h].kind = "unpaid"
  <2>1. SUFFICES ASSUME NEW p \in People PROVE Reminded(p)'
    BY DEF RemindsFit
  <2>2. Reminded(p)
    BY DEF EInv, RemindsFit
  <2>3. /\ Cardinality(Counting(p)') = Cardinality(Counting(p))
        /\ There(p)' <=> There(p)
    BY <1>1, <1>2, CountsMove DEF EInv, There
  <2>4. There(p)' =>
          /\ Listings(regs'[p], mails'.listed[p], Counting(p)')
          /\ p \notin history'.uncounted => AllCounted(regs'[p], mails'.listed[p], Counting(p)')
    BY <1>1, <2>2, <2>3 DEF Reminded, Grows, Listings, AllCounted
  <2>5. Reminding(p)' = Reminding(p) \cup (IF p \in job'[h].rows THEN {h} ELSE {})
    <3>1. \A g \in Handlers : g \in Reminding(p)' <=>
             IF g = h THEN p \in job'[h].rows ELSE g \in Reminding(p)
      BY <1>1, <1>4 DEF Reminding, Others
    <3>2. h \notin Reminding(p) /\ Reminding(p) \subseteq Handlers
      BY <1>1 DEF Reminding
    <3>3. Reminding(p)' \subseteq Handlers
      BY DEF Reminding
    <3> QED
      BY <3>1, <3>2, <3>3
  <2>6. p \notin history'.doubled => Reminding(p) = {} \/ p \notin job'[h].rows
    BY <1>4, StartedPast DEF EInv
  <2>7. p \notin history'.doubled => p \notin history.doubled
    BY <1>1 DEF Grows
  <2>8. p \notin history'.doubled => \A g, k \in Reminding(p)' : g = k
    BY <2>2, <2>5, <2>6, <2>7 DEF Reminded
  <2>9. There(p)' /\ p \notin history'.doubled => InTime(regs'[p], Reminding(p)', day')
    <3>1. p \in job'[h].rows => OnItsDay(regs[p], regs[p].sent + 1, day)
      BY <1>4 DEF Started, Starts
    <3> QED
      BY <1>1, <2>2, <2>3, <2>5, <2>7, <3>1 DEF Reminded, InTime
  <2>10. ~There(p)' /\ con'.exists => mails'.listed[p] = 0
    BY <1>1, <2>2, <2>3 DEF Reminded
  <2> QED
    BY <2>4, <2>8, <2>9, <2>10 DEF Reminded
<1> QED
  BY <1>3, <1>4

LEMMA StartedKeeps ==
    ASSUME EInv, NEW h \in Handlers, Started(h)
    PROVE  EInv'
<1>1. /\ Others(h) /\ job[h] = Done /\ job' \in [Handlers -> Job]
      /\ \A g \in Handlers \ {h} : job'[g] = job[g]
  BY DEF Started, Others, EInv, Typed
<1>2. /\ events' = events /\ regs' = regs /\ mails' = mails /\ day' = day
      /\ faults' = faults /\ ops' = ops /\ con' = con /\ Requests' = Requests /\ Jobs' = Jobs
      /\ history' \in Past /\ history'.crossed = history.crossed /\ history'.lost = history.lost
      /\ history'.late = history.late /\ history'.unpriced = history.unpriced
  BY StartedPast DEF Started, con, Requests, Jobs, Does, EInv
<1>3. Grows(history, history') /\ \A p \in People : /\ SameRow(regs[p], regs'[p])
                                                    /\ SamePrice(regs[p], regs'[p])
                                                    /\ SameMail(regs[p], regs'[p])
  BY <1>2, StartedPast DEF EInv, SameRow, SamePrice, SameMail, SameCount
<1>4. Typed'
  BY <1>1, <1>2 DEF Started, EInv, Typed
<1>5. JobsFit'
  <2>1. \A g \in Handlers : Fits(job'[g]) /\ (job'[g] # Done => job'[g].day = day)
    BY <1>1, <1>2 DEF Started, EInv, JobsFit, Idle
  <2> QED
    BY <2>1, <1>2 DEF JobsFit, Idle
<1>6. RemindsFit'
  BY <1>4, <1>5, StartedReminds
<1>7. RowsFit' /\ SettingsFit' /\ PricesFit' /\ PricesAreKept'
  BY <1>2 DEF EInv, RowsFit, SettingsFit, PricesFit, PricesAreKept, There, con, LimitsFit, AmountDue
<1>8. FlagsFit'
  BY StartedFlags
<1>9. DeletesFit' /\ OnlyEmptyIsDeleted'
  <2>1. \A g \in Handlers : Unforced(job'[g]) => {p \in People : There(p)} \subseteq history.late
    BY <1>1 DEF Started, EInv, DeletesFit
  <2> QED
    BY <2>1, <1>2 DEF DeletesFit, EInv, OnlyEmptyIsDeleted, There, Unforced
<1>10. LooksFit'
  BY <1>1, <1>2, <1>3, LooksStay DEF Started, EInv
<1>11. MailsFit'
  <2>1. job[h].todo \notin {Sending, Unpaid1}
    BY <1>1, DoneFits, HeadsDiffer DEF PricesLeft, UnpaidLeft
  <2>2. job'[h].todo \notin {Sending, Unpaid1, Prices1}
    BY DEF Started
  <2> QED
    BY <1>1, <1>2, <1>3, <2>1, <2>2, MailsStay DEF EInv, SameMail
<1> QED
  BY <1>4, <1>5, <1>6, <1>7, <1>8, <1>9, <1>10, <1>11 DEF EInv

\* What the handlers of requests and jobs share when they begin.
LEMMA JobBegins ==
    ASSUME Typed, NEW h \in Handlers, NEW begun \in Job, Begin(h, begun), Fits(begun),
           begun.kind # "none", requests' \in 0..Requests, jobs' \in 0..Jobs,
           UNCHANGED <<day, events, regs, mails>>, Starts(begun),
           Looks(begun, con, regs), begun.todo \notin {Sending, Unpaid1, Prices1},
           Unforced(begun) => \A p \in People : ~There(p),
           begun.kind = "rename" =>
             con.exists /\ begun.was = con /\ begun.todo \in {Rename1, Rename2}
    PROVE  Started(h)
<1> DEFINE new == [begun EXCEPT !.day = day]
<1>1. day \in Days
  BY DEF Typed
<1>2. /\ new \in Job /\ new.day = day
      /\ new.kind = begun.kind /\ new.todo = begun.todo /\ new.name = begun.name
      /\ new.event = begun.event /\ new.was = begun.was /\ new.renames = begun.renames
      /\ new.force = begun.force /\ new.person = begun.person /\ new.reg = begun.reg
      /\ new.rows = begun.rows
  BY <1>1 DEF Job
<1>3. Listed(new)
  BY <1>2 DEF Fits, Listed
<1>4. Validated(new) /\ Renaming(new) /\ Registers(new)
  BY <1>2 DEF Fits, Validated, Renaming, Registers
<1>5. job' = [job EXCEPT ![h] = new] /\ job[h] = Done /\ faults' = faults /\ ops' = ops
  BY DEF Begin, Idle
<1>6. job'[h] = new
  BY <1>5 DEF Typed
<1>7. Looks(new, con, regs) /\ (Unforced(new) => Unforced(begun)) /\ Starts(new)
  BY <1>2 DEF Looks, Unforced, Starts
<1> HIDE DEF new
<1> QED
  BY <1>2, <1>3, <1>4, <1>5, <1>6, <1>7 DEF Started, Fits

LEMMA RequestBegins ==
    ASSUME Typed, NEW h \in Handlers, NEW begun, BeginRequest(h, begun)
    PROVE  Begin(h, begun) /\ requests' \in 0..Requests /\ jobs' \in 0..Jobs
  BY EventsAssumption DEF BeginRequest, Typed, Requests, Jobs, Does
LEMMA RunBegins ==
    ASSUME Typed, NEW h \in Handlers, NEW begun, BeginJob(h, begun)
    PROVE  Begin(h, begun) /\ requests' \in 0..Requests /\ jobs' \in 0..Jobs
  BY EventsAssumption DEF BeginJob, Typed, Requests, Jobs, Does

\* A request that neither saves an event nor looks at many registrations.
LEMMA SimpleBegins ==
    ASSUME Typed, NEW h \in Handlers, NEW begun \in Job, BeginRequest(h, begun),
           UNCHANGED <<day, events, regs, mails, history>>,
           begun.kind = "request", begun.todo \in RequestLeft, begun.rows = {},
           begun.event.flags = begun.was.flags,
           begun.todo \in {Registering, Writing, Booking} => begun.person \in People,
           begun.todo \in {Insert1, Insert2} =>
             /\ begun.name = "next" /\ begun.event.exists /\ ~begun.event.active
             /\ LimitsFit(begun.event),
           Registers(begun)
    PROVE  Started(h)
<1>1. begun.todo \notin {Sending, Unpaid1, Prices1}
  BY HeadsDiffer, InsertIsNoPut DEF PricesLeft, UnpaidLeft
<1>2. Listed(begun) /\ Validated(begun) /\ Renaming(begun)
  BY <1>1 DEF Listed, Validated, Renaming
<1>3. Looks(begun, con, regs) /\ ~Unforced(begun) /\ Starts(begun)
  BY DEF Looks, Unforced, Starts
<1>4. Begin(h, begun) /\ requests' \in 0..Requests /\ jobs' \in 0..Jobs
  BY RequestBegins
<1> QED
  BY <1>1, <1>2, <1>3, <1>4, JobBegins DEF Fits

\* What joining short lists gives.
LEMMA Joined2 ==
    ASSUME NEW a, NEW b
    PROVE  <<a>> \o <<b>> = <<a, b>>
<1> DEFINE S == {a, b}
<1>1. <<a>> \in Seq(S) /\ <<b>> \in Seq(S) /\ <<a, b>> \in Seq(S)
      /\ Len(<<a>>) = 1 /\ Len(<<b>>) = 1 /\ Len(<<a, b>>) = 2
  OBVIOUS
<1>2. <<a>> \o <<b>> \in Seq(S) /\ Len(<<a>> \o <<b>>) = 2
      /\ \A i \in 1..2 : (<<a>> \o <<b>>)[i] = IF i <= 1 THEN <<a>>[i] ELSE <<b>>[i - 1]
  BY <1>1, ConcatProperties
<1>3. \A i \in 1..2 : (<<a>> \o <<b>>)[i] = <<a, b>>[i]
  BY <1>2
<1> QED
  BY <1>1, <1>2, <1>3, SeqEqual
LEMMA Joined3 ==
    ASSUME NEW a, NEW b, NEW c
    PROVE  <<a, b>> \o <<c>> = <<a, b, c>>
<1> DEFINE S == {a, b, c}
<1>1. <<a, b>> \in Seq(S) /\ <<c>> \in Seq(S) /\ <<a, b, c>> \in Seq(S)
      /\ Len(<<a, b>>) = 2 /\ Len(<<c>>) = 1 /\ Len(<<a, b, c>>) = 3
  OBVIOUS
<1>2. <<a, b>> \o <<c>> \in Seq(S) /\ Len(<<a, b>> \o <<c>>) = 3
      /\ \A i \in 1..3 : (<<a, b>> \o <<c>>)[i] = IF i <= 2 THEN <<a, b>>[i] ELSE <<c>>[i - 2]
  BY <1>1, ConcatProperties
<1>3. \A i \in 1..3 : (<<a, b>> \o <<c>>)[i] = <<a, b, c>>[i]
  BY <1>2
<1> QED
  BY <1>1, <1>2, <1>3, SeqEqual

\* The statements of a request that saves an event.
LEMMA StepsOfPut ==
    ASSUME NEW was \in Event, NEW next \in Event
    PROVE  /\ PutSteps(was, next, <<>>) \in PutLeft
           /\ \A r \in Flags \X Flags :
                was.offered = next.offered /\ was.code = next.code =>
                  PutSteps(was, next, <<r>>) = Rename1
           /\ \A r, s \in Flags \X Flags :
                was.offered = next.offered /\ was.code = next.code =>
                  PutSteps(was, next, <<r, s>>) = Rename2
<1> DEFINE extras == IF was.offered /\ ~next.offered THEN <<"checkExtras">> ELSE <<>>
           code == IF next.code # was.code /\ next.code # "none" THEN <<"checkCode">> ELSE <<>>
           names(renames) == [i \in DOMAIN renames |-> "rename"]
<1>1. /\ names(<<>>) = <<>>
      /\ \A r : names(<<r>>) = <<"rename">>
      /\ \A r, s : names(<<r, s>>) = <<"rename", "rename">>
  OBVIOUS
<1>2. \A renames : PutSteps(was, next, renames) = extras \o code \o names(renames) \o <<"update">>
  BY DEF PutSteps
<1>3. extras \in {<<"checkExtras">>, <<>>} /\ code \in {<<"checkCode">>, <<>>}
      /\ (was.offered = next.offered => extras = <<>>)
      /\ (was.code = next.code => code = <<>>)
  OBVIOUS
<1> DEFINE what == {"checkExtras", "checkCode", "rename", "update"}
<1>a. \A s \in Seq(what) : <<>> \o s = s /\ s \o <<>> = s
  OBVIOUS
<1>b. /\ <<"checkExtras">> \in Seq(what) /\ <<"checkCode">> \in Seq(what)
      /\ <<"rename">> \in Seq(what) /\ <<"rename", "rename">> \in Seq(what)
      /\ <<"checkExtras", "checkCode">> \in Seq(what)
      /\ <<"update">> \in Seq(what) /\ <<>> \in Seq(what)
  OBVIOUS
<1>c. /\ <<"checkExtras">> \o <<"update">> = Put2
      /\ <<"checkCode">> \o <<"update">> = Put3
      /\ <<"rename">> \o <<"update">> = Rename1
  BY Joined2 DEF Put2, Put3, Rename1
<1>d. /\ <<"checkExtras">> \o <<"checkCode">> = <<"checkExtras", "checkCode">>
      /\ <<"checkExtras", "checkCode">> \o <<"update">> = Put4
      /\ <<"rename", "rename">> \o <<"update">> = Rename2
  BY Joined2, Joined3 DEF Put4, Rename2
<1> HIDE DEF what
<1>4. /\ <<>> \o <<>> \o <<>> \o <<"update">> = Put1
      /\ <<"checkExtras">> \o <<>> \o <<>> \o <<"update">> = Put2
      /\ <<>> \o <<"checkCode">> \o <<>> \o <<"update">> = Put3
      /\ <<"checkExtras">> \o <<"checkCode">> \o <<>> \o <<"update">> = Put4
  BY <1>a, <1>b, <1>c, <1>d DEF Put1
<1>5. /\ <<>> \o <<>> \o <<"rename">> \o <<"update">> = Rename1
      /\ <<>> \o <<>> \o <<"rename", "rename">> \o <<"update">> = Rename2
  BY <1>a, <1>b, <1>c, <1>d
<1> HIDE DEF names, extras, code
<1>6. PutSteps(was, next, <<>>) \in PutLeft
  BY <1>1, <1>2, <1>3, <1>4 DEF PutLeft
<1>7. ASSUME NEW r \in Flags \X Flags, was.offered = next.offered, was.code = next.code
      PROVE  PutSteps(was, next, <<r>>) = Rename1
  <2>1. extras = <<>> /\ code = <<>> /\ names(<<r>>) = <<"rename">>
    BY <1>1, <1>3, <1>7
  <2> QED
    BY <1>2, <1>5, <2>1
<1>8. ASSUME NEW r \in Flags \X Flags, NEW s \in Flags \X Flags,
             was.offered = next.offered, was.code = next.code
      PROVE  PutSteps(was, next, <<r, s>>) = Rename2
  <2>1. extras = <<>> /\ code = <<>> /\ names(<<r, s>>) = <<"rename", "rename">>
    BY <1>1, <1>3, <1>8
  <2> QED
    BY <1>2, <1>5, <2>1
<1> QED
  BY <1>6, <1>7, <1>8

\* A request that saves an event without renaming roles.
LEMMA PutBegins ==
    ASSUME Typed, NEW h \in Handlers, NEW name \in Names, NEW next \in Event,
           Put(h, name, next, <<>>), next.flags = events[name].flags
    PROVE  Started(h)
<1> DEFINE begun == [Done EXCEPT
                       !.kind = "put", !.todo = PutSteps(events[name], next, <<>>),
                       !.name = name, !.event = next, !.was = events[name],
                       !.renames = <<>>, !.meant = <<>>]
<1>1. events[name] \in Event /\ PutSteps(events[name], next, <<>>) \in PutLeft
  BY StepsOfPut DEF Typed
<1>2. <<>> \in Renamings /\ PutLeft \subseteq Todo /\ Done \in Job
  BY DoneFits DEF Renamings, Todo
<1>3. /\ begun \in Job /\ begun.kind = "put" /\ begun.todo \in PutLeft
      /\ begun.event = next /\ begun.was = events[name] /\ begun.rows = {}
  BY <1>1, <1>2 DEF Job, Kinds, Done
<1>4. BeginRequest(h, begun) /\ LimitsFit(next)
      /\ UNCHANGED <<day, events, regs, mails, history>>
  BY DEF Put
<1> HIDE DEF begun
<1>5. begun.todo \notin {Insert1, Insert2, Registering, Writing, Booking, Sending, Unpaid1, Prices1}
  BY <1>3, HeadsDiffer, InsertIsNoPut DEF RequestLeft, PricesLeft, UnpaidLeft
<1>6. Fits(begun)
  BY <1>3, <1>4, <1>5 DEF Fits, Listed, Validated, Renaming, Registers
<1>7. Looks(begun, con, regs) /\ ~Unforced(begun)
  BY <1>3 DEF Looks, Unforced
<1>8. Begin(h, begun) /\ requests' \in 0..Requests /\ jobs' \in 0..Jobs
  BY <1>4, RequestBegins
<1>9. Starts(begun)
  BY <1>3, <1>4 DEF Starts
<1> QED
  BY <1>3, <1>4, <1>5, <1>6, <1>7, <1>8, <1>9, JobBegins

\* A role that is meant for somebody is a role.
LEMMA MeantIsRole ==
    ASSUME Typed, NEW renames \in Renamings
    PROVE  [p \in People |-> Meant(regs[p].flag, renames)] \in [People -> Roles]
<1>1. ASSUME NEW p \in People
      PROVE  Meant(regs[p].flag, renames) \in Roles
  <2> DEFINE flag == regs[p].flag
  <2>1. flag \in Roles
    BY DEF Typed, Reg, Roles
  <2>2. \A i \in DOMAIN renames : renames[i] \in Flags \X Flags
    BY DEF Renamings
  <2> HIDE DEF flag
  <2>3. CASE \E i \in DOMAIN renames : renames[i][1] = flag
    <3>1. PICK i : i = CHOOSE k \in DOMAIN renames : renames[k][1] = flag
      OBVIOUS
    <3>2. i \in DOMAIN renames
      BY <2>3, <3>1
    <3>3. Meant(flag, renames) = renames[i][2]
      BY <2>3, <3>1 DEF Meant
    <3> QED
      BY <2>2, <3>2, <3>3 DEF flag, Roles
  <2>4. CASE ~\E i \in DOMAIN renames : renames[i][1] = flag
    BY <2>1, <2>4 DEF Meant, flag
  <2> QED
    BY <2>3, <2>4
<1> QED
  BY <1>1

\* A request that renames roles.
LEMMA RenameBegins ==
    ASSUME Typed, NEW h \in Handlers, NEW next \in Event,
           NEW renames \in Renamings, renames # <<>>, Put(h, "con", next, renames),
           next.table = con.table, next.code = con.code, next.offered = con.offered,
           NEW list \in {Rename1, Rename2}, PutSteps(con, next, renames) = list,
           list = Rename1 =>
             \E from, to \in Flags :
               /\ renames = << <<from, to>> >> /\ to \in next.flags
               /\ con.flags \ {from} \subseteq next.flags,
           list = Rename2 =>
             \E from, to \in Flags :
               /\ renames = << <<from, to>>, <<to, from>> >>
               /\ {from, to} \subseteq con.flags /\ next.flags = con.flags
    PROVE  Started(h)
<1> DEFINE meant == [p \in People |-> Meant(regs[p].flag, renames)]
           begun == [Done EXCEPT !.kind = "rename", !.todo = list, !.name = "con",
                                 !.event = next, !.was = con, !.renames = renames,
                                 !.meant = meant]
<1>1. con \in Event /\ meant \in [People -> Roles] /\ "con" \in Names
  BY MeantIsRole DEF Typed, con, Names
<1>2. BeginRequest(h, begun) /\ LimitsFit(next) /\ con.exists
      /\ UNCHANGED <<day, events, regs, mails, history>>
  BY DEF Put, con
<1> HIDE DEF meant
<1>3. list \in Todo /\ list \in RenameLeft /\ Done \in Job
  BY DoneFits DEF Todo, RenameLeft
<1>4. /\ begun \in Job /\ begun.kind = "rename" /\ begun.todo = list /\ begun.name = "con"
      /\ begun.event = next /\ begun.was = con /\ begun.rows = {} /\ begun.renames = renames
  BY <1>1, <1>3 DEF Job, Kinds, Done
<1> HIDE DEF begun
<1>5. begun.todo \notin {Insert1, Insert2, Registering, Writing, Booking, Sending, Unpaid1, Prices1}
  BY <1>3, <1>4, HeadsDiffer, InsertIsNoPut DEF RequestLeft, PricesLeft, UnpaidLeft
<1>6. Renaming(begun)
  BY <1>4 DEF Renaming
<1>7. Fits(begun)
  BY <1>2, <1>3, <1>4, <1>5, <1>6 DEF Fits, Listed, Validated, Registers
<1>8. Looks(begun, con, regs) /\ ~Unforced(begun)
  BY <1>4 DEF Looks, Unforced
<1>9. Begin(h, begun) /\ requests' \in 0..Requests /\ jobs' \in 0..Jobs
  BY <1>2, RequestBegins
<1>10. Starts(begun)
  BY <1>2, <1>4 DEF Starts
<1> QED
  BY <1>2, <1>4, <1>5, <1>7, <1>8, <1>9, <1>10, JobBegins

-----------------------------------------------------------------------------
(* Prices *)

\* Among the tiers ahead there is a first one.
LEMMA TierIs ==
    ASSUME NEW table \in Tables, NEW d \in Days, HasTier(table, d)
    PROVE  /\ TierAt(table, d) \in Tier /\ TierAt(table, d) \in Ahead(table, d)
           /\ \A u \in Ahead(table, d) : TierAt(table, d).until <= u.until
<1> DEFINE Lasts == {t.until : t \in Ahead(table, d)}
<1>1. table \subseteq Tier /\ Ahead(table, d) \subseteq table /\ Ahead(table, d) # {}
  BY Constants DEF HasTier, Ahead
<1>2. \A t \in Tier : t.until \in Nat
  BY Constants DEF Tier
<1>3. PICK n \in Lasts : \A m \in Lasts : ~(m < n)
  <2>1. Lasts \subseteq Nat /\ Lasts # {}
    BY <1>1, <1>2
  <2>2. \E n \in Lasts : \A m \in Lasts : <<m, n>> \notin OpToRel(<, Nat)
    <3> HIDE DEF Lasts
    <3> QED
      BY <2>1, NatLessThanWellFounded, WFMin
  <2> QED
    BY <2>1, <2>2 DEF OpToRel
<1>4. \E t \in Ahead(table, d) : \A u \in Ahead(table, d) : t.until <= u.until
  <2>1. PICK t \in Ahead(table, d) : n = t.until
    BY <1>3
  <2>2. ASSUME NEW u \in Ahead(table, d)
        PROVE  t.until <= u.until
    <3>1. u.until \in Lasts /\ u.until \in Nat /\ t.until \in Nat
      BY <1>1, <1>2, <2>1
    <3>2. ~(u.until < t.until)
      BY <1>3, <2>1, <3>1
    <3> QED
      BY <3>1, <3>2
  <2> QED
    BY <2>2
<1>5. /\ TierAt(table, d) \in Ahead(table, d)
      /\ \A u \in Ahead(table, d) : TierAt(table, d).until <= u.until
  BY <1>4 DEF TierAt
<1> QED
  BY <1>1, <1>5

\* A price is a number or none.
LEMMA ListPriceIs ==
    ASSUME NEW table \in Tables, NEW d \in Days
    PROVE  /\ ListPrice(table, d) \in Nat \cup {NoPrice} /\ PaysAtCon(table, d) \in BOOLEAN
           /\ PaysAtCon(table, d) => ListPrice(table, d) \in Nat
<1>1. CASE HasTier(table, d)
  BY <1>1, TierIs DEF ListPrice, PaysAtCon, Tier
<1>2. CASE ~HasTier(table, d)
  BY <1>2 DEF ListPrice, PaysAtCon
<1> QED
  BY <1>1, <1>2

LEMMA AmountIs ==
    ASSUME NEW list \in Nat \cup {NoPrice}, NEW extra \in {0, 1}
    PROVE  AmountDue(list, extra) \in Nat \cup {NoPrice}
  BY DEF AmountDue, NoPrice

\* Whoever registers owes the price of the day.
LEMMA NewRegIs ==
    ASSUME con.table \in Tables, day \in Days,
           NEW flag \in Roles, NEW extra \in {0, 1}, NEW optin \in BOOLEAN
    PROVE  LET r == NewReg(flag, extra, optin)
           IN  /\ r \in Reg /\ r.status = "open" /\ r.flag = flag /\ r.extra = extra
               /\ Priced(r) /\ ~r.paid /\ r.paidFor = 0 /\ r.mailedFor = Never /\ r.sent = 0
<1> DEFINE list == ListPrice(con.table, day)
           at == PaysAtCon(con.table, day)
           due == AmountDue(list, extra)
           r == NewReg(flag, extra, optin)
<1>1. con.table \in Tables /\ day \in Days
  OBVIOUS
<1>2. list \in Nat \cup {NoPrice} /\ at \in BOOLEAN
  BY <1>1, ListPriceIs
<1>3. due \in Nat \cup {NoPrice}
  BY <1>2, AmountIs
<1>4. r = [NoReg EXCEPT !.status = "open", !.flag = flag, !.extra = extra, !.optin = optin,
                        !.list = list, !.conPayer = at, !.due = due, !.created = day]
  BY DEF NewReg
<1> HIDE DEF list, at, due, r
<1>5. r = [status |-> "open", flag |-> flag, extra |-> extra, list |-> list, due |-> due,
           paid |-> FALSE, paidFor |-> 0, conPayer |-> at, optin |-> optin,
           mailedFor |-> Never, sent |-> 0, created |-> day]
  BY <1>4 DEF NoReg
<1>6. r \in Reg
  BY <1>1, <1>2, <1>3, <1>5, Constants DEF Reg, Roles, NoPrice
<1>7. Priced(r)
  BY <1>5 DEF Priced, due
<1> QED
  BY <1>5, <1>6, <1>7 DEF r

-----------------------------------------------------------------------------
(* Every request and every job that begins *)

LEMMA PutsStart ==
    ASSUME Typed, NEW h \in Handlers,
           \/ \E name \in Names : PutLimits(h, name) \/ PutCode(h, name)
           \/ PutExtras(h) \/ PutPricing(h) \/ PutFlags(h)
    PROVE  Started(h)
<1>1. events \in [Names -> Event] /\ "con" \in Names /\ con = events["con"] /\ con \in Event
  BY DEF Typed, Names, con
<1>2. ASSUME NEW name \in Names, PutLimits(h, name) PROVE Started(h)
  <2>1. PICK c \in Limit, l \in Limit :
           Put(h, name, [events[name] EXCEPT !.capacity = c, !.hard = l], <<>>)
    BY <1>2 DEF PutLimits
  <2>2. PICK next : next = [events[name] EXCEPT !.capacity = c, !.hard = l]
    OBVIOUS
  <2>3. next \in Event /\ next.flags = events[name].flags
    BY <1>1, <2>2 DEF Event
  <2> QED
    BY <2>1, <2>2, <2>3, PutBegins
<1>3. ASSUME NEW name \in Names, PutCode(h, name) PROVE Started(h)
  <2>1. PICK c \in Codes : Put(h, name, [events[name] EXCEPT !.code = c], <<>>)
    BY <1>3 DEF PutCode
  <2>2. PICK next : next = [events[name] EXCEPT !.code = c]
    OBVIOUS
  <2>3. next \in Event /\ next.flags = events[name].flags
    BY <1>1, <2>2 DEF Event
  <2> QED
    BY <2>1, <2>2, <2>3, PutBegins
<1>4. ASSUME PutExtras(h) PROVE Started(h)
  <2>1. PICK next : next = [con EXCEPT !.offered = ~con.offered]
    OBVIOUS
  <2>2. Put(h, "con", next, <<>>)
    BY <1>4, <2>1 DEF PutExtras
  <2>3. next \in Event /\ next.flags = events["con"].flags
    BY <1>1, <2>1 DEF Event
  <2> QED
    BY <1>1, <2>2, <2>3, PutBegins
<1>5. ASSUME PutPricing(h) PROVE Started(h)
  <2>1. PICK table \in Tables : Put(h, "con", [con EXCEPT !.table = table], <<>>)
    BY <1>5 DEF PutPricing
  <2>2. PICK next : next = [con EXCEPT !.table = table]
    OBVIOUS
  <2>3. next \in Event /\ next.flags = events["con"].flags
    BY <1>1, <2>2 DEF Event
  <2> QED
    BY <1>1, <2>1, <2>2, <2>3, PutBegins
<1>6. ASSUME PutFlags(h) PROVE Started(h)
  <2>0. PICK from \in con.flags : \E to \in Flags \ {from} :
           IF to \in con.flags THEN Put(h, "con", con, << <<from, to>>, <<to, from>> >>)
           ELSE Put(h, "con", [con EXCEPT !.flags = (@ \ {from}) \cup {to}], << <<from, to>> >>)
    BY <1>6 DEF PutFlags
  <2>1. PICK to \in Flags \ {from} :
           IF to \in con.flags THEN Put(h, "con", con, << <<from, to>>, <<to, from>> >>)
           ELSE Put(h, "con", [con EXCEPT !.flags = (@ \ {from}) \cup {to}], << <<from, to>> >>)
    BY <2>0
  <2>2. con.flags \subseteq Flags /\ from \in Flags /\ to \in Flags
    BY <1>1 DEF Event
  <2>3. CASE to \in con.flags
    <3>1. PICK renames : renames = << <<from, to>>, <<to, from>> >>
      OBVIOUS
    <3>2. renames \in Renamings /\ renames # <<>> /\ Put(h, "con", con, renames)
      BY <2>1, <2>2, <2>3, <3>1 DEF Renamings
    <3>3. PutSteps(con, con, renames) = Rename2
      BY <1>1, <2>2, <3>1, StepsOfPut
    <3>4. Rename1 # Rename2
      BY DEF Rename1, Rename2
    <3> QED
      BY <1>1, <2>2, <2>3, <3>1, <3>2, <3>3, <3>4, RenameBegins
  <2>4. CASE to \notin con.flags
    <3>1. PICK next : next = [con EXCEPT !.flags = (con.flags \ {from}) \cup {to}]
      OBVIOUS
    <3>2. next \in Event /\ next.table = con.table /\ next.code = con.code
          /\ next.offered = con.offered /\ next.flags = (con.flags \ {from}) \cup {to}
      BY <1>1, <2>2, <3>1 DEF Event
    <3>3. PICK renames : renames = << <<from, to>> >>
      OBVIOUS
    <3>4. renames \in Renamings /\ renames # <<>> /\ Put(h, "con", next, renames)
      BY <2>1, <2>2, <2>4, <3>1, <3>3 DEF Renamings
    <3>5. PutSteps(con, next, renames) = Rename1
      BY <1>1, <2>2, <3>2, <3>3, StepsOfPut
    <3>6. Rename1 # Rename2
      BY DEF Rename1, Rename2
    <3> QED
      BY <2>2, <3>2, <3>3, <3>4, <3>5, <3>6, RenameBegins
  <2> QED
    BY <2>3, <2>4
<1> QED
  BY <1>2, <1>3, <1>4, <1>5, <1>6

LEMMA RequestsStart ==
    ASSUME Typed, NEW h \in Handlers,
           \/ \E name \in Names : Activate(h, name)
           \/ \E code \in Codes : CreateEvent(h, code)
           \/ \E p \in People, flag \in Flags \cup {NoFlag}, extra \in {0, 1}, optin \in BOOLEAN :
                Register(h, p, flag, extra, optin)
           \/ \E p \in People, flag \in Flags \cup {NoFlag} : EditForm(h, p, flag)
           \/ \E p \in People, extra \in {0, 1} : BookExtra(h, p, extra)
    PROVE  Started(h)
<1>1. /\ Done \in Job /\ Done.rows = {} /\ Done.event.flags = Done.was.flags
      /\ NoEvent \in Event /\ NoReg \in Reg
  BY DoneFits, Constants
<1>2. RequestLeft \subseteq Todo
  BY DEF Todo
<1>3. /\ {Activating, Insert1, Insert2} \cap {Registering, Writing, Booking} = {}
      /\ Activating \notin {Insert1, Insert2} /\ Registering \notin {Writing, Booking}
  BY RequestFollows DEF Follows
<1>4. ASSUME NEW name \in Names, Activate(h, name) PROVE Started(h)
  <2> DEFINE begun == [Done EXCEPT !.kind = "request", !.name = name, !.todo = Activating]
  <2>1. /\ begun \in Job /\ begun.kind = "request" /\ begun.todo = Activating /\ begun.rows = {}
        /\ begun.event.flags = begun.was.flags
    BY <1>1, <1>2 DEF Job, Kinds, RequestLeft, Done
  <2>2. BeginRequest(h, begun) /\ UNCHANGED <<day, events, regs, mails, history>>
    BY <1>4 DEF Activate, Activating
  <2> HIDE DEF begun
  <2>3. begun.todo \in RequestLeft /\ Registers(begun)
    BY <1>3, <2>1 DEF RequestLeft, Registers
  <2> QED
    BY <1>3, <2>1, <2>2, <2>3, SimpleBegins
<1>5. ASSUME NEW code \in Codes, CreateEvent(h, code) PROVE Started(h)
  <2>1. PICK list \in {Insert1, Insert2} :
           list = IF code = "none" THEN <<"insert">> ELSE <<"checkCode", "insert">>
    BY DEF Insert1, Insert2
  <2>2. PICK e : e = [NoEvent EXCEPT !.exists = TRUE, !.code = code]
    OBVIOUS
  <2>3. /\ e \in Event /\ e.exists /\ ~e.active /\ LimitsFit(e)
        /\ e.flags = NoEvent.flags
    BY <1>1, <2>2 DEF Event, NoEvent, LimitsFit
  <2> DEFINE begun == [Done EXCEPT !.kind = "request", !.name = "next", !.todo = list,
                                   !.event = e]
  <2>4. /\ begun \in Job /\ begun.kind = "request" /\ begun.todo = list /\ begun.rows = {}
        /\ begun.event = e /\ begun.was = NoEvent /\ begun.name = "next"
    BY <1>1, <1>2, <2>3 DEF Job, Kinds, RequestLeft, Names, Done
  <2>5. BeginRequest(h, begun) /\ UNCHANGED <<day, events, regs, mails, history>>
    BY <1>5, <2>1, <2>2 DEF CreateEvent
  <2> HIDE DEF begun
  <2>6. begun.todo \in RequestLeft /\ Registers(begun)
    BY <1>3, <2>4 DEF RequestLeft, Registers
  <2> QED
    BY <1>3, <2>3, <2>4, <2>5, <2>6, SimpleBegins
<1>6. ASSUME NEW p \in People, NEW flag \in Roles, NEW extra \in {0, 1}, NEW optin \in BOOLEAN,
             Register(h, p, flag, extra, optin)
      PROVE  Started(h)
  <2>1. PICK r : r = NewReg(flag, extra, optin)
    OBVIOUS
  <2>2. /\ r \in Reg /\ r.status = "open" /\ Priced(r) /\ ~r.paid /\ r.paidFor = 0
        /\ r.mailedFor = Never /\ r.sent = 0
    <3>1. con.table \in Tables /\ day \in Days
      BY DEF Typed, con, Event, Names
    <3> QED
      BY <2>1, <3>1, NewRegIs
  <2> DEFINE begun == [Done EXCEPT !.kind = "request", !.todo = Registering, !.person = p,
                                   !.reg = r]
  <2>3. /\ begun \in Job /\ begun.kind = "request" /\ begun.todo = Registering
        /\ begun.rows = {} /\ begun.reg = r /\ begun.person = p
        /\ begun.event.flags = begun.was.flags
    BY <1>1, <1>2, <2>2 DEF Job, Kinds, RequestLeft, Done
  <2>4. BeginRequest(h, begun) /\ UNCHANGED <<day, events, regs, mails, history>>
    BY <1>6, <2>1 DEF Register, Registering
  <2> HIDE DEF begun
  <2>5. begun.todo \in RequestLeft /\ Registers(begun)
    BY <2>2, <2>3 DEF RequestLeft, Registers
  <2> QED
    BY <1>3, <2>3, <2>4, <2>5, SimpleBegins
<1>7. ASSUME NEW p \in People, NEW flag \in Roles, EditForm(h, p, flag) PROVE Started(h)
  <2> DEFINE begun == [Done EXCEPT !.kind = "request", !.todo = Writing, !.person = p,
                                   !.reg = [NoReg EXCEPT !.flag = flag]]
  <2>1. [NoReg EXCEPT !.flag = flag] \in Reg
    BY <1>1 DEF Reg, Roles
  <2>2. /\ begun \in Job /\ begun.kind = "request" /\ begun.todo = Writing
        /\ begun.rows = {} /\ begun.person = p /\ begun.event.flags = begun.was.flags
    BY <1>1, <1>2, <2>1 DEF Job, Kinds, RequestLeft, Done
  <2>3. BeginRequest(h, begun) /\ UNCHANGED <<day, events, regs, mails, history>>
    BY <1>7 DEF EditForm, Writing
  <2> HIDE DEF begun
  <2>4. begun.todo \in RequestLeft /\ Registers(begun)
    BY <1>3, <2>2 DEF RequestLeft, Registers
  <2> QED
    BY <1>3, <2>2, <2>3, <2>4, SimpleBegins
<1>8. ASSUME NEW p \in People, NEW extra \in {0, 1}, BookExtra(h, p, extra) PROVE Started(h)
  <2> DEFINE begun == [Done EXCEPT !.kind = "request", !.todo = Booking, !.person = p,
                                   !.reg = [NoReg EXCEPT !.extra = extra]]
  <2>1. [NoReg EXCEPT !.extra = extra] \in Reg
    BY <1>1 DEF Reg
  <2>2. /\ begun \in Job /\ begun.kind = "request" /\ begun.todo = Booking
        /\ begun.rows = {} /\ begun.person = p /\ begun.event.flags = begun.was.flags
    BY <1>1, <1>2, <2>1 DEF Job, Kinds, RequestLeft, Done
  <2>3. BeginRequest(h, begun) /\ UNCHANGED <<day, events, regs, mails, history>>
    BY <1>8 DEF BookExtra, Booking
  <2> HIDE DEF begun
  <2>4. begun.todo \in RequestLeft /\ Registers(begun)
    BY <1>3, <2>2 DEF RequestLeft, Registers
  <2> QED
    BY <1>3, <2>2, <2>3, <2>4, SimpleBegins
<1> QED
  BY <1>4, <1>5, <1>6, <1>7, <1>8 DEF Roles

LEMMA DeleteStarts ==
    ASSUME Typed, NEW h \in Handlers, NEW name \in Names, NEW force \in BOOLEAN,
           Delete(h, name, force)
    PROVE  Started(h)
<1> DEFINE begun == [Done EXCEPT !.kind = "delete", !.name = name, !.todo = Deleting,
                                 !.force = force]
<1>1. /\ begun \in Job /\ begun.kind = "delete" /\ begun.todo = Deleting /\ begun.rows = {}
      /\ begun.name = name /\ begun.force = force /\ begun.event.flags = begun.was.flags
  BY DoneFits, Constants DEF Job, Kinds, Todo, Done
<1>2. BeginRequest(h, begun) /\ UNCHANGED <<day, events, regs, mails, history>>
      /\ (force \/ NobodyRegistered(name))
  BY DEF Delete, Deleting
<1> HIDE DEF begun
<1>3. /\ begun.todo \notin RequestLeft
      /\ begun.todo \notin {Sending, Unpaid1, Prices1}
  BY <1>1, HeadsDiffer, InsertIsNoPut DEF PricesLeft, UnpaidLeft
<1>4. Fits(begun)
  BY <1>1, <1>3 DEF Fits, Listed, Validated, Renaming, Registers, RequestLeft
<1>5. /\ Looks(begun, con, regs) /\ Starts(begun)
      /\ Unforced(begun) => \A p \in People : ~There(p)
  BY <1>1, <1>2 DEF Looks, Unforced, NobodyRegistered, Starts
<1>6. Begin(h, begun) /\ requests' \in 0..Requests /\ jobs' \in 0..Jobs
  BY <1>2, RequestBegins
<1> QED
  BY <1>1, <1>2, <1>3, <1>4, <1>5, <1>6, JobBegins

LEMMA RunsStart ==
    ASSUME Typed, NEW h \in Handlers, RunPrices(h) \/ RunUnpaid(h)
    PROVE  Started(h)
<1>1. regs \in [People -> Reg] /\ con.table \in Tables /\ Len(ReminderDays) \in Nat
  BY Constants DEF Typed, Names, Event, con
<1>2. ASSUME RunPrices(h) PROVE Started(h)
  <2> DEFINE rows == {p \in People : Unpaid(regs[p])}
             begun == [Done EXCEPT !.kind = "prices", !.todo = Prices3, !.tables = con.table,
                                   !.rows = rows]
  <2>1. rows \in SUBSET People /\ \A p \in rows : regs[p].status # "none"
    BY DEF Unpaid
  <2>2. /\ BeginJob(h, begun) /\ UNCHANGED <<day, events, regs, mails, history>>
    BY <1>2 DEF RunPrices, Prices3
  <2> HIDE DEF rows
  <2>3. /\ begun \in Job /\ begun.kind = "prices" /\ begun.todo = Prices3 /\ begun.rows = rows
        /\ begun.event.flags = begun.was.flags
    BY <1>1, <2>1, DoneFits, Constants DEF Job, Kinds, Todo, PricesLeft, Done
  <2> HIDE DEF begun
  <2>4. begun.todo \notin RequestLeft \cup {Sending, Unpaid1, Prices1}
    BY <2>3, HeadsDiffer, InsertIsNoPut, JobFollows DEF PricesLeft, UnpaidLeft, Follows
  <2>5. Fits(begun)
    BY <2>3, <2>4 DEF Fits, Listed, Validated, Renaming, Registers, RequestLeft, PricesLeft
  <2>6. Looks(begun, con, regs) /\ ~Unforced(begun) /\ Starts(begun)
    BY <2>1, <2>2, <2>3 DEF Looks, Unforced, Starts
  <2>7. Begin(h, begun) /\ requests' \in 0..Requests /\ jobs' \in 0..Jobs
    BY <2>2, RunBegins
  <2> QED
    BY <2>2, <2>3, <2>4, <2>5, <2>6, <2>7, JobBegins
<1>3. ASSUME RunUnpaid(h) PROVE Started(h)
  <2> DEFINE rows == {p \in FromPdf : Unpaid(regs[p]) /\ ReminderDue(regs[p])}
             begun == [Done EXCEPT !.kind = "unpaid", !.todo = Unpaid2, !.rows = rows]
  <2>1. rows \in SUBSET People /\ \A p \in rows : /\ regs[p].status # "none"
                                                  /\ OnItsDay(regs[p], regs[p].sent + 1, day)
    <3>1. rows \in SUBSET People
      BY EventsAssumption
    <3>2. SUFFICES ASSUME NEW p \in rows
                   PROVE  regs[p].status # "none" /\ OnItsDay(regs[p], regs[p].sent + 1, day)
      BY <3>1
    <3>3. regs[p] \in Reg
      BY <1>1, <3>1
    <3> QED
      BY <1>1, <3>3 DEF Unpaid, ReminderDue, OnItsDay, Reg
  <2>2. /\ BeginJob(h, begun) /\ UNCHANGED <<day, events, regs, mails>>
        /\ history' = [history EXCEPT !.doubled = @ \cup {p \in rows : Reminding(p) # {}}]
    BY <1>3 DEF RunUnpaid, Unpaid2
  <2> HIDE DEF rows
  <2>3. /\ begun \in Job /\ begun.kind = "unpaid" /\ begun.todo = Unpaid2 /\ begun.rows = rows
        /\ begun.event.flags = begun.was.flags
    BY <1>1, <2>1, DoneFits, Constants DEF Job, Kinds, Todo, UnpaidLeft, Done
  <2> HIDE DEF begun
  <2>4. begun.todo \notin RequestLeft \cup {Sending, Unpaid1, Prices1}
    BY <2>3, HeadsDiffer, InsertIsNoPut, JobFollows DEF PricesLeft, UnpaidLeft, Follows
  <2>5. Fits(begun)
    BY <2>3, <2>4 DEF Fits, Listed, Validated, Renaming, Registers, RequestLeft, UnpaidLeft
  <2>6. Looks(begun, con, regs) /\ ~Unforced(begun) /\ Starts(begun)
    BY <2>1, <2>2, <2>3 DEF Looks, Unforced, Starts, There
  <2>7. Begin(h, begun) /\ requests' \in 0..Requests /\ jobs' \in 0..Jobs
    BY <2>2, RunBegins
  <2> QED
    BY <2>2, <2>3, <2>4, <2>5, <2>6, <2>7, JobBegins
<1> QED
  BY <1>2, <1>3

\* Whatever begins.
LEMMA BeginsKeep ==
    ASSUME EInv, NEW h \in Handlers, Ask(h) \/ RunPrices(h) \/ RunUnpaid(h)
    PROVE  EInv'
<1>1. Typed
  BY DEF EInv
<1>2. CASE Ask(h)
  BY <1>1, <1>2, PutsStart, RequestsStart, DeleteStarts, StartedKeeps DEF Ask
<1> QED
  BY <1>1, <1>2, RunsStart, StartedKeeps

-----------------------------------------------------------------------------
(* One statement *)

LEMMA LeftIs ==
    ASSUME NEW j \in Job, Tail(j.todo) \in Todo
    PROVE  /\ Left(j) \in Job /\ Left(j).todo = Tail(j.todo) /\ Left(j).kind = j.kind
           /\ Left(j).day = j.day /\ Left(j).name = j.name /\ Left(j).event = j.event
           /\ Left(j).was = j.was /\ Left(j).renames = j.renames /\ Left(j).force = j.force
           /\ Left(j).person = j.person /\ Left(j).reg = j.reg /\ Left(j).rows = j.rows
           /\ Left(j).tables = j.tables
<1>1. Left(j) = [j EXCEPT !.todo = Tail(j.todo)]
  BY DEF Left
<1> QED
  BY <1>1 DEF Job

\* What every statement of a handler does to the bookkeeping.
Progress(h, left) ==
    /\ ~Idle(h) /\ Moved(h, left) /\ Continues(h, left) /\ day' = day
    /\ UNCHANGED <<requests, jobs, ops>> /\ faults' \in 0..MaxFaults
LEMMA ThenIs ==
    ASSUME Typed, NEW h \in Handlers, NEW left, NEW what, Doing(h, what), Then(h, left),
           Continues(h, left), day' = day
    PROVE  Progress(h, left)
<1>1. ~Idle(h)
  BY DoneFits DEF Doing, Idle
<1> QED
  BY <1>1 DEF Progress, Then, Become, Moved, Typed

\* A statement of a handler leaves the bookkeeping in order.
LEMMA ProgressTypes ==
    ASSUME EInv, NEW h \in Handlers, NEW left, Progress(h, left),
           events' \in [Names -> Event], regs' \in [People -> Reg], mails' \in Mails,
           history' \in Past
    PROVE  /\ Typed' /\ JobsFit' /\ Others(h)
           /\ job' \in [Handlers -> Job]
           /\ job'[h] = IF left.todo = <<>> THEN Done ELSE left
<1>1. job' \in [Handlers -> Job] /\ JobsFit'
  BY MovedFits DEF EInv, Typed, Progress
<1>2. Others(h) /\ job'[h] = IF left.todo = <<>> THEN Done ELSE left
  BY DEF EInv, Typed, Progress, Moved, Others
<1>3. Requests' = Requests /\ Jobs' = Jobs
  BY DEF Progress, Requests, Jobs, Does
<1>4. day' \in Days /\ requests' \in 0..Requests' /\ jobs' \in 0..Jobs' /\ ops' \in Scenarios
  BY <1>3 DEF EInv, Typed, Progress
<1>5. Typed'
  BY <1>1, <1>4 DEF Typed, Progress
<1> QED
  BY <1>1, <1>2, <1>5

\* A statement that only reads, or that is not carried out.
Readies(h, left) ==
    left.todo # <<>> =>
      /\ left.todo \notin {Sending, Unpaid1} /\ Looks(left, con, regs) /\ ~Unforced(left)
      /\ left.kind # "unpaid"
      /\ MailsKnown /\ left.todo = Prices1 /\ con.exists => left.tables = con.table
LEMMA QuietKeeps ==
    ASSUME EInv, NEW h \in Handlers, NEW left, Progress(h, left), Readies(h, left),
           UNCHANGED <<events, regs, mails, history>>,
           job[h].kind # "rename", job[h].todo \notin {Sending, Unpaid1}
    PROVE  EInv'
<1>1. /\ Typed' /\ JobsFit' /\ Others(h) /\ job' \in [Handlers -> Job]
      /\ job'[h] = IF left.todo = <<>> THEN Done ELSE left
  BY ProgressTypes DEF EInv, Typed
<1>2. con' = con /\ day' = day
  BY DEF con, Progress
<1>3. Grows(history, history') /\ \A p \in People : /\ SameRow(regs[p], regs'[p])
                                                    /\ SamePrice(regs[p], regs'[p])
                                                    /\ SameMail(regs[p], regs'[p])
  BY DEF Grows, SameRow, SamePrice, SameMail, SameCount
<1>4. <<>> \notin {Sending, Unpaid1, Prices1}
  BY HeadsDiffer DEF PricesLeft, UnpaidLeft
<1>5. /\ Looks(job'[h], con, regs) /\ ~Unforced(job'[h]) /\ job'[h].kind # "rename"
      /\ job'[h].todo \notin {Sending, Unpaid1} /\ job'[h].kind # "unpaid"
      /\ MailsKnown /\ job'[h].todo = Prices1 /\ con.exists => job'[h].tables = con.table
  <2>1. CASE left.todo = <<>>
    BY <1>1, <1>4, <2>1, DoneFits DEF Looks, Unforced
  <2>2. CASE left.todo # <<>>
    BY <1>1, <2>2 DEF Readies, Progress, Continues
  <2> QED
    BY <2>1, <2>2
<1>6. RowsFit' /\ SettingsFit'
  BY <1>2, <1>3, RowsStay, SettingsStay DEF EInv
<1>7. FlagsFit'
  BY <1>1, <1>2, <1>3, <1>5, FlagsStay DEF EInv
<1>8. DeletesFit' /\ OnlyEmptyIsDeleted' /\ PricesFit' /\ PricesAreKept'
  BY <1>1, <1>3, <1>5, DeletesStay, PricesStay DEF EInv
<1>9. LooksFit'
  BY <1>1, <1>2, <1>3, <1>5, LooksStay DEF EInv
<1>10. MailsFit'
  BY <1>1, <1>2, <1>3, <1>5, MailsStay DEF EInv, SameMail
<1>11. RemindsFit'
  BY <1>1, <1>2, <1>3, <1>5, RemindsStay DEF EInv, SameMail
<1> QED
  BY <1>1, <1>6, <1>7, <1>8, <1>9, <1>10, <1>11 DEF EInv

\* The job of a handler is of the kind its list belongs to.
LEMMA JobIs ==
    ASSUME EInv, NEW h \in Handlers
    PROVE  /\ job[h] \in Job /\ Fits(job[h]) /\ Listed(job[h])
           /\ (~Idle(h) => job[h].day = day)
  BY DEF EInv, Typed, JobsFit, Fits

LEMMA RefuseKeeps ==
    ASSUME EInv, NEW h \in Handlers, NEW what, Doing(h, what), Refuse(h),
           job[h].kind = "put" \/ job[h].kind = "request"
    PROVE  EInv'
<1> DEFINE left == [job[h] EXCEPT !.todo = <<>>]
<1>1. job[h] \in Job /\ left.todo = <<>>
  BY DEF EInv, Typed, Job
<1>2. Then(h, left) /\ UNCHANGED <<day, events, regs, mails, history>>
  BY DEF Refuse
<1> HIDE DEF left
<1>3. Progress(h, left) /\ Readies(h, left)
  BY <1>1, <1>2, ThenIs DEF EInv, Continues, Readies
<1>4. job[h].todo \notin {Sending, Unpaid1}
  BY JobIs, KindIs DEF PricesLeft, UnpaidLeft
<1> QED
  BY <1>2, <1>3, <1>4, QuietKeeps

LEMMA PassKeeps ==
    ASSUME EInv, NEW h \in Handlers, NEW what, Doing(h, what), Pass(h),
           job[h].kind = "put" \/ job[h].kind = "request",
           <<job[h].todo, Tail(job[h].todo)>> \in {<<Put2, Put1>>, <<Put4, Put3>>, <<Put3, Put1>>,
                                                   <<Insert2, Insert1>>}
    PROVE  EInv'
<1> DEFINE j == job[h] left == Left(j)
<1>1. j \in Job /\ Fits(j) /\ Tail(j.todo) \in Todo
  BY JobIs DEF Todo, PutLeft, RequestLeft
<1>2. /\ left \in Job /\ left.todo = Tail(j.todo) /\ left.kind = j.kind /\ left.day = j.day
      /\ left.name = j.name /\ left.event = j.event /\ left.was = j.was /\ left.rows = j.rows
  BY <1>1, LeftIs
<1>3. Then(h, left) /\ UNCHANGED <<day, events, regs, mails, history>>
  BY DEF Pass
<1> HIDE DEF left
<1>4. /\ left.todo \in {Put1, Put3, Insert1}
      /\ left.todo = Insert1 => j.todo = Insert2
      /\ left.todo \in {Put1, Put3} => j.todo \in {Put2, Put3, Put4}
  <2>1. Put1 # Insert1 /\ Put3 # Insert1
    BY PutFollows, RequestFollows DEF Follows
  <2> QED
    BY <1>2, <2>1
<1>5. /\ j.todo = Insert2 => j.kind = "request"
      /\ j.todo \in {Put2, Put3, Put4} => j.kind = "put"
  BY <1>1, KindIs DEF Fits, RequestLeft
<1>6. /\ left.todo \notin {Insert2, Registering, Writing, Booking, Rename1, Rename2}
      /\ left.todo \notin {Sending, Unpaid1, Prices1}
      /\ j.todo \notin {Sending, Unpaid1}
  <2>1. \A list \in {Put1, Put3, Insert1} :
           /\ list \notin {Insert2, Registering, Writing, Booking, Rename1, Rename2}
           /\ list \notin {Sending, Unpaid1, Prices1}
    BY SMTT(30), PutFollows, RequestFollows, JobFollows, InsertIsNoPut DEF Follows, PutLeft
  <2>2. \A list \in {Put2, Put3, Put4, Insert2} : list \notin {Sending, Unpaid1}
    BY PutFollows, RequestFollows, JobFollows DEF Follows
  <2> QED
    BY <1>4, <2>1, <2>2
<1>7. left.todo \in {Put1, Put3} => left.kind = "put" /\ left.todo \in PutLeft
                                   /\ left.todo \notin {Insert1, Insert2}
  <2>1. Put1 # Insert1 /\ Put3 # Insert1
    BY PutFollows, RequestFollows DEF Follows
  <2> QED
    BY <1>2, <1>4, <1>5, <1>6, <2>1 DEF PutLeft
<1>8. left.todo = Insert1 => left.kind = "request" /\ left.todo \in RequestLeft
  BY <1>2, <1>4, <1>5 DEF RequestLeft
<1>9. Fits(left)
  BY <1>1, <1>2, <1>4, <1>6, <1>7, <1>8 DEF Fits, Listed, Validated, Renaming, Registers
<1>10. Readies(h, left)
  BY <1>2, <1>6, <1>7, <1>8 DEF Readies, Looks, Unforced
<1>11. Progress(h, left)
  BY <1>2, <1>3, <1>9, ThenIs DEF EInv, Continues
<1> QED
  BY <1>3, <1>6, <1>10, <1>11, QuietKeeps

LEMMA ChecksKeep ==
    ASSUME EInv, NEW h \in Handlers, CheckExtras(h) \/ CheckCode(h)
    PROVE  EInv'
<1>1. job[h] \in Job /\ Listed(job[h])
  BY JobIs
<1>2. PICK what \in {"checkExtras", "checkCode"} : Doing(h, what) /\ (Refuse(h) \/ Pass(h))
  BY DEF CheckExtras, CheckCode
<1>3. job[h].todo \in {Put2, Put3, Put4, Insert2}
  BY <1>1, <1>2, WhereItIs DEF Doing
<1>4. <<job[h].todo, Tail(job[h].todo)>> \in {<<Put2, Put1>>, <<Put4, Put3>>, <<Put3, Put1>>,
                                              <<Insert2, Insert1>>}
  BY <1>3, PutFollows, RequestFollows DEF Follows
<1>5. job[h].kind = "put" \/ job[h].kind = "request"
  BY <1>1, <1>3, KindIs DEF RequestLeft
<1> QED
  BY <1>2, <1>4, <1>5, RefuseKeeps, PassKeeps

-----------------------------------------------------------------------------
(* The statements of the jobs *)

LEMMA RunFits ==
    ASSUME NEW j \in Job, j.event.flags = j.was.flags, j.todo = Sending => j.person \in People,
           \/ j.kind = "prices" /\ j.todo \in PricesLeft
           \/ j.kind = "unpaid" /\ j.todo \in UnpaidLeft
    PROVE  Fits(j) /\ ~Unforced(j) /\ j.todo # <<>>
<1>1. j.todo \notin RequestLeft /\ j.todo # <<>>
  BY HeadsDiffer, InsertIsNoPut
<1>2. Listed(j)
  BY <1>1 DEF Listed, RequestLeft
<1>3. Validated(j) /\ Renaming(j) /\ Registers(j)
  BY <1>1 DEF Validated, Renaming, Registers, RequestLeft
<1> QED
  BY <1>1, <1>2, <1>3 DEF Fits, Unforced
LEMMA RunIs ==
    ASSUME NEW j \in Job, Fits(j), j.kind \in {"prices", "unpaid"}
    PROVE  j.event.flags = j.was.flags
  BY DEF Fits, Validated

LEMMA ListForMailsKeeps ==
    ASSUME EInv, NEW h \in Handlers, ListForMails(h)
    PROVE  EInv'
<1> DEFINE j == job[h]
           rows == {p \in People : Unpaid(regs[p]) /\ regs[p].optin}
           left == [Left(j) EXCEPT !.tables = con.table, !.rows = rows]
<1>1. j \in Job /\ Fits(j) /\ Listed(j) /\ Doing(h, "list")
  BY JobIs DEF ListForMails
<1>2. j.todo = Prices2 /\ j.kind = "prices" /\ Tail(j.todo) = Prices1 /\ Prices1 \in Todo
  BY <1>1, WhereItIs, KindIs, JobFollows DEF Doing, PricesLeft, Follows, Todo
<1>3. Then(h, left) /\ UNCHANGED <<day, events, regs, mails, history>>
  BY DEF ListForMails
<1>4. rows \in SUBSET People /\ \A p \in rows : regs[p].status # "none"
  BY DEF Unpaid
<1>5. con.table \in Tables
  BY DEF EInv, Typed, Names, Event, con
<1> HIDE DEF rows
<1>6. /\ left \in Job /\ left.todo = Prices1 /\ left.kind = "prices" /\ left.day = j.day
      /\ left.event = j.event /\ left.was = j.was /\ left.rows = rows /\ left.tables = con.table
  BY <1>1, <1>2, <1>4, <1>5, LeftIs DEF Job
<1> HIDE DEF left
<1>7. left.todo \notin {Sending, Unpaid1} /\ left.todo \in PricesLeft
      /\ j.todo \notin {Sending, Unpaid1}
  BY <1>2, <1>6, JobFollows DEF Follows, PricesLeft
<1>8. Fits(left) /\ ~Unforced(left)
  BY <1>1, <1>2, <1>6, <1>7, RunFits, RunIs
<1>9. Progress(h, left)
  BY <1>1, <1>2, <1>3, <1>6, <1>8, ThenIs DEF EInv, Continues
<1>10. Readies(h, left)
  BY <1>4, <1>6, <1>7, <1>8 DEF Readies, Looks
<1> QED
  BY <1>2, <1>3, <1>7, <1>9, <1>10, QuietKeeps

LEMMA RemindFailsKeeps ==
    ASSUME EInv, NEW h \in Handlers, RemindFails(h)
    PROVE  EInv'
<1> DEFINE left == GivenUp(job[h])
<1>1. job[h] \in Job /\ left.todo = <<>> /\ Listed(job[h]) /\ Doing(h, "remind")
  BY JobIs DEF Job, RemindFails, GivenUp
<1>2. job[h].todo = Unpaid2 /\ job[h].kind = "unpaid"
  BY <1>1, WhereItIs, KindIs DEF Doing, UnpaidLeft
<1>3. Become(h, left) /\ UNCHANGED <<day, events, regs, mails, history, requests, jobs, ops>>
  BY DEF RemindFails
<1> HIDE DEF left
<1>4. faults' \in 0..MaxFaults
  BY Constants, EventsAssumption DEF RemindFails, EInv, Typed
<1>5. ~Idle(h)
  BY <1>1, DoneFits DEF Doing, Idle
<1>6. Progress(h, left) /\ Readies(h, left)
  BY <1>1, <1>3, <1>4, <1>5 DEF Progress, Become, Moved, Continues, Readies
<1>7. job[h].todo \notin {Sending, Unpaid1}
  BY <1>2, JobFollows DEF Follows
<1> QED
  BY <1>2, <1>3, <1>6, <1>7, QuietKeeps

\* A statement that ends its job.
LEMMA Ends ==
    ASSUME EInv, NEW h \in Handlers, NEW what, Doing(h, what), Then(h, Left(job[h])),
           Tail(job[h].todo) = <<>>, day' = day,
           events' \in [Names -> Event], regs' \in [People -> Reg], mails' \in Mails,
           history' \in Past
    PROVE  /\ Typed' /\ JobsFit' /\ Others(h)
           /\ job' \in [Handlers -> Job]
           /\ job'[h] = Done /\ job'[h].kind = "none"
           /\ Looks(job'[h], con, regs) /\ ~Unforced(job'[h])
           /\ job'[h].todo \notin {Sending, Unpaid1, Prices1}
<1> DEFINE left == Left(job[h])
<1>1. left.todo = <<>>
  BY LeftIs, JobIs DEF Todo
<1>2. Then(h, left)
  OBVIOUS
<1> HIDE DEF left
<1>3. Progress(h, left)
  BY <1>1, <1>2, ThenIs DEF EInv, Continues
<1>4. /\ Typed' /\ JobsFit' /\ Others(h) /\ job' \in [Handlers -> Job]
      /\ job'[h] = Done
  BY <1>1, <1>3, ProgressTypes
<1>5. <<>> \notin {Sending, Unpaid1, Prices1}
  BY HeadsDiffer DEF PricesLeft, UnpaidLeft
<1> QED
  BY <1>4, <1>5, DoneFits DEF Looks, Unforced

-----------------------------------------------------------------------------
(* The statements of requests on registrations *)

\* A role somebody saves was checked with the event, or two requests crossed.
LEMMA RoleSaved ==
    ASSUME EInv, NEW h \in Handlers, Others(h), NEW p \in People,
           job[h].kind # "rename", job'[h].kind # "rename", events' = events, con.exists,
           \A q \in People \ {p} : regs'[q].flag = regs[q].flag,
           regs'[p].flag = job[h].reg.flag,
           history.crossed \/ Stale(job[h]) => history'.crossed,
           history'.stopped = history.stopped
    PROVE  FlagsFit'
<1>1. CASE history.crossed \/ history.stopped \/ Stale(job[h])
  BY <1>1 DEF FlagsFit
<1>2. CASE Overlapping
  BY <1>2 DEF FlagsFit, Overlapping, Others
<1>3. CASE FlagsKnown /\ ~Stale(job[h])
  <2>1. con' = con
    BY DEF con
  <2>2. /\ regs'[p].flag \in con.flags \cup {NoFlag}
        /\ regs'[p].flag # NoFlag => \A g \in Handlers : job[g].was.flags = job[g].event.flags
    BY <1>3 DEF Stale
  <2>3. ASSUME NEW g \in Handlers, job'[g].kind = "rename"
        PROVE  /\ con'.exists => con'.flags = job'[g].was.flags
               /\ \A q \in People : regs'[q].flag \in Current(job'[g]) \cup {NoFlag}
    <3>1. job'[g] = job[g] /\ job[g].kind = "rename"
      BY <2>3 DEF Others
    <3>2. con.flags = job[g].was.flags
          /\ \A q \in People : regs[q].flag \in Current(job[g]) \cup {NoFlag}
      BY <1>3, <3>1 DEF FlagsKnown
    <3>3. regs'[p].flag \in Current(job[g]) \cup {NoFlag}
      BY <2>2, <3>2 DEF Current
    <3> QED
      BY <2>1, <3>1, <3>2, <3>3
  <2>4. (\A g \in Handlers : job'[g].kind # "rename") =>
           \A q \in People : regs'[q].flag \in con'.flags \cup {NoFlag}
    <3>1. \A g \in Handlers : job[g].kind = "rename" => job'[g].kind = "rename"
      BY DEF Others
    <3> QED
      BY <1>3, <2>1, <2>2, <3>1 DEF FlagsKnown
  <2>5. FlagsKnown'
    BY <2>3, <2>4 DEF FlagsKnown, Current
  <2> QED
    BY <2>5 DEF FlagsFit
<1> QED
  BY <1>1, <1>2, <1>3 DEF EInv, FlagsFit

\* Who registers was never mailed.
LEMMA NewcomersMails ==
    ASSUME EInv, NEW h \in Handlers, Others(h), NEW p \in People, ~There(p), con.exists,
           job[h].todo \notin {Sending, Unpaid1}, job'[h].todo \notin {Sending, Unpaid1, Prices1},
           events' = events, mails' = mails, day' = day, Grows(history, history'),
           \A q \in People \ {p} : regs'[q] = regs[q],
           regs'[p].status = "open", regs'[p].mailedFor = Never
    PROVE  MailsFit'
<1>1. CASE history.repriced
  BY <1>1 DEF MailsFit, Grows
<1>2. CASE MailsKnown
  <2>1. con' = con
    BY DEF con
  <2>2. \A g \in Handlers : /\ job'[g].todo = Sending <=> job[g].todo = Sending
                            /\ job[g].todo = Sending => job'[g] = job[g]
    BY DEF Others
  <2>3. \A q \in People : MailedNow(q)' <=> MailedNow(q)
    BY <2>2 DEF MailedNow
  <2>4. \A k \in Days : mails.deadline[p][k] = 0
    BY <1>2 DEF MailsKnown, Mailed, Fresh, There
  <2>5. ASSUME NEW q \in People
        PROVE  /\ \A d \in Days : mails'.deadline[q][d] <= 1
               /\ regs'[q].mailedFor # Never =>
                    \/ mails'.deadline[q][regs'[q].mailedFor] = 1
                    \/ MailedNow(q)' \/ q \in history'.unsent
               /\ Dated(regs'[q], mails'.deadline[q], con', day')
               /\ Fresh(regs'[q], mails'.deadline[q], con')
    <3>1. CASE q = p
      BY <3>1, <1>2, <2>4 DEF MailsKnown, Mailed, Dated, Fresh
    <3>2. CASE q # p
      BY <3>2, <1>2, <2>1, <2>3 DEF MailsKnown, Mailed, Grows
    <3> QED
      BY <3>1, <3>2
  <2>6. ASSUME NEW g \in Handlers
        PROVE  Sends(job'[g], con', regs', mails'.deadline)
    <3>1. Sends(job[g], con, regs, mails.deadline)
      BY <1>2 DEF MailsKnown
    <3>2. CASE g = h
      BY <3>2 DEF Sends
    <3>3. CASE g # h
      <4>1. job'[g] = job[g]
        BY <3>3 DEF Others
      <4>2. CASE job[g].todo = Sending
        <5>1. regs[job[g].person].status # "none" /\ job[g].person \in People
          BY <3>1, <4>2, JobIs DEF Sends, Listed
        <5>2. regs'[job[g].person] = regs[job[g].person]
          BY <5>1 DEF There
        <5> QED
          BY <2>1, <3>1, <4>1, <4>2, <5>2 DEF Sends
      <4>3. CASE job[g].todo # Sending
        BY <2>1, <3>1, <4>1, <4>3 DEF Sends
      <4> QED
        BY <4>2, <4>3
    <3> QED
      BY <3>2, <3>3
  <2>7. SendApart'
    BY <1>2, <2>2 DEF MailsKnown, SendApart
  <2>8. MailsKnown'
    BY <2>5, <2>6, <2>7 DEF MailsKnown, Mailed, MailedNow, SendApart
  <2> QED
    BY <2>8 DEF MailsFit
<1> QED
  BY <1>1, <1>2 DEF EInv, MailsFit

\* What is common to the requests that write one registration.
LEMMA RequestIs ==
    ASSUME EInv, NEW h \in Handlers, NEW what, Doing(h, what),
           what \in {"insert", "activate", "register", "write", "extra"}
    PROVE  /\ job[h] \in Job /\ job[h].kind = "request" /\ Fits(job[h]) /\ Listed(job[h])
           /\ Tail(job[h].todo) = <<>>
           /\ job[h].todo \notin {Sending, Unpaid1}
           /\ what \in {"register", "write", "extra"} =>
                job[h].person \in People
           /\ what = "register" => job[h].todo = Registering
           /\ what = "insert" => job[h].todo = Insert1
<1>1. job[h] \in Job /\ Fits(job[h]) /\ Listed(job[h])
  BY JobIs
<1>2. job[h].todo \in RequestLeft \ {Insert2} /\ Tail(job[h].todo) = <<>>
  BY <1>1, WhereItIs, RequestFollows, InsertIsNoPut DEF Doing, RequestLeft, Follows
<1>3. job[h].kind = "request"
  BY <1>1, <1>2, KindIs
<1>4. job[h].todo \notin {Sending, Unpaid1}
  BY <1>2, HeadsDiffer DEF PricesLeft, UnpaidLeft
<1>5. what \in {"register", "write", "extra"} => job[h].todo \in {Registering, Writing, Booking}
  BY <1>1, WhereItIs DEF Doing
<1>6. /\ what = "register" => job[h].todo = Registering
      /\ what = "insert" => job[h].todo = Insert1
  BY <1>1, WhereItIs DEF Doing
<1> QED
  BY <1>1, <1>2, <1>3, <1>4, <1>5, <1>6 DEF Listed

LEMMA InsertRegKeeps ==
    ASSUME EInv, NEW h \in Handlers, InsertReg(h)
    PROVE  EInv'
<1> DEFINE j == job[h] p == job[h].person
<1>1. /\ j \in Job /\ j.kind = "request" /\ Fits(j) /\ Tail(j.todo) = <<>> /\ p \in People
      /\ j.todo \notin {Sending, Unpaid1} /\ j.todo = Registering /\ Doing(h, "register")
  BY RequestIs DEF InsertReg
<1>2. CASE ~(con.exists /\ ~There(p))
  BY <1>1, <1>2, RefuseKeeps DEF InsertReg
<1>3. CASE con.exists /\ ~There(p)
  <2>1. /\ regs' = [regs EXCEPT ![p] = j.reg]
        /\ history' = [history EXCEPT !.crossed = @ \/ Stale(j),
                                      !.late = @ \cup When(Running("delete"), {p})]
        /\ Then(h, Left(j)) /\ UNCHANGED <<day, events, mails>>
    BY <1>3 DEF InsertReg
  <2>2. /\ j.reg \in Reg /\ j.reg.status = "open" /\ Priced(j.reg) /\ ~j.reg.paid
        /\ j.reg.paidFor = 0 /\ j.reg.mailedFor = Never /\ j.reg.sent = 0
    BY <1>1 DEF Fits, Registers, Job
  <2>3. /\ regs \in [People -> Reg] /\ events \in [Names -> Event] /\ mails \in Mails
        /\ history \in Past /\ con' = con
    BY <2>1 DEF EInv, Typed, con
  <2>4. /\ regs' \in [People -> Reg] /\ regs'[p] = j.reg
        /\ \A q \in People \ {p} : regs'[q] = regs[q]
    BY <1>1, <2>1, <2>2, <2>3
  <2>5. /\ history' \in Past
        /\ history'.crossed = (history.crossed \/ Stale(j))
        /\ history'.stopped = history.stopped /\ history'.repriced = history.repriced
        /\ history'.lost = history.lost /\ history'.unpriced = history.unpriced
        /\ history'.late = history.late \cup When(Running("delete"), {p})
        /\ history'.unsent = history.unsent /\ history'.uncounted = history.uncounted
        /\ history'.doubled = history.doubled
    <3>1. When(Running("delete"), {p}) \subseteq People /\ Stale(j) \in BOOLEAN
      BY <1>1 DEF When, Stale
    <3> QED
      BY <2>1, <2>3, <3>1 DEF Past
  <2>6. Grows(history, history')
    BY <2>5 DEF Grows
  <2>7. /\ Typed' /\ JobsFit' /\ Others(h) /\ job' \in [Handlers -> Job]
        /\ job'[h] = Done /\ job'[h].kind = "none" /\ ~Unforced(job'[h])
        /\ job'[h].todo \notin {Sending, Unpaid1, Prices1} /\ Looks(job'[h], con, regs)
    BY <1>1, <2>1, <2>3, <2>4, <2>5, Ends
  <2>8. RowsFit'
    BY <1>3, <2>1, <2>2, <2>3, <2>4 DEF EInv, RowsFit, There
  <2>9. SettingsFit'
    <3>1. CASE history'.crossed
      BY <3>1 DEF SettingsFit
    <3>2. CASE ~history'.crossed
      <4>1. j.reg.extra = 1 => con.offered
        BY <3>2, <2>5 DEF Stale
      <4> QED
        BY <3>2, <4>1, <2>1, <2>3, <2>4, <2>5 DEF EInv, SettingsFit, LimitsFit
    <3> QED
      BY <3>1, <3>2
  <2>10. FlagsFit'
    BY ZenonT(60), <1>1, <1>3, <2>1, <2>4, <2>5, <2>7, RoleSaved
  <2>11. DeletesFit' /\ OnlyEmptyIsDeleted'
    <3>1. ASSUME NEW g \in Handlers, Unforced(job'[g])
          PROVE  {q \in People : There(q)'} \subseteq history'.late
      <4>1. job'[g] = job[g]
        BY <3>1, <2>7 DEF Others
      <4>2. {q \in People : There(q)} \subseteq history.late
        BY <3>1, <4>1 DEF EInv, DeletesFit
      <4>3. Running("delete")
        BY <3>1, <4>1 DEF Unforced, Running
      <4> QED
        BY <4>2, <4>3, <2>4, <2>5 DEF There, When
    <3>2. DeletesFit'
      BY <3>1 DEF DeletesFit, Unforced
    <3> QED
      BY <3>2, <2>5 DEF EInv, OnlyEmptyIsDeleted
  <2>12. PricesFit' /\ PricesAreKept'
    <3>1. PricesFit'
      BY <2>2, <2>4 DEF EInv, PricesFit
    <3>2. PricesAreKept'
      BY <2>2, <2>4, <2>5 DEF EInv, PricesAreKept, There, Priced, AmountDue
    <3> QED
      BY <3>1, <3>2
  <2>13. LooksFit'
    <3>1. ASSUME NEW g \in Handlers PROVE Looks(job'[g], con', regs')
      <4>1. CASE g = h
        BY <4>1, <2>7, DoneFits DEF Looks
      <4>2. CASE g # h
        <5>1. job'[g] = job[g] /\ Looks(job[g], con, regs) /\ job[g] \in Job
          BY <4>2, <2>7 DEF Others, EInv, LooksFit, Typed
        <5>2. job[g].rows \subseteq People
          BY <5>1 DEF Job
        <5>3. job[g].kind \in {"prices", "unpaid"} => p \notin job[g].rows
          BY <1>3, <5>1 DEF Looks, There
        <5> QED
          BY <1>3, <2>3, <2>4, <5>1, <5>2, <5>3 DEF Looks
      <4> QED
        BY <4>1, <4>2
    <3> QED
      BY <3>1 DEF LooksFit, Looks
  <2>14. MailsFit'
    BY <1>1, <1>3, <2>1, <2>2, <2>4, <2>6, <2>7, NewcomersMails
  <2>15. RemindsFit'
    <3>1. \A q \in People :
            \/ SameRow(regs[q], regs'[q]) /\ SameCount(regs[q], regs'[q])
            \/ ~There(q) /\ con.exists /\ regs'[q].sent = 0
      BY <1>3, <2>2, <2>4 DEF SameRow, SameCount
    <3> QED
      BY <1>1, <2>1, <2>3, <2>6, <2>7, <3>1, RemindsStay DEF EInv, SameMail
  <2> QED
    BY <2>7, <2>8, <2>9, <2>10, <2>11, <2>12, <2>13, <2>14, <2>15 DEF EInv
<1> QED
  BY <1>2, <1>3

LEMMA WriteFormKeeps ==
    ASSUME EInv, NEW h \in Handlers, WriteForm(h)
    PROVE  EInv'
<1> DEFINE j == job[h] p == job[h].person
<1>1. /\ j \in Job /\ j.kind = "request" /\ Fits(j) /\ Tail(j.todo) = <<>> /\ p \in People
      /\ j.todo \notin {Sending, Unpaid1} /\ Doing(h, "write")
  BY RequestIs DEF WriteForm
<1>2. CASE ~There(p)
  BY <1>1, <1>2, RefuseKeeps DEF WriteForm
<1>3. CASE There(p)
  <2>1. /\ regs' = [regs EXCEPT ![p].flag = j.reg.flag]
        /\ history' = [history EXCEPT !.crossed = @ \/ Stale(j)]
        /\ Then(h, Left(j)) /\ UNCHANGED <<day, events, mails>>
    BY <1>3 DEF WriteForm
  <2>2. /\ regs \in [People -> Reg] /\ events \in [Names -> Event] /\ mails \in Mails
        /\ history \in Past /\ con' = con /\ j.reg.flag \in Roles
    BY <1>1, <2>1 DEF EInv, Typed, con, Job, Reg, Roles
  <2>3. PICK r : r = [regs[p] EXCEPT !.flag = j.reg.flag]
    OBVIOUS
  <2>4. /\ r \in Reg /\ r.flag = j.reg.flag /\ SameRow(regs[p], r) /\ SamePrice(regs[p], r)
        /\ SameMail(regs[p], r)
    <3>1. regs[p] \in Reg
      BY <1>1, <2>2
    <3> QED
      BY <1>3, <2>2, <2>3, <3>1 DEF Reg, Roles, SameRow, SamePrice, SameMail, SameCount, There
  <2>5. /\ regs' \in [People -> Reg] /\ regs'[p] = r
        /\ \A q \in People \ {p} : regs'[q] = regs[q]
    BY <1>1, <2>1, <2>2, <2>3, <2>4
  <2>6. /\ history' \in Past /\ Grows(history, history')
        /\ history'.crossed = (history.crossed \/ Stale(j))
        /\ history'.stopped = history.stopped
    <3>1. Stale(j) \in BOOLEAN
      BY DEF Stale
    <3> QED
      BY <2>1, <2>2, <3>1 DEF Past, Grows
  <2>7. /\ Typed' /\ JobsFit' /\ Others(h) /\ job' \in [Handlers -> Job]
        /\ job'[h] = Done /\ job'[h].kind = "none" /\ ~Unforced(job'[h])
        /\ job'[h].todo \notin {Sending, Unpaid1, Prices1} /\ Looks(job'[h], con, regs)
    BY <1>1, <2>1, <2>2, <2>5, <2>6, Ends
  <2>8. \A q \in People : /\ SameRow(regs[q], regs'[q]) /\ SamePrice(regs[q], regs'[q])
                          /\ SameMail(regs[q], regs'[q])
    BY <2>4, <2>5 DEF SameRow, SamePrice, SameMail, SameCount
  <2>9. RowsFit' /\ SettingsFit'
    BY <2>1, <2>6, <2>8, RowsStay, SettingsStay DEF EInv, SamePrice, Grows
  <2>10. FlagsFit'
    <3>1. con.exists
      BY <1>1, <1>3 DEF EInv, RowsFit
    <3> QED
      BY <1>1, <3>1, <2>1, <2>4, <2>5, <2>6, <2>7, RoleSaved
  <2>11. DeletesFit' /\ OnlyEmptyIsDeleted' /\ PricesFit' /\ PricesAreKept'
    BY <2>6, <2>7, <2>8, DeletesStay, PricesStay DEF EInv
  <2>12. LooksFit'
    BY <2>2, <2>7, <2>8, LooksStay DEF EInv
  <2>13. MailsFit'
    BY <1>1, <2>1, <2>2, <2>6, <2>7, <2>8, MailsStay DEF EInv, SameMail
  <2>14. RemindsFit'
    BY <1>1, <2>1, <2>2, <2>6, <2>7, <2>8, RemindsStay DEF EInv, SameMail
  <2> QED
    BY <2>7, <2>9, <2>10, <2>11, <2>12, <2>13, <2>14 DEF EInv
<1> QED
  BY <1>2, <1>3

LEMMA WriteExtraKeeps ==
    ASSUME EInv, NEW h \in Handlers, WriteExtra(h)
    PROVE  EInv'
<1> DEFINE j == job[h] p == job[h].person
<1>1. /\ j \in Job /\ j.kind = "request" /\ Fits(j) /\ Tail(j.todo) = <<>> /\ p \in People
      /\ j.todo \notin {Sending, Unpaid1} /\ Doing(h, "extra")
  BY RequestIs DEF WriteExtra
<1>2. CASE ~(regs[p].status = "open" /\ ~regs[p].paid)
  BY <1>1, <1>2, RefuseKeeps DEF WriteExtra
<1>3. CASE regs[p].status = "open" /\ ~regs[p].paid
  <2>0. PICK due : due = IF regs[p].due = NoPrice THEN 0 ELSE regs[p].due
    OBVIOUS
  <2>1. PICK owed : owed = IF regs[p].due = NoPrice /\ j.reg.extra = 0 THEN NoPrice
                           ELSE IF due + j.reg.extra - regs[p].extra > 0
                                THEN due + j.reg.extra - regs[p].extra ELSE 0
    OBVIOUS
  <2>2. /\ regs' = [regs EXCEPT ![p].extra = j.reg.extra, ![p].due = owed]
        /\ history' = [history EXCEPT !.crossed = @ \/ Stale(j),
                         !.unpriced = @ \cup When(regs[p].list = NoPrice, {p})]
        /\ Then(h, Left(j)) /\ UNCHANGED <<day, events, mails>>
    BY <1>3, <2>0, <2>1 DEF WriteExtra
  <2>3. /\ regs \in [People -> Reg] /\ events \in [Names -> Event] /\ mails \in Mails
        /\ history \in Past /\ con' = con /\ j.reg.extra \in {0, 1}
    BY <1>1, <2>2 DEF EInv, Typed, con, Job, Reg
  <2>4. /\ regs[p] \in Reg /\ regs[p].due \in Nat \cup {NoPrice} /\ regs[p].extra \in {0, 1}
        /\ regs[p].list \in Nat \cup {NoPrice}
    BY <1>1, <2>3 DEF Reg
  <2>5. owed \in Nat \cup {NoPrice}
    BY <2>0, <2>1, <2>3, <2>4 DEF NoPrice
  <2>6. PICK r : r = [regs[p] EXCEPT !.extra = j.reg.extra, !.due = owed]
    OBVIOUS
  <2>7. /\ r \in Reg /\ SameRow(regs[p], r) /\ SameMail(regs[p], r) /\ r.flag = regs[p].flag
        /\ r.extra = j.reg.extra /\ r.due = owed /\ r.list = regs[p].list /\ ~r.paid
        /\ r.paidFor = regs[p].paidFor
    BY <1>3, <2>3, <2>4, <2>5, <2>6 DEF Reg, SameRow, SameMail, SameCount
  <2>8. /\ regs' \in [People -> Reg] /\ regs'[p] = r
        /\ \A q \in People \ {p} : regs'[q] = regs[q]
    BY <1>1, <2>2, <2>3, <2>6, <2>7
  <2>9. /\ history' \in Past /\ Grows(history, history')
        /\ history'.crossed = (history.crossed \/ Stale(j))
        /\ history'.unpriced = history.unpriced \cup When(regs[p].list = NoPrice, {p})
    <3>1. Stale(j) \in BOOLEAN /\ When(regs[p].list = NoPrice, {p}) \subseteq People
      BY <1>1 DEF Stale, When
    <3> QED
      BY <2>2, <2>3, <3>1 DEF Past, Grows
  <2>10. /\ Typed' /\ JobsFit' /\ Others(h) /\ job' \in [Handlers -> Job]
         /\ job'[h] = Done /\ job'[h].kind = "none" /\ ~Unforced(job'[h])
         /\ job'[h].todo \notin {Sending, Unpaid1, Prices1} /\ Looks(job'[h], con, regs)
    BY <1>1, <2>2, <2>3, <2>8, <2>9, Ends
  <2>11. \A q \in People : /\ SameRow(regs[q], regs'[q]) /\ SameMail(regs[q], regs'[q])
                           /\ regs'[q].flag = regs[q].flag
    BY <2>7, <2>8 DEF SameRow, SameMail, SameCount
  <2>12. RowsFit'
    BY <2>2, <2>11, RowsStay DEF EInv
  <2>13. SettingsFit'
    <3>1. CASE history'.crossed
      BY <3>1 DEF SettingsFit
    <3>2. CASE ~history'.crossed
      <4>1. j.reg.extra = 1 => con.offered
        BY <3>2, <2>9 DEF Stale
      <4> QED
        BY <3>2, <4>1, <2>2, <2>3, <2>7, <2>8, <2>9 DEF EInv, SettingsFit, LimitsFit
    <3> QED
      BY <3>1, <3>2
  <2>14. FlagsFit'
    BY <1>1, <2>3, <2>9, <2>10, <2>11, FlagsStay DEF EInv
  <2>15. DeletesFit' /\ OnlyEmptyIsDeleted'
    BY <2>9, <2>10, <2>11, DeletesStay DEF EInv
  <2>16. PricesFit' /\ PricesAreKept'
    <3>1. PricesFit'
      BY <1>1, <1>3, <2>7, <2>8 DEF EInv, PricesFit
    <3>2. p \notin history'.unpriced => owed = AmountDue(r.list, r.extra)
      <4>1. CASE p \notin history'.unpriced
        <5>1. regs[p].list # NoPrice /\ p \notin history.unpriced
          BY <4>1, <2>9 DEF When
        <5>2. regs[p].due = AmountDue(regs[p].list, regs[p].extra)
          BY <1>1, <1>3, <5>1 DEF EInv, PricesAreKept, There
        <5>3. regs[p].list \in Nat /\ regs[p].due = regs[p].list + regs[p].extra
          BY <5>1, <5>2, <2>4 DEF AmountDue
        <5>4. owed = regs[p].list + j.reg.extra
          BY <5>3, <2>0, <2>1, <2>3, <2>4 DEF NoPrice
        <5> QED
          BY <5>1, <5>4, <2>7 DEF AmountDue
      <4> QED
        BY <4>1
    <3>3. PricesAreKept'
      <4>1. \A q \in People \ {p} : q \notin history'.unpriced => q \notin history.unpriced
        BY <2>9
      <4>2. ASSUME NEW q \in People
            PROVE  /\ regs'[q].paid => regs'[q].due = regs'[q].paidFor
                   /\ There(q)' /\ q \notin history'.unpriced =>
                        regs'[q].due = AmountDue(regs'[q].list, regs'[q].extra)
        <5>1. CASE q = p
          BY <3>2, <5>1, <2>7, <2>8
        <5>2. CASE q # p
          BY <4>1, <5>2, <2>8 DEF EInv, PricesAreKept, There
        <5> QED
          BY <5>1, <5>2
      <4> QED
        BY <4>2 DEF PricesAreKept, AmountDue
    <3> QED
      BY <3>1, <3>3
  <2>17. LooksFit'
    BY <2>3, <2>10, <2>11, LooksStay DEF EInv
  <2>18. MailsFit'
    BY <1>1, <2>2, <2>3, <2>9, <2>10, <2>11, MailsStay DEF EInv, SameMail
  <2>19. RemindsFit'
    BY <1>1, <2>2, <2>3, <2>9, <2>10, <2>11, RemindsStay DEF EInv, SameMail
  <2> QED
    BY <2>10, <2>12, <2>13, <2>14, <2>15, <2>16, <2>17, <2>18, <2>19 DEF EInv
<1> QED
  BY <1>2, <1>3

-----------------------------------------------------------------------------
(* The statements of requests on events *)

\* A last statement that changes events only.
LEMMA EventsKeep ==
    ASSUME EInv, NEW h \in Handlers, NEW what, Doing(h, what),
           Tail(job[h].todo) = <<>>, job[h].todo \notin {Sending, Unpaid1}, Then(h, Left(job[h])),
           UNCHANGED <<day, regs, mails>>, events' \in [Names -> Event],
           history' \in Past, Grows(history, history'), con'.exists = con.exists,
           IF job[h].kind = "rename" THEN FlagsFit' ELSE con'.flags = con.flags,
           con'.table = con.table \/ history'.repriced,
           \A name \in Names : ~events'[name].exists => events'[name] = NoEvent,
           SettingsFit'
    PROVE  EInv'
<1>2. regs' \in [People -> Reg] /\ mails' \in Mails
  BY DEF EInv, Typed
<1>3. /\ Typed' /\ JobsFit' /\ Others(h) /\ job' \in [Handlers -> Job]
      /\ job'[h] = Done /\ job'[h].kind = "none" /\ ~Unforced(job'[h])
      /\ job'[h].todo \notin {Sending, Unpaid1, Prices1} /\ Looks(job'[h], con, regs)
  BY <1>2, Ends
<1>4. \A q \in People : /\ SameRow(regs[q], regs'[q]) /\ SameMail(regs[q], regs'[q])
                        /\ SamePrice(regs[q], regs'[q]) /\ regs'[q].flag = regs[q].flag
  BY DEF SameRow, SameMail, SameCount, SamePrice
<1>5. RowsFit'
  <2>1. \A q \in People : There(q)' => con'.exists
    BY DEF EInv, RowsFit, There
  <2> QED
    BY <2>1 DEF EInv, RowsFit, There
<1>6. FlagsFit'
  BY <1>3, <1>4, FlagsStay DEF EInv
<1>7. DeletesFit' /\ OnlyEmptyIsDeleted' /\ PricesFit' /\ PricesAreKept'
  BY <1>3, <1>4, DeletesStay, PricesStay DEF EInv
<1>8. LooksFit'
  BY <1>3, <1>4, LooksStay DEF EInv
<1>9. MailsFit'
  <2>1. CASE history'.repriced
    BY <2>1 DEF MailsFit
  <2>2. CASE con'.table = con.table
    BY <2>2, <1>3, <1>4, MailsStay DEF EInv, SameMail
  <2> QED
    BY <2>1, <2>2
<1>10. RemindsFit'
  BY <1>3, <1>4, RemindsStay DEF EInv, SameMail
<1> QED
  BY <1>3, <1>5, <1>6, <1>7, <1>8, <1>9, <1>10 DEF EInv

LEMMA SetActiveKeeps ==
    ASSUME EInv, NEW h \in Handlers, SetActive(h)
    PROVE  EInv'
<1>1. /\ Doing(h, "activate") /\ Then(h, Left(job[h])) /\ UNCHANGED <<day, regs, mails, history>>
      /\ events' = [n \in Names |->
                      [events[n] EXCEPT !.active = events[n].exists /\ n = job[h].name]]
  BY DEF SetActive
<1>2. events \in [Names -> Event] /\ "con" \in Names /\ history \in Past
  BY DEF EInv, Typed, Names
<1>3. \A n \in Names :
         /\ events'[n] \in Event /\ events'[n].active = (events[n].exists /\ n = job[h].name)
         /\ events'[n].exists = events[n].exists /\ events'[n].code = events[n].code
         /\ events'[n].capacity = events[n].capacity /\ events'[n].hard = events[n].hard
         /\ events'[n].flags = events[n].flags /\ events'[n].offered = events[n].offered
         /\ events'[n].table = events[n].table
  BY <1>1, <1>2 DEF Event
<1>4. ASSUME NEW n \in Names, ~events'[n].exists PROVE events'[n] = NoEvent
  <2>1. events[n] = NoEvent /\ ~events[n].exists
    BY <1>3, <1>4 DEF EInv, RowsFit
  <2>2. events'[n] = [events[n] EXCEPT !.active = FALSE]
    BY <1>1, <2>1
  <2>3. [NoEvent EXCEPT !.active = FALSE] = NoEvent
    <3>1. NoEvent \in Event /\ NoEvent.active = FALSE
      BY Constants DEF NoEvent
    <3> QED
      BY <3>1 DEF Event
  <2> QED
    BY <2>1, <2>2, <2>3
<1>5. events' \in [Names -> Event]
  BY <1>1, <1>3
<1>6. con'.exists = con.exists /\ con'.flags = con.flags /\ con'.table = con.table
      /\ con'.offered = con.offered
  BY <1>2, <1>3 DEF con
<1>7. SettingsFit'
  <2>1. \A n \in Names : LimitsFit(events[n]) => LimitsFit(events'[n])
    BY <1>3 DEF LimitsFit
  <2>2. CASE history.crossed
    BY <1>1, <2>2 DEF SettingsFit
  <2>3. CASE ~history.crossed
    <3>1. /\ \A n \in Names : LimitsFit(events[n])
          /\ \A n, m \in Names : n # m /\ events[n].code = events[m].code => events[n].code = "none"
          /\ \A q \in People : regs[q].extra = 1 => con.offered
      BY <2>3 DEF EInv, SettingsFit
    <3>2. \A n \in Names : LimitsFit(events'[n])
      BY <2>1, <3>1
    <3>3. \A n, m \in Names : n # m /\ events'[n].code = events'[m].code => events'[n].code = "none"
      BY <1>3, <3>1
    <3>4. \A n, m \in Names : events'[n].active /\ events'[m].active => n = m
      BY <1>3
    <3>5. \A q \in People : regs'[q].extra = 1 => con'.offered
      BY <1>1, <1>6, <3>1
    <3> QED
      BY <3>2, <3>3, <3>4, <3>5 DEF SettingsFit, LimitsFit
  <2> QED
    BY <2>2, <2>3
<1>8. Grows(history, history') /\ history' \in Past
  BY <1>1, <1>2 DEF Grows
<1>9. /\ job[h].kind # "rename" /\ Tail(job[h].todo) = <<>>
      /\ job[h].todo \notin {Sending, Unpaid1}
  BY <1>1, RequestIs
<1> QED
  BY <1>1, <1>4, <1>5, <1>6, <1>7, <1>8, <1>9, EventsKeep

LEMMA InsertEventKeeps ==
    ASSUME EInv, NEW h \in Handlers, InsertEvent(h)
    PROVE  EInv'
<1> DEFINE e == job[h].event
<1>1. /\ Doing(h, "insert") /\ Then(h, Left(job[h])) /\ UNCHANGED <<day, regs, mails>>
      /\ events' = [events EXCEPT !["next"] = e]
      /\ history' = [history EXCEPT
                       !.crossed = @ \/ (e.code # "none" /\ Taken(e.code, "next"))]
  BY DEF InsertEvent
<1>2. events \in [Names -> Event] /\ Names = {"con", "next"} /\ history \in Past
  BY DEF EInv, Typed, Names
<1>3. /\ job[h] \in Job /\ Fits(job[h]) /\ job[h].todo = Insert1
  BY <1>1, RequestIs
<1>4. e \in Event /\ e.exists /\ ~e.active /\ LimitsFit(e)
  BY <1>3 DEF Fits, Validated, Job
<1>5. events' \in [Names -> Event] /\ events'["next"] = e /\ events'["con"] = events["con"]
  BY <1>1, <1>2, <1>4
<1>6. con' = con
  BY <1>5 DEF con
<1>7. /\ history' \in Past /\ Grows(history, history')
      /\ history'.crossed = (history.crossed \/ (e.code # "none" /\ Taken(e.code, "next")))
  <2>1. (e.code # "none" /\ Taken(e.code, "next")) \in BOOLEAN
    BY DEF Taken
  <2> QED
    BY <1>1, <1>2, <2>1 DEF Past, Grows
<1>8. SettingsFit'
  <2>1. CASE history'.crossed
    BY <2>1 DEF SettingsFit
  <2>2. CASE ~history'.crossed
    <3>1. events["con"].code = e.code => e.code = "none"
      <4>1. e.code # "none" => ~(events["con"].exists /\ events["con"].code = e.code)
        BY <1>2, <1>7, <2>2 DEF Taken
      <4>2. ~events["con"].exists => events["con"].code = "none"
        BY <1>2 DEF EInv, RowsFit, NoEvent
      <4> QED
        BY <4>1, <4>2
    <3> QED
      BY <1>1, <1>2, <1>4, <1>5, <1>6, <1>7, <2>2, <3>1 DEF EInv, SettingsFit, LimitsFit
  <2> QED
    BY <2>1, <2>2
<1>9. \A n \in Names : ~events'[n].exists => events'[n] = NoEvent
  BY <1>2, <1>4, <1>5 DEF EInv, RowsFit
<1>10. /\ job[h].kind # "rename" /\ Tail(job[h].todo) = <<>>
       /\ job[h].todo \notin {Sending, Unpaid1}
  BY <1>1, RequestIs
<1> QED
  BY <1>1, <1>5, <1>6, <1>7, <1>8, <1>9, <1>10, EventsKeep

\* What an UPDATE leaves in the row: what the body changed, and what the row has.
LEMMA ChangedIs ==
    ASSUME NEW row \in Event, NEW was \in Event, NEW next \in Event
    PROVE  LET e == Changed(row, was, next)
           IN  /\ e \in Event /\ e.exists = row.exists /\ e.active = row.active
               /\ e.capacity = IF next.capacity # was.capacity THEN next.capacity ELSE row.capacity
               /\ e.hard = IF next.hard # was.hard THEN next.hard ELSE row.hard
               /\ e.flags = IF next.flags # was.flags THEN next.flags ELSE row.flags
               /\ e.offered = IF next.offered # was.offered THEN next.offered ELSE row.offered
               /\ e.table = IF next.table # was.table THEN next.table ELSE row.table
               /\ e.code = IF next.code # was.code THEN next.code ELSE row.code
<1>1. PICK capacity \in Limit :
        capacity = IF next.capacity # was.capacity THEN next.capacity ELSE row.capacity
  BY DEF Event
<1>2. PICK hard \in Limit : hard = IF next.hard # was.hard THEN next.hard ELSE row.hard
  BY DEF Event
<1>3. PICK flags \in SUBSET Flags :
        flags = IF next.flags # was.flags THEN next.flags ELSE row.flags
  BY DEF Event
<1>4. PICK offered \in BOOLEAN :
        offered = IF next.offered # was.offered THEN next.offered ELSE row.offered
  BY DEF Event
<1>5. PICK table \in Tables :
        table = IF next.table # was.table THEN next.table ELSE row.table
  BY DEF Event
<1>6. PICK code \in Codes : code = IF next.code # was.code THEN next.code ELSE row.code
  BY DEF Event
<1>7. Changed(row, was, next) =
        [row EXCEPT !.capacity = capacity, !.hard = hard, !.flags = flags, !.offered = offered,
                    !.table = table, !.code = code]
  BY <1>1, <1>2, <1>3, <1>4, <1>5, <1>6 DEF Changed
<1>8. PICK e : e = [row EXCEPT !.capacity = capacity, !.hard = hard, !.flags = flags,
                               !.offered = offered, !.table = table, !.code = code]
  OBVIOUS
<1>9. /\ e \in Event /\ e.exists = row.exists /\ e.active = row.active
      /\ e.capacity = capacity /\ e.hard = hard /\ e.flags = flags /\ e.offered = offered
      /\ e.table = table /\ e.code = code
  BY <1>8 DEF Event
<1>10. Changed(row, was, next) = e
  BY <1>7, <1>8
<1> QED
  BY <1>1, <1>2, <1>3, <1>4, <1>5, <1>6, <1>9, <1>10

LEMMA UpdateKeeps ==
    ASSUME EInv, NEW h \in Handlers, Update(h)
    PROVE  EInv'
<1> DEFINE j == job[h]
<1>1. /\ Doing(h, "update") /\ Then(h, Left(j)) /\ UNCHANGED <<day, regs, mails>>
      /\ events' = IF events[j.name].exists
                   THEN [events EXCEPT ![j.name] = Changed(@, j.was, j.event)] ELSE events
      /\ history' = [history EXCEPT !.crossed = @ \/ Crossed(h),
                                    !.repriced = @ \/ j.was.table # j.event.table]
  BY DEF Update
<1>2. /\ events \in [Names -> Event] /\ Names = {"con", "next"} /\ history \in Past
      /\ regs \in [People -> Reg]
  BY DEF EInv, Typed, Names
<1>3. j \in Job /\ Fits(j) /\ Listed(j)
  BY JobIs
<1>4. /\ j.name \in Names /\ j.was \in Event /\ j.event \in Event
  BY <1>3 DEF Job
<1>5. j.todo = Put1 /\ Tail(j.todo) = <<>> /\ j.todo \notin {Sending, Unpaid1}
  BY <1>1, <1>3, WhereItIs, PutFollows, JobFollows DEF Doing, Follows
<1>6. j.kind \in {"put", "rename"}
  BY <1>3, <1>5, KindIs DEF PutLeft
<1>7. PICK e : e = IF events[j.name].exists THEN Changed(events[j.name], j.was, j.event)
                   ELSE events[j.name]
  OBVIOUS
<1>8. /\ e \in Event /\ e.exists = events[j.name].exists /\ e.active = events[j.name].active
      /\ ~e.exists => e = events[j.name]
      /\ e.exists =>
           /\ e.capacity = IF j.event.capacity # j.was.capacity THEN j.event.capacity
                           ELSE events[j.name].capacity
           /\ e.hard = IF j.event.hard # j.was.hard THEN j.event.hard ELSE events[j.name].hard
           /\ e.flags = IF j.event.flags # j.was.flags THEN j.event.flags
                        ELSE events[j.name].flags
           /\ e.offered = IF j.event.offered # j.was.offered THEN j.event.offered
                          ELSE events[j.name].offered
           /\ e.table = IF j.event.table # j.was.table THEN j.event.table
                        ELSE events[j.name].table
           /\ e.code = IF j.event.code # j.was.code THEN j.event.code ELSE events[j.name].code
  <2>1. events[j.name] \in Event
    BY <1>2, <1>4
  <2>2. CASE events[j.name].exists
    <3>1. PICK row \in Event, was \in Event, next \in Event :
            row = events[j.name] /\ was = j.was /\ next = j.event
      BY <1>4, <2>1
    <3>2. e = Changed(row, was, next)
      BY <1>7, <2>2, <3>1
    <3>3. /\ e \in Event /\ e.exists = row.exists /\ e.active = row.active
          /\ e.capacity = IF next.capacity # was.capacity THEN next.capacity ELSE row.capacity
          /\ e.hard = IF next.hard # was.hard THEN next.hard ELSE row.hard
          /\ e.flags = IF next.flags # was.flags THEN next.flags ELSE row.flags
          /\ e.offered = IF next.offered # was.offered THEN next.offered ELSE row.offered
          /\ e.table = IF next.table # was.table THEN next.table ELSE row.table
          /\ e.code = IF next.code # was.code THEN next.code ELSE row.code
      BY <3>2, ChangedIs
    <3> QED
      BY <2>2, <3>1, <3>3
  <2>3. CASE ~events[j.name].exists
    BY <1>7, <2>1, <2>3
  <2> QED
    BY <2>2, <2>3
<1>9. /\ events' \in [Names -> Event] /\ events'[j.name] = e
      /\ \A n \in Names \ {j.name} : events'[n] = events[n]
  <2>1. events' = [events EXCEPT ![j.name] = e]
    BY <1>1, <1>2, <1>4, <1>7
  <2> QED
    BY <1>2, <1>4, <1>8, <2>1
<1>10. /\ history' \in Past /\ Grows(history, history')
       /\ history'.crossed = (history.crossed \/ Crossed(h))
       /\ history'.repriced = (history.repriced \/ j.was.table # j.event.table)
       /\ history'.stopped = history.stopped
  <2>1. Crossed(h) \in BOOLEAN
    BY DEF Crossed
  <2> QED
    BY <1>1, <1>2, <2>1 DEF Past, Grows
<1>11. con = events["con"] /\ con' = events'["con"]
  BY DEF con
<1>12. con'.exists = con.exists /\ (con'.table = con.table \/ history'.repriced)
  BY <1>2, <1>8, <1>9, <1>10, <1>11
<1>13. \A n \in Names : ~events'[n].exists => events'[n] = NoEvent
  BY <1>2, <1>4, <1>8, <1>9 DEF EInv, RowsFit
<1>14. j.kind # "rename" => con'.flags = con.flags
  BY <1>2, <1>3, <1>6, <1>8, <1>9, <1>11 DEF Fits, Validated
<1>15. SettingsFit'
  <2>1. CASE history'.crossed
    BY <2>1 DEF SettingsFit
  <2>2. CASE ~history'.crossed /\ ~e.exists
    <3>1. events' = events
      BY <1>1, <1>8, <2>2
    <3> QED
      BY <1>1, <1>10, <2>2, <3>1 DEF EInv, SettingsFit, LimitsFit, con
  <2>3. CASE ~history'.crossed /\ e.exists
    <3>1. /\ \A n \in Names : LimitsFit(events[n])
          /\ \A n, m \in Names : n # m /\ events[n].code = events[m].code => events[n].code = "none"
          /\ \A n, m \in Names : events[n].active /\ events[m].active => n = m
          /\ \A q \in People : regs[q].extra = 1 => con.offered
      BY <1>10, <2>3 DEF EInv, SettingsFit
    <3>2. /\ ~(j.event.code \notin {"none", j.was.code} /\ Taken(j.event.code, j.name))
          /\ ~(j.was.offered /\ ~j.event.offered /\ Booked)
          /\ ~(Limits(j.event) # Limits(j.was) /\ Limits(events[j.name]) # Limits(j.was))
      BY <1>10, <2>3 DEF Crossed
    <3>3. LimitsFit(e)
      <4>1. CASE Limits(j.event) = Limits(j.was)
        BY <1>4, <1>8, <2>3, <3>1, <4>1 DEF Limits, LimitsFit
      <4>2. CASE Limits(events[j.name]) = Limits(j.was)
        <5>1. LimitsFit(j.event)
          BY <1>3, <1>6 DEF Fits, Validated
        <5>2. e.capacity = j.event.capacity /\ e.hard = j.event.hard
          BY <1>8, <2>3, <4>2 DEF Limits
        <5> QED
          BY <5>1, <5>2 DEF LimitsFit
      <4> QED
        BY <3>2, <4>1, <4>2
    <3>4. \A n \in Names : LimitsFit(events'[n])
      BY <1>9, <3>1, <3>3
    <3>5. \A n \in Names \ {j.name} : e.code = events[n].code => e.code = "none"
      <4>1. CASE j.event.code = j.was.code
        BY <1>4, <1>8, <2>3, <3>1, <4>1
      <4>2. CASE j.event.code # j.was.code
        <5>1. e.code = j.event.code
          BY <1>8, <2>3, <4>2
        <5>2. \A n \in Names : ~events[n].exists => events[n].code = "none"
          BY DEF EInv, RowsFit, NoEvent
        <5> QED
          BY <3>2, <4>2, <5>1, <5>2 DEF Taken
      <4> QED
        BY <4>1, <4>2
    <3>6. \A n, m \in Names : n # m /\ events'[n].code = events'[m].code => events'[n].code = "none"
      BY <1>4, <1>9, <3>1, <3>5
    <3>7. \A n, m \in Names : events'[n].active /\ events'[m].active => n = m
      BY <1>4, <1>8, <1>9, <3>1
    <3>8. \A q \in People : regs'[q].extra = 1 => con'.offered
      <4>1. CASE j.name # "con"
        BY <1>1, <1>2, <1>9, <1>11, <3>1, <4>1
      <4>2. CASE j.name = "con"
        <5>1. j.event.offered \in BOOLEAN /\ j.was.offered \in BOOLEAN
          BY <1>4 DEF Event
        <5> QED
          BY <1>1, <1>8, <1>9, <1>11, <2>3, <3>1, <3>2, <4>2, <5>1 DEF Booked
      <4> QED
        BY <4>1, <4>2
    <3> QED
      BY <3>4, <3>6, <3>7, <3>8 DEF SettingsFit, LimitsFit
  <2> QED
    BY <2>1, <2>2, <2>3
<1>16. CASE j.kind # "rename"
  BY <1>1, <1>5, <1>9, <1>10, <1>12, <1>13, <1>14, <1>15, <1>16, EventsKeep
<1>17. CASE j.kind = "rename"
  <2>1. j.name = "con"
    BY <1>3, <1>17 DEF Fits, Validated
  <2>2. mails \in Mails /\ regs' \in [People -> Reg] /\ mails' \in Mails
    BY <1>1 DEF EInv, Typed
  <2>3. Others(h) /\ job'[h].kind = "none"
    BY <1>1, <1>5, <1>9, <1>10, <2>2, Ends
  <2>4. FlagsFit'
    <3>1. CASE history'.crossed \/ history'.stopped
      BY <3>1 DEF FlagsFit
    <3>2. CASE ~history'.crossed /\ ~history'.stopped
      <4>1. \A g \in Handlers \ {h} : job[g].kind # "rename"
        BY <1>10, <1>17, <3>2 DEF Crossed
      <4>2. FlagsKnown
        BY <1>10, <3>2, <4>1 DEF EInv, FlagsFit, Overlapping
      <4>3. \A q \in People : regs[q].flag \in j.event.flags \cup {NoFlag}
        BY <1>5, <1>17, <4>2 DEF FlagsKnown, Current
      <4>4. con.exists => con'.flags = j.event.flags
        BY <1>8, <1>9, <1>11, <1>17, <2>1, <4>2 DEF FlagsKnown
      <4>5. ~con.exists => \A q \in People : regs[q].flag = NoFlag
        BY DEF EInv, RowsFit, NoReg
      <4>6. \A q \in People : regs'[q].flag \in con'.flags \cup {NoFlag}
        BY <1>1, <4>3, <4>4, <4>5
      <4>7. \A g \in Handlers : job'[g].kind # "rename"
        BY <2>3, <4>1 DEF Others
      <4>8. FlagsKnown'
        BY <4>6, <4>7 DEF FlagsKnown
      <4> QED
        BY <4>8 DEF FlagsFit
    <3> QED
      BY <3>1, <3>2
  <2> QED
    BY <1>1, <1>5, <1>9, <1>10, <1>12, <1>13, <1>15, <1>17, <2>4, EventsKeep
<1> QED
  BY <1>16, <1>17

LEMMA DeleteRowKeeps ==
    ASSUME EInv, NEW h \in Handlers, DeleteRow(h)
    PROVE  EInv'
<1> DEFINE j == job[h]
           gone == When(j.name = "con", {p \in People : There(p)})
<1>1. /\ Doing(h, "delete") /\ Then(h, Left(j)) /\ UNCHANGED <<day, mails>>
      /\ events' = [events EXCEPT ![j.name] = NoEvent]
      /\ regs' = [p \in People |-> IF p \in gone THEN NoReg ELSE regs[p]]
      /\ history' = [history EXCEPT !.lost = @ \cup When(~j.force, gone)]
  BY DEF DeleteRow
<1>2. /\ events \in [Names -> Event] /\ Names = {"con", "next"} /\ history \in Past
      /\ regs \in [People -> Reg] /\ mails \in Mails
  BY DEF EInv, Typed, Names
<1>3. j \in Job /\ Fits(j) /\ Listed(j) /\ j.name \in Names
  BY JobIs DEF Job
<1>4. j.todo = Deleting /\ Tail(j.todo) = <<>> /\ j.todo \notin {Sending, Unpaid1}
      /\ j.kind = "delete"
  BY <1>1, <1>3, WhereItIs, RequestFollows, JobFollows, KindIs DEF Doing, Follows
<1>5. /\ events' \in [Names -> Event] /\ events'[j.name] = NoEvent
      /\ \A n \in Names \ {j.name} : events'[n] = events[n]
  BY <1>1, <1>2, <1>3, Constants
<1>6. gone \subseteq People
  BY DEF When
<1>7. /\ regs' \in [People -> Reg]
      /\ \A p \in People : regs'[p] = IF p \in gone THEN NoReg ELSE regs[p]
  BY <1>1, <1>2, Constants
<1>8. /\ history' \in Past /\ history'.crossed = history.crossed
      /\ history'.stopped = history.stopped /\ history'.repriced = history.repriced
      /\ history'.late = history.late /\ history'.unpriced = history.unpriced
      /\ history'.unsent = history.unsent /\ history'.uncounted = history.uncounted
      /\ history'.doubled = history.doubled
      /\ history'.lost = history.lost \cup When(~j.force, gone)
  <2>1. When(~j.force, gone) \subseteq People
    BY <1>6 DEF When
  <2> HIDE DEF gone
  <2> QED
    BY <1>1, <1>2, <2>1 DEF Past
<1>9. con = events["con"] /\ con' = events'["con"]
  BY DEF con
<1>10. NoEvent.code = "none" /\ ~NoEvent.active /\ ~NoEvent.exists /\ LimitsFit(NoEvent)
  BY DEF NoEvent, LimitsFit
<1>11. /\ NoReg.status = "none" /\ NoReg.extra = 0 /\ ~NoReg.paid /\ NoReg.paidFor = 0
       /\ NoReg.flag = NoFlag /\ NoReg.mailedFor = Never
  BY DEF NoReg
<1>12. CASE j.name = "next"
  <2>1. gone = {} /\ When(~j.force, gone) = {}
    BY <1>12 DEF When
  <2>2. regs' = regs /\ Grows(history, history')
    <3>1. regs' = regs
      <4> HIDE DEF gone
      <4>1. regs' \in [People -> Reg] /\ regs \in [People -> Reg]
        BY <1>2, <1>7
      <4>2. \A p \in People : regs'[p] = regs[p]
        BY <1>7, <2>1
      <4> QED
        BY <4>1, <4>2
    <3>2. history'.lost = history.lost
      BY <1>8, <2>1
    <3> QED
      BY <1>8, <3>1, <3>2 DEF Grows
  <2>3. con' = con
    BY <1>2, <1>5, <1>9, <1>12
  <2>4. SettingsFit'
    <3>1. CASE history'.crossed
      BY <3>1 DEF SettingsFit
    <3>2. CASE ~history'.crossed
      <4>1. /\ \A n \in Names : LimitsFit(events[n])
            /\ \A n, m \in Names : n # m /\ events[n].code = events[m].code => events[n].code = "none"
            /\ \A n, m \in Names : events[n].active /\ events[m].active => n = m
            /\ \A q \in People : regs[q].extra = 1 => con.offered
        BY <1>8, <3>2 DEF EInv, SettingsFit
      <4>2. /\ \A n \in Names : LimitsFit(events'[n])
            /\ \A n, m \in Names : n # m /\ events'[n].code = events'[m].code => events'[n].code = "none"
            /\ \A n, m \in Names : events'[n].active /\ events'[m].active => n = m
        BY <1>2, <1>5, <1>10, <1>12, <4>1
      <4> QED
        BY <2>2, <2>3, <4>1, <4>2 DEF SettingsFit, LimitsFit
    <3> QED
      BY <3>1, <3>2
  <2>5. \A n \in Names : ~events'[n].exists => events'[n] = NoEvent
    BY <1>2, <1>5, <1>12 DEF EInv, RowsFit
  <2> QED
    BY <1>1, <1>4, <1>5, <1>8, <2>2, <2>3, <2>4, <2>5, EventsKeep
<1>13. CASE j.name = "con"
  <2>1. /\ \A p \in People : regs'[p] = NoReg
        /\ gone = {p \in People : There(p)}
    BY <1>7, <1>13 DEF EInv, RowsFit, When
  <2>2. con' = NoEvent /\ events'["next"] = events["next"]
    BY <1>2, <1>5, <1>9, <1>13
  <2>3. /\ Typed' /\ JobsFit' /\ Others(h) /\ job' \in [Handlers -> Job]
        /\ job'[h] = Done /\ ~Unforced(job'[h])
        /\ job'[h].todo \notin {Sending, Unpaid1, Prices1}
    <3>1. mails' \in Mails
      BY <1>1, <1>2
    <3> HIDE DEF gone
    <3> QED
      BY <1>1, <1>4, <1>5, <1>7, <1>8, <3>1, Ends
  <2>4. RowsFit'
    BY <1>2, <1>5, <1>11, <1>13, <2>1, <2>2 DEF EInv, RowsFit, There
  <2>5. SettingsFit'
    <3>1. CASE history'.crossed
      BY <3>1 DEF SettingsFit
    <3>2. CASE ~history'.crossed
      <4>1. /\ \A n \in Names : LimitsFit(events[n])
            /\ \A n, m \in Names : events[n].active /\ events[m].active => n = m
        BY <1>8, <3>2 DEF EInv, SettingsFit
      <4>2. \A n \in Names : LimitsFit(events'[n])
        BY <1>2, <1>5, <1>10, <1>13, <4>1
      <4>3. \A n, m \in Names : n # m /\ events'[n].code = events'[m].code => events'[n].code = "none"
        BY <1>2, <1>5, <1>10, <1>13
      <4>4. \A n, m \in Names : events'[n].active /\ events'[m].active => n = m
        BY <1>2, <1>5, <1>10, <1>13, <4>1
      <4> QED
        BY <1>11, <2>1, <4>2, <4>3, <4>4 DEF SettingsFit, LimitsFit
    <3> QED
      BY <3>1, <3>2
  <2>6. FlagsFit'
    <3>1. FlagsKnown'
      BY <1>10, <1>11, <2>1, <2>2 DEF FlagsKnown
    <3> QED
      BY <3>1 DEF FlagsFit
  <2>7. DeletesFit' /\ OnlyEmptyIsDeleted'
    <3>1. DeletesFit'
      BY <1>11, <2>1 DEF DeletesFit, There
    <3>2. ~j.force => gone \subseteq history.late
      BY <1>4, <1>13, <2>1 DEF EInv, DeletesFit, Unforced
    <3> QED
      BY <1>8, <3>1, <3>2 DEF EInv, OnlyEmptyIsDeleted, When
  <2>8. PricesFit' /\ PricesAreKept'
    BY <1>11, <2>1 DEF PricesFit, PricesAreKept, There
  <2>9. LooksFit'
    <3>1. \A g \in Handlers : Looks(job'[g], con', regs')
      BY <1>10, <1>11, <2>1, <2>2, <2>3 DEF Looks, Job
    <3> QED
      BY <3>1 DEF LooksFit, Looks
  <2>10. MailsFit'
    <3>1. CASE history.repriced
      BY <1>8, <3>1 DEF MailsFit
    <3>2. CASE MailsKnown
      <4>1. ASSUME NEW p \in People
            PROVE  /\ \A d \in Days : mails'.deadline[p][d] <= 1
                   /\ regs'[p].mailedFor = Never
                   /\ Dated(regs'[p], mails'.deadline[p], con', day')
                   /\ Fresh(regs'[p], mails'.deadline[p], con')
        BY <1>1, <1>10, <1>11, <2>1, <2>2, <3>2 DEF MailsKnown, Mailed, Dated, Fresh
      <4>2. \A g \in Handlers : Sends(job'[g], con', regs', mails'.deadline)
        <5>1. ASSUME NEW g \in Handlers PROVE Sends(job'[g], con', regs', mails'.deadline)
          <6>1. Sends(job[g], con, regs, mails.deadline)
            BY <3>2 DEF MailsKnown
          <6>2. CASE g = h
            BY <2>3, <6>2 DEF Sends
          <6>3. CASE g # h
            BY <1>1, <1>10, <2>2, <2>3, <6>1, <6>3 DEF Sends, Others
          <6> QED
            BY <6>2, <6>3
        <5> QED
          BY <5>1
      <4>3. SendApart'
        <5>1. \A g \in Handlers : job'[g].todo = Sending => job'[g] = job[g] /\ g # h
          BY <2>3 DEF Others
        <5> QED
          BY <3>2, <5>1 DEF MailsKnown, SendApart
      <4>4. MailsKnown'
        BY <4>1, <4>2, <4>3 DEF MailsKnown, Mailed
      <4> QED
        BY <4>4 DEF MailsFit
    <3> QED
      BY <3>1, <3>2 DEF EInv, MailsFit
  <2>11. RemindsFit'
    <3>1. \A p \in People : ~There(p)' /\ ~con'.exists
      BY <1>10, <1>11, <2>1, <2>2 DEF There
    <3>2. ASSUME NEW p \in People
          PROVE  p \notin history'.doubled => \A g, k \in Reminding(p)' : g = k
      <4>1. Reminding(p)' \subseteq Reminding(p)
        BY <2>3, DoneFits DEF Reminding, Others
      <4> QED
        BY <1>8, <4>1 DEF EInv, RemindsFit, Reminded
    <3> QED
      BY <3>1, <3>2 DEF RemindsFit, Reminded
  <2> QED
    BY <2>3, <2>4, <2>5, <2>6, <2>7, <2>8, <2>9, <2>10, <2>11 DEF EInv
<1> QED
  BY <1>2, <1>3, <1>12, <1>13

\* A row whose role has another name.
LEMMA RenamedIs ==
    ASSUME NEW r \in Reg, NEW from \in Flags, NEW to \in Flags, r.status = "none" => r = NoReg
    PROVE  LET s == Renamed(r, from, to)
           IN  /\ s \in Reg /\ s.flag = IF r.flag = from THEN to ELSE r.flag
               /\ SameRow(r, s) /\ SamePrice(r, s) /\ SameMail(r, s)
<1>1. PICK flag \in Roles : flag = IF r.flag = from THEN to ELSE r.flag
  BY DEF Reg, Roles
<1>2. PICK s : s = [r EXCEPT !.flag = flag]
  OBVIOUS
<1>3. Renamed(r, from, to) = s
  BY <1>1, <1>2 DEF Renamed
<1>4. /\ s \in Reg /\ s.flag = flag /\ s.status = r.status /\ SamePrice(r, s) /\ SameMail(r, s)
      /\ flag = r.flag => s = r
  BY <1>1, <1>2 DEF Reg, Roles, SamePrice, SameMail, SameCount
<1>5. r = NoReg => flag = r.flag
  BY <1>1, Constants DEF NoReg
<1>6. SameRow(r, s)
  BY <1>4, <1>5 DEF SameRow
<1> QED
  BY <1>1, <1>3, <1>4, <1>6

LEMMA RenameKeeps ==
    ASSUME EInv, NEW h \in Handlers, Rename(h)
    PROVE  EInv'
<1> DEFINE j == job[h]
<1>1. j \in Job /\ Fits(j) /\ Listed(j) /\ Doing(h, "rename")
  BY JobIs DEF Rename
<1>2. /\ j.todo \in {Rename1, Rename2} /\ j.kind = "rename"
      /\ Tail(j.todo) = IF j.todo = Rename1 THEN Put1 ELSE Rename1
      /\ Rename1 # Rename2 /\ Put1 \notin {Rename1, Rename2}
  <2>1. Rename1 # Rename2 /\ Put1 \notin {Rename1, Rename2}
    BY PutFollows DEF Follows, Rename1, Rename2
  <2> QED
    BY <1>1, <2>1, WhereItIs, KindIs, PutFollows DEF Doing, Follows
<1>3. PICK from \in Flags, to \in Flags, rest \in Renamings :
        /\ Head(j.renames) = <<from, to>> /\ Tail(j.renames) = rest
        /\ j.todo = Rename1 => to \in j.event.flags /\ j.was.flags \ {from} \subseteq j.event.flags
        /\ j.todo = Rename2 => /\ {from, to} \subseteq j.was.flags /\ j.event.flags = j.was.flags
                               /\ rest = << <<to, from>> >>
  <2>1. CASE j.todo = Rename1
    <3>1. PICK from \in Flags, to \in Flags :
            /\ j.renames = << <<from, to>> >> /\ to \in j.event.flags
            /\ j.was.flags \ {from} \subseteq j.event.flags
      BY <1>1, <1>2, <2>1 DEF Fits, Renaming
    <3>2. Head(j.renames) = <<from, to>> /\ Tail(j.renames) = <<>> /\ <<>> \in Renamings
      BY <3>1 DEF Renamings
    <3> QED
      BY <1>2, <2>1, <3>1, <3>2
  <2>2. CASE j.todo = Rename2
    <3>1. PICK from \in Flags, to \in Flags :
            /\ j.renames = << <<from, to>>, <<to, from>> >>
            /\ {from, to} \subseteq j.was.flags /\ j.event.flags = j.was.flags
      BY <1>1, <1>2, <2>2 DEF Fits, Renaming
    <3>2. /\ Head(j.renames) = <<from, to>> /\ Tail(j.renames) = << <<to, from>> >>
          /\ << <<to, from>> >> \in Renamings
      BY <3>1 DEF Renamings
    <3> QED
      BY <1>2, <2>2, <3>1, <3>2
  <2> QED
    BY <1>2, <2>1, <2>2
<1>4. /\ regs' = [p \in People |-> Renamed(regs[p], from, to)]
      /\ Then(h, [Left(j) EXCEPT !.renames = Tail(@)])
      /\ UNCHANGED <<day, events, mails, history>>
  BY <1>3 DEF Rename
<1>5. /\ regs \in [People -> Reg] /\ \A p \in People : regs[p].status = "none" => regs[p] = NoReg
      /\ events \in [Names -> Event] /\ mails \in Mails /\ history \in Past
  BY DEF EInv, Typed, RowsFit, There
<1>6. \A p \in People :
        /\ regs'[p] \in Reg /\ regs'[p].flag = IF regs[p].flag = from THEN to ELSE regs[p].flag
        /\ SameRow(regs[p], regs'[p]) /\ SamePrice(regs[p], regs'[p])
        /\ SameMail(regs[p], regs'[p])
  BY <1>4, <1>5, RenamedIs
<1>7. regs' \in [People -> Reg]
  BY <1>4, <1>6
<1> DEFINE left == [Left(j) EXCEPT !.renames = Tail(@)]
<1>8. /\ left \in Job /\ left.todo = Tail(j.todo) /\ left.kind = "rename" /\ left.day = j.day
      /\ left.event = j.event /\ left.was = j.was /\ left.name = j.name /\ left.rows = j.rows
      /\ left.renames = rest
  <2>1. Tail(j.todo) \in Todo
    BY <1>2 DEF Todo, RenameLeft
  <2>2. /\ Left(j) \in Job /\ Left(j).todo = Tail(j.todo) /\ Left(j).kind = j.kind
        /\ Left(j).day = j.day /\ Left(j).event = j.event /\ Left(j).was = j.was
        /\ Left(j).name = j.name /\ Left(j).rows = j.rows /\ Left(j).renames = j.renames
    BY <1>1, <2>1, LeftIs
  <2> QED
    BY <1>2, <1>3, <2>2 DEF Job
<1>9. Then(h, left)
  BY <1>4
<1> HIDE DEF left
<1>10. left.todo = IF j.todo = Rename1 THEN Put1 ELSE Rename1
  BY <1>2, <1>8
<1>11. /\ left.todo # <<>> /\ left.todo \notin RequestLeft
       /\ left.todo \notin {Sending, Unpaid1, Prices1}
  <2>1. left.todo \in RenameLeft
    BY <1>10 DEF RenameLeft
  <2> QED
    BY <2>1, HeadsDiffer, InsertIsNoPut DEF PricesLeft, UnpaidLeft
<1>12. Fits(left) /\ ~Unforced(left)
  <2>1. Listed(left)
    BY <1>1, <1>2, <1>8, <1>10, <1>11 DEF Fits, Listed, RenameLeft, RequestLeft
  <2>2. Validated(left)
    BY <1>1, <1>2, <1>8, <1>11 DEF Fits, Validated, RequestLeft
  <2>3. Renaming(left)
    <3>1. CASE j.todo = Rename1
      BY <1>2, <1>10, <3>1 DEF Renaming
    <3>2. CASE j.todo = Rename2
      <4>1. /\ left.renames = << <<to, from>> >> /\ from \in left.event.flags
            /\ left.was.flags \ {to} \subseteq left.event.flags
        BY <1>3, <1>8, <3>2
      <4>2. left.todo = Rename1
        BY <1>2, <1>10, <3>2
      <4> QED
        BY <1>2, <4>1, <4>2 DEF Renaming
    <3> QED
      BY <1>2, <3>1, <3>2
  <2>4. Registers(left)
    BY <1>11 DEF Registers, RequestLeft
  <2> QED
    BY <1>8, <2>1, <2>2, <2>3, <2>4 DEF Fits, Unforced
<1>13. Progress(h, left)
  BY <1>1, <1>2, <1>4, <1>8, <1>9, <1>12, ThenIs DEF EInv, Continues
<1>14. /\ Typed' /\ JobsFit' /\ Others(h) /\ job' \in [Handlers -> Job]
       /\ job'[h] = left
  BY <1>4, <1>5, <1>7, <1>11, <1>13, ProgressTypes
<1>15. Grows(history, history') /\ con' = con
  BY <1>4 DEF Grows, con
<1>16. j.todo \notin {Sending, Unpaid1}
  BY <1>2, PutFollows, JobFollows DEF Follows
<1>17. RowsFit' /\ SettingsFit'
  BY <1>4, <1>6, RowsStay, SettingsStay DEF EInv, SamePrice
<1>18. FlagsFit'
  <2>1. CASE history.crossed \/ history.stopped
    BY <1>4, <2>1 DEF FlagsFit
  <2>2. CASE \E g \in Handlers \ {h} : job[g].kind = "rename"
    <3>1. Overlapping'
      BY <1>8, <1>14, <2>2 DEF Overlapping, Others
    <3> QED
      BY <3>1 DEF FlagsFit
  <2>3. CASE FlagsKnown /\ \A g \in Handlers \ {h} : job[g].kind # "rename"
    <3>1. /\ con.exists => con.flags = j.was.flags
          /\ \A p \in People : regs[p].flag \in j.was.flags \cup {NoFlag}
      BY <1>2, <2>3 DEF FlagsKnown, Current
    <3>2. \A p \in People : regs'[p].flag \in Current(left) \cup {NoFlag}
      <4>1. CASE j.todo = Rename1
        BY <1>3, <1>6, <1>8, <1>10, <3>1, <4>1 DEF Current
      <4>2. CASE j.todo = Rename2
        BY <1>2, <1>3, <1>6, <1>8, <1>10, <3>1, <4>2 DEF Current
      <4> QED
        BY <1>2, <4>1, <4>2
    <3>3. \A g \in Handlers : job'[g].kind = "rename" => g = h
      BY <1>14, <2>3 DEF Others
    <3>4. FlagsKnown'
      BY <1>8, <1>14, <1>15, <3>1, <3>2, <3>3 DEF FlagsKnown, Current
    <3> QED
      BY <3>4 DEF FlagsFit
  <2> QED
    BY <1>2, <2>1, <2>2, <2>3 DEF EInv, FlagsFit, Overlapping
<1>19. DeletesFit' /\ OnlyEmptyIsDeleted' /\ PricesFit' /\ PricesAreKept'
  BY <1>6, <1>12, <1>14, <1>15, DeletesStay, PricesStay DEF EInv
<1>20. LooksFit'
  <2>1. Looks(left, con, regs)
    BY <1>8 DEF Looks
  <2> QED
    BY <1>6, <1>14, <1>15, <2>1, LooksStay DEF EInv
<1>21. MailsFit'
  BY <1>4, <1>6, <1>11, <1>14, <1>15, <1>16, MailsStay DEF EInv, SameMail
<1>22. RemindsFit'
  BY <1>4, <1>6, <1>8, <1>14, <1>15, <1>16, RemindsStay DEF EInv, SameMail
<1> QED
  BY <1>14, <1>17, <1>18, <1>19, <1>20, <1>21, <1>22 DEF EInv

-----------------------------------------------------------------------------
(* What happens at once *)

LEMMA SavedKeeps ==
    ASSUME EInv, NEW p \in People, NEW r \in Reg, Saved(p, r), There(p), r.status # "none",
           r.flag = regs[p].flag, r.extra = regs[p].extra, SameMail(regs[p], r),
           r.due = regs[p].due, r.list = regs[p].list,
           IF r.paid THEN r.due = r.paidFor ELSE r.paidFor = 0
    PROVE  EInv'
<1>1. /\ regs' = [regs EXCEPT ![p] = r] /\ UNCHANGED <<day, events, mails, history>>
      /\ requests < Requests /\ requests' = requests + 1 /\ UNCHANGED <<job, jobs, faults, ops>>
  BY DEF Saved, AtOnce
<1>2. regs \in [People -> Reg] /\ con' = con
  BY <1>1 DEF EInv, Typed, con
<1>3. /\ regs' \in [People -> Reg] /\ regs'[p] = r
      /\ \A q \in People \ {p} : regs'[q] = regs[q]
  BY <1>1, <1>2
<1>4. \A q \in People :
        /\ SameRow(regs[q], regs'[q]) /\ SameMail(regs[q], regs'[q])
        /\ regs'[q].flag = regs[q].flag /\ regs'[q].extra = regs[q].extra
        /\ regs'[q].due = regs[q].due /\ regs'[q].list = regs[q].list
        /\ IF regs'[q].paid THEN regs'[q].due = regs'[q].paidFor ELSE regs'[q].paidFor = 0
  <2>1. ASSUME NEW q \in People \ {p}
        PROVE  IF regs[q].paid THEN regs[q].due = regs[q].paidFor ELSE regs[q].paidFor = 0
    BY DEF EInv, PricesFit, PricesAreKept
  <2> QED
    BY <1>3, <2>1 DEF SameRow, SameMail, SameCount, There
<1>5. Typed'
  <2>1. Requests' = Requests /\ Jobs' = Jobs /\ Requests \in Nat
    BY <1>1, EventsAssumption DEF Requests, Jobs, Does
  <2>2. requests' \in 0..Requests
    BY <1>1, <2>1 DEF EInv, Typed
  <2> QED
    BY <1>1, <1>3, <2>1, <2>2 DEF EInv, Typed
<1>6. JobsFit'
  BY <1>1 DEF EInv, JobsFit, Idle
<1>7. RowsFit' /\ SettingsFit'
  BY <1>1, <1>4, RowsStay, SettingsStay DEF EInv
<1>8. FlagsFit'
  BY <1>1, <1>2, <1>4 DEF EInv, FlagsFit, FlagsKnown, Overlapping, Current
<1>9. \A q \in People : (regs'[q].status = "none") <=> (regs[q].status = "none")
  BY <1>4 DEF SameRow
<1>10. DeletesFit' /\ OnlyEmptyIsDeleted'
  BY <1>1, <1>9 DEF EInv, DeletesFit, OnlyEmptyIsDeleted, Unforced, There
<1>11. PricesFit' /\ PricesAreKept'
  BY <1>1, <1>4, <1>9 DEF EInv, PricesFit, PricesAreKept, There, AmountDue
<1>12. LooksFit'
  <2>1. \A g \in Handlers : job[g].rows \subseteq People
    BY DEF EInv, Typed, Job
  <2> QED
    BY <1>1, <1>2, <1>4, <1>9, <2>1 DEF EInv, LooksFit, Looks, SameMail, SameCount
<1>13. MailsFit'
  <2>1. CASE history.repriced
    BY <1>1, <2>1 DEF MailsFit
  <2>2. CASE MailsKnown
    <3>1. \A q \in People : (MailedNow(q)' <=> MailedNow(q))
      BY <1>1 DEF MailedNow
    <3>2. ASSUME NEW q \in People
          PROVE  /\ \A d \in Days : mails'.deadline[q][d] <= 1
                 /\ regs'[q].mailedFor # Never =>
                      \/ mails'.deadline[q][regs'[q].mailedFor] = 1
                      \/ MailedNow(q)' \/ q \in history'.unsent
                 /\ Dated(regs'[q], mails'.deadline[q], con', day')
                 /\ Fresh(regs'[q], mails'.deadline[q], con')
      <4>1. regs'[q].mailedFor = regs[q].mailedFor
        BY <1>4 DEF SameMail, SameCount
      <4> QED
        BY <1>1, <1>2, <1>9, <2>2, <3>1, <4>1 DEF MailsKnown, Mailed, Dated, Fresh
    <3>3. ASSUME NEW g \in Handlers
          PROVE  Sends(job'[g], con', regs', mails'.deadline)
      <4>1. Sends(job[g], con, regs, mails.deadline)
        BY <2>2 DEF MailsKnown
      <4>2. CASE job[g].todo = Sending
        <5>1. job[g].person \in People
          BY <4>2, JobIs DEF Listed
        <5> QED
          BY <1>1, <1>2, <1>4, <1>9, <4>1, <4>2, <5>1 DEF Sends, SameMail, SameCount
      <4>3. CASE job[g].todo # Sending
        BY <1>1, <1>2, <4>1, <4>3 DEF Sends
      <4> QED
        BY <4>2, <4>3
    <3>4. SendApart'
      BY <1>1, <2>2 DEF MailsKnown, SendApart
    <3>5. MailsKnown'
      BY <3>2, <3>3, <3>4 DEF MailsKnown, Mailed, MailedNow
    <3> QED
      BY <3>5 DEF MailsFit
  <2> QED
    BY <2>1, <2>2 DEF EInv, MailsFit
<1>14. RemindsFit'
  <2>1. ASSUME NEW q \in People PROVE Reminded(q)'
    <3>1. Reminding(q)' = Reminding(q) /\ Counting(q)' = Counting(q)
      BY <1>1 DEF Reminding, Counting, Doing
    <3>2. Reminded(q) /\ SameMail(regs[q], regs'[q]) /\ (There(q)' <=> There(q))
      BY <1>4, <1>9 DEF EInv, RemindsFit, There
    <3>3. /\ Listings(regs'[q], mails'.listed[q], Counting(q)') <=>
               Listings(regs[q], mails.listed[q], Counting(q))
          /\ AllCounted(regs'[q], mails'.listed[q], Counting(q)') <=>
               AllCounted(regs[q], mails.listed[q], Counting(q))
          /\ InTime(regs'[q], Reminding(q)', day') <=> InTime(regs[q], Reminding(q), day)
      BY <1>1, <3>1, <3>2 DEF SameMail, SameCount, Listings, AllCounted, InTime, OnItsDay
    <3> QED
      BY <1>1, <1>2, <3>1, <3>2, <3>3 DEF Reminded
  <2> QED
    BY <2>1 DEF RemindsFit
<1> QED
  BY <1>5, <1>6, <1>7, <1>8, <1>10, <1>11, <1>12, <1>13, <1>14 DEF EInv

LEMMA SavesKeep ==
    ASSUME EInv, NEW p \in People, Cancel(p) \/ Pay(p) \/ OptOut(p) \/ SetConPayer(p)
    PROVE  EInv'
<1>1. regs[p] \in Reg
  BY DEF EInv, Typed
<1>2. PICK row \in Reg : row = regs[p]
  BY <1>1
<1>3. IF row.paid THEN row.due = row.paidFor ELSE row.paidFor = 0
  BY <1>2 DEF EInv, PricesFit, PricesAreKept
<1>4. CASE Cancel(p)
  <2>1. PICK r : r = [row EXCEPT !.status = "cancelled"]
    OBVIOUS
  <2>2. Saved(p, r) /\ There(p)
    BY <1>2, <1>4, <2>1 DEF Cancel, There
  <2>3. /\ r \in Reg /\ r.status # "none" /\ r.flag = row.flag /\ r.extra = row.extra
        /\ SameMail(row, r) /\ r.due = row.due /\ r.list = row.list /\ r.paid = row.paid
        /\ r.paidFor = row.paidFor
    BY <2>1 DEF Reg, SameMail, SameCount
  <2> QED
    BY <1>2, <1>3, <2>2, <2>3, SavedKeeps
<1>5. CASE Pay(p)
  <2>1. There(p) /\ row.due # NoPrice /\ row.paidFor = 0 /\ row.status # "none"
    BY <1>2, <1>3, <1>5 DEF Pay, There
  <2>2. PICK n \in Nat : n = row.due /\ n = row.paidFor + row.due
    BY <2>1 DEF Reg
  <2>3. PICK r : r = [row EXCEPT !.paid = TRUE, !.paidFor = n]
    OBVIOUS
  <2>4. Saved(p, r)
    BY <1>2, <1>5, <2>2, <2>3 DEF Pay
  <2>5. /\ r \in Reg /\ r.status # "none" /\ r.flag = row.flag /\ r.extra = row.extra
        /\ SameMail(row, r) /\ r.due = row.due /\ r.list = row.list /\ r.paid
        /\ r.paidFor = row.due
    <3>1. n \in Int
      BY <2>2
    <3>2. /\ r \in Reg /\ r.status = row.status /\ r.flag = row.flag /\ r.extra = row.extra
          /\ SameMail(row, r) /\ r.due = row.due /\ r.list = row.list /\ r.paid
          /\ r.paidFor = n
      BY <2>3, <3>1 DEF Reg, SameMail, SameCount
    <3> QED
      BY <2>1, <2>2, <3>2
  <2> QED
    BY <1>2, <2>1, <2>4, <2>5, SavedKeeps
<1>6. CASE OptOut(p)
  <2>1. PICK r : r = [row EXCEPT !.optin = FALSE]
    OBVIOUS
  <2>2. Saved(p, r) /\ There(p)
    BY <1>2, <1>6, <2>1 DEF OptOut, There, EInv, RowsFit, NoReg
  <2>3. /\ r \in Reg /\ r.status = row.status /\ r.flag = row.flag /\ r.extra = row.extra
        /\ SameMail(row, r) /\ r.due = row.due /\ r.list = row.list /\ r.paid = row.paid
        /\ r.paidFor = row.paidFor
    BY <2>1 DEF Reg, SameMail, SameCount
  <2> QED
    BY <1>2, <1>3, <2>2, <2>3, SavedKeeps DEF There
<1>7. CASE SetConPayer(p)
  <2>1. PICK r : r = [row EXCEPT !.conPayer = ~row.conPayer]
    OBVIOUS
  <2>2. Saved(p, r) /\ There(p)
    BY <1>2, <1>7, <2>1 DEF SetConPayer, There
  <2>3. /\ r \in Reg /\ r.status = row.status /\ r.flag = row.flag /\ r.extra = row.extra
        /\ SameMail(row, r) /\ r.due = row.due /\ r.list = row.list /\ r.paid = row.paid
        /\ r.paidFor = row.paidFor
    BY <2>1 DEF Reg, SameMail, SameCount
  <2> QED
    BY <1>2, <1>3, <2>2, <2>3, SavedKeeps DEF There
<1> QED
  BY <1>4, <1>5, <1>6, <1>7

\* The next tier that has not run out only moves to later days.
LEMMA DeadlinesMove ==
    ASSUME NEW r, NEW sent \in [Days -> Nat], NEW e \in Event, NEW d \in Days, d + 1 \in Days,
           Dated(r, sent, e, d)
    PROVE  Dated(r, sent, e, d + 1)
<1> SUFFICES ASSUME e.exists, HasTier(e.table, d + 1), NEW k \in Days, sent[k] > 0
             PROVE  /\ k <= Deadline(e.table, d + 1)
                    /\ k = Deadline(e.table, d + 1) => r.mailedFor = k
  BY DEF Dated
<1>1. e.table \in Tables /\ e.table \subseteq Tier
  BY Constants DEF Event
<1>2. \A t \in Tier : t.until \in Nat
  BY Constants DEF Tier
<1>3. Ahead(e.table, d + 1) \subseteq Ahead(e.table, d)
  BY <1>1, <1>2, Constants DEF Ahead, Days
<1>4. HasTier(e.table, d)
  BY <1>3 DEF HasTier
<1>5. /\ TierAt(e.table, d + 1) \in Tier /\ TierAt(e.table, d + 1) \in Ahead(e.table, d)
      /\ TierAt(e.table, d) \in Tier
      /\ TierAt(e.table, d).until <= TierAt(e.table, d + 1).until
  BY <1>1, <1>3, <1>4, TierIs
<1>6. PICK m \in Nat, n \in Nat : /\ m = Deadline(e.table, d) /\ n = Deadline(e.table, d + 1)
                                  /\ m <= n
  BY <1>2, <1>5 DEF Deadline
<1>7. k <= m /\ (k = m => r.mailedFor = k)
  BY <1>4, <1>6 DEF Dated
<1> QED
  BY <1>6, <1>7, Constants DEF Days

LEMMA NextDayKeeps ==
    ASSUME EInv, NextDay
    PROVE  EInv'
<1>1. /\ \A h \in Handlers : job[h] = Done
      /\ day < MaxDay /\ day' = day + 1
      /\ UNCHANGED <<events, regs, job, mails, history, requests, jobs, faults, ops>>
  BY DEF NextDay, Idle
<1>2. day' \in Days /\ day + 1 \in Days /\ day \in Days /\ con' = con
  BY <1>1, Constants DEF EInv, Typed, Days, con
<1>3. Requests' = Requests /\ Jobs' = Jobs
  BY <1>1 DEF Requests, Jobs, Does
<1>4. Typed'
  BY <1>1, <1>2, <1>3 DEF EInv, Typed
<1>5. JobsFit'
  BY <1>1, DoneFits DEF EInv, JobsFit, Idle
<1>6. RowsFit' /\ SettingsFit' /\ PricesFit' /\ PricesAreKept' /\ OnlyEmptyIsDeleted'
  BY <1>1, <1>2 DEF EInv, RowsFit, SettingsFit, PricesFit, PricesAreKept, There, LimitsFit,
                    AmountDue, OnlyEmptyIsDeleted
<1>7. FlagsFit' /\ DeletesFit' /\ LooksFit'
  BY <1>1, <1>2 DEF EInv, FlagsFit, FlagsKnown, Overlapping, Current, DeletesFit, Unforced,
                    There, LooksFit, Looks
<1>8. MailsFit'
  <2>1. CASE history.repriced
    BY <1>1, <2>1 DEF MailsFit
  <2>2. CASE MailsKnown
    <3>1. con \in Event /\ \A p \in People : mails.deadline[p] \in [Days -> Nat]
      BY DEF EInv, Typed, Mails, Names, con
    <3>2. \A p \in People : Dated(regs[p], mails.deadline[p], con, day + 1)
      BY <1>2, <2>2, <3>1, DeadlinesMove DEF MailsKnown, Mailed
    <3>3. \A p \in People : Mailed(p)'
      BY <1>1, <1>2, <2>2, <3>2 DEF MailsKnown, Mailed, MailedNow, Dated, Fresh
    <3>4. MailsKnown'
      BY <1>1, <1>2, <2>2, <3>3 DEF MailsKnown, SendApart, Sends
    <3> QED
      BY <3>4 DEF MailsFit
  <2> QED
    BY <2>1, <2>2 DEF EInv, MailsFit
<1>9. RemindsFit'
  <2>1. ASSUME NEW p \in People PROVE Reminded(p)'
    <3>1. Reminding(p)' = Reminding(p) /\ Counting(p)' = Counting(p) /\ Reminding(p) = {}
      BY <1>1, DoneFits DEF Reminding, Counting, Doing
    <3>2. Reminded(p) /\ (There(p)' <=> There(p))
      BY <1>1 DEF EInv, RemindsFit, There
    <3>3. InTime(regs[p], {}, day) => InTime(regs[p], {}, day + 1)
      <4>1. SUFFICES ASSUME InTime(regs[p], {}, day), regs[p].sent # 0
                     PROVE  OnItsDay(regs[p], regs[p].sent, day + 1)
        BY DEF InTime
      <4>2. OnItsDay(regs[p], regs[p].sent, day)
        BY <4>1 DEF InTime
      <4>3. /\ regs[p].created \in Nat /\ day \in Nat /\ regs[p].sent \in Nat
            /\ ReminderDays \in Seq(Nat)
        BY <1>2, EventsAssumption DEF EInv, Typed, Reg, Days
      <4>4. ReminderDays[regs[p].sent] \in Nat
        BY <4>1, <4>2, <4>3 DEF OnItsDay
      <4> QED
        BY <4>2, <4>3, <4>4 DEF OnItsDay
    <3>4. /\ Listings(regs'[p], mails'.listed[p], Counting(p)') <=>
               Listings(regs[p], mails.listed[p], Counting(p))
          /\ AllCounted(regs'[p], mails'.listed[p], Counting(p)') <=>
               AllCounted(regs[p], mails.listed[p], Counting(p))
          /\ InTime(regs[p], Reminding(p), day) => InTime(regs'[p], Reminding(p)', day')
      BY <1>1, <3>1, <3>3 DEF Listings, AllCounted
    <3> QED
      BY <1>1, <1>2, <3>1, <3>2, <3>4 DEF Reminded
  <2> QED
    BY <2>1 DEF RemindsFit
<1> QED
  BY <1>4, <1>5, <1>6, <1>7, <1>8, <1>9 DEF EInv

LEMMA StopKeeps ==
    ASSUME EInv, NEW h \in Handlers, Stop(h)
    PROVE  EInv'
<1>1. /\ faults < MaxFaults /\ faults' = faults + 1 /\ ~Idle(h)
      /\ job' = [job EXCEPT ![h] = Done]
      /\ history' = [history EXCEPT
                        !.stopped = TRUE,
                        !.unsent = @ \cup When(Doing(h, "send"), {job[h].person}),
                        !.uncounted = @ \cup When(Doing(h, "count"), job[h].rows)]
      /\ UNCHANGED <<day, events, regs, mails, requests, jobs, ops>>
  BY DEF Stop
<1>2. /\ history' \in Past /\ history'.stopped /\ Grows(history, history')
      /\ job[h].todo = Sending => job[h].person \in history'.unsent
      /\ job[h].todo = Unpaid1 => job[h].rows \subseteq history'.uncounted
  <2>1. job[h] \in Job /\ Listed(job[h])
    BY JobIs
  <2>2. Doing(h, "send") <=> job[h].todo = Sending
    BY <2>1, WhereItIs, JobFollows DEF Doing, Follows
  <2>3. Doing(h, "count") <=> job[h].todo = Unpaid1
    BY <2>1, WhereItIs, JobFollows DEF Doing, Follows
  <2>4. PICK unsent : unsent = When(Doing(h, "send"), {job[h].person})
    OBVIOUS
  <2>5. PICK uncounted : uncounted = When(Doing(h, "count"), job[h].rows)
    OBVIOUS
  <2>6. unsent \subseteq People /\ uncounted \subseteq People
    BY <2>1, <2>2, <2>4, <2>5 DEF When, Listed, Job
  <2>7. /\ job[h].todo = Sending => job[h].person \in unsent
        /\ job[h].todo = Unpaid1 => job[h].rows \subseteq uncounted
    BY <2>2, <2>3, <2>4, <2>5 DEF When
  <2>8. history' = [history EXCEPT !.stopped = TRUE, !.unsent = @ \cup unsent,
                                   !.uncounted = @ \cup uncounted]
    BY <1>1, <2>4, <2>5
  <2>9. history \in Past
    BY DEF EInv, Typed
  <2>10. /\ history' \in Past /\ history'.stopped /\ Grows(history, history')
         /\ history'.unsent = history.unsent \cup unsent
         /\ history'.uncounted = history.uncounted \cup uncounted
    BY <2>6, <2>8, <2>9 DEF Past, Grows
  <2> QED
    BY <2>7, <2>10
<1>3. Progress(h, Done)
  <2>1. faults' \in 0..MaxFaults
    BY <1>1, EventsAssumption DEF EInv, Typed
  <2> QED
    BY <1>1, <2>1, DoneFits DEF Progress, Moved, Continues
<1>4. /\ events' \in [Names -> Event] /\ regs' \in [People -> Reg] /\ mails' \in Mails
      /\ con' = con
  BY <1>1 DEF EInv, Typed, con
<1>5. /\ Typed' /\ JobsFit' /\ Others(h) /\ job' \in [Handlers -> Job]
      /\ job'[h] = Done
  BY <1>2, <1>3, <1>4, DoneFits, ProgressTypes
<1>6. \A p \in People : /\ SameRow(regs[p], regs'[p]) /\ SamePrice(regs[p], regs'[p])
                        /\ SameMail(regs[p], regs'[p])
  BY <1>1 DEF SameRow, SamePrice, SameMail, SameCount
<1>7. RowsFit' /\ SettingsFit'
  BY <1>1, <1>2, <1>6, RowsStay, SettingsStay DEF EInv, Grows
<1>8. FlagsFit'
  BY <1>2 DEF FlagsFit
<1>9. DeletesFit' /\ OnlyEmptyIsDeleted' /\ PricesFit' /\ PricesAreKept'
  <2>1. ~Unforced(job'[h])
    BY <1>5, DoneFits DEF Unforced
  <2> QED
    BY <1>2, <1>5, <1>6, <2>1, DeletesStay, PricesStay DEF EInv
<1>10. LooksFit'
  <2>1. Looks(job'[h], con, regs)
    BY <1>5, DoneFits DEF Looks
  <2> QED
    BY <1>4, <1>5, <1>6, <2>1, LooksStay DEF EInv
<1>11. MailsFit'
  <2>1. job'[h].todo \notin {Sending, Prices1}
    <3>1. <<>> \notin {Sending, Prices1}
      BY HeadsDiffer DEF PricesLeft
    <3> QED
      BY <1>5, <3>1, DoneFits
  <2> QED
    BY <1>1, <1>2, <1>4, <1>5, <1>6, <2>1, MailsStay DEF EInv, SameMail
<1>12. RemindsFit'
  <2>1. job'[h].kind # "unpaid"
    BY <1>5, DoneFits
  <2> QED
    BY <1>1, <1>2, <1>4, <1>5, <1>6, <2>1, RemindsStay DEF EInv, SameMail
<1> QED
  BY <1>5, <1>7, <1>8, <1>9, <1>10, <1>11, <1>12 DEF EInv

-----------------------------------------------------------------------------
(* What the jobs write *)

\* A run that mails somebody whom no other run mails, or takes the mark back.
LEMMA RunMails ==
    ASSUME EInv, MailsKnown, NEW h \in Handlers, Others(h), NEW p \in People,
           job[h].todo = Sending => job[h].person = p,
           job'[h].todo = Sending => job'[h].person = p,
           \A g \in Handlers \ {h} : job[g].todo = Sending => job[g].person # p,
           con' = con, day' = day, history' = history,
           \A q \in People \ {p} : regs'[q] = regs[q] /\ mails'.deadline[q] = mails.deadline[q],
           \A d \in Days : mails'.deadline[p][d] <= 1,
           regs'[p].mailedFor # Never =>
             mails'.deadline[p][regs'[p].mailedFor] = 1 \/ job'[h].todo = Sending,
           Dated(regs'[p], mails'.deadline[p], con, day),
           Fresh(regs'[p], mails'.deadline[p], con),
           Sends(job'[h], con, regs', mails'.deadline)
    PROVE  MailsKnown'
<1>1. \A g \in Handlers \ {h} : job'[g] = job[g]
  BY DEF Others
<1>2. \A q \in People \ {p} : MailedNow(q) => MailedNow(q)'
  BY <1>1 DEF MailedNow
<1>3. job'[h].todo = Sending => MailedNow(p)'
  BY DEF MailedNow
<1>4. ASSUME NEW q \in People
      PROVE  /\ \A d \in Days : mails'.deadline[q][d] <= 1
             /\ regs'[q].mailedFor # Never =>
                  \/ mails'.deadline[q][regs'[q].mailedFor] = 1
                  \/ MailedNow(q)' \/ q \in history'.unsent
             /\ Dated(regs'[q], mails'.deadline[q], con', day')
             /\ Fresh(regs'[q], mails'.deadline[q], con')
  <2>1. CASE q = p
    BY <1>3, <2>1
  <2>2. CASE q # p
    BY <1>2, <2>2 DEF MailsKnown, Mailed
  <2> QED
    BY <2>1, <2>2
<1>5. ASSUME NEW g \in Handlers
      PROVE  Sends(job'[g], con', regs', mails'.deadline)
  <2>1. CASE g = h
    BY <2>1
  <2>2. CASE g # h
    <3>1. job'[g] = job[g] /\ Sends(job[g], con, regs, mails.deadline)
      BY <1>1, <2>2 DEF MailsKnown
    <3>2. CASE job[g].todo = Sending
      <4>1. job[g].person \in People \ {p}
        BY <2>2, <3>2, JobIs DEF Listed
      <4>2. /\ regs'[job[g].person] = regs[job[g].person]
            /\ mails'.deadline[job[g].person] = mails.deadline[job[g].person]
        BY <4>1
      <4> QED
        BY <3>1, <3>2, <4>2 DEF Sends
    <3>3. CASE job[g].todo # Sending
      BY <3>1, <3>3 DEF Sends
    <3> QED
      BY <3>2, <3>3
  <2> QED
    BY <2>1, <2>2
<1>6. SendApart'
  <2>1. SUFFICES ASSUME NEW g \in Handlers, NEW k \in Handlers, job'[g].todo = Sending,
                        job'[k].todo = Sending, job'[g].person = job'[k].person
                 PROVE  g = k
    BY DEF SendApart
  <2>2. CASE g # h /\ k # h
    BY <1>1, <2>1, <2>2 DEF MailsKnown, SendApart
  <2>3. CASE g = h \/ k = h
    BY <1>1, <2>1, <2>3
  <2> QED
    BY <2>2, <2>3
<1> QED
  BY <1>4, <1>5, <1>6 DEF MailsKnown, Mailed, MailedNow

\* What a run writes changes no amounts, roles or events; only the reminders count anything.
LEMMA RunKeeps ==
    ASSUME EInv, NEW h \in Handlers, NEW left, Progress(h, left), left.todo # <<>>,
           job[h].kind \in {"prices", "unpaid"}, UNCHANGED <<events, history>>,
           regs' \in [People -> Reg], mails' \in Mails,
           \A q \in People : /\ SameRow(regs[q], regs'[q]) /\ SamePrice(regs[q], regs'[q])
                             /\ regs'[q].flag = regs[q].flag /\ SameCount(regs[q], regs'[q]),
           Looks(left, con, regs),
           Typed' /\ JobsFit' /\ Others(h) => MailsFit',
           job[h].kind = "prices" => mails'.listed = mails.listed,
           job[h].kind = "unpaid" => (Typed' /\ JobsFit' /\ Others(h) => RemindsFit')
    PROVE  EInv'
<1>1. events' \in [Names -> Event] /\ history' \in Past /\ con' = con /\ Grows(history, history')
  BY DEF EInv, Typed, con, Grows
<1>2. /\ Typed' /\ JobsFit' /\ Others(h) /\ job' \in [Handlers -> Job]
      /\ job'[h] = left
  BY <1>1, ProgressTypes
<1>3. left.kind = job[h].kind /\ day' = day
  BY DEF Progress, Continues
<1>4. RowsFit' /\ SettingsFit'
  BY RowsStay, SettingsStay DEF EInv, SamePrice
<1>5. FlagsFit'
  BY <1>1, <1>2, <1>3, FlagsStay DEF EInv
<1>6. DeletesFit' /\ OnlyEmptyIsDeleted' /\ PricesFit' /\ PricesAreKept'
  <2>1. ~Unforced(job'[h])
    BY <1>2, <1>3 DEF Unforced
  <2> QED
    BY <1>1, <1>2, <2>1, DeletesStay, PricesStay DEF EInv
<1>7. LooksFit'
  BY <1>1, <1>2, LooksStay DEF EInv
<1>8. RemindsFit'
  <2>1. CASE job[h].kind = "prices"
    <3>1. job[h].todo \in PricesLeft
      BY <2>1, JobIs DEF Listed
    <3>2. job[h].todo # Unpaid1 /\ job'[h].kind # "unpaid"
      BY <1>2, <1>3, <2>1, <3>1, HeadsDiffer DEF UnpaidLeft
    <3> QED
      BY <1>1, <1>2, <1>3, <2>1, <3>2, RemindsStay DEF EInv, SameMail
  <2>2. CASE job[h].kind = "unpaid"
    BY <1>2, <2>2
  <2> QED
    BY <2>1, <2>2
<1> QED
  BY <1>2, <1>4, <1>5, <1>6, <1>7, <1>8 DEF EInv

\* A person who pays at the con from now on owes the new price and the extras.
LEMMA RepricedIs ==
    ASSUME NEW r \in Reg, NEW price \in Nat
    PROVE  LET s == Repriced(r, price)
           IN  /\ s \in Reg /\ s.status = r.status /\ s.flag = r.flag /\ s.extra = r.extra
               /\ s.paid = r.paid /\ s.paidFor = r.paidFor /\ SameMail(r, s)
               /\ Priced(r) /\ r.due # NoPrice => Priced(s)
<1>1. PICK list \in Nat : list = IF r.list = NoPrice THEN 0 ELSE r.list
  BY DEF Reg
<1>2. PICK due \in Nat \cup {NoPrice} :
        due = IF r.due = NoPrice THEN NoPrice
              ELSE IF r.due - list + price > 0 THEN r.due - list + price ELSE 0
  BY <1>1 DEF Reg, NoPrice
<1>3. PICK s : s = [r EXCEPT !.conPayer = TRUE, !.list = price, !.due = due]
  OBVIOUS
<1>4. Repriced(r, price) = s
  BY <1>1, <1>2, <1>3 DEF Repriced
<1>5. /\ s \in Reg /\ s.status = r.status /\ s.flag = r.flag /\ s.extra = r.extra
      /\ s.paid = r.paid /\ s.paidFor = r.paidFor /\ SameMail(r, s) /\ s.list = price
      /\ s.due = due
  BY <1>3 DEF Reg, SameMail, SameCount
<1>6. ASSUME Priced(r), r.due # NoPrice PROVE Priced(s)
  <2>1. r.extra \in {0, 1} /\ r.due \in Nat /\ r.list \in Nat \cup {NoPrice}
    BY <1>6 DEF Reg
  <2>2. price # NoPrice
    BY DEF NoPrice
  <2>3. due = price + r.extra
    <3>1. CASE r.list = NoPrice
      <4>1. r.due = r.extra
        BY <1>6, <3>1 DEF Priced, AmountDue
      <4> QED
        BY <1>1, <1>2, <1>6, <2>1, <3>1, <4>1
    <3>2. CASE r.list # NoPrice
      <4>1. r.due = r.list + r.extra /\ list = r.list
        BY <1>1, <1>6, <3>2 DEF Priced, AmountDue
      <4> QED
        BY <1>1, <1>2, <1>6, <2>1, <4>1
    <3> QED
      BY <3>1, <3>2
  <2> QED
    BY <1>5, <2>2, <2>3 DEF Priced, AmountDue
<1> QED
  BY <1>4, <1>5, <1>6

LEMMA ConvertKeeps ==
    ASSUME EInv, NEW h \in Handlers, Convert(h)
    PROVE  EInv'
<1> DEFINE j == job[h]
<1>1. /\ j \in Job /\ Fits(j) /\ Listed(j) /\ Doing(h, "convert")
      /\ UNCHANGED <<day, events, mails>>
  BY JobIs DEF Convert
<1>2. j.todo = Prices3 /\ j.kind = "prices" /\ Tail(j.todo) = Prices2
      /\ Prices3 \notin {Prices1, Sending, Unpaid1} /\ Prices2 \notin {Prices1, Sending, Unpaid1}
  BY <1>1, WhereItIs, KindIs, JobFollows DEF Doing, PricesLeft, Follows
<1>3. /\ regs \in [People -> Reg] /\ events \in [Names -> Event] /\ mails \in Mails
      /\ history \in Past /\ con' = con
  BY <1>1 DEF EInv, Typed, con
<1>4. CASE j.rows = {} \/ ~PaysAtCon(j.tables, j.day)
  <2>1. Then(h, Left([j EXCEPT !.rows = {}])) /\ UNCHANGED <<regs, history>>
    BY <1>4 DEF Convert
  <2>2. PICK k : k = [j EXCEPT !.rows = {}]
    OBVIOUS
  <2>3. /\ k \in Job /\ k.todo = Prices3 /\ k.kind = j.kind /\ k.day = j.day /\ k.rows = {}
        /\ k.event = j.event /\ k.was = j.was
    BY <1>1, <1>2, <2>2 DEF Job
  <2>4. Tail(k.todo) \in Todo
    BY <1>2, <2>3 DEF Todo, PricesLeft
  <2>4a. PICK left : left = Left(k)
    OBVIOUS
  <2>5. /\ left \in Job /\ left.todo = Prices2 /\ left.kind = "prices" /\ left.day = j.day
        /\ left.event = j.event /\ left.was = j.was /\ left.rows = {}
    <3>1. /\ left \in Job /\ left.todo = Tail(k.todo) /\ left.kind = k.kind /\ left.day = k.day
          /\ left.event = k.event /\ left.was = k.was /\ left.rows = k.rows
      BY <2>3, <2>4, <2>4a, LeftIs
    <3> QED
      BY <1>2, <2>3, <3>1
  <2>6. Then(h, left)
    BY <2>1, <2>2, <2>4a
  <2>7. Fits(left) /\ ~Unforced(left)
    BY <1>1, <1>2, <2>5, RunFits, RunIs DEF PricesLeft
  <2>8. Progress(h, left)
    BY <1>1, <1>2, <2>5, <2>6, <2>7, ThenIs DEF EInv, Continues
  <2>9. Readies(h, left)
    BY <1>2, <2>5, <2>7 DEF Readies, Looks
  <2> QED
    BY <1>1, <1>2, <2>1, <2>8, <2>9, QuietKeeps
<1>5. CASE ~(j.rows = {} \/ ~PaysAtCon(j.tables, j.day))
  <2>1. PICK p \in j.rows :
          /\ regs' = IF MayConvert(regs[p])
                     THEN [regs EXCEPT ![p] = Repriced(@, ListPrice(j.tables, j.day))] ELSE regs
          /\ history' = [history EXCEPT !.unpriced = @ \cup When(regs[p].due = NoPrice, {p})]
          /\ Then(h, [j EXCEPT !.rows = @ \ {p}])
    BY <1>5 DEF Convert
  <2>2. p \in People /\ j.tables \in Tables /\ j.day \in Days
    BY <1>1 DEF Job
  <2>3. PICK price \in Nat : price = ListPrice(j.tables, j.day)
    BY <1>5, <2>2, ListPriceIs
  <2>4. PICK r : r = IF MayConvert(regs[p]) THEN Repriced(regs[p], price) ELSE regs[p]
    OBVIOUS
  <2>5. regs[p] \in Reg
    BY <1>3, <2>2
  <2>6. /\ r \in Reg /\ r.status = regs[p].status /\ r.flag = regs[p].flag
        /\ r.extra = regs[p].extra /\ r.paid = regs[p].paid /\ r.paidFor = regs[p].paidFor
        /\ SameMail(regs[p], r) /\ SameRow(regs[p], r)
        /\ Priced(regs[p]) /\ regs[p].due # NoPrice => Priced(r)
        /\ regs[p].paid => r = regs[p]
    <3>1. CASE MayConvert(regs[p])
      <4>1. /\ r \in Reg /\ r.status = regs[p].status /\ r.flag = regs[p].flag
            /\ r.extra = regs[p].extra /\ r.paid = regs[p].paid /\ r.paidFor = regs[p].paidFor
            /\ SameMail(regs[p], r) /\ (Priced(regs[p]) /\ regs[p].due # NoPrice => Priced(r))
        BY <2>4, <2>5, <3>1, RepricedIs
      <4> QED
        BY <3>1, <4>1 DEF MayConvert, SameRow
    <3>2. CASE ~MayConvert(regs[p])
      BY <2>4, <2>5, <3>2 DEF SameMail, SameCount, SameRow
    <3> QED
      BY <3>1, <3>2
  <2>7. /\ regs' \in [People -> Reg] /\ regs'[p] = r
        /\ \A q \in People \ {p} : regs'[q] = regs[q]
    <3>1. CASE MayConvert(regs[p])
      BY <1>3, <2>1, <2>2, <2>3, <2>4, <2>6, <3>1
    <3>2. CASE ~MayConvert(regs[p])
      BY <1>3, <2>1, <2>4, <3>2
    <3> QED
      BY <3>1, <3>2
  <2>8. /\ history' \in Past /\ Grows(history, history')
        /\ history'.unpriced = history.unpriced \cup When(regs[p].due = NoPrice, {p})
        /\ history'.crossed = history.crossed
    <3>1. When(regs[p].due = NoPrice, {p}) \subseteq People
      BY <2>2 DEF When
    <3> QED
      BY <1>3, <2>1, <3>1 DEF Past, Grows
  <2> DEFINE left == [j EXCEPT !.rows = @ \ {p}]
  <2>9. /\ left \in Job /\ left.todo = Prices3 /\ left.kind = "prices" /\ left.day = j.day
        /\ left.event = j.event /\ left.was = j.was /\ left.rows = j.rows \ {p}
    BY <1>1, <1>2 DEF Job
  <2>10. Then(h, left)
    BY <2>1
  <2> HIDE DEF left
  <2>11. Fits(left) /\ ~Unforced(left) /\ left.todo # <<>>
    BY <1>1, <1>2, <2>9, RunFits, RunIs DEF PricesLeft
  <2>12. Progress(h, left)
    BY <1>1, <1>2, <2>9, <2>10, <2>11, ThenIs DEF EInv, Continues
  <2>13. mails' \in Mails /\ events' \in [Names -> Event]
    BY <1>1, <1>3
  <2>14. /\ Typed' /\ JobsFit' /\ Others(h) /\ job' \in [Handlers -> Job]
         /\ job'[h] = left
    BY <2>7, <2>8, <2>11, <2>12, <2>13, ProgressTypes
  <2>15. \A q \in People : /\ SameRow(regs[q], regs'[q]) /\ SameMail(regs[q], regs'[q])
                           /\ regs'[q].flag = regs[q].flag /\ regs'[q].extra = regs[q].extra
    BY <2>6, <2>7 DEF SameRow, SameMail, SameCount
  <2>16. RowsFit' /\ SettingsFit'
    BY <1>1, <2>8, <2>15, RowsStay, SettingsStay DEF EInv
  <2>17. FlagsFit'
    BY <1>2, <1>3, <2>8, <2>9, <2>14, <2>15, FlagsStay DEF EInv
  <2>18. DeletesFit' /\ OnlyEmptyIsDeleted'
    BY <2>8, <2>11, <2>14, <2>15, DeletesStay DEF EInv
  <2>19. PricesFit' /\ PricesAreKept'
    <3>1. PricesFit'
      BY <2>6, <2>7 DEF EInv, PricesFit
    <3>2. ASSUME NEW q \in People
          PROVE  /\ regs'[q].paid => regs'[q].due = regs'[q].paidFor
                 /\ There(q)' /\ q \notin history'.unpriced => Priced(regs'[q])
      <4>1. CASE q = p
        <5>1. regs'[q].paid => regs'[q].due = regs'[q].paidFor
          BY <2>2, <2>6, <2>7, <4>1 DEF EInv, PricesAreKept
        <5>2. ASSUME There(q)', q \notin history'.unpriced PROVE Priced(regs'[q])
          <6>1. regs[p].due # NoPrice /\ p \notin history.unpriced
            BY <2>8, <4>1, <5>2 DEF When
          <6>2. There(p)
            BY <2>6, <2>7, <4>1, <5>2 DEF There
          <6>3. Priced(regs[p])
            BY <2>2, <6>1, <6>2 DEF EInv, PricesAreKept, Priced
          <6> QED
            BY <2>6, <2>7, <4>1, <6>1, <6>3
        <5> QED
          BY <5>1, <5>2
      <4>2. CASE q # p
        BY <2>7, <2>8, <4>2 DEF EInv, PricesAreKept, There, Priced
      <4> QED
        BY <4>1, <4>2
    <3>3. PricesAreKept'
      BY <3>2 DEF PricesAreKept, Priced, AmountDue
    <3> QED
      BY <3>1, <3>3
  <2>20. LooksFit'
    <3>1. Looks(left, con, regs)
      BY <1>2, <2>9 DEF EInv, LooksFit, Looks
    <3> QED
      BY <1>3, <2>14, <2>15, <3>1, LooksStay DEF EInv
  <2>21. MailsFit'
    <3>1. j.todo \notin {Sending, Unpaid1} /\ left.todo \notin {Sending, Unpaid1, Prices1}
      BY <1>2, <2>9
    <3> QED
      BY <1>1, <1>3, <2>8, <2>14, <2>15, <3>1, MailsStay DEF EInv, SameMail
  <2>22. RemindsFit'
    <3>1. j.todo # Unpaid1 /\ left.kind # "unpaid"
      BY <1>2, <2>9
    <3> QED
      BY <1>1, <1>3, <2>8, <2>14, <2>15, <3>1, RemindsStay DEF EInv, SameMail
  <2> QED
    BY <2>14, <2>16, <2>17, <2>18, <2>19, <2>20, <2>21, <2>22 DEF EInv
<1> QED
  BY <1>4, <1>5

\* While a run mails people, it knows the prices of the event.
LEMMA RunIsAt ==
    ASSUME EInv, NEW h \in Handlers, NEW what, Doing(h, what), what \in {"mail", "send"}
    PROVE  /\ job[h] \in Job /\ Fits(job[h]) /\ job[h].kind = "prices" /\ job[h].day = day
           /\ what = "mail" => job[h].todo = Prices1 /\ Tail(job[h].todo) = <<>>
           /\ what = "send" => job[h].todo = Sending /\ Tail(job[h].todo) = Prices1
           /\ job[h].todo # Unpaid1 /\ Prices1 # Sending /\ Prices1 # <<>> /\ Sending # <<>>
           /\ what = "send" => job[h].person \in People
<1>1. job[h] \in Job /\ Fits(job[h]) /\ Listed(job[h]) /\ (~Idle(h) => job[h].day = day)
  BY JobIs
<1>2. ~Idle(h)
  BY DoneFits DEF Doing, Idle
<1>3. /\ what = "mail" => job[h].todo = Prices1
      /\ what = "send" => job[h].todo = Sending
  BY <1>1, WhereItIs DEF Doing
<1>4. job[h].kind = "prices"
  BY <1>1, <1>3, KindIs DEF PricesLeft
<1>5. /\ Prices1 \notin {Sending, Unpaid1, <<>>} /\ Sending \notin {Unpaid1, <<>>}
      /\ Tail(Prices1) = <<>> /\ Tail(Sending) = Prices1
  BY JobFollows DEF Follows
<1> QED
  BY <1>1, <1>2, <1>3, <1>4, <1>5 DEF Listed

\* Whoever is claimed has no mail about the deadline yet.
LEMMA ClaimKeeps ==
    ASSUME EInv, NEW h \in Handlers, Claim(h)
    PROVE  EInv'
<1> DEFINE j == job[h]
<1>1. /\ j \in Job /\ Fits(j) /\ j.kind = "prices" /\ j.day = day /\ j.todo = Prices1
      /\ Tail(j.todo) = <<>> /\ j.todo \notin {Sending, Unpaid1, <<>>} /\ Doing(h, "mail")
      /\ Sending # <<>> /\ Prices1 # Sending
      /\ UNCHANGED <<day, events, mails, history>>
  BY RunIsAt DEF Claim
<1>2. /\ regs \in [People -> Reg] /\ events \in [Names -> Event] /\ mails \in Mails
      /\ history \in Past /\ con' = con
  BY <1>1 DEF EInv, Typed, con
<1>3. \A p \in j.rows : p \in People
  BY <1>1 DEF Job
<1>4. MailsKnown => Sends(j, con, regs, mails.deadline)
  BY DEF MailsKnown
<1>5. CASE j.rows = {}
  <2>1. PICK left : left = Left(j)
    OBVIOUS
  <2>2. left.todo = <<>>
    BY <1>1, <2>1, LeftIs DEF Todo
  <2>3. Then(h, left) /\ UNCHANGED regs
    BY <1>5, <2>1 DEF Claim
  <2>4. Progress(h, left) /\ Readies(h, left)
    BY <1>1, <2>2, <2>3, ThenIs DEF EInv, Continues, Readies
  <2> QED
    BY <1>1, <2>3, <2>4, QuietKeeps
<1>6. ASSUME NEW p \in j.rows, UNCHANGED regs, Then(h, [j EXCEPT !.rows = @ \ {p}])
      PROVE  EInv'
  <2>1. PICK left : left = [j EXCEPT !.rows = @ \ {p}]
    OBVIOUS
  <2>2. /\ left \in Job /\ left.todo = Prices1 /\ left.kind = "prices" /\ left.day = j.day
        /\ left.event = j.event /\ left.was = j.was /\ left.rows = j.rows \ {p}
        /\ left.tables = j.tables
    BY <1>1, <2>1 DEF Job
  <2>3. Fits(left) /\ ~Unforced(left) /\ left.todo # <<>>
    BY <1>1, <2>2, RunFits, RunIs DEF PricesLeft
  <2>4. Progress(h, left)
    BY <1>1, <1>6, <2>1, <2>2, <2>3, ThenIs DEF EInv, Continues
  <2>5. Readies(h, left)
    <3>1. MailsKnown /\ con.exists => left.tables = con.table
      BY <1>1, <1>4, <1>6, <2>2 DEF Sends
    <3>2. Looks(left, con, regs)
      BY <1>1, <2>2 DEF EInv, LooksFit, Looks
    <3> QED
      BY <1>1, <2>2, <2>3, <3>1, <3>2 DEF Readies
  <2> QED
    BY <1>1, <1>6, <2>4, <2>5, QuietKeeps
<1>7. ASSUME NEW p \in j.rows, NEW deadline, deadline = TierAt(j.tables, j.day).until,
             Near(j.tables, p, j.day), Claimable(p, deadline),
             regs' = [regs EXCEPT ![p].mailedFor = deadline],
             Then(h, [j EXCEPT !.rows = @ \ {p}, !.person = p, !.todo = <<"send">> \o @])
      PROVE  EInv'
  <2>1. /\ p \in People /\ regs[p] \in Reg /\ j.tables \in Tables /\ j.day \in Days
        /\ There(p) /\ con.exists /\ regs[p].mailedFor # deadline /\ HasTier(j.tables, j.day)
    BY <1>1, <1>2, <1>3, <1>7 DEF Job, Claimable, Near, EInv, RowsFit
  <2>2. deadline \in Days
    <3>1. TierAt(j.tables, j.day) \in Tier /\ deadline # Never
      BY <1>7, <2>1, TierIs DEF Near
    <3> QED
      BY <1>7, <3>1, Constants DEF Tier, Days, Never
  <2>3. PICK r : r = [regs[p] EXCEPT !.mailedFor = deadline]
    OBVIOUS
  <2>4. /\ r \in Reg /\ r.mailedFor = deadline /\ r.status = regs[p].status
        /\ r.flag = regs[p].flag /\ SameCount(regs[p], r) /\ SamePrice(regs[p], r)
    BY <2>1, <2>2, <2>3 DEF Reg, SamePrice, SameCount
  <2>5. /\ regs' \in [People -> Reg] /\ regs'[p] = r
        /\ \A q \in People \ {p} : regs'[q] = regs[q]
    BY <1>2, <1>7, <2>1, <2>3, <2>4
  <2>6. PICK left : left = [j EXCEPT !.rows = @ \ {p}, !.person = p, !.todo = Sending]
    OBVIOUS
  <2>7. <<"send">> \o j.todo = Sending
    BY <1>1, Joined2 DEF Prices1, Sending
  <2>8. Then(h, left)
    BY <1>7, <2>6, <2>7
  <2>9. /\ left \in Job /\ left.todo = Sending /\ left.kind = "prices" /\ left.day = j.day
        /\ left.event = j.event /\ left.was = j.was /\ left.rows = j.rows \ {p}
        /\ left.tables = j.tables /\ left.person = p
    <3>1. Sending \in Todo /\ p \in People \cup {"none"}
      BY <2>1 DEF Todo, PricesLeft
    <3> QED
      BY <1>1, <2>6, <3>1 DEF Job
  <2>10. Fits(left) /\ ~Unforced(left) /\ left.todo # <<>>
    BY <1>1, <2>1, <2>9, RunFits, RunIs DEF PricesLeft
  <2>11. Progress(h, left)
    BY <1>1, <2>8, <2>9, <2>10, ThenIs DEF EInv, Continues
  <2>12. Looks(left, con, regs)
    BY <1>1, <2>9 DEF EInv, LooksFit, Looks
  <2>13. \A q \in People : /\ SameRow(regs[q], regs'[q]) /\ SamePrice(regs[q], regs'[q])
                           /\ regs'[q].flag = regs[q].flag /\ SameCount(regs[q], regs'[q])
    BY <2>1, <2>4, <2>5 DEF SameRow, SamePrice, SameCount, There
  <2>14. ASSUME Others(h) PROVE MailsFit'
    <3>1. CASE history.repriced
      BY <1>1, <3>1 DEF MailsFit
    <3>2. CASE MailsKnown
      <4>1. j.tables = con.table
        BY <1>1, <1>4, <1>7, <2>1, <3>2 DEF Sends
      <4>2. /\ \A d \in Days : mails.deadline[p][d] <= 1
            /\ Dated(regs[p], mails.deadline[p], con, day)
        BY <2>1, <3>2 DEF MailsKnown, Mailed
      <4>3. mails.deadline[p][deadline] = 0
        <5>1. mails.deadline[p][deadline] \in Nat
          BY <1>2, <2>1, <2>2 DEF Mails
        <5>2. ~(mails.deadline[p][deadline] > 0)
          BY <1>1, <1>7, <2>1, <2>2, <4>1, <4>2 DEF Dated, Deadline
        <5> QED
          BY <5>1, <5>2
      <4>4. Dated(r, mails.deadline[p], con, day)
        BY <1>1, <1>7, <2>1, <2>4, <4>1, <4>2 DEF Dated, Deadline
      <4>5. job'[h] = left
        BY <2>10, <2>11 DEF Progress, Moved, EInv, Typed
      <4>6. Sends(left, con, regs', mails.deadline)
        BY <1>1, <1>7, <2>1, <2>2, <2>4, <2>5, <2>9, <4>1, <4>3 DEF Sends, Deadline, There
      <4>7. Fresh(r, mails.deadline[p], con)
        BY <2>1, <2>4 DEF Fresh, There
      <4>8. ASSUME NEW g \in Handlers \ {h}, job[g].todo = Sending PROVE job[g].person # p
        <5>1. Sends(job[g], con, regs, mails.deadline) /\ job[g].day = day
          <6>1. job[g] # Done
            BY <4>8, DoneFits, HeadsDiffer DEF PricesLeft
          <6> QED
            BY <3>2, <6>1, JobIs DEF MailsKnown, Idle
        <5>2. job[g].tables = con.table
              /\ regs[job[g].person].mailedFor = Deadline(con.table, day)
          BY <1>1, <2>1, <4>8, <5>1 DEF Sends
        <5>3. deadline = Deadline(con.table, day)
          BY <1>1, <1>7, <4>1 DEF Deadline
        <5> QED
          BY <2>1, <5>2, <5>3
      <4>9. /\ regs'[p].mailedFor # Never => job'[h].todo = Sending
            /\ job'[h].todo = Sending => job'[h].person = p
            /\ j.todo # Sending
        BY <1>1, <2>9, <4>5
      <4>10. MailsKnown'
        BY <1>1, <1>2, <2>1, <2>5, <2>14, <3>2, <4>2, <4>4, <4>5, <4>6, <4>7, <4>8, <4>9,
           RunMails
      <4> QED
        BY <4>10 DEF MailsFit
    <3> QED
      BY <3>1, <3>2 DEF EInv, MailsFit
  <2> QED
    BY <1>1, <1>2, <2>5, <2>10, <2>11, <2>12, <2>13, <2>14, RunKeeps
<1>8. CASE j.rows # {}
  <2>1. PICK deadline : deadline = TierAt(j.tables, j.day).until
    OBVIOUS
  <2>2. PICK p \in j.rows :
          IF Near(j.tables, p, j.day) /\ Claimable(p, deadline)
          THEN /\ regs' = [regs EXCEPT ![p].mailedFor = deadline]
               /\ Then(h, [j EXCEPT !.rows = @ \ {p}, !.person = p, !.todo = <<"send">> \o @])
          ELSE Then(h, [j EXCEPT !.rows = @ \ {p}]) /\ UNCHANGED regs
    BY <1>8, <2>1 DEF Claim
  <2> QED
    BY <1>6, <1>7, <2>1, <2>2
<1> QED
  BY <1>5, <1>8

LEMMA SendMailKeeps ==
    ASSUME EInv, NEW h \in Handlers, SendMail(h)
    PROVE  EInv'
<1> DEFINE j == job[h] p == job[h].person
<1>1. /\ j \in Job /\ Fits(j) /\ j.kind = "prices" /\ j.day = day /\ j.todo = Sending
      /\ Tail(j.todo) = Prices1 /\ Prices1 # <<>> /\ Prices1 # Sending /\ p \in People
      /\ UNCHANGED <<day, events, regs, history>> /\ Doing(h, "send")
  <2>1. Doing(h, "send") /\ UNCHANGED <<day, events, regs, history>>
    BY DEF SendMail
  <2>2. /\ job[h] \in Job /\ Fits(job[h]) /\ job[h].kind = "prices" /\ job[h].day = day
        /\ Prices1 # Sending /\ Prices1 # <<>> /\ job[h].person \in People
    BY <2>1, RunIsAt
  <2>3. job[h].todo = Sending /\ Tail(job[h].todo) = Prices1
    BY <2>1, RunIsAt
  <2> QED
    BY <2>1, <2>2, <2>3
<1>2. /\ regs \in [People -> Reg] /\ events \in [Names -> Event] /\ mails \in Mails
      /\ history \in Past /\ con' = con
  BY <1>1 DEF EInv, Typed, con
<1>3. PICK deadline : deadline = TierAt(j.tables, j.day).until
  OBVIOUS
<1>4. /\ mails' = [mails EXCEPT !.deadline[p][deadline] = @ + 1]
      /\ Then(h, [Left(j) EXCEPT !.person = "none"])
  BY <1>3 DEF SendMail
<1>5. /\ mails' \in Mails /\ mails'.listed = mails.listed
      /\ \A q \in People \ {p} : mails'.deadline[q] = mails.deadline[q]
      /\ \A d \in Days : mails'.deadline[p][d] =
           IF d = deadline THEN mails.deadline[p][d] + 1 ELSE mails.deadline[p][d]
  <2>1. PICK now : now = [mails.deadline[p] EXCEPT ![deadline] = @ + 1]
    OBVIOUS
  <2>2. mails.deadline \in [People -> [Days -> Nat]] /\ mails.deadline[p] \in [Days -> Nat]
    BY <1>1, <1>2 DEF Mails
  <2>3. /\ now \in [Days -> Nat]
        /\ \A d \in Days : now[d] =
             IF d = deadline THEN mails.deadline[p][d] + 1 ELSE mails.deadline[p][d]
    <3>1. PICK old \in [Days -> Nat] : old = mails.deadline[p]
      BY <2>2
    <3>2. now = [old EXCEPT ![deadline] = old[deadline] + 1]
      BY <2>1, <3>1
    <3>3. now \in [Days -> Nat]
      <4>1. CASE deadline \in Days
        <5>1. old[deadline] + 1 \in Nat
          BY <4>1
        <5> QED
          BY <3>2, <5>1
      <4>2. CASE deadline \notin Days
        BY <3>2, <4>2
      <4> QED
        BY <4>1, <4>2
    <3>4. \A d \in Days : now[d] = IF d = deadline THEN old[d] + 1 ELSE old[d]
      BY <3>2
    <3> QED
      BY <3>1, <3>3, <3>4
  <2>4. PICK all : all = [mails.deadline EXCEPT ![p] = now]
    OBVIOUS
  <2>5. /\ all \in [People -> [Days -> Nat]] /\ all[p] = now
        /\ \A q \in People \ {p} : all[q] = mails.deadline[q]
    BY <1>1, <2>2, <2>3, <2>4
  <2>6. mails' = [mails EXCEPT !.deadline = all]
    BY <1>4, <2>1, <2>4
  <2>7. mails' \in Mails /\ mails'.listed = mails.listed /\ mails'.deadline = all
    BY <1>2, <2>5, <2>6 DEF Mails
  <2> QED
    BY <2>3, <2>5, <2>7
<1>6. PICK left : left = [Left(j) EXCEPT !.person = "none"]
  OBVIOUS
<1>7. /\ left \in Job /\ left.todo = Prices1 /\ left.kind = "prices" /\ left.day = j.day
      /\ left.event = j.event /\ left.was = j.was /\ left.rows = j.rows
      /\ left.tables = j.tables
  <2>1. Prices1 \in Todo
    BY DEF Todo, PricesLeft
  <2>2. /\ Left(j) \in Job /\ Left(j).todo = Prices1 /\ Left(j).kind = "prices"
        /\ Left(j).day = j.day /\ Left(j).event = j.event /\ Left(j).was = j.was
        /\ Left(j).rows = j.rows /\ Left(j).tables = j.tables
    BY <1>1, <2>1, LeftIs
  <2> QED
    BY <1>6, <2>2 DEF Job
<1>8. Fits(left) /\ ~Unforced(left) /\ left.todo # <<>>
  BY <1>1, <1>7, RunFits, RunIs DEF PricesLeft
<1>9. Progress(h, left)
  BY <1>1, <1>4, <1>6, <1>7, <1>8, ThenIs DEF EInv, Continues
<1>10. Looks(left, con, regs)
  BY <1>1, <1>7 DEF EInv, LooksFit, Looks
<1>11. regs' \in [People -> Reg] /\ \A q \in People :
         /\ SameRow(regs[q], regs'[q]) /\ SamePrice(regs[q], regs'[q])
         /\ regs'[q].flag = regs[q].flag /\ SameCount(regs[q], regs'[q])
  BY <1>1, <1>2 DEF SameRow, SamePrice, SameCount
<1>12. ASSUME Others(h) PROVE MailsFit'
  <2>1. CASE history.repriced
    BY <1>1, <2>1 DEF MailsFit
  <2>2. CASE MailsKnown
    <3>1. Sends(j, con, regs, mails.deadline)
      BY <2>2 DEF MailsKnown
    <3>2. /\ HasTier(j.tables, j.day) /\ deadline \in Days /\ mails.deadline[p][deadline] = 0
          /\ con.exists => /\ j.tables = con.table /\ regs[p].status # "none"
                           /\ regs[p].mailedFor = deadline
      BY <1>1, <1>3, <3>1 DEF Sends, Deadline
    <3>3. /\ \A d \in Days : mails.deadline[p][d] <= 1
          /\ Dated(regs[p], mails.deadline[p], con, day)
      BY <1>1, <2>2 DEF MailsKnown, Mailed
    <3>4. \A d \in Days : mails'.deadline[p][d] <= 1
      BY <1>5, <3>2, <3>3
    <3>5. regs'[p].mailedFor # Never => mails'.deadline[p][regs'[p].mailedFor] = 1
      <4>1. CASE con.exists
        BY <1>1, <1>5, <3>2, <4>1
      <4>2. CASE ~con.exists
        BY <1>1, <4>2 DEF EInv, RowsFit, NoReg, There
      <4> QED
        BY <4>1, <4>2
    <3>6. Dated(regs'[p], mails'.deadline[p], con, day)
      <4>1. SUFFICES ASSUME con.exists, HasTier(con.table, day), NEW k \in Days,
                            mails'.deadline[p][k] > 0
                     PROVE  /\ k <= Deadline(con.table, day)
                            /\ k = Deadline(con.table, day) => regs'[p].mailedFor = k
        BY DEF Dated
      <4>2. Deadline(con.table, day) = deadline
        BY <1>1, <1>3, <3>2, <4>1 DEF Deadline
      <4>3. CASE k = deadline
        BY <1>1, <3>2, <4>1, <4>2, <4>3 DEF Days
      <4>4. CASE k # deadline
        BY <1>1, <1>5, <3>3, <4>1, <4>2, <4>4 DEF Dated
      <4> QED
        BY <4>3, <4>4
    <3>7. Fresh(regs'[p], mails'.deadline[p], con)
      BY <1>1, <3>2 DEF Fresh
    <3>8. job'[h] = left
      BY <1>8, <1>9 DEF Progress, Moved, EInv, Typed
    <3>9. Sends(left, con, regs', mails'.deadline)
      BY <1>1, <1>7, <3>2 DEF Sends
    <3>10. /\ left.todo # Sending /\ \A q \in People \ {p} : regs'[q] = regs[q]
           /\ \A g \in Handlers \ {h} : job[g].todo = Sending => job[g].person # p
      BY <1>1, <1>7, <2>2 DEF MailsKnown, SendApart
    <3>11. MailsKnown'
      BY <1>1, <1>2, <1>5, <1>12, <2>2, <3>4, <3>5, <3>6, <3>7, <3>8, <3>9, <3>10, RunMails
    <3> QED
      BY <3>11 DEF MailsFit
  <2> QED
    BY <2>1, <2>2 DEF EInv, MailsFit
<1> QED
  BY <1>1, <1>5, <1>8, <1>9, <1>10, <1>11, <1>12, RunKeeps

\* The mark is taken back before anybody else looks at it.
LEMMA MailFailsKeeps ==
    ASSUME EInv, NEW h \in Handlers, MailFails(h)
    PROVE  EInv'
<1> DEFINE j == job[h] p == job[h].person
<1>1. /\ Doing(h, "send") /\ faults < MaxFaults /\ faults' = faults + 1
      /\ regs' = [regs EXCEPT ![p].mailedFor = Never]
      /\ Become(h, [Left(job[h]) EXCEPT !.person = "none"])
      /\ UNCHANGED <<day, events, mails, history, requests, jobs, ops>>
  BY DEF MailFails
<1>2. /\ j \in Job /\ Fits(j) /\ j.kind = "prices" /\ j.day = day
      /\ Prices1 # Sending /\ Prices1 # <<>> /\ p \in People
  BY <1>1, RunIsAt
<1>3. j.todo = Sending /\ Tail(j.todo) = Prices1
  BY <1>1, RunIsAt
<1>4. /\ regs \in [People -> Reg] /\ events \in [Names -> Event] /\ mails \in Mails
      /\ history \in Past /\ con' = con /\ regs[p] \in Reg
  BY <1>1, <1>2 DEF EInv, Typed, con
<1>5. PICK r : r = [regs[p] EXCEPT !.mailedFor = Never]
  OBVIOUS
<1>6. /\ r \in Reg /\ r.mailedFor = Never /\ r.status = regs[p].status
      /\ r.flag = regs[p].flag /\ SameCount(regs[p], r) /\ SamePrice(regs[p], r)
      /\ regs[p].mailedFor = Never => r = regs[p]
  BY <1>4, <1>5 DEF Reg, SamePrice, SameCount
<1>7. /\ regs' \in [People -> Reg] /\ regs'[p] = r
      /\ \A q \in People \ {p} : regs'[q] = regs[q]
  BY <1>1, <1>2, <1>4, <1>5, <1>6
<1>8. SameRow(regs[p], r)
  <2>1. regs[p].status = "none" => regs[p].mailedFor = Never
    BY <1>2 DEF EInv, RowsFit, There, NoReg
  <2> QED
    BY <1>6, <2>1 DEF SameRow
<1>9. PICK left : left = [Left(j) EXCEPT !.person = "none"]
  OBVIOUS
<1>10. /\ left \in Job /\ left.todo = Prices1 /\ left.kind = "prices" /\ left.day = j.day
       /\ left.event = j.event /\ left.was = j.was /\ left.rows = j.rows
       /\ left.tables = j.tables
  <2>1. Prices1 \in Todo
    BY DEF Todo, PricesLeft
  <2>2. /\ Left(j) \in Job /\ Left(j).todo = Prices1 /\ Left(j).kind = "prices"
        /\ Left(j).day = j.day /\ Left(j).event = j.event /\ Left(j).was = j.was
        /\ Left(j).rows = j.rows /\ Left(j).tables = j.tables
    BY <1>2, <1>3, <2>1, LeftIs
  <2> QED
    BY <1>9, <2>2 DEF Job
<1>11. Fits(left) /\ ~Unforced(left) /\ left.todo # <<>>
  BY <1>2, <1>10, RunFits, RunIs DEF PricesLeft
<1>12. Progress(h, left)
  <2>1. faults' \in 0..MaxFaults
    BY <1>1, EventsAssumption DEF EInv, Typed
  <2>2. ~Idle(h)
    BY <1>1, DoneFits DEF Doing, Idle
  <2>3. Continues(h, left)
    BY <1>2, <1>10, <1>11 DEF Continues
  <2> QED
    BY <1>1, <1>9, <2>1, <2>2, <2>3 DEF Progress, Become, Moved
<1>13. Looks(left, con, regs)
  BY <1>2, <1>10 DEF EInv, LooksFit, Looks
<1>14. \A q \in People : /\ SameRow(regs[q], regs'[q]) /\ SamePrice(regs[q], regs'[q])
                         /\ regs'[q].flag = regs[q].flag /\ SameCount(regs[q], regs'[q])
  BY <1>6, <1>7, <1>8 DEF SameRow, SamePrice, SameCount
<1>15. ASSUME Others(h) PROVE MailsFit'
  <2>1. CASE history.repriced
    BY <1>1, <2>1 DEF MailsFit
  <2>2. CASE MailsKnown
    <3>1. PICK deadline : deadline = Deadline(j.tables, j.day)
      OBVIOUS
    <3>2. Sends(j, con, regs, mails.deadline)
      BY <2>2 DEF MailsKnown
    <3>3. /\ deadline \in Days /\ mails.deadline[p][deadline] = 0
          /\ con.exists => j.tables = con.table /\ regs[p].status # "none"
      BY <1>2, <1>3, <3>1, <3>2 DEF Sends
    <3>4. /\ \A d \in Days : mails.deadline[p][d] <= 1
          /\ Dated(regs[p], mails.deadline[p], con, day)
      BY <1>2, <2>2 DEF MailsKnown, Mailed
    <3>5. Dated(r, mails.deadline[p], con, day)
      <4>1. SUFFICES ASSUME con.exists, HasTier(con.table, day), NEW k \in Days,
                            mails.deadline[p][k] > 0
                     PROVE  /\ k <= Deadline(con.table, day)
                            /\ k = Deadline(con.table, day) => r.mailedFor = k
        BY DEF Dated
      <4>2. Deadline(con.table, day) = deadline
        BY <1>2, <3>1, <3>3, <4>1
      <4>3. k # deadline
        BY <3>3, <4>1
      <4>4. k <= Deadline(con.table, day)
        BY <3>4, <4>1 DEF Dated
      <4> QED
        BY <4>2, <4>3, <4>4
    <3>6. Fresh(r, mails.deadline[p], con)
      BY <1>6, <3>3 DEF Fresh
    <3>7. job'[h] = left
      BY <1>11, <1>12 DEF Progress, Moved, EInv, Typed
    <3>8. Sends(left, con, regs', mails.deadline)
      BY <1>2, <1>3, <1>10, <3>2 DEF Sends
    <3>9. /\ left.todo # Sending /\ regs'[p].mailedFor = Never
          /\ mails' = mails /\ day' = day /\ history' = history
          /\ \A g \in Handlers \ {h} : job[g].todo = Sending => job[g].person # p
      BY <1>1, <1>2, <1>3, <1>6, <1>7, <1>10, <2>2 DEF MailsKnown, SendApart
    <3>10. MailsKnown'
      BY <1>2, <1>4, <1>7, <1>15, <2>2, <3>4, <3>5, <3>6, <3>7, <3>8, <3>9, RunMails
    <3> QED
      BY <3>10 DEF MailsFit
  <2> QED
    BY <2>1, <2>2 DEF EInv, MailsFit
<1>16. mails' \in Mails
  BY <1>1, <1>4
<1> QED
  BY <1>1, <1>2, <1>7, <1>11, <1>12, <1>13, <1>14, <1>15, <1>16, RunKeeps

\* The orga is mailed once about everybody on the list ...
LEMMA RemindKeeps ==
    ASSUME EInv, NEW h \in Handlers, Remind(h)
    PROVE  EInv'
<1> DEFINE j == job[h]
<1>1. /\ Doing(h, "remind") /\ Then(h, Left(j)) /\ UNCHANGED <<day, events, regs, history>>
      /\ mails' = [mails EXCEPT !.listed =
                     [p \in People |-> @[p] + IF p \in j.rows THEN 1 ELSE 0]]
  BY DEF Remind
<1>2. /\ j \in Job /\ Fits(j) /\ Listed(j)
  BY JobIs
<1>3. j.todo = Unpaid2 /\ Tail(j.todo) = Unpaid1 /\ j.kind = "unpaid" /\ Unpaid1 # <<>>
      /\ Unpaid1 # Unpaid2
  BY <1>1, <1>2, WhereItIs, KindIs, JobFollows DEF Doing, UnpaidLeft, Follows
<1>4. /\ regs \in [People -> Reg] /\ events \in [Names -> Event] /\ mails \in Mails
      /\ history \in Past /\ con' = con
  BY <1>1 DEF EInv, Typed, con
<1>5. /\ mails' \in Mails /\ mails'.deadline = mails.deadline
      /\ \A p \in People : mails'.listed[p] = mails.listed[p] + IF p \in j.rows THEN 1 ELSE 0
  <2>1. PICK all : all = [p \in People |-> mails.listed[p] + IF p \in j.rows THEN 1 ELSE 0]
    OBVIOUS
  <2>2. mails.listed \in [People -> Nat]
    BY <1>4 DEF Mails
  <2>3. /\ all \in [People -> Nat]
        /\ \A p \in People : all[p] = mails.listed[p] + IF p \in j.rows THEN 1 ELSE 0
    BY <2>1, <2>2
  <2>4. mails' = [mails EXCEPT !.listed = all]
    BY <1>1, <2>1
  <2>5. mails' \in Mails /\ mails'.deadline = mails.deadline /\ mails'.listed = all
    BY <1>4, <2>3, <2>4 DEF Mails
  <2> QED
    BY <2>3, <2>5
<1>6. PICK left : left = Left(j)
  OBVIOUS
<1>7. /\ left \in Job /\ left.todo = Unpaid1 /\ left.kind = "unpaid" /\ left.day = j.day
      /\ left.event = j.event /\ left.was = j.was /\ left.rows = j.rows
  <2>1. Unpaid1 \in Todo
    BY DEF Todo, UnpaidLeft
  <2> QED
    BY <1>2, <1>3, <1>6, <2>1, LeftIs
<1>8. Fits(left) /\ left.todo # <<>> /\ left.todo \in UnpaidLeft
  <2>1. left.todo # Sending /\ left.todo \in UnpaidLeft
    BY <1>7, JobFollows DEF Follows, UnpaidLeft
  <2> QED
    BY <1>2, <1>3, <1>7, <2>1, RunFits, RunIs
<1>9. Progress(h, left)
  BY <1>1, <1>3, <1>6, <1>7, <1>8, ThenIs DEF EInv, Continues
<1>10. Looks(left, con, regs)
  BY <1>3, <1>7 DEF EInv, LooksFit, Looks
<1>11. \A q \in People : /\ SameRow(regs[q], regs'[q]) /\ SamePrice(regs[q], regs'[q])
                         /\ regs'[q].flag = regs[q].flag /\ SameCount(regs[q], regs'[q])
  BY <1>1 DEF SameRow, SamePrice, SameCount
<1>12. job'[h] = left
  BY <1>8, <1>9 DEF Progress, Moved, EInv, Typed
<1>13. regs' \in [People -> Reg]
  BY <1>1, <1>4
<1>14. ASSUME Typed', JobsFit', Others(h) PROVE MailsFit'
  <2>1. j.todo # Sending /\ left.todo \notin {Sending, Prices1}
    BY <1>3, <1>7, JobFollows DEF Follows
  <2> QED
    BY <1>1, <1>4, <1>5, <1>11, <1>12, <1>14, <2>1, MailsStay DEF EInv, Grows
<1>15. ASSUME Typed', JobsFit', Others(h) PROVE RemindsFit'
  <2>1. ASSUME NEW p \in People PROVE Reminded(p)'
    <3>1. Reminded(p) /\ (There(p)' <=> There(p))
      BY <1>1 DEF EInv, RemindsFit, There
    <3>2. Reminding(p)' = Reminding(p)
      BY <1>3, <1>7, <1>12, <1>15 DEF Reminding, Others
    <3>3. PICK n \in {0, 1} : n = IF p \in j.rows THEN 1 ELSE 0
      OBVIOUS
    <3>4. /\ Cardinality(Counting(p)) \in Nat
          /\ Cardinality(Counting(p)') = Cardinality(Counting(p)) + n
      BY <1>3, <1>7, <1>12, <1>15, <3>3, CountsMove DEF EInv
    <3>5. mails'.listed[p] = mails.listed[p] + n /\ mails.listed[p] \in Nat /\ regs[p].sent \in Nat
      BY <1>4, <1>5, <3>3 DEF Mails, Reg
    <3>6. /\ Listings(regs'[p], mails'.listed[p], Counting(p)') <=>
               Listings(regs[p], mails.listed[p], Counting(p))
          /\ AllCounted(regs'[p], mails'.listed[p], Counting(p)') <=>
               AllCounted(regs[p], mails.listed[p], Counting(p))
      BY <1>1, <3>4, <3>5 DEF Listings, AllCounted
    <3>7. ~There(p) /\ con.exists => mails'.listed[p] = 0
      <4>1. ~There(p) /\ con.exists => p \notin j.rows
        BY <1>3 DEF EInv, LooksFit, Looks, There
      <4> QED
        BY <3>1, <3>3, <3>5, <4>1 DEF Reminded
    <3> QED
      BY <1>1, <1>4, <3>1, <3>2, <3>6, <3>7 DEF Reminded
  <2> QED
    BY <2>1 DEF RemindsFit
<1> QED
  BY <1>1, <1>3, <1>5, <1>8, <1>9, <1>10, <1>11, <1>13, <1>14, <1>15, RunKeeps

\* ... and then everybody on it is counted, if still registered.
LEMMA CountReminderKeeps ==
    ASSUME EInv, NEW h \in Handlers, CountReminder(h)
    PROVE  EInv'
<1> DEFINE j == job[h]
<1>1. /\ Doing(h, "count") /\ Then(h, Left(j)) /\ UNCHANGED <<day, events, mails, history>>
      /\ regs' = [p \in People |-> IF p \in j.rows /\ There(p)
                                   THEN [regs[p] EXCEPT !.sent = @ + 1] ELSE regs[p]]
  BY DEF CountReminder
<1>2. /\ j \in Job /\ Fits(j) /\ Listed(j)
  BY JobIs
<1>3. j.todo = Unpaid1 /\ Tail(j.todo) = <<>> /\ j.kind = "unpaid"
  BY <1>1, <1>2, WhereItIs, KindIs, JobFollows DEF Doing, UnpaidLeft, Follows
<1>4. /\ regs \in [People -> Reg] /\ events \in [Names -> Event] /\ mails \in Mails
      /\ history \in Past /\ con' = con
  BY <1>1 DEF EInv, Typed, con
<1>5. ASSUME NEW p \in People
      PROVE  /\ regs'[p] \in Reg
             /\ SameRow(regs[p], regs'[p]) /\ SamePrice(regs[p], regs'[p])
             /\ regs'[p].status = regs[p].status /\ regs'[p].flag = regs[p].flag
             /\ regs'[p].mailedFor = regs[p].mailedFor /\ regs'[p].created = regs[p].created
             /\ regs'[p].sent = IF p \in j.rows /\ There(p) THEN regs[p].sent + 1
                                ELSE regs[p].sent
  <2>1. regs[p] \in Reg
    BY <1>4
  <2>2. CASE p \in j.rows /\ There(p)
    <3>2. PICK n \in Nat : n = regs[p].sent + 1
      BY <2>1 DEF Reg
    <3>3. PICK r : r = [regs[p] EXCEPT !.sent = n]
      OBVIOUS
    <3>4. regs'[p] = r
      BY <1>1, <2>2, <3>2, <3>3
    <3>5. /\ r \in Reg /\ SamePrice(regs[p], r) /\ r.status = regs[p].status
          /\ r.flag = regs[p].flag /\ r.mailedFor = regs[p].mailedFor /\ r.sent = n
          /\ r.created = regs[p].created
      BY <2>1, <3>3 DEF Reg, SamePrice
    <3> QED
      BY <2>2, <3>2, <3>4, <3>5 DEF SameRow, There
  <2>3. CASE ~(p \in j.rows /\ There(p))
    <3>1. regs'[p] = regs[p]
      BY <1>1, <2>3
    <3> QED
      BY <2>1, <2>3, <3>1 DEF SameRow, SamePrice
  <2> QED
    BY <2>2, <2>3
<1>6. regs' \in [People -> Reg]
  BY <1>1, <1>5
<1>7. /\ Typed' /\ JobsFit' /\ Others(h) /\ job' \in [Handlers -> Job]
      /\ job'[h] = Done /\ job'[h].kind = "none" /\ ~Unforced(job'[h])
      /\ job'[h].todo \notin {Sending, Unpaid1, Prices1}
  <2>1. mails' \in Mails /\ events' \in [Names -> Event] /\ history' \in Past
    BY <1>1, <1>4
  <2> QED
    BY <1>1, <1>3, <1>6, <2>1, Ends
<1>8. Grows(history, history')
  BY <1>1 DEF Grows
<1>9. RowsFit' /\ SettingsFit'
  BY <1>1, <1>5, RowsStay, SettingsStay DEF EInv, SamePrice
<1>10. FlagsFit'
  BY <1>3, <1>4, <1>5, <1>7, <1>8, FlagsStay DEF EInv
<1>11. DeletesFit' /\ OnlyEmptyIsDeleted' /\ PricesFit' /\ PricesAreKept'
  BY <1>5, <1>7, <1>8, DeletesStay, PricesStay DEF EInv
<1>12. LooksFit'
  <2>1. Looks(job'[h], con, regs)
    BY <1>7 DEF Looks
  <2> QED
    BY <1>4, <1>5, <1>7, <2>1, LooksStay DEF EInv
<1>13. MailsFit'
  <2>1. j.todo # Sending
    BY <1>3, JobFollows DEF Follows
  <2> QED
    BY <1>1, <1>4, <1>5, <1>7, <1>8, <2>1, MailsStay DEF EInv
<1>14. RemindsFit'
  <2>1. ASSUME NEW p \in People PROVE Reminded(p)'
    <3>1. Reminded(p) /\ (There(p)' <=> There(p)) /\ regs[p].sent \in Nat
      BY <1>4, <1>5 DEF EInv, RemindsFit, There, Reg
    <3>2. Reminding(p)' \subseteq Reminding(p) \ {h}
      BY <1>7 DEF Reminding, Others
    <3>3. job'[h].todo # Unpaid1
      BY <1>7
    <3>4. /\ Cardinality(Counting(p)) \in Nat /\ Cardinality(Counting(p)') \in Nat
          /\ Cardinality(Counting(p)') = IF p \in j.rows THEN Cardinality(Counting(p)) - 1
                                        ELSE Cardinality(Counting(p))
      BY <1>3, <1>7, <3>3, CountsMove DEF EInv
    <3>5. There(p) => regs'[p].sent + Cardinality(Counting(p)') =
                        regs[p].sent + Cardinality(Counting(p))
      BY <1>5, <3>1, <3>4
    <3>6. There(p)' =>
            /\ Listings(regs'[p], mails'.listed[p], Counting(p)')
            /\ p \notin history'.uncounted =>
                 AllCounted(regs'[p], mails'.listed[p], Counting(p)')
      BY <1>1, <3>1, <3>5 DEF Reminded, Listings, AllCounted
    <3>7. ASSUME There(p), p \notin history.doubled
          PROVE  InTime(regs'[p], Reminding(p)', day')
      <4>1. InTime(regs[p], Reminding(p), day)
        BY <3>1, <3>7 DEF Reminded
      <4>2. CASE p \in j.rows
        <5>1. h \in Reminding(p) /\ regs'[p].sent = regs[p].sent + 1
          BY <1>3, <1>5, <3>7, <4>2 DEF Reminding
        <5>2. OnItsDay(regs[p], regs[p].sent + 1, day)
          BY <4>1, <5>1 DEF InTime
        <5>3. Reminding(p)' = {}
          <6>1. \A g \in Reminding(p) : g = h
            BY <3>1, <3>7, <5>1 DEF Reminded
          <6> QED
            BY <3>2, <6>1
        <5> QED
          BY <1>1, <1>5, <5>1, <5>2, <5>3 DEF InTime, OnItsDay
      <4>3. CASE p \notin j.rows
        <5>1. regs'[p].sent = regs[p].sent /\ regs'[p].created = regs[p].created
          BY <1>5, <4>3
        <5>2. Reminding(p)' # {} => Reminding(p) # {}
          BY <3>2
        <5> QED
          BY <1>1, <4>1, <5>1, <5>2 DEF InTime, OnItsDay
      <4> QED
        BY <4>2, <4>3
    <3>8. p \notin history'.doubled => \A g, k \in Reminding(p)' : g = k
      BY <1>1, <3>1, <3>2 DEF Reminded
    <3> QED
      BY <1>1, <1>4, <3>1, <3>6, <3>7, <3>8 DEF Reminded
  <2> QED
    BY <2>1 DEF RemindsFit
<1> QED
  BY <1>7, <1>9, <1>10, <1>11, <1>12, <1>13, <1>14 DEF EInv

-----------------------------------------------------------------------------
(* The invariant *)

LEMMA InitKeeps ==
    ASSUME Init
    PROVE  EInv
<1>1. PICK table \in Tables, flags \in SUBSET Flags :
        /\ AnyFlag \in flags \/ flags = {}
        /\ events = [n \in Names |->
                       IF n = "con" THEN [NoEvent EXCEPT !.exists = TRUE, !.flags = flags,
                                            !.offered = TRUE, !.table = table]
                       ELSE NoEvent]
  <2>1. PICK table \in IF Clock THEN Tables ELSE {AnyTable},
             flags \in IF Does("settings") THEN {some \in SUBSET Flags : AnyFlag \in some}
                       ELSE {{}} :
          events = [n \in Names |->
                      IF n = "con" THEN [NoEvent EXCEPT !.exists = TRUE, !.flags = flags,
                                           !.offered = TRUE, !.table = table]
                      ELSE NoEvent]
    BY DEF Init
  <2>2. table \in Tables /\ flags \in SUBSET Flags /\ (AnyFlag \in flags \/ flags = {})
    BY <2>1, Constants
  <2> QED
    BY <2>1, <2>2
<1>2. PICK e : e = [NoEvent EXCEPT !.exists = TRUE, !.flags = flags, !.offered = TRUE,
                                   !.table = table]
  OBVIOUS
<1>3. /\ e \in Event /\ e.exists /\ ~e.active /\ e.code = "none" /\ e.offered
      /\ LimitsFit(e) /\ e.table = table /\ e.flags = flags
  BY <1>1, <1>2, Constants DEF NoEvent, Event, LimitsFit
<1>4. events = [n \in Names |-> IF n = "con" THEN e ELSE NoEvent]
  BY <1>1, <1>2
<1>5. /\ events \in [Names -> Event] /\ con = e /\ events["next"] = NoEvent
      /\ events["con"] = e /\ Names = {"con", "next"}
  BY <1>3, <1>4, Constants DEF con, Names
<1>6. /\ day = 0 /\ day \in Days /\ job = [h \in Handlers |-> Done]
      /\ requests = 0 /\ jobs = 0 /\ faults = 0 /\ ops \in Scenarios
      /\ mails = [deadline |-> [p \in People |-> [d \in Days |-> 0]],
                  listed |-> [p \in People |-> 0]]
      /\ history = [crossed |-> FALSE, repriced |-> FALSE, stopped |-> FALSE, lost |-> {},
                    late |-> {}, unpriced |-> {}, unsent |-> {}, uncounted |-> {},
                    doubled |-> {}]
  BY Constants DEF Init
<1>7. /\ NoReg.status = "none" /\ NoReg.extra = 0 /\ ~NoReg.paid /\ NoReg.paidFor = 0
      /\ NoReg.flag = NoFlag /\ NoReg.mailedFor = Never /\ NoReg \in Reg
  BY Constants DEF NoReg
<1>8. \A r \in Registered : /\ r \in Reg /\ r.status = "open" /\ Priced(r) /\ ~r.paid
                            /\ r.paidFor = 0 /\ r.mailedFor = Never /\ r.sent = 0
                            /\ r.flag \in flags \cup {NoFlag}
  <2>1. ASSUME NEW r \in Registered
        PROVE  /\ r \in Reg /\ r.status = "open" /\ Priced(r) /\ ~r.paid
               /\ r.paidFor = 0 /\ r.mailedFor = Never /\ r.sent = 0
               /\ r.flag \in flags \cup {NoFlag}
    <3>1. PICK flag \in con.flags \cup {NoFlag} :
            r = NewReg(flag, IF flag = AnyFlag THEN 1 ELSE 0, TRUE)
      BY DEF Registered
    <3>2. PICK extra \in {0, 1} : extra = IF flag = AnyFlag THEN 1 ELSE 0
      OBVIOUS
    <3>3. flag \in Roles /\ flag \in flags \cup {NoFlag}
      BY <1>3, <1>5, <3>1 DEF Roles
    <3>4. r = NewReg(flag, extra, TRUE) /\ con.table \in Tables
      BY <1>3, <1>5, <3>1, <3>2
    <3> QED
      BY <1>6, <3>3, <3>4, NewRegIs
  <2> QED
    BY <2>1
<1>9. /\ regs \in [People -> Reg]
      /\ \A p \in People : regs[p] = NoReg \/ regs[p] \in Registered
  <2>1. regs = [p \in People |-> NoReg] \/ regs \in [People -> Registered]
    BY DEF Init
  <2> QED
    BY <1>7, <1>8, <2>1
<1>10. \A p \in People :
         /\ There(p) => Priced(regs[p])
         /\ ~There(p) => regs[p] = NoReg
         /\ ~regs[p].paid /\ regs[p].paidFor = 0 /\ regs[p].mailedFor = Never
         /\ regs[p].flag \in con.flags \cup {NoFlag}
         /\ There(p) => regs[p].sent = 0
  BY <1>3, <1>5, <1>7, <1>8, <1>9 DEF There
<1>11. Typed
  <2>1. mails \in Mails
    BY <1>6 DEF Mails
  <2>2. history \in Past
    BY <1>6 DEF Past
  <2>3. job \in [Handlers -> Job]
    BY <1>6, DoneFits
  <2>4. requests \in 0..Requests /\ jobs \in 0..Jobs /\ faults \in 0..MaxFaults
    BY <1>6, EventsAssumption DEF Requests, Jobs
  <2> QED
    BY <1>5, <1>6, <1>9, <2>1, <2>2, <2>3, <2>4 DEF Typed
<1>12. JobsFit
  BY <1>6, DoneFits DEF JobsFit, Idle
<1>13. RowsFit
  BY <1>3, <1>5, <1>10 DEF RowsFit
<1>14. SettingsFit
  <2>1. LimitsFit(NoEvent) /\ NoEvent.code = "none" /\ ~NoEvent.active
    BY DEF NoEvent, LimitsFit
  <2> QED
    BY <1>3, <1>5, <2>1 DEF SettingsFit
<1>15. FlagsFit /\ DeletesFit /\ OnlyEmptyIsDeleted /\ LooksFit
  <2>1. \A h \in Handlers : job[h] = Done
    BY <1>6
  <2>2. FlagsKnown
    BY <1>10, <2>1, DoneFits DEF FlagsKnown
  <2> QED
    BY <1>6, <2>1, <2>2, DoneFits
       DEF FlagsFit, DeletesFit, Unforced, OnlyEmptyIsDeleted, LooksFit, Looks
<1>16. PricesFit /\ PricesAreKept
  BY <1>10 DEF PricesFit, PricesAreKept, Priced
<1>17. MailsFit
  <2>1. \A h \in Handlers : job[h] = Done /\ job[h].todo \notin {Sending, Unpaid1, Prices1}
    <3>1. <<>> \notin {Sending, Unpaid1, Prices1}
      BY HeadsDiffer DEF PricesLeft, UnpaidLeft
    <3> QED
      BY <1>6, <3>1, DoneFits
  <2>2. \A p \in People : mails.listed[p] = 0 /\ \A d \in Days : mails.deadline[p][d] = 0
    BY <1>6
  <2>3. \A h \in Handlers : Sends(job[h], con, regs, mails.deadline)
    BY <2>1 DEF Sends
  <2>4. \A p \in People : Dated(regs[p], mails.deadline[p], con, day)
                          /\ Fresh(regs[p], mails.deadline[p], con)
    BY <2>2 DEF Dated, Fresh
  <2>5. SendApart
    BY <2>1 DEF SendApart
  <2>6. MailsKnown
    BY <1>10, <2>2, <2>3, <2>4, <2>5 DEF MailsKnown, Mailed
  <2> QED
    BY <2>6 DEF MailsFit
<1>18. RemindsFit
  <2>1. ASSUME NEW p \in People PROVE Reminded(p)
    <3>1. Reminding(p) = {} /\ mails.listed[p] = 0
      BY <1>6, DoneFits DEF Reminding
    <3>2. Cardinality(Counting(p)) = 0
      BY <1>11, <1>12, <3>1, CountingIs
    <3>3. There(p) => regs[p].sent = 0
      BY <1>10
    <3> QED
      BY <3>1, <3>2, <3>3 DEF Reminded, Listings, AllCounted, InTime
  <2> QED
    BY <2>1 DEF RemindsFit
<1> QED
  BY <1>11, <1>12, <1>13, <1>14, <1>15, <1>16, <1>17, <1>18 DEF EInv

LEMMA StepsKeep ==
    ASSUME EInv, NEW h \in Handlers, Step(h)
    PROVE  EInv'
  BY ChecksKeep, RenameKeeps, UpdateKeeps, InsertEventKeeps, SetActiveKeeps, DeleteRowKeeps,
     InsertRegKeeps, WriteFormKeeps, WriteExtraKeeps, ConvertKeeps, ListForMailsKeeps,
     ClaimKeeps, SendMailKeeps, RemindKeeps, CountReminderKeeps DEF Step

LEMMA NextKeeps ==
    ASSUME EInv, [Next]_evars
    PROVE  EInv'
<1>1. CASE UNCHANGED evars
  <2>1. UNCHANGED <<day, events, regs, job, mails, history, requests, jobs, faults, ops>>
    BY <1>1 DEF evars
  <2>2. Typed' /\ JobsFit'
    BY <2>1 DEF EInv, Typed, Requests, Jobs, Does, JobsFit, Idle
  <2>3. RowsFit' /\ SettingsFit' /\ OnlyEmptyIsDeleted' /\ PricesFit' /\ PricesAreKept'
    BY <2>1 DEF EInv, RowsFit, There, con, SettingsFit, LimitsFit, OnlyEmptyIsDeleted, PricesFit,
                PricesAreKept, AmountDue
  <2>4. FlagsFit' /\ DeletesFit' /\ LooksFit'
    BY <2>1 DEF EInv, FlagsFit, Overlapping, FlagsKnown, Current, con, DeletesFit, Unforced,
                There, LooksFit, Looks
  <2>5. MailsFit'
    <3>1. con' = con /\ \A p \in People : /\ There(p)' = There(p)
                                        /\ MailedNow(p)' = MailedNow(p)
      BY <2>1 DEF con, There, MailedNow
    <3>2. MailsKnown => MailsKnown'
      BY <2>1, <3>1 DEF MailsKnown, Mailed, SendApart
    <3> QED
      BY <2>1, <3>2 DEF EInv, MailsFit
  <2>6. RemindsFit'
    <3>1. con' = con /\ \A p \in People : /\ There(p)' = There(p)
                                        /\ Reminding(p)' = Reminding(p)
                                        /\ Counting(p)' = Counting(p)
      BY <2>1 DEF con, There, Reminding, Counting, Doing
    <3> QED
      BY <2>1, <3>1 DEF EInv, RemindsFit, Reminded
  <2> QED
    BY <2>2, <2>3, <2>4, <2>5, <2>6 DEF EInv
<1>2. CASE Next
  <2>1. CASE NextDay
    BY <2>1, NextDayKeeps
  <2>2. ASSUME NEW h \in Handlers,
               \/ Ask(h) \/ RunPrices(h) \/ RunUnpaid(h) \/ Step(h)
               \/ MailFails(h) \/ RemindFails(h) \/ Stop(h)
        PROVE  EInv'
    BY <2>2, BeginsKeep, StepsKeep, MailFailsKeeps, RemindFailsKeeps, StopKeeps
  <2>3. ASSUME NEW p \in People, Cancel(p) \/ Pay(p) \/ OptOut(p) \/ SetConPayer(p)
        PROVE  EInv'
    BY <2>3, SavesKeep
  <2> QED
    BY <1>2, <2>1, <2>2, <2>3 DEF Next
<1> QED
  BY <1>1, <1>2

-----------------------------------------------------------------------------
(* Theorems *)

\* The invariant holds in every state.
THEOREM EventsInvariant == Spec => []EInv
<1>1. Init => EInv
  BY InitKeeps
<1>2. EInv /\ [Next]_evars => EInv'
  BY NextKeeps
<1> QED
  BY <1>1, <1>2, PTL DEF Spec

\* Every variable keeps its type, with what each handler has read of the rows of
\* events/repository.js and registrations/repository.js.
THEOREM EventsTypeCorrect == Spec => []TypeOK
<1>1. EInv => TypeOK
  <2> SUFFICES ASSUME EInv PROVE TypeOK
    OBVIOUS
  <2>1. \A h \in Handlers :
           /\ job[h].kind \in Kinds /\ job[h].event \in Event /\ job[h].reg \in Reg
           /\ job[h].rows \subseteq People
    BY DEF EInv, Typed, Job
  <2> QED
    BY <2>1 DEF EInv, Typed, Mails, TypeOK
<1> QED
  BY <1>1, EventsInvariant, PTL

\* What PUT and POST /events check before they write still holds afterwards, although nothing
\* is locked in between, unless two requests crossed.
THEOREM SettingsFitCorrect == Spec => []SettingsFit
<1>1. EInv => SettingsFit
  BY DEF EInv
<1> QED
  BY <1>1, EventsInvariant, PTL

\* Whoever has a special role has one of the event's, however the roles were renamed, one
\* UPDATE after the other, while others registered and saved.
THEOREM RenamesReachEverybodyCorrect == Spec => []RenamesReachEverybody
<1>1. EInv => RenamesReachEverybody
  <2> SUFFICES ASSUME EInv, ~Running("rename"), ~history.crossed, ~history.stopped
               PROVE  \A p \in People : regs[p].flag \in con.flags \cup {NoFlag}
    BY DEF RenamesReachEverybody
  <2>1. \A h \in Handlers : job[h].kind # "rename"
    BY DEF Running
  <2> QED
    BY <2>1 DEF EInv, FlagsFit, Overlapping, FlagsKnown
<1> QED
  BY <1>1, EventsInvariant, PTL

\* An event deleted without "force" takes nobody along who registered before.
THEOREM OnlyEmptyIsDeletedCorrect == Spec => []OnlyEmptyIsDeleted
<1>1. EInv => OnlyEmptyIsDeleted
  BY DEF EInv
<1> QED
  BY <1>1, EventsInvariant, PTL

\* What is owed is the list price and the extras, in whatever order requests, payments and the
\* Con-Zahler job change them.
THEOREM PricesAreKeptCorrect == Spec => []PricesAreKept
<1>1. EInv => PricesAreKept
  BY DEF EInv
<1> QED
  BY <1>1, EventsInvariant, PTL

\* One mail per deadline, however many runs of conPayerAutomation.js overlap, stop or fail to
\* send: the claim, one guarded UPDATE, is enough.
THEOREM MailsAreCountedCorrect == Spec => []MailsAreCounted
<1>1. EInv => MailsAreCounted
  <2> SUFFICES ASSUME EInv, ~history.repriced, NEW p \in People
               PROVE  /\ \A d \in Days : mails.deadline[p][d] <= 1
                      /\ regs[p].mailedFor # Never =>
                           \/ mails.deadline[p][regs[p].mailedFor] = 1 \/ p \in history.unsent
                           \/ \E h \in Handlers : Doing(h, "send") /\ job[h].person = p
    BY DEF MailsAreCounted
  <2>1. MailsKnown
    BY DEF EInv, MailsFit
  <2>2. \A h \in Handlers : job[h].todo = Sending => Doing(h, "send")
    BY JobFollows DEF Follows, Doing
  <2> QED
    BY <2>1, <2>2 DEF MailsKnown, Mailed, MailedNow
<1> QED
  BY <1>1, EventsInvariant, PTL

\* Reminders as often as counted, but for runs that stopped in between, and each on its day for
\* whoever no two runs of unpaidReminders.js had on their lists, although nothing is claimed.
THEOREM RemindersAreCountedCorrect == Spec => []RemindersAreCounted
<1>1. EInv => RemindersAreCounted
  <2> SUFFICES ASSUME EInv, NEW p \in People, There(p), NEW counted,
                      counted = regs[p].sent + Cardinality(Counting(p))
               PROVE  /\ mails.listed[p] >= counted
                      /\ mails.listed[p] = counted \/ p \in history.uncounted
                      /\ \/ counted = 0 \/ p \in history.doubled
                         \/ /\ counted <= Len(ReminderDays)
                            /\ regs[p].created + ReminderDays[counted] <= day
    BY DEF RemindersAreCounted
  <2>1. Reminded(p) /\ regs[p].sent \in Nat
    BY DEF EInv, RemindsFit, Typed, Reg
  <2>2. /\ Counting(p) \subseteq Reminding(p) /\ IsFiniteSet(Counting(p))
        /\ Cardinality(Counting(p)) \in Nat
    BY CountingIs DEF EInv
  <2>3. mails.listed[p] >= counted /\ (mails.listed[p] = counted \/ p \in history.uncounted)
    BY <2>1 DEF Reminded, Listings, AllCounted
  <2>4. ASSUME counted # 0, p \notin history.doubled
        PROVE  OnItsDay(regs[p], counted, day)
    <3>1. InTime(regs[p], Reminding(p), day) /\ \A g, k \in Reminding(p) : g = k
      BY <2>1, <2>4 DEF Reminded
    <3>2. CASE Counting(p) = {}
      <4>1. counted = regs[p].sent
        BY <2>1, <3>2, FS_EmptySet
      <4> QED
        BY <2>4, <3>1, <4>1 DEF InTime
    <3>3. CASE Counting(p) # {}
      <4>1. PICK g : g \in Counting(p)
        BY <3>3
      <4>2. Counting(p) = {g} /\ Reminding(p) # {}
        BY <2>2, <3>1, <4>1
      <4>3. counted = regs[p].sent + 1
        BY <4>2, FS_Singleton
      <4> QED
        BY <3>1, <4>2, <4>3 DEF InTime
    <3> QED
      BY <3>2, <3>3
  <2> QED
    BY <2>3, <2>4 DEF OnItsDay
<1> QED
  BY <1>1, EventsInvariant, PTL
=================================================================================
