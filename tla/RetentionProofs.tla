---------------------------- MODULE RetentionProofs ----------------------------
(* Theorems about Retention, for every number of people, categories, days, *)
(* handlers and faults, and for every set of scenarios.                    *)
EXTENDS Retention, TLAPS

-----------------------------------------------------------------------------
(* What a handler still has to do *)

Backup1 == <<"take", "dump", "dumpEvent", "deliver", "prune", "read", "end">>
Backup2 == <<"dump", "dumpEvent", "deliver", "prune", "read", "end">>
Backup3 == <<"dumpEvent", "deliver", "prune", "read", "end">>
Backup4 == <<"deliver", "prune", "read", "end">>
Backup5 == <<"prune", "read", "end">>
Backup6 == <<"read", "end">>
Backup7 == <<"end">>
BackupLeft ==
    {RunSteps, Backup1, Backup2, Backup3, Backup4, Backup5, Backup6, Backup7}
Export0 == <<"dump", "dumpEvent", "deliver">>
Export1 == <<"dumpEvent", "deliver">>
Export2 == <<"deliver">>
Saving == <<"save">>
Writing == <<"write">>
Changing == <<"write", "record">>
Recording == <<"record">>
RequestLeft == {Export0, Export1, Export2, Saving, Writing, Changing, Recording}
Deletion1 == <<"wipe", "readAccounts", "wipe", "wipeSheets", "mark">>
Deletion2 == <<"readAccounts", "wipe", "wipeSheets", "mark">>
Deletion3 == <<"wipe", "wipeSheets", "mark">>
Deletion4 == <<"wipeSheets", "mark">>
Deletion5 == <<"mark">>
DeletionLeft ==
    {DeletionSteps, Deletion1, Deletion2, Deletion3, Deletion4, Deletion5}
Todo == {<<>>} \cup BackupLeft \cup RequestLeft \cup DeletionLeft

Job ==
    [kind : Kinds, todo : Todo, day : Days, n : Nat, category : Categories \cup {"none"},
     rows : SUBSET (People \X Form), settings : Settings, was : Settings,
     outcome : {"ok", "partial", "error"} \cup Categories, file : File,
     kept : SUBSET (Categories \X Places \X People), place : Places \cup {"none"},
     person : People \cup {"none"}, form : Form, keeps : BOOLEAN]
Past ==
    [runs : [Days -> Nat], again : SUBSET (Days \cup {Never}), changed : BOOLEAN, saved : Nat,
     crossed : SUBSET (Places \X People), returned : SUBSET (Categories \X Places \X People),
     restored : BOOLEAN]

\* What a job is at each step it may have reached.
Fits(j) ==
    /\ j.kind = "none" => j = Done
    /\ j.kind # "none" => j.todo # <<>>
    /\ j.kind = "backup" <=> j.todo \in BackupLeft
    /\ j.kind = "backup" => j.outcome \in {"ok", "partial", "error"}
    /\ j.kind = "deletion" => j.todo \in DeletionLeft
    /\ j.todo \in DeletionLeft => j.category \in Categories
    /\ j.todo \notin DeletionLeft => j.category = "none"
    /\ j.todo = Deletion1 => j.place = "answers"
    /\ j.todo \in {Deletion1, Deletion2} => j.kept = {}
    /\ j.todo = Deletion3 => j.place = "accounts"
    /\ j.todo \in {Writing, Changing, Recording} =>
         j.place \in Places /\ j.person \in People /\ j.outcome \in Categories

\* Jobs are of the right kind, and of backups there is one at a time.
JobsFit == \A h \in Handlers : Fits(job[h]) /\ job[h].n <= clock
OneBackup ==
    \A g, h \in Handlers : job[g].kind = "backup" /\ job[h].kind = "backup" => g = h

\* The marks of deletions carry times that have been.
Marks(e, n) == \A c \in Categories : e.cut[c] <= n
CutsPast ==
    /\ Marks(event, clock) /\ \A f \in files : Marks(f.event, clock)
    /\ \A h \in Handlers : Marks(job[h].file.event, clock)

Typed ==
    /\ day \in Days /\ slot \in BOOLEAN
    /\ data \in Data /\ consent \subseteq People /\ elsewhere \subseteq People
    /\ event \in Event /\ settings \in Settings
    /\ files \subseteq File /\ \A f, g \in files : f.n = g.n => f = g
    /\ job \in [Handlers -> Job] /\ history \in Past
    /\ clock \in Nat /\ requests \in 0..MaxRequests /\ faults \in 0..MaxFaults
    /\ ops \in Scenarios

\* The days of backups are days that have been; the run under way began last.
RunsPast ==
    \A d \in Days : history.runs[d] > 0 =>
        /\ d <= day
        /\ \A h \in Handlers : job[h].kind = "backup" => d <= job[h].day
\* A run that has its dump before it is the first of its day, but for overwritten marks.
ToDump(j) == j.kind = "backup" /\ j.todo \in {RunSteps, Backup1, Backup2}
FirstOfDay ==
    \A h \in Handlers :
        ToDump(job[h]) => history.runs[job[h].day] = 0 \/ job[h].day \in history.again
\* A day's backup is marked from before it is made to the end of the day.
Marked == settings.lastRun = day \/ day \in history.again
DayMarked ==
    /\ history.runs[day] > 0 => Marked
    /\ \A h \in Handlers : job[h].todo = Backup2 /\ job[h].day = day => Marked
DaysPast ==
    /\ settings.lastRun # Never => settings.lastRun <= day
    /\ \A h \in Handlers :
         /\ job[h].day <= day
         /\ job[h].settings.lastRun # Never => job[h].settings.lastRun <= day
         /\ job[h].todo = Saving =>
              /\ job[h].settings.change = job[h].n
              /\ job[h].was.lastRun # Never => job[h].was.lastRun <= day
              /\ job[h].was.lastRun = day => job[h].settings.lastRun = day
         /\ job[h].todo \in {Backup1, Backup7} => job[h].settings = job[h].was

\* What a deletion has to do with the data of a person in a place is done.
NotWaiting(j, p) == \A row \in j.rows : row[1] # p
Handled(j, place, p) ==
    \/ place = "answers" /\ \/ j.todo = Deletion1 /\ NotWaiting(j, p)
                            \/ j.todo \in {Deletion2, Deletion3, Deletion4, Deletion5}
    \/ place = "accounts" /\ \/ j.todo = Deletion3 /\ NotWaiting(j, p)
                             \/ j.todo \in {Deletion4, Deletion5}
    \/ place = "sheets" /\ j.todo = Deletion5
Excused(place, p, past) == <<place, p>> \in past.crossed \/ past.restored
Free(form, c, place, p, n, kept, past) ==
    \/ form[c] = None \/ form[c] >= n
    \/ <<c, place, p>> \in kept \cup past.returned \/ Excused(place, p, past)
Clears(j, d, past) ==
    \A place \in Places, p \in People :
        Handled(j, place, p) => Free(d[place][p], j.category, place, p, j.n, j.kept, past)
JobsForget == \A h \in Handlers : Clears(job[h], data, history)
Forgotten(d, e, past) ==
    \A c \in e.deleted, place \in Places, p \in People :
        Free(d[place][p], c, place, p, e.cut[c], e.kept, past)
\* A backup with data and marks from one moment keeps the promise too.
Restorable(f, past) == f.torn \/ Forgotten(f.data, f.event, past)
BackupsForget ==
    /\ \A f \in files : Restorable(f, history)
    /\ \A h \in Handlers :
         job[h].todo \in {Backup4, Export2} => Restorable(job[h].file, history)

RInv ==
    /\ Typed /\ JobsFit /\ OneBackup /\ CutsPast
    /\ RunsPast /\ FirstOfDay /\ DayMarked /\ DaysPast /\ SlotRunsOnce
    /\ SettingsAreKept
    /\ JobsForget /\ BackupsForget /\ ForgottenIsGone

\* What a person may take back.
ReviewsFit == reviews \subseteq Review
RetentionInv == RInv /\ ReviewsFit

-----------------------------------------------------------------------------
(* Jobs *)

\* The next statement of a job, and what is left after it.
Follows(left, what, rest) == left # <<>> /\ Head(left) = what /\ Tail(left) = rest
LEMMA BackupFollows ==
    /\ Follows(RunSteps, "read", Backup1) /\ Follows(Backup1, "take", Backup2)
    /\ Follows(Backup2, "dump", Backup3) /\ Follows(Backup3, "dumpEvent", Backup4)
    /\ Follows(Backup4, "deliver", Backup5) /\ Follows(Backup5, "prune", Backup6)
    /\ Follows(Backup6, "read", Backup7) /\ Follows(Backup7, "end", <<>>)
  BY DEF Follows, RunSteps, Backup1, Backup2, Backup3, Backup4, Backup5, Backup6, Backup7
LEMMA RequestFollows ==
    /\ Follows(Export0, "dump", Export1) /\ Follows(Export1, "dumpEvent", Export2)
    /\ Follows(Export2, "deliver", <<>>)
    /\ Follows(Saving, "save", <<>>) /\ Follows(Writing, "write", <<>>)
    /\ Follows(Changing, "write", Recording) /\ Follows(Recording, "record", <<>>)
  BY DEF Follows, Export0, Export1, Export2, Saving, Writing, Changing, Recording
LEMMA DeletionFollows ==
    /\ Follows(DeletionSteps, "readAnswers", Deletion1) /\ Follows(Deletion1, "wipe", Deletion2)
    /\ Follows(Deletion2, "readAccounts", Deletion3) /\ Follows(Deletion3, "wipe", Deletion4)
    /\ Follows(Deletion4, "wipeSheets", Deletion5) /\ Follows(Deletion5, "mark", <<>>)
  BY DEF Follows, DeletionSteps, Deletion1, Deletion2, Deletion3, Deletion4, Deletion5

\* What a job still has to do tells the lists apart.
LEMMA TodosDiffer ==
    /\ \A left \in BackupLeft \cup RequestLeft \cup DeletionLeft : left # <<>>
    /\ BackupLeft \cap RequestLeft = {} /\ BackupLeft \cap DeletionLeft = {}
    /\ RequestLeft \cap DeletionLeft = {}
  BY DEF BackupLeft, RequestLeft, DeletionLeft, RunSteps, Backup1, Backup2, Backup3, Backup4,
         Backup5, Backup6, Backup7, Export0, Export1, Export2, Saving, Writing,
         Changing, Recording, DeletionSteps, Deletion1, Deletion2, Deletion3, Deletion4, Deletion5

\* The next statement says where in its list a job is.
LEMMA WhereItIs ==
    ASSUME NEW j \in Job, j.todo # <<>>
    PROVE  /\ Head(j.todo) = "read" => j.todo \in {RunSteps, Backup6}
           /\ Head(j.todo) = "take" => j.todo = Backup1
           /\ Head(j.todo) = "dump" => j.todo \in {Backup2, Export0}
           /\ Head(j.todo) = "dumpEvent" => j.todo \in {Backup3, Export1}
           /\ Head(j.todo) = "deliver" => j.todo \in {Backup4, Export2}
           /\ Head(j.todo) = "prune" => j.todo = Backup5
           /\ Head(j.todo) = "end" => j.todo = Backup7
           /\ Head(j.todo) = "save" => j.todo = Saving
           /\ Head(j.todo) = "write" => j.todo \in {Writing, Changing}
           /\ Head(j.todo) = "record" => j.todo = Recording
           /\ Head(j.todo) = "readAnswers" => j.todo = DeletionSteps
           /\ Head(j.todo) = "wipe" => j.todo \in {Deletion1, Deletion3}
           /\ Head(j.todo) = "readAccounts" => j.todo = Deletion2
           /\ Head(j.todo) = "wipeSheets" => j.todo = Deletion4
           /\ Head(j.todo) = "mark" => j.todo = Deletion5
<1>1. j.todo \in Todo
  BY DEF Job
<1>2. CASE j.todo \in BackupLeft
  BY <1>2, BackupFollows DEF BackupLeft, Follows
<1>3. CASE j.todo \in RequestLeft
  BY <1>3, RequestFollows DEF RequestLeft, Follows
<1>4. CASE j.todo \in DeletionLeft
  BY <1>4, DeletionFollows DEF DeletionLeft, Follows
<1> QED
  BY <1>1, <1>2, <1>3, <1>4 DEF Todo

LEMMA RequestsDiffer ==
    /\ {Export0, Export1, Export2} \cap {Saving, Writing, Changing, Recording} = {}
    /\ Saving \notin {Writing, Changing, Recording}
  BY RequestFollows DEF Follows

LEMMA ConstantsFit ==
    /\ MaxDay \in Nat /\ 0 \in Days /\ "none" \notin Categories
    /\ NoForm \in Form /\ NoData \in Data /\ NoEvent \in Event
    /\ NoSettings \in Settings /\ NoFile \in File
<1>1. MaxDay \in Nat /\ 0 \in Days /\ "none" \notin Categories
  BY RetentionAssumption DEF Days
<1>2. NoForm \in Form
  BY DEF NoForm, Form, None
<1>3. NoData \in Data
  BY <1>2 DEF NoData, Data
<1>4. NoEvent \in Event
  BY <1>2 DEF NoEvent, Event
<1>5. NoSettings \in Settings
  BY DEF NoSettings, Settings
<1>6. NoFile \in File
  BY <1>3, <1>4 DEF NoFile, File
<1> QED
  BY <1>1, <1>2, <1>3, <1>4, <1>5, <1>6

\* A handler with nothing to do.
LEMMA DoneFits ==
    Done \in Job /\ Fits(Done) /\ Done.n = 0 /\ Done.todo = <<>> /\ Done.kind = "none"
<1>1. <<>> \in Todo
  BY DEF Todo
<1>2. Done \in Job
  BY <1>1, ConstantsFit DEF Done, Job, Kinds
<1>3. Done.kind = "none" /\ Done.todo = <<>> /\ Done.category = "none" /\ Done.n = 0
  BY DEF Done
<1>4. <<>> \notin BackupLeft \cup RequestLeft \cup DeletionLeft
  BY TodosDiffer
<1>5. Fits(Done)
  BY <1>3, <1>4 DEF Fits, BackupLeft, RequestLeft, DeletionLeft
<1> QED
  BY <1>2, <1>3, <1>5

\* A job after one statement; a list that is empty ends the job.
Moved(h, left) == job' = [job EXCEPT ![h] = IF left.todo = <<>> THEN Done ELSE left]
Continues(h, left) ==
    left.todo # <<>> => left \in Job /\ Fits(left) /\ left.kind = job[h].kind /\ left.n <= clock'
LEMMA MovedFits ==
    ASSUME job \in [Handlers -> Job], JobsFit, OneBackup, NEW h \in Handlers, NEW left,
           clock \in Nat, clock' \in Nat, clock <= clock', Moved(h, left), Continues(h, left)
    PROVE  job' \in [Handlers -> Job] /\ JobsFit' /\ OneBackup'
<1>1. /\ \A g \in Handlers \ {h} : job'[g] = job[g]
      /\ job'[h] = IF left.todo = <<>> THEN Done ELSE left
  BY DEF Moved
<1>2. job'[h] \in Job /\ Fits(job'[h]) /\ job'[h].n <= clock'
  BY <1>1, DoneFits DEF Continues
<1>3. job' \in [Handlers -> Job]
  BY <1>1, <1>2 DEF Moved
<1>4. \A g \in Handlers : Fits(job'[g]) /\ job'[g].n <= clock'
  <2> TAKE g \in Handlers
  <2>1. CASE g = h
    BY <2>1, <1>2
  <2>2. CASE g # h
    <3>1. job[g] \in Job /\ job[g].n \in Nat
      BY DEF Job
    <3> QED
      BY <2>2, <1>1, <3>1 DEF JobsFit
  <2> QED
    BY <2>1, <2>2
<1>5. JobsFit'
  BY <1>4 DEF JobsFit, Fits
<1>6. job'[h].kind \in {"none", job[h].kind}
  BY <1>1, DoneFits DEF Continues
<1>7. OneBackup'
  BY <1>1, <1>6 DEF OneBackup
<1> QED
  BY <1>3, <1>5, <1>7

\* A job that has begun, and what everything else is then.
Starts(h) ==
    /\ UNCHANGED <<day, slot, data, consent, elsewhere, event, settings, files, history, ops>>
    /\ faults' = faults /\ clock' = clock + 1 /\ requests' \in 0..MaxRequests
    /\ job[h] = Done /\ job' = [job EXCEPT ![h] = job'[h]] /\ job'[h] \in Job /\ Fits(job'[h])
    /\ job'[h].n = clock + 1 /\ job'[h].day = day /\ job'[h].rows = {} /\ job'[h].file = NoFile
    /\ job'[h].todo \in {RunSteps, Export0, Saving, Writing, Changing, DeletionSteps}
    /\ job'[h].settings \in {settings, NoSettings} \/ job'[h].todo = Saving
    /\ job'[h].kind = "backup" => ~Running("backup") /\ IsDue
    /\ job'[h].todo = Saving =>
         /\ job'[h].was = settings /\ job'[h].settings.change = clock + 1
         /\ job'[h].settings.lastRun \in {settings.lastRun, day}

LEMMA JobStarts ==
    ASSUME Typed, NEW h \in Handlers, NEW begun \in Job, Begin(h, begun), Fits(begun),
           requests' \in 0..MaxRequests,
           UNCHANGED <<day, slot, data, consent, elsewhere, event, settings, files, history>>,
           begun.rows = {}, begun.file = NoFile,
           begun.todo \in {RunSteps, Export0, Saving, Writing, Changing, DeletionSteps},
           begun.settings \in {settings, NoSettings} \/ begun.todo = Saving,
           begun.kind = "backup" => ~Running("backup") /\ IsDue,
           begun.todo = Saving =>
             /\ begun.was = settings /\ begun.settings.change = clock + 1
             /\ begun.settings.lastRun \in {settings.lastRun, day}
    PROVE  Starts(h)
<1> DEFINE new == [begun EXCEPT !.n = clock + 1, !.day = day]
<1>1. clock + 1 \in Nat /\ day \in Days
  BY DEF Typed
<1>2. /\ new \in Job /\ new.n = clock + 1 /\ new.day = day
      /\ new.kind = begun.kind /\ new.todo = begun.todo /\ new.category = begun.category
      /\ new.rows = begun.rows /\ new.settings = begun.settings /\ new.was = begun.was
      /\ new.outcome = begun.outcome /\ new.file = begun.file /\ new.place = begun.place
      /\ new.person = begun.person
  BY <1>1 DEF Job
<1>3. begun.todo # <<>>
  BY TodosDiffer DEF BackupLeft, RequestLeft, DeletionLeft
<1>4. begun.kind # "none"
  BY <1>3, DoneFits DEF Fits
<1>5. Fits(new)
  BY <1>2, <1>3, <1>4 DEF Fits
<1>6. job' = [job EXCEPT ![h] = new] /\ job[h] = Done /\ clock' = clock + 1
      /\ faults' = faults /\ ops' = ops
  BY DEF Begin, Idle
<1>7. job'[h] = new
  BY <1>6 DEF Typed
<1> HIDE DEF new
<1> QED
  BY <1>2, <1>5, <1>6, <1>7 DEF Starts

LEMMA OneMoreRequest ==
    ASSUME Typed, requests < Limit, requests' = requests + 1
    PROVE  requests' \in 0..MaxRequests
  BY RetentionAssumption DEF Typed, Limit

\* Every request and every job that begins.
LEMMA AskStarts ==
    ASSUME Typed, NEW h \in Handlers, Ask(h)
    PROVE  Starts(h)
<1>1. /\ RunSteps \in Todo /\ Export0 \in Todo /\ Saving \in Todo /\ Writing \in Todo
      /\ Changing \in Todo /\ DeletionSteps \in Todo
  BY DEF Todo, BackupLeft, RequestLeft, DeletionLeft
<1>2. Done \in Job /\ settings \in Settings /\ clock \in Nat /\ day \in Days
  BY DoneFits DEF Typed
<1>3. ASSUME RunScheduledBackup(h) PROVE Starts(h)
  <2> DEFINE begun == [Done EXCEPT !.kind = "backup", !.todo = RunSteps, !.settings = settings]
  <2>1. /\ begun \in Job /\ begun.kind = "backup" /\ begun.todo = RunSteps
        /\ begun.settings = settings /\ begun.rows = {} /\ begun.file = NoFile
        /\ begun.outcome = "ok" /\ begun.category = "none"
    BY <1>1, <1>2 DEF Job, Kinds, Done
  <2>2. RunSteps \in BackupLeft /\ RunSteps \notin RequestLeft \cup DeletionLeft
    BY TodosDiffer DEF BackupLeft
  <2>3. RunSteps \notin {Deletion1, Deletion2, Deletion3} /\ RunSteps \notin {Writing, Changing, Recording, Saving}
    BY <2>2 DEF RequestLeft, DeletionLeft
  <2>4. RunSteps # <<>>
    BY <2>2, TodosDiffer
  <2>5. Fits(begun)
    BY <2>1, <2>2, <2>3, <2>4 DEF Fits
  <2>6. Begin(h, begun) /\ requests' = requests
    BY <1>3 DEF RunScheduledBackup, BeginJob
  <2>7. ~Running("backup") /\ IsDue
        /\ UNCHANGED <<day, slot, data, consent, elsewhere, event, settings, files, history>>
    BY <1>3 DEF RunScheduledBackup, time, persons, backups
  <2> HIDE DEF begun
  <2> QED
    BY <2>1, <2>3, <2>5, <2>6, <2>7, JobStarts DEF Typed
<1>4. ASSUME ExportByHand(h) PROVE Starts(h)
  <2> DEFINE begun == [Done EXCEPT !.kind = "request", !.todo = Export0]
  <2>1. /\ begun \in Job /\ begun.kind = "request" /\ begun.todo = Export0
        /\ begun.settings = NoSettings /\ begun.rows = {} /\ begun.file = NoFile
        /\ begun.outcome = "ok" /\ begun.category = "none"
    BY <1>1, <1>2 DEF Job, Kinds, Done
  <2>2. Export0 \in RequestLeft /\ Export0 \notin BackupLeft \cup DeletionLeft
    BY TodosDiffer DEF RequestLeft
  <2>3. /\ Export0 \notin {Deletion1, Deletion2, Deletion3} /\ Export0 \notin {Writing, Changing, Recording, Saving}
        /\ Export0 # <<>>
    BY <2>2, TodosDiffer, RequestsDiffer DEF DeletionLeft
  <2>4. Fits(begun)
    BY <2>1, <2>2, <2>3 DEF Fits
  <2>5. Begin(h, begun) /\ requests < Limit /\ requests' = requests + 1
    BY <1>4 DEF ExportByHand, BeginRequest, Export0
  <2>6. UNCHANGED <<day, slot, data, consent, elsewhere, event, settings, files, history>>
    BY <1>4 DEF ExportByHand, time, persons, backups
  <2> HIDE DEF begun
  <2> QED
    BY <2>1, <2>3, <2>4, <2>5, <2>6, JobStarts, OneMoreRequest
<1>5. ASSUME NEW enabled \in BOOLEAN, NEW keep \in 1..2, SetBackupSettings(h, enabled, keep)
      PROVE  Starts(h)
  <2> DEFINE wanted == [settings EXCEPT
                          !.enabled = enabled, !.keep = keep, !.change = clock + 1,
                          !.lastRun = IF enabled /\ ~settings.enabled THEN day ELSE @]
             begun == [Done EXCEPT !.kind = "request", !.todo = Saving,
                                   !.was = settings, !.settings = wanted]
  <2>1. /\ wanted \in Settings /\ wanted.change = clock + 1
        /\ wanted.lastRun \in {settings.lastRun, day}
    <3>1. PICK on \in Days \cup {Never} :
             /\ on = IF enabled /\ ~settings.enabled THEN day ELSE settings.lastRun
             /\ on \in {settings.lastRun, day}
      BY <1>2 DEF Settings
    <3>2. wanted = [settings EXCEPT !.enabled = enabled, !.keep = keep, !.change = clock + 1,
                                    !.lastRun = on]
      BY <3>1
    <3>3. enabled \in BOOLEAN /\ keep \in 1..2 /\ clock + 1 \in Nat
      BY <1>2, <1>5
    <3> HIDE DEF wanted
    <3> QED
      BY <1>2, <3>1, <3>2, <3>3 DEF Settings
  <2> HIDE DEF wanted
  <2>2. /\ begun \in Job /\ begun.kind = "request" /\ begun.todo = Saving
        /\ begun.settings = wanted /\ begun.was = settings
        /\ begun.rows = {} /\ begun.file = NoFile
        /\ begun.outcome = "ok" /\ begun.category = "none"
    BY <1>1, <1>2, <2>1 DEF Job, Kinds, Done
  <2>3. Saving \in RequestLeft /\ Saving \notin BackupLeft \cup DeletionLeft
    BY TodosDiffer DEF RequestLeft
  <2>4. Saving \notin {Deletion1, Deletion2, Deletion3} /\ Saving # <<>>
        /\ Saving \notin {Writing, Changing, Recording}
    BY <2>3, TodosDiffer, RequestsDiffer DEF DeletionLeft
  <2>5. Fits(begun)
    BY <2>2, <2>3, <2>4 DEF Fits
  <2>6. Begin(h, begun) /\ requests < Limit /\ requests' = requests + 1
    BY <1>5 DEF SetBackupSettings, BeginRequest, Saving, wanted
  <2>7. UNCHANGED <<day, slot, data, consent, elsewhere, event, settings, files, history>>
    BY <1>5 DEF SetBackupSettings, time, persons, backups
  <2> HIDE DEF begun
  <2> QED
    BY <2>1, <2>2, <2>5, <2>6, <2>7, JobStarts, OneMoreRequest
<1>6. ASSUME NEW by, NEW place \in Places, NEW p \in People, NEW c \in Categories,
             NEW keeps \in BOOLEAN, Edit(h, by, place, p, c, keeps)
      PROVE  Starts(h)
  <2> DEFINE begun == [Done EXCEPT
                          !.kind = "request", !.todo = Steps(by), !.place = place, !.person = p,
                          !.category = "none", !.form = data[place][p], !.keeps = keeps,
                          !.outcome = c]
  <2>1. data[place][p] \in Form /\ Steps(by) \in {Writing, Changing}
    BY DEF Typed, Data, Steps, Writing, Changing
  <2>2. /\ begun \in Job /\ begun.kind = "request" /\ begun.todo = Steps(by)
        /\ begun.settings = NoSettings /\ begun.rows = {} /\ begun.file = NoFile
        /\ begun.outcome = c /\ begun.category = "none" /\ begun.place = place
        /\ begun.person = p
    BY ZenonT(40), <1>1, <1>2, <2>1 DEF Job, Kinds, Done
  <2>3. Steps(by) \in RequestLeft /\ Steps(by) \notin BackupLeft \cup DeletionLeft
    BY <2>1, TodosDiffer DEF RequestLeft
  <2>4. Steps(by) \notin {Deletion1, Deletion2, Deletion3, Saving, <<>>}
    BY <2>1, <2>3, TodosDiffer, RequestsDiffer DEF DeletionLeft
  <2>5. Fits(begun)
    BY <2>2, <2>3, <2>4 DEF Fits
  <2>6. Begin(h, begun) /\ requests < Limit /\ requests' = requests + 1
    BY <1>6 DEF Edit, BeginRequest
  <2>7. UNCHANGED <<day, slot, data, consent, elsewhere, event, settings, files, history>>
    BY <1>6 DEF Edit, time, persons, backups
  <2> HIDE DEF begun
  <2> QED
    BY <2>1, <2>2, <2>4, <2>5, <2>6, <2>7, JobStarts, OneMoreRequest
<1>7. ASSUME NEW c \in Categories, RunDeletion(h, c) \/ RunCleanup(h, c)
      PROVE  Starts(h)
  <2>1. /\ Begin(h, Deletion(c)) /\ requests < Limit /\ requests' = requests + 1
        /\ UNCHANGED <<day, slot, data, consent, elsewhere, event, settings, files, history>>
    BY <1>7 DEF RunDeletion, RunCleanup, BeginRequest, time, persons, backups
  <2> DEFINE begun == Deletion(c)
  <2>2. /\ begun \in Job /\ begun.kind = "deletion" /\ begun.todo = DeletionSteps
        /\ begun.settings = NoSettings /\ begun.rows = {} /\ begun.file = NoFile
        /\ begun.outcome = "ok" /\ begun.category = c
    BY <1>1, <1>2 DEF Job, Kinds, Done, Deletion
  <2>3. DeletionSteps \in DeletionLeft /\ DeletionSteps \notin BackupLeft \cup RequestLeft
    BY TodosDiffer DEF DeletionLeft
  <2>4. /\ DeletionSteps \notin {Deletion1, Deletion2, Deletion3} /\ DeletionSteps # <<>>
        /\ DeletionSteps \notin {Writing, Changing, Recording, Saving}
    BY <2>3, TodosDiffer DEF DeletionSteps, Deletion1, Deletion2, Deletion3, RequestLeft
  <2>5. Fits(begun)
    BY <2>2, <2>3, <2>4 DEF Fits
  <2>6. requests' \in 0..MaxRequests
    BY <2>1, OneMoreRequest DEF Typed
  <2> HIDE DEF begun
  <2>7. Begin(h, begun)
    BY <2>1 DEF begun
  <2> QED
    BY <2>1, <2>2, <2>4, <2>5, <2>6, <2>7, JobStarts
<1> QED
  BY <1>3, <1>4, <1>5, <1>6, <1>7 DEF Ask

\* The lists of jobs that have begun are none of the others.
LEMMA FirstLists ==
    ASSUME NEW left \in {RunSteps, Export0, Saving, Writing, Changing, DeletionSteps}
    PROVE  left \notin {<<>>, Backup1, Backup2, Backup4, Backup7, Export2, Deletion1,
                        Deletion2, Deletion3, Deletion4, Deletion5}
<1>1. left \notin {<<>>, Backup1, Backup2, Backup4, Backup7}
  BY TodosDiffer DEF RunSteps, Backup1, Backup2, Backup4, Backup7, Export0, Saving, Writing,
     Changing, DeletionSteps
<1>2. left \notin {Export2, Deletion1, Deletion2, Deletion3, Deletion4, Deletion5}
  BY DEF RunSteps, Export0, Saving, Writing, Changing, DeletionSteps, Export2, Deletion1, Deletion2,
     Deletion3, Deletion4, Deletion5
<1> QED
  BY <1>1, <1>2

\* What has been marked by a time is marked by a later one.
LEMMA MarksStay ==
    ASSUME NEW e \in Event, NEW n \in Nat, NEW m \in Nat, Marks(e, n), n <= m
    PROVE  Marks(e, m)
<1>1. \A c \in Categories : e.cut[c] \in Nat
  BY DEF Event, Form
<1> QED
  BY <1>1 DEF Marks

LEMMA StartKeepsJobs ==
    ASSUME RInv, NEW h \in Handlers, Starts(h)
    PROVE  Typed' /\ JobsFit' /\ OneBackup' /\ CutsPast'
<1>1. /\ \A g \in Handlers \ {h} : job'[g] = job[g]
      /\ job[h] = Done /\ job'[h] \in Job /\ Fits(job'[h]) /\ job'[h].n = clock + 1
      /\ job \in [Handlers -> Job] /\ clock \in Nat /\ clock' = clock + 1
  BY DEF Starts, RInv, Typed
<1>2. job' \in [Handlers -> Job]
  BY <1>1 DEF Starts
<1>3. Typed'
  BY <1>1, <1>2 DEF Starts, RInv, Typed
<1>4. JobsFit'
  <2> SUFFICES ASSUME NEW g \in Handlers PROVE Fits(job'[g]) /\ job'[g].n <= clock'
    BY DEF JobsFit, Fits
  <2>1. CASE g = h
    BY <2>1, <1>1
  <2>2. CASE g # h
    <3>1. job[g].n \in Nat
      BY <1>1 DEF Job
    <3> QED
      BY <2>2, <1>1, <3>1 DEF JobsFit, RInv
  <2> QED
    BY <2>1, <2>2
<1>5. job'[h].kind = "backup" => \A g \in Handlers : job[g].kind # "backup"
  BY DEF Starts, Running
<1>6. OneBackup'
  BY <1>1, <1>5 DEF OneBackup, RInv
<1>7. job'[h].file = NoFile /\ event' = event /\ files' = files
  BY DEF Starts
<1>9. Marks(NoFile.event, clock')
  BY <1>1 DEF Marks, NoFile, NoEvent, NoForm, None
<1>10. \A e \in Event : Marks(e, clock) => Marks(e, clock')
  BY <1>1, MarksStay
<1>11. /\ event \in Event /\ \A f \in files : f.event \in Event
       /\ \A g \in Handlers : job[g].file.event \in Event
  BY <1>1 DEF RInv, Typed, File, Job
<1>12. \A g \in Handlers : Marks(job'[g].file.event, clock')
  <2> TAKE g \in Handlers
  <2>1. CASE g = h
    BY <2>1, <1>7, <1>9
  <2>2. CASE g # h
    <3>1. Marks(job[g].file.event, clock)
      BY DEF RInv, CutsPast
    <3> QED
      BY <2>2, <3>1, <1>1, <1>10, <1>11
  <2> QED
    BY <2>1, <2>2
<1>13. CutsPast'
  <2>1. Marks(event', clock')
    BY <1>7, <1>10, <1>11 DEF CutsPast, RInv
  <2>2. \A f \in files' : Marks(f.event, clock')
    BY <1>7, <1>10, <1>11 DEF CutsPast, RInv
  <2> QED
    BY <1>12, <2>1, <2>2 DEF CutsPast, Marks
<1> QED
  BY <1>3, <1>4, <1>6, <1>13

LEMMA StartKeepsDays ==
    ASSUME RInv, NEW h \in Handlers, Starts(h)
    PROVE  RunsPast' /\ FirstOfDay' /\ DayMarked' /\ DaysPast' /\ SlotRunsOnce'
           /\ SettingsAreKept'
<1>1. /\ \A g \in Handlers \ {h} : job'[g] = job[g]
      /\ job'[h] \in Job /\ job'[h].day = day /\ day' = day /\ settings' = settings
      /\ history' = history /\ job \in [Handlers -> Job] /\ clock' = clock + 1
      /\ day \in Days /\ settings \in Settings /\ history.runs \in [Days -> Nat]
      /\ MaxDay \in Nat /\ clock \in Nat
  BY ConstantsFit DEF Starts, RInv, Typed, Past
<1>2. /\ job'[h].todo \in {RunSteps, Export0, Saving, Writing, Changing, DeletionSteps}
      /\ job'[h].todo \notin {Backup1, Backup2, Backup7}
  BY FirstLists DEF Starts
<1>3. RunsPast'
  BY <1>1 DEF RunsPast, RInv
<1>4. job'[h].kind = "backup" => history.runs[day] = 0 \/ day \in history.again
  <2> SUFFICES ASSUME job'[h].kind = "backup", history.runs[day] # 0, day \notin history.again
               PROVE  FALSE
    OBVIOUS
  <2>1. history.runs[day] > 0
    BY <1>1
  <2>2. settings.lastRun = day
    BY <2>1 DEF RInv, DayMarked, Marked
  <2>3. IsDue
    BY DEF Starts
  <2> QED
    BY <2>2, <2>3, <1>1 DEF IsDue, Days, Never
<1>5. FirstOfDay'
  BY <1>1, <1>4 DEF FirstOfDay, RInv, ToDump
<1>6. DayMarked'
  BY <1>1, <1>2 DEF DayMarked, Marked, RInv
<1>7. SlotRunsOnce' /\ SettingsAreKept'
  BY <1>1 DEF SlotRunsOnce, SettingsAreKept, RInv
<1>8. job'[h].settings.lastRun \in {settings.lastRun, day, Never}
  BY DEF Starts, NoSettings
<1>9. /\ job'[h].day <= day
      /\ job'[h].settings.lastRun # Never => job'[h].settings.lastRun <= day
      /\ job'[h].todo = Saving =>
           /\ job'[h].settings.change = job'[h].n
           /\ job'[h].was.lastRun # Never => job'[h].was.lastRun <= day
           /\ job'[h].was.lastRun = day => job'[h].settings.lastRun = day
  BY <1>1, <1>8 DEF Starts, RInv, DaysPast, Days
<1>10. DaysPast'
  BY <1>1, <1>2, <1>9 DEF DaysPast, RInv
<1> QED
  BY <1>3, <1>5, <1>6, <1>7, <1>10

LEMMA StartKeepsData ==
    ASSUME RInv, NEW h \in Handlers, Starts(h)
    PROVE  JobsForget' /\ BackupsForget' /\ ForgottenIsGone'
<1>1. /\ \A g \in Handlers \ {h} : job'[g] = job[g]
      /\ UNCHANGED <<data, event, files, history>>
  BY DEF Starts, RInv, Typed
<1>2. job'[h].todo \notin {Backup4, Export2, Deletion1, Deletion2, Deletion3, Deletion4,
                            Deletion5}
  BY FirstLists DEF Starts
<1>3. JobsForget'
  <2>1. \A place \in Places, p \in People : ~Handled(job'[h], place, p)
    BY <1>2 DEF Handled
  <2>2. Clears(job'[h], data, history)
    BY <2>1 DEF Clears
  <2>3. \A g \in Handlers : Clears(job'[g], data', history')
    BY <1>1, <2>2 DEF JobsForget, RInv
  <2> QED
    BY <2>3 DEF JobsForget, Clears, Handled, NotWaiting, Free, Excused
<1>4. BackupsForget'
  <2>1. \A f \in files' : Restorable(f, history')
    BY <1>1 DEF BackupsForget, RInv
  <2>2. \A g \in Handlers :
           job'[g].todo \in {Backup4, Export2} => Restorable(job'[g].file, history')
    BY <1>1, <1>2 DEF BackupsForget, RInv
  <2> QED
    BY <2>1, <2>2 DEF BackupsForget, Restorable, Forgotten, Free, Excused
<1>5. ForgottenIsGone'
  BY <1>1 DEF ForgottenIsGone, RInv
<1> QED
  BY <1>3, <1>4, <1>5

-----------------------------------------------------------------------------
(* Statements *)

\* What stays with a job to its end.
Kin(a, b) ==
    /\ a.kind = b.kind /\ a.n = b.n /\ a.day = b.day /\ a.category = b.category
    /\ a.form = b.form /\ a.person = b.person
LEMMA LeftFields ==
    ASSUME NEW j \in Job, Tail(j.todo) \in Todo
    PROVE  /\ Left(j) \in Job /\ Left(j).todo = Tail(j.todo) /\ Kin(Left(j), j)
           /\ Left(j).rows = j.rows /\ Left(j).settings = j.settings /\ Left(j).was = j.was
           /\ Left(j).outcome = j.outcome /\ Left(j).file = j.file /\ Left(j).kept = j.kept
           /\ Left(j).place = j.place
  BY DEF Job, Left, Kin

\* A handler runs one statement and keeps `left'.
Progress(h, left) ==
    /\ Moved(h, left) /\ left \in Job /\ Kin(left, job[h]) /\ (left.todo # <<>> => Fits(left))
    /\ UNCHANGED <<day, slot, elsewhere, clock, requests, ops>> /\ faults' \in 0..MaxFaults

LEMMA ProgressFits ==
    ASSUME Typed, JobsFit, OneBackup, NEW h \in Handlers, NEW left, Progress(h, left)
    PROVE  job' \in [Handlers -> Job] /\ JobsFit' /\ OneBackup'
<1>1. job \in [Handlers -> Job] /\ clock \in Nat /\ clock' = clock
  BY DEF Typed, Progress
<1>2. job[h].n <= clock
  BY DEF JobsFit
<1>3. Continues(h, left)
  BY <1>1, <1>2 DEF Continues, Progress, Kin
<1>4. Moved(h, left) /\ clock' \in Nat /\ clock <= clock'
  BY <1>1 DEF Progress
<1> QED
  BY <1>1, <1>3, <1>4, MovedFits

\* The two ways to run a statement.
LEMMA ThenProgress ==
    ASSUME Typed, NEW h \in Handlers, NEW left \in Job, Kin(left, job[h]),
           left.todo # <<>> => Fits(left),
           Then(h, left) \/ Fails(h, left),
           UNCHANGED <<day, slot, elsewhere>>
    PROVE  Progress(h, left)
<1>1. Moved(h, left)
  BY DEF Then, Fails, Become, Moved
<1>2. UNCHANGED <<clock, requests, ops>>
  BY DEF Then, Fails
<1>3. faults' \in 0..MaxFaults
  BY RetentionAssumption DEF Then, Fails, Typed
<1> QED
  BY <1>1, <1>2, <1>3 DEF Progress

\* The lists after the first statements of each kind of job, sorted.
LEMMA ListsSorted ==
    /\ \A left \in BackupLeft : left \notin DeletionLeft /\ left # <<>>
          /\ left \notin {Deletion1, Deletion2, Deletion3, Writing, Changing, Recording, Saving}
    /\ \A left \in RequestLeft : left \notin DeletionLeft /\ left \notin BackupLeft
          /\ left \notin {<<>>, Deletion1, Deletion2, Deletion3}
    /\ \A left \in DeletionLeft : left \notin BackupLeft
          /\ left \notin {<<>>, Writing, Changing, Recording, Saving, Export0, Export1, Export2}
  BY TodosDiffer DEF RequestLeft, DeletionLeft

LEMMA StatementAt ==
    ASSUME Typed, JobsFit, NEW h \in Handlers, NEW what, Doing(h, what)
    PROVE  job[h] \in Job /\ Fits(job[h]) /\ job[h].todo # <<>> /\ Head(job[h].todo) = what
           /\ job[h].kind # "none"
<1>1. job[h] \in Job /\ Fits(job[h]) /\ job[h].todo # <<>> /\ Head(job[h].todo) = what
  BY DEF Typed, JobsFit, Doing
<1> QED
  BY <1>1, DoneFits DEF Fits

-----------------------------------------------------------------------------
(* Statements of backups *)

BackupUntouched == UNCHANGED <<data, consent, event, files>>
LEMMA ReadStateMoves ==
    ASSUME Typed, JobsFit, NEW h \in Handlers, ReadState(h)
    PROVE  \E left :
             /\ Progress(h, left) /\ left.settings = settings /\ left.was = settings
             /\ left.file = job[h].file /\ job[h].kind = "backup"
             /\ \/ job[h].todo = RunSteps /\ left.todo = Backup1
                \/ job[h].todo = Backup6 /\ left.todo = Backup7
             /\ BackupUntouched /\ UNCHANGED <<settings, history>>
<1> DEFINE j == job[h]
           left == [Left(j) EXCEPT !.settings = Read(j), !.was = settings]
<1>1. j \in Job /\ Fits(j) /\ j.todo # <<>> /\ Head(j.todo) = "read" /\ j.kind # "none"
  BY StatementAt DEF ReadState
<1>2. j.todo \in {RunSteps, Backup6}
  BY <1>1, WhereItIs
<1>3. /\ j.todo = RunSteps => Tail(j.todo) = Backup1
      /\ j.todo = Backup6 => Tail(j.todo) = Backup7
      /\ {Backup1, Backup7} \subseteq Todo /\ {Backup1, Backup7} \subseteq BackupLeft
      /\ {RunSteps, Backup6} \subseteq BackupLeft
  BY BackupFollows DEF Follows, Todo, BackupLeft
<1>4. j.kind = "backup"
  BY <1>1, <1>2, <1>3 DEF Fits
<1>5. settings \in Settings
  BY DEF Typed
<1>6. Tail(j.todo) \in Todo
  BY <1>2, <1>3
<1>7. Left(j) \in Job /\ Left(j).todo = Tail(j.todo) /\ Kin(Left(j), j)
      /\ Left(j).file = j.file /\ Left(j).outcome = j.outcome
  BY <1>1, <1>6, LeftFields
<1>8. /\ left \in Job /\ left.todo = Tail(j.todo) /\ Kin(left, j) /\ left.settings = settings
      /\ left.was = settings /\ left.file = j.file /\ left.outcome = j.outcome
  BY <1>5, <1>7 DEF Job, Kin, Read
<1>9. /\ left.todo \in BackupLeft /\ left.kind = "backup" /\ left.category = "none"
      /\ left.outcome \in {"ok", "partial", "error"}
  BY <1>1, <1>2, <1>3, <1>4, <1>8, ListsSorted DEF Fits, Kin
<1>10. Fits(left)
  BY <1>9, ListsSorted DEF Fits
<1>11. Then(h, left)
  BY DEF ReadState
<1>12. UNCHANGED <<day, slot, elsewhere, settings, history>> /\ BackupUntouched
  BY DEF ReadState, time, persons, backups, BackupUntouched
<1> HIDE DEF left
<1>13. Progress(h, left)
  BY <1>8, <1>10, <1>11, <1>12, ThenProgress
<1> QED
  BY <1>2, <1>3, <1>4, <1>8, <1>12, <1>13

LEMMA OverwritingIs ==
    ASSUME Typed, NEW j \in Job
    PROVE  LET over == Overwriting(j)
           IN  /\ over \in Past /\ over.runs = history.runs /\ over.saved = history.saved
               /\ over.crossed = history.crossed /\ over.restored = history.restored
               /\ over.returned = history.returned
               /\ history.again \subseteq over.again
               /\ settings.lastRun # j.was.lastRun => settings.lastRun \in over.again
               /\ over.changed = (history.changed \/ settings.change # j.was.change)
<1>1. history \in Past /\ settings.lastRun \in Days \cup {Never}
  BY DEF Typed, Settings
<1>2. PICK again : again = history.again \cup
                             When(settings.lastRun # j.was.lastRun, {settings.lastRun})
  OBVIOUS
<1>3. PICK changed : changed = (history.changed \/ settings.change # j.was.change)
  OBVIOUS
<1>4. again \subseteq Days \cup {Never} /\ changed \in BOOLEAN /\ history.again \subseteq again
      /\ (settings.lastRun # j.was.lastRun => settings.lastRun \in again)
  BY <1>1, <1>2, <1>3 DEF Past, When
<1>5. Overwriting(j) = [history EXCEPT !.again = again, !.changed = changed]
  BY <1>2, <1>3 DEF Overwriting
<1> QED
  BY <1>1, <1>3, <1>4, <1>5 DEF Past

LEMMA SaveStateMoves ==
    ASSUME Typed, JobsFit, NEW h \in Handlers, SaveState(h)
    PROVE  \E left :
             /\ Progress(h, left) /\ left.settings = job[h].settings /\ left.was = job[h].was
             /\ left.file = job[h].file /\ job[h].kind = "backup"
             /\ settings' \in Settings /\ settings'.change = job[h].settings.change
             /\ \/ /\ job[h].todo = Backup1 /\ left.todo = Backup2
                   /\ settings'.lastRun = job[h].day
                \/ /\ job[h].todo = Backup7 /\ left.todo = <<>>
                   /\ settings'.lastRun = job[h].settings.lastRun
             /\ history' = Overwriting(job[h]) /\ BackupUntouched
<1> DEFINE j == job[h]
           left == Left(j)
<1>1. j \in Job /\ Fits(j) /\ j.todo # <<>> /\ Head(j.todo) \in {"take", "end"}
  BY StatementAt DEF SaveState
<1>2. /\ Head(j.todo) = "take" => j.todo = Backup1
      /\ Head(j.todo) = "end" => j.todo = Backup7
  BY <1>1, WhereItIs
<1>3. /\ Tail(Backup1) = Backup2 /\ Tail(Backup7) = <<>>
      /\ {Backup2, <<>>} \subseteq Todo /\ {Backup1, Backup2, Backup7} \subseteq BackupLeft
  BY BackupFollows DEF Follows, Todo, BackupLeft
<1>4. j.kind = "backup" /\ j.category = "none" /\ j.outcome \in {"ok", "partial", "error"}
  BY <1>1, <1>2, <1>3, ListsSorted DEF Fits
<1>5. left \in Job /\ left.todo = Tail(j.todo) /\ Kin(left, j) /\ left.settings = j.settings
      /\ left.was = j.was /\ left.file = j.file /\ left.outcome = j.outcome
  BY ZenonT(40), <1>1, <1>2, <1>3, LeftFields
<1> HIDE DEF left
<1>6. left.todo # <<>> => left.todo = Backup2
  BY <1>1, <1>2, <1>3, <1>5
<1>7. left.todo # <<>> => Fits(left)
  BY <1>3, <1>4, <1>5, <1>6, ListsSorted DEF Fits, Kin
<1>8. Then(h, left) /\ BackupUntouched /\ UNCHANGED <<day, slot, elsewhere>>
      /\ history' = Overwriting(j)
  BY DEF SaveState, time, persons, BackupUntouched, left
<1>9. Progress(h, left)
  BY <1>5, <1>7, <1>8, ThenProgress
<1>10. j.settings \in Settings /\ j.day \in Days
  BY <1>1 DEF Job
<1>11. CASE Head(j.todo) = "take"
  <2>1. Doing(h, "take")
    BY <1>1, <1>11 DEF Doing
  <2>2. settings' = [j.settings EXCEPT !.lastRun = j.day, !.status = "running"]
    BY <2>1 DEF SaveState
  <2>3. settings' \in Settings /\ settings'.change = j.settings.change
        /\ settings'.lastRun = j.day
    BY <1>10, <2>2 DEF Settings
  <2> QED
    BY <1>2, <1>3, <1>4, <1>5, <1>8, <1>9, <1>11, <2>3
<1>12. CASE Head(j.todo) = "end"
  <2>1. ~Doing(h, "take")
    BY <1>12 DEF Doing
  <2>2. settings' = [j.settings EXCEPT !.status = j.outcome]
    BY <2>1 DEF SaveState
  <2>3. settings' \in Settings /\ settings'.change = j.settings.change
        /\ settings'.lastRun = j.settings.lastRun
    BY <1>4, <1>10, <2>2 DEF Settings
  <2> QED
    BY <1>2, <1>3, <1>4, <1>5, <1>8, <1>9, <1>12, <2>3
<1> QED
  BY <1>1, <1>11, <1>12

LEMMA SaveSettingsMoves ==
    ASSUME Typed, JobsFit, NEW h \in Handlers, SaveSettings(h)
    PROVE  \E left :
             /\ Progress(h, left) /\ left.todo = <<>> /\ job[h].todo = Saving
             /\ left.file = job[h].file /\ settings' = job[h].settings
             /\ history' \in Past /\ history'.runs = history.runs
             /\ history'.changed = history.changed /\ history'.saved = job[h].n
             /\ history.again \subseteq history'.again
             /\ settings.lastRun # job[h].was.lastRun => settings.lastRun \in history'.again
             /\ history'.crossed = history.crossed /\ history'.restored = history.restored
             /\ history'.returned = history.returned
             /\ BackupUntouched
<1> DEFINE j == job[h]
           left == Left(j)
           over == Overwriting(j)
<1>1. j \in Job /\ Fits(j) /\ j.todo # <<>> /\ Head(j.todo) = "save"
  BY StatementAt DEF SaveSettings
<1>2. j.todo = Saving /\ Tail(j.todo) = <<>> /\ <<>> \in Todo
  BY <1>1, WhereItIs, RequestFollows DEF Follows, Todo
<1>3. left \in Job /\ left.todo = <<>> /\ Kin(left, j) /\ left.file = j.file
  BY <1>1, <1>2, LeftFields
<1>4. history' = [over EXCEPT !.changed = history.changed, !.saved = j.n]
  BY DEF SaveSettings
<1>5. over \in Past /\ over.runs = history.runs /\ over.crossed = history.crossed
      /\ over.restored = history.restored /\ over.returned = history.returned
      /\ history.again \subseteq over.again
      /\ (settings.lastRun # j.was.lastRun => settings.lastRun \in over.again)
  BY <1>1, OverwritingIs
<1>6. history.changed \in BOOLEAN /\ j.n \in Nat
  BY <1>1 DEF Typed, Past, Job
<1>7. Then(h, left) /\ BackupUntouched /\ UNCHANGED <<day, slot, elsewhere>>
      /\ settings' = j.settings
  BY DEF SaveSettings, time, persons, BackupUntouched
<1> HIDE DEF left, over
<1>8. Progress(h, left)
  BY <1>3, <1>7, ThenProgress
<1>9. /\ history' \in Past /\ history'.runs = over.runs /\ history'.crossed = over.crossed
      /\ history'.restored = over.restored /\ history'.returned = over.returned
      /\ history'.again = over.again
      /\ history'.changed = history.changed /\ history'.saved = j.n
  BY <1>4, <1>5, <1>6 DEF Past
<1> QED
  BY <1>2, <1>3, <1>5, <1>7, <1>8, <1>9

\* What the steps of backups that do not save the settings have in common.
Dumps(h, left) ==
    /\ Progress(h, left) /\ left.settings = job[h].settings /\ left.was = job[h].was
    /\ job[h].todo \in BackupLeft \cup {Export0, Export1, Export2}
    /\ UNCHANGED <<data, consent, event, settings>>

LEMMA DumpMoves ==
    ASSUME Typed, JobsFit, NEW h \in Handlers, Dump(h)
    PROVE  \E left :
             /\ Dumps(h, left) /\ left.file.event = NoEvent /\ files' = files
             /\ \/ job[h].todo = Backup2 /\ left.todo = Backup3 /\ job[h].kind = "backup"
                \/ job[h].todo = Export0 /\ left.todo = Export1 /\ job[h].kind # "backup"
             /\ history' = IF job[h].kind = "backup"
                           THEN [history EXCEPT !.runs[job[h].day] = @ + 1] ELSE history
<1> DEFINE j == job[h]
           file == [NoFile EXCEPT !.n = clock, !.data = data, !.consent = consent]
           left == [Left(j) EXCEPT !.file = file]
<1>1. j \in Job /\ Fits(j) /\ j.todo # <<>> /\ Head(j.todo) = "dump"
  BY StatementAt DEF Dump
<1>2. j.todo \in {Backup2, Export0}
  BY <1>1, WhereItIs
<1>3. /\ Tail(Backup2) = Backup3 /\ Tail(Export0) = Export1
      /\ {Backup3, Export1} \subseteq Todo /\ {Backup2, Backup3} \subseteq BackupLeft
      /\ {Export0, Export1} \subseteq RequestLeft
  BY BackupFollows, RequestFollows DEF Follows, Todo, BackupLeft, RequestLeft
<1>4. file \in File /\ file.event = NoEvent
  BY ConstantsFit DEF Typed, File, NoFile
<1>5. Left(j) \in Job /\ Left(j).todo = Tail(j.todo) /\ Kin(Left(j), j)
      /\ Left(j).settings = j.settings /\ Left(j).was = j.was /\ Left(j).outcome = j.outcome
  BY <1>1, <1>2, <1>3, LeftFields
<1> HIDE DEF file
<1>6. left \in Job /\ left.todo = Tail(j.todo) /\ Kin(left, j) /\ left.settings = j.settings
      /\ left.was = j.was /\ left.outcome = j.outcome /\ left.file = file
  BY <1>4, <1>5 DEF Job, Kin
<1>7. /\ Then(h, left) /\ UNCHANGED <<day, slot, elsewhere, data, consent, event, settings, files>>
      /\ history' = IF j.kind = "backup"
                    THEN [history EXCEPT !.runs[j.day] = @ + 1] ELSE history
  BY DEF Dump, time, persons, backups, file
<1> HIDE DEF left
<1>8. CASE j.todo = Backup2
  <2>1. j.kind = "backup" /\ j.category = "none" /\ j.outcome \in {"ok", "partial", "error"}
    BY <1>1, <1>3, <1>8, ListsSorted DEF Fits
  <2>2. left.todo = Backup3 /\ left.todo \in BackupLeft
    BY <1>3, <1>6, <1>8
  <2>3. Fits(left)
    BY <1>6, <2>1, <2>2, ListsSorted DEF Fits, Kin
  <2>4. Progress(h, left)
    BY <1>6, <1>7, <2>3, ThenProgress
  <2> QED
    BY <1>3, <1>4, <1>6, <1>7, <1>8, <2>1, <2>2, <2>4 DEF Dumps
<1>9. CASE j.todo = Export0
  <2>1. j.kind \notin {"backup", "deletion", "none"} /\ j.category = "none"
    BY <1>1, <1>3, <1>9, ListsSorted, DoneFits DEF Fits
  <2>2. left.todo = Export1 /\ left.todo \in RequestLeft /\ left.todo \notin {Writing, Changing, Recording}
    BY <1>3, <1>6, <1>9, RequestsDiffer
  <2>3. Fits(left)
    BY <1>6, <2>1, <2>2, ListsSorted DEF Fits, Kin
  <2>4. Progress(h, left)
    BY <1>6, <1>7, <2>3, ThenProgress
  <2> QED
    BY <1>4, <1>6, <1>7, <1>9, <2>1, <2>2, <2>4 DEF Dumps
<1> QED
  BY <1>2, <1>8, <1>9

LEMMA DumpEventMoves ==
    ASSUME Typed, JobsFit, NEW h \in Handlers, DumpEvent(h)
    PROVE  \E left :
             /\ Dumps(h, left) /\ left.todo \in {Backup4, Export2}
             /\ left.file.data = job[h].file.data /\ left.file.event = event
             /\ left.file.torn = (job[h].file.data # data)
             /\ UNCHANGED <<files, history>>
<1> DEFINE j == job[h]
           file == [j.file EXCEPT !.event = event, !.torn = j.file.data # data]
           left == [Left(j) EXCEPT !.file = file]
<1>1. j \in Job /\ Fits(j) /\ j.todo # <<>> /\ Head(j.todo) = "dumpEvent"
  BY StatementAt DEF DumpEvent
<1>2. j.todo \in {Backup3, Export1}
  BY <1>1, WhereItIs
<1>3. /\ Tail(Backup3) = Backup4 /\ Tail(Export1) = Export2
      /\ {Backup4, Export2} \subseteq Todo /\ {Backup3, Backup4} \subseteq BackupLeft
      /\ {Export1, Export2} \subseteq RequestLeft
  BY BackupFollows, RequestFollows DEF Follows, Todo, BackupLeft, RequestLeft
<1>4. PICK torn \in BOOLEAN : torn = (j.file.data # data)
  OBVIOUS
<1>5. file = [j.file EXCEPT !.event = event, !.torn = torn]
  BY <1>4
<1>6. j.file \in File /\ event \in Event
  BY <1>1 DEF Job, Typed
<1>7. file \in File /\ file.event = event /\ file.data = j.file.data /\ file.torn = torn
  BY <1>5, <1>6 DEF File
<1>8. Left(j) \in Job /\ Left(j).todo = Tail(j.todo) /\ Kin(Left(j), j)
      /\ Left(j).settings = j.settings /\ Left(j).was = j.was /\ Left(j).outcome = j.outcome
  BY <1>1, <1>2, <1>3, LeftFields
<1>9. left = [Left(j) EXCEPT !.file.event = event, !.file.torn = j.file.data # data]
  BY <1>1, <1>8 DEF Job, Left
<1> HIDE DEF file
<1>10. left \in Job /\ left.todo = Tail(j.todo) /\ Kin(left, j) /\ left.settings = j.settings
      /\ left.was = j.was /\ left.outcome = j.outcome /\ left.file = file
  BY <1>7, <1>8 DEF Job, Kin
<1>11. /\ Then(h, left) /\ UNCHANGED <<day, slot, elsewhere, data, consent, event, settings>>
       /\ UNCHANGED <<files, history>>
  BY <1>9 DEF DumpEvent, time, persons, backups
<1> HIDE DEF left
<1>12. CASE j.todo = Backup3
  <2>1. j.kind = "backup" /\ j.category = "none" /\ j.outcome \in {"ok", "partial", "error"}
    BY <1>1, <1>3, <1>12, ListsSorted DEF Fits
  <2>2. left.todo = Backup4 /\ left.todo \in BackupLeft
    BY <1>3, <1>10, <1>12
  <2>3. Fits(left)
    BY <1>10, <2>1, <2>2, ListsSorted DEF Fits, Kin
  <2>4. Progress(h, left)
    BY <1>10, <1>11, <2>3, ThenProgress
  <2> QED
    BY <1>3, <1>4, <1>7, <1>10, <1>11, <1>12, <2>2, <2>4 DEF Dumps
<1>13. CASE j.todo = Export1
  <2>1. j.kind \notin {"backup", "deletion", "none"} /\ j.category = "none"
    BY <1>1, <1>3, <1>13, ListsSorted, DoneFits DEF Fits
  <2>2. left.todo = Export2 /\ left.todo \in RequestLeft /\ left.todo \notin {Writing, Changing, Recording}
    BY <1>3, <1>10, <1>13, RequestsDiffer
  <2>3. Fits(left)
    BY <1>10, <2>1, <2>2, ListsSorted DEF Fits, Kin
  <2>4. Progress(h, left)
    BY <1>10, <1>11, <2>3, ThenProgress
  <2> QED
    BY <1>4, <1>7, <1>10, <1>11, <1>13, <2>2, <2>4 DEF Dumps
<1> QED
  BY <1>2, <1>12, <1>13

LEMMA FailingMoves ==
    ASSUME Typed, JobsFit, NEW h \in Handlers, DumpFails(h) \/ DeliverFails(h)
    PROVE  \E left :
             /\ Dumps(h, left) /\ left.todo = Backup6 /\ left.file = job[h].file
             /\ UNCHANGED <<files, history>>
<1> DEFINE j == job[h]
<1>1. PICK outcome \in {"error", "partial"} :
         Fails(h, [j EXCEPT !.todo = <<"read", "end">>, !.outcome = outcome])
  BY DEF DumpFails, DeliverFails
<1> DEFINE left == [j EXCEPT !.todo = Backup6, !.outcome = outcome]
<1>2. j \in Job /\ Fits(j) /\ j.kind = "backup"
  BY StatementAt DEF DumpFails, DeliverFails
<1>3. j.todo \in BackupLeft /\ j.category = "none"
  BY <1>2, ListsSorted DEF Fits
<1>4. Backup6 \in Todo /\ Backup6 \in BackupLeft
  BY DEF Todo, BackupLeft
<1>5. left \in Job /\ Kin(left, j) /\ left.todo = Backup6 /\ left.outcome = outcome
      /\ left.settings = j.settings /\ left.was = j.was /\ left.file = j.file
  BY <1>2, <1>4 DEF Job, Kin
<1>6. /\ Fails(h, left)
      /\ UNCHANGED <<day, slot, elsewhere, data, consent, event, settings, files, history>>
  BY <1>1 DEF DumpFails, DeliverFails, time, persons, backups, Backup6
<1> HIDE DEF left
<1>7. Fits(left)
  BY <1>2, <1>3, <1>4, <1>5, ListsSorted DEF Fits, Kin
<1>8. Progress(h, left)
  BY <1>5, <1>6, <1>7, ThenProgress
<1> QED
  BY <1>3, <1>5, <1>6, <1>8 DEF Dumps

LEMMA DeliverMoves ==
    ASSUME Typed, JobsFit, NEW h \in Handlers, Deliver(h) \/ Prune(h)
    PROVE  \E left :
             /\ Dumps(h, left) /\ left.todo \in {Backup5, Backup6, <<>>}
             /\ left.file = job[h].file
             /\ \/ /\ job[h].todo \in {Backup4, Export2}
                   /\ files' = {f \in files : f.n # job[h].file.n} \cup {job[h].file}
                \/ files' \subseteq files
             /\ history' = history
<1> DEFINE j == job[h]
           left == Left(j)
<1>1. j \in Job /\ Fits(j) /\ j.todo # <<>> /\ Head(j.todo) \in {"deliver", "prune"}
  BY StatementAt DEF Deliver, Prune
<1>2. /\ j.todo \in {Backup4, Backup5, Export2}
      /\ Head(j.todo) = "deliver" => j.todo \in {Backup4, Export2}
  BY <1>1, WhereItIs
<1>3. /\ Tail(Backup4) = Backup5 /\ Tail(Backup5) = Backup6 /\ Tail(Export2) = <<>>
      /\ {Backup5, Backup6, <<>>} \subseteq Todo
      /\ {Backup4, Backup5, Backup6} \subseteq BackupLeft
  BY BackupFollows, RequestFollows DEF Follows, Todo, BackupLeft
<1>4. left \in Job /\ left.todo = Tail(j.todo) /\ Kin(left, j) /\ left.settings = j.settings
      /\ left.was = j.was /\ left.file = j.file /\ left.outcome = j.outcome
  BY ZenonT(40), <1>1, <1>2, <1>3, LeftFields
<1>5. Then(h, left) /\ UNCHANGED <<day, slot, elsewhere, data, consent, event, settings, history>>
  BY DEF Deliver, Prune, time, persons, backups
<1>6. \/ /\ j.todo \in {Backup4, Export2}
         /\ files' = {f \in files : f.n # j.file.n} \cup {j.file}
      \/ files' \subseteq files
  BY <1>1, <1>2 DEF Deliver, Prune, Doing
<1> HIDE DEF left
<1>7. left.todo # <<>> => j.todo \in {Backup4, Backup5} /\ left.todo \in {Backup5, Backup6}
  BY <1>2, <1>3, <1>4
<1>8. left.todo # <<>> => Fits(left)
  <2> SUFFICES ASSUME left.todo # <<>> PROVE Fits(left)
    OBVIOUS
  <2>1. j.kind = "backup" /\ j.category = "none" /\ j.outcome \in {"ok", "partial", "error"}
    BY <1>1, <1>3, <1>7, ListsSorted DEF Fits
  <2>2. left.todo \in BackupLeft
    BY <1>3, <1>7
  <2> QED
    BY <1>4, <2>1, <2>2, ListsSorted DEF Fits, Kin
<1>9. Progress(h, left)
  BY <1>4, <1>5, <1>8, ThenProgress
<1>10. left.todo \in {Backup5, Backup6, <<>>}
       /\ j.todo \in BackupLeft \cup {Export0, Export1, Export2}
  BY <1>2, <1>3, <1>4
<1> QED
  BY <1>4, <1>5, <1>6, <1>9, <1>10 DEF Dumps

-----------------------------------------------------------------------------
(* Statements that change data *)

\* Nobody's data gets older values than it has, but for writes that cross another.
DataKept ==
    \A place \in Places, p \in People :
        \/ <<place, p>> \in history'.crossed
        \/ \A c \in Categories :
             \/ data'[place][p][c] \in {data[place][p][c], None}
             \/ data'[place][p][c] >= clock
PastKept ==
    /\ history' \in Past /\ history'.runs = history.runs /\ history'.again = history.again
    /\ history'.changed = history.changed /\ history'.saved = history.saved
    /\ history.crossed \subseteq history'.crossed /\ history'.restored = history.restored
    /\ history'.returned = history.returned
Cares(h, left) ==
    /\ Progress(h, left) /\ left.settings = job[h].settings /\ left.was = job[h].was
    /\ left.file = job[h].file
    /\ job[h].todo \in DeletionLeft \cup {Writing, Changing, Recording}
    /\ left.todo \in DeletionLeft \cup {Recording, <<>>}
    /\ UNCHANGED <<settings, files>> /\ consent' \subseteq People
    /\ data' \in Data /\ DataKept /\ PastKept

\* A form with nothing older in it than there was in the one that was read.
Renews(written, form) ==
    \A c \in Categories : written[c] \in {form[c], None} \/ written[c] >= clock
WrittenBack(place, p, form, written) ==
    /\ data' = [data EXCEPT ![place][p] = written]
    /\ history' = [history EXCEPT !.crossed = Crossing(place, p, form)]
\* A form written back, crossing other writes or not.
LEMMA FormWritten ==
    ASSUME Typed, NEW place \in Places, NEW p \in People, NEW form \in Form, NEW written \in Form,
           WrittenBack(place, p, form, written), Renews(written, form)
    PROVE  data' \in Data /\ DataKept /\ PastKept /\ data'[place][p] = written
<1>1. data \in [Places -> [People -> Form]] /\ history \in Past
  BY DEF Typed, Data
<1>2. data' \in [Places -> [People -> Form]] /\ data'[place][p] = written
  BY <1>1 DEF WrittenBack
<1>3. \A q \in Places, r \in People : q # place \/ r # p => data'[q][r] = data[q][r]
  BY <1>1 DEF WrittenBack
<1>4. PICK crossed : crossed = Crossing(place, p, form)
  OBVIOUS
<1>5. /\ crossed \subseteq Places \X People /\ history.crossed \subseteq crossed
      /\ data[place][p] # form => <<place, p>> \in crossed
  BY <1>1, <1>4 DEF Past, Crossing, When
<1>6. history' = [history EXCEPT !.crossed = crossed]
  BY <1>4 DEF WrittenBack
<1>7. PastKept /\ history'.crossed = crossed
  BY <1>1, <1>5, <1>6 DEF PastKept, Past
<1>8. DataKept
  <2> SUFFICES ASSUME NEW q \in Places, NEW r \in People, <<q, r>> \notin history'.crossed,
                      NEW c \in Categories
               PROVE  data'[q][r][c] \in {data[q][r][c], None} \/ data'[q][r][c] >= clock
    BY DEF DataKept
  <2>1. CASE q = place /\ r = p
    BY <2>1, <1>2, <1>5, <1>7 DEF Renews
  <2>2. CASE q # place \/ r # p
    BY <2>2, <1>3
  <2> QED
    BY <2>1, <2>2
<1> QED
  BY <1>2, <1>3, <1>7, <1>8 DEF Data

LEMMA NothingRewritten ==
    ASSUME Typed, UNCHANGED <<data, history, consent>>
    PROVE  consent' \subseteq People /\ data' \in Data /\ DataKept /\ PastKept
  BY DEF Typed, DataKept, PastKept

\* A change by somebody else on its way from one statement to the next.
LEMMA ChangingGoesOn ==
    ASSUME NEW j \in Job, Fits(j), j.todo \in {Writing, Changing, Recording},
           NEW left, Kin(left, j), left.todo \in {Recording, <<>>}, left.todo # <<>>,
           left.place = j.place, left.outcome = j.outcome
    PROVE  Fits(left)
<1>1. {Writing, Changing, Recording} \subseteq RequestLeft /\ j.todo # <<>>
  BY TodosDiffer DEF RequestLeft
<1>2. j.kind \notin {"none", "backup", "deletion"} /\ j.category = "none"
  BY <1>1, ListsSorted, DoneFits DEF Fits
<1>3. left.todo \in RequestLeft /\ left.todo \notin DeletionLeft /\ left.todo \notin BackupLeft
  BY <1>1, ListsSorted
<1> QED
  BY <1>1, <1>2, <1>3, ListsSorted DEF Fits, Kin

LEMMA WriteFormMoves ==
    ASSUME Typed, JobsFit, NEW h \in Handlers, WriteForm(h)
    PROVE  \E left : Cares(h, left) /\ left.todo \in {Recording, <<>>} /\ event' = event
<1> DEFINE j == job[h]
           left == Left(j)
           written == [j.form EXCEPT ![j.outcome] = clock]
<1>1. j \in Job /\ Fits(j) /\ j.todo # <<>> /\ Head(j.todo) = "write"
  BY StatementAt DEF WriteForm
<1>2. /\ j.todo \in {Writing, Changing} /\ Tail(j.todo) \in {Recording, <<>>}
      /\ {Recording, <<>>} \subseteq Todo
  BY <1>1, WhereItIs, RequestFollows DEF Follows, Todo, RequestLeft
<1>3. left \in Job /\ left.todo \in {Recording, <<>>} /\ Kin(left, j) /\ left.file = j.file
      /\ left.settings = j.settings /\ left.was = j.was
      /\ left.place = j.place /\ left.outcome = j.outcome
  BY <1>1, <1>2, LeftFields
<1>4. j.place \in Places /\ j.person \in People /\ j.outcome \in Categories /\ j.form \in Form
      /\ clock \in Nat
  BY <1>1, <1>2 DEF Fits, Job, Typed
<1>5. written \in Form /\ Renews(written, j.form)
  BY <1>4 DEF Form, Renews
<1>6. /\ WrittenBack(j.place, j.person, j.form, written)
      /\ Then(h, left) /\ UNCHANGED <<day, slot, elsewhere, event, settings, files>>
  BY DEF WriteForm, WrittenBack, time, backups
<1>7. consent' \subseteq People
  BY <1>4 DEF WriteForm, Typed
<1> HIDE DEF left, written
<1>8. data' \in Data /\ DataKept /\ PastKept
  BY <1>4, <1>5, <1>6, FormWritten
<1>9. left.todo # <<>> => Fits(left)
  BY <1>1, <1>2, <1>3, <1>4, ChangingGoesOn
<1>10. Progress(h, left)
  BY <1>3, <1>6, <1>9, ThenProgress
<1> QED
  BY <1>2, <1>3, <1>6, <1>7, <1>8, <1>10 DEF Cares

\* The change is put to the person it is about: nobody's data changes.
LEMMA RecordReviewMoves ==
    ASSUME Typed, JobsFit, NEW h \in Handlers, RecordReview(h)
    PROVE  \E left : Cares(h, left) /\ left.todo = <<>> /\ event' = event
<1> DEFINE j == job[h]
           left == Left(j)
<1>1. j \in Job /\ Fits(j) /\ j.todo # <<>> /\ Head(j.todo) = "record"
  BY StatementAt DEF RecordReview
<1>2. j.todo = Recording /\ Tail(j.todo) = <<>> /\ <<>> \in Todo
  BY <1>1, WhereItIs, RequestFollows DEF Follows, Todo
<1>3. left \in Job /\ left.todo = <<>> /\ Kin(left, j) /\ left.file = j.file
      /\ left.settings = j.settings /\ left.was = j.was
  BY <1>1, <1>2, LeftFields
<1>4. Then(h, left)
      /\ UNCHANGED <<day, slot, data, consent, elsewhere, event, settings, files, history>>
  BY DEF RecordReview, time, backups
<1> HIDE DEF left
<1>5. consent' \subseteq People /\ data' \in Data /\ DataKept /\ PastKept
  BY <1>4, NothingRewritten
<1>6. Progress(h, left)
  BY <1>3, <1>4, ThenProgress
<1> QED
  BY <1>2, <1>3, <1>4, <1>5, <1>6 DEF Cares

\* A list of rows to go over: the next statement's turn if there is none.
LEMMA OverIs ==
    ASSUME NEW b \in Job, NEW rows \in SUBSET (People \X Form), Tail(b.todo) \in Todo
    PROVE  LET left == Over(b, rows)
           IN  /\ left \in Job /\ Kin(left, b) /\ left.rows = rows
               /\ left.todo = IF rows = {} THEN Tail(b.todo) ELSE b.todo
               /\ left.place = b.place /\ left.kept = b.kept /\ left.settings = b.settings
               /\ left.was = b.was /\ left.file = b.file /\ left.outcome = b.outcome
<1> DEFINE c == [b EXCEPT !.rows = rows]
<1>1. c \in Job /\ Kin(c, b) /\ c.rows = rows /\ c.todo = b.todo /\ c.place = b.place
      /\ c.kept = b.kept /\ c.settings = b.settings /\ c.was = b.was /\ c.file = b.file
      /\ c.outcome = b.outcome
  BY DEF Job, Kin
<1>2. CASE rows # {}
  <2>1. Over(b, rows) = c
    BY <1>2 DEF Over
  <2> QED
    BY <1>1, <1>2, <2>1
<1>3. CASE rows = {}
  <2>1. Over(b, rows) = Left(c)
    BY <1>3 DEF Over
  <2> HIDE DEF c
  <2>2. Left(c) \in Job /\ Left(c).todo = Tail(c.todo) /\ Kin(Left(c), c)
        /\ Left(c).rows = c.rows /\ Left(c).settings = c.settings /\ Left(c).was = c.was
        /\ Left(c).outcome = c.outcome /\ Left(c).file = c.file /\ Left(c).kept = c.kept
        /\ Left(c).place = c.place
    BY <1>1, LeftFields
  <2> QED
    BY <1>1, <1>3, <2>1, <2>2 DEF Kin
<1> QED
  BY <1>2, <1>3

\* What makes a deletion fit at the next step.
LEMMA DeletionFits ==
    ASSUME NEW j \in Job, Fits(j), j.todo \in DeletionLeft, NEW left, Kin(left, j),
           left.todo \in DeletionLeft,
           left.todo = Deletion1 => left.place = "answers",
           left.todo \in {Deletion1, Deletion2} => left.kept = {},
           left.todo = Deletion3 => left.place = "accounts"
    PROVE  Fits(left)
<1>1. j.kind \notin {"none", "backup"} /\ j.category \in Categories
  BY ListsSorted, DoneFits, TodosDiffer DEF Fits
<1> QED
  BY <1>1, ListsSorted DEF Fits, Kin

LEMMA ReadRowsMoves ==
    ASSUME Typed, NEW h \in Handlers, NEW j, j = job[h], j \in Job, Fits(j),
           NEW place \in Places, NEW who \in SUBSET People,
           NEW kept \in SUBSET (Categories \X Places \X People),
           \/ j.todo = DeletionSteps /\ place = "answers" /\ kept = {}
           \/ j.todo = Deletion2 /\ place = "accounts",
           ReadRows(h, place, who, kept),
           UNCHANGED <<time, persons, event, backups, history>>
    PROVE  \E left :
             /\ Cares(h, left) /\ left.kept = kept
             /\ j.todo = DeletionSteps => left.todo \in {Deletion1, Deletion2}
             /\ j.todo = Deletion2 => left.todo \in {Deletion3, Deletion4}
             /\ \A p \in who : ~NotWaiting(left, p) /\ left.todo \in {Deletion1, Deletion3}
<1> DEFINE rows == {<<p, data[place][p]>> : p \in who}
           b == [Left(j) EXCEPT !.place = place, !.kept = kept]
           left == Over(b, rows)
<1>1. /\ Tail(DeletionSteps) = Deletion1 /\ Tail(Deletion1) = Deletion2
      /\ Tail(Deletion2) = Deletion3 /\ Tail(Deletion3) = Deletion4
      /\ {Deletion1, Deletion2, Deletion3, Deletion4} \subseteq Todo
      /\ {DeletionSteps, Deletion1, Deletion2, Deletion3, Deletion4} \subseteq DeletionLeft
      /\ DeletionSteps # Deletion2
  BY DeletionFollows DEF Follows, Todo, DeletionLeft
<1>2. Deletion1 \notin {Deletion2, Deletion3, Deletion4} /\ Deletion2 # Deletion3
      /\ Deletion2 # Deletion4 /\ Deletion3 # Deletion4
  BY DeletionFollows DEF Deletion1, Deletion2, Deletion3, Deletion4
<1>3. Left(j) \in Job /\ Left(j).todo = Tail(j.todo) /\ Kin(Left(j), j)
      /\ Left(j).settings = j.settings /\ Left(j).was = j.was /\ Left(j).file = j.file
  BY <1>1, LeftFields
<1>4. b \in Job /\ b.todo = Tail(j.todo) /\ Kin(b, j) /\ b.settings = j.settings
      /\ b.was = j.was /\ b.file = j.file /\ b.place = place /\ b.kept = kept
  BY ZenonT(40), <1>3 DEF Job, Kin
<1>5. rows \in SUBSET (People \X Form)
  BY DEF Typed, Data
<1>6. \A p \in who : \E row \in rows : row[1] = p
  <2> SUFFICES ASSUME NEW p \in who PROVE \E row \in rows : row[1] = p
    OBVIOUS
  <2>1. <<p, data[place][p]>> \in rows /\ <<p, data[place][p]>>[1] = p
    OBVIOUS
  <2> QED
    BY <2>1
<1>7. ReadRows(h, place, who, kept) => Then(h, left)
  BY DEF ReadRows
<1> HIDE DEF b, rows
<1>8. Tail(b.todo) \in Todo
  BY <1>1, <1>4
<1>9. /\ left \in Job /\ Kin(left, b) /\ left.rows = rows
      /\ left.todo = IF rows = {} THEN Tail(b.todo) ELSE b.todo
      /\ left.place = place /\ left.kept = kept /\ left.settings = b.settings
      /\ left.was = b.was /\ left.file = b.file
  BY <1>4, <1>5, <1>8, OverIs
<1> HIDE DEF left
<1>10. Kin(left, j)
  BY <1>4, <1>9 DEF Kin
<1>11. /\ j.todo = DeletionSteps => left.todo = IF rows = {} THEN Deletion2 ELSE Deletion1
       /\ j.todo = Deletion2 => left.todo = IF rows = {} THEN Deletion4 ELSE Deletion3
  BY <1>1, <1>4, <1>9
<1>12. Fits(left) /\ left.todo \in DeletionLeft /\ j.todo \in DeletionLeft
  <2>1. left.todo \in DeletionLeft /\ j.todo \in DeletionLeft
    BY <1>1, <1>11
  <2>2. /\ left.todo = Deletion1 => left.place = "answers"
        /\ left.todo \in {Deletion1, Deletion2} => left.kept = {}
        /\ left.todo = Deletion3 => left.place = "accounts"
    BY <1>1, <1>2, <1>9, <1>11
  <2> QED
    BY <1>10, <2>1, <2>2, DeletionFits
<1>13. UNCHANGED <<day, slot, elsewhere, data, consent, history, settings, files>>
  BY DEF time, persons, backups
<1>14. Progress(h, left)
  BY <1>7, <1>9, <1>10, <1>12, <1>13, ThenProgress
<1>15. consent' \subseteq People /\ data' \in Data /\ DataKept /\ PastKept
  BY <1>13, NothingRewritten
<1>16. Cares(h, left)
  BY <1>4, <1>9, <1>12, <1>13, <1>14, <1>15 DEF Cares
<1>17. \A p \in who : ~NotWaiting(left, p) /\ left.todo \in {Deletion1, Deletion3}
  BY <1>6, <1>9, <1>11 DEF NotWaiting
<1> QED
  BY <1>9, <1>11, <1>16, <1>17

LEMMA ReadAnswersMoves ==
    ASSUME Typed, JobsFit, NEW h \in Handlers, ReadAnswers(h)
    PROVE  \E left :
             /\ Cares(h, left) /\ event' = event /\ data' = data
             /\ left.todo \in {Deletion1, Deletion2}
             /\ \A p \in People : ~NotWaiting(left, p) /\ left.todo = Deletion1
<1> DEFINE j == job[h]
<1>1. j \in Job /\ Fits(j) /\ j.todo # <<>> /\ Head(j.todo) = "readAnswers"
  BY StatementAt DEF ReadAnswers
<1>2. j.todo = DeletionSteps
  BY <1>1, WhereItIs
<1>3. ReadRows(h, "answers", People, {})
      /\ UNCHANGED <<time, persons, event, backups, history>>
  BY DEF ReadAnswers
<1>4. "answers" \in Places /\ {} \in SUBSET (Categories \X Places \X People)
  BY DEF Places
<1>5. Deletion1 # Deletion3 /\ Deletion2 # Deletion3
  BY DeletionFollows DEF Deletion1, Deletion2, Deletion3
<1> HIDE DEF j
<1>6. PICK left :
         /\ Cares(h, left)
         /\ j.todo = DeletionSteps => left.todo \in {Deletion1, Deletion2}
         /\ \A p \in People : ~NotWaiting(left, p) /\ left.todo \in {Deletion1, Deletion3}
  BY <1>1, <1>2, <1>3, <1>4, ReadRowsMoves DEF j
<1> QED
  BY <1>2, <1>3, <1>5, <1>6 DEF persons

LEMMA ReadAccountsMoves ==
    ASSUME Typed, JobsFit, NEW h \in Handlers, ReadAccounts(h)
    PROVE  \E left :
             /\ Cares(h, left) /\ event' = event /\ data' = data
             /\ left.kept = Kept(job[h].category, "accounts") /\ job[h].todo = Deletion2
             /\ left.todo \in {Deletion3, Deletion4}
             /\ \A p \in People : Forgettable(p) =>
                  ~NotWaiting(left, p) /\ left.todo = Deletion3
<1> DEFINE j == job[h]
           who == {p \in People : Forgettable(p)}
           kept == Kept(j.category, "accounts")
<1>1. j \in Job /\ Fits(j) /\ j.todo # <<>> /\ Head(j.todo) = "readAccounts"
  BY StatementAt DEF ReadAccounts
<1>2. j.todo = Deletion2 /\ j.category \in Categories
  BY <1>1, WhereItIs DEF Fits, DeletionLeft
<1>3. ReadRows(h, "accounts", who, kept)
      /\ UNCHANGED <<time, persons, event, backups, history>>
  BY DEF ReadAccounts
<1>4. "accounts" \in Places /\ who \in SUBSET People
      /\ kept \in SUBSET (Categories \X Places \X People)
  BY <1>2 DEF Places, Kept
<1>5. Deletion1 \notin {Deletion3, Deletion4}
  BY DeletionFollows DEF Deletion1, Deletion3, Deletion4
<1>6. \A p \in People : Forgettable(p) => p \in who
  OBVIOUS
<1> HIDE DEF j, who, kept
<1>7. PICK left :
         /\ Cares(h, left) /\ left.kept = kept
         /\ j.todo = Deletion2 => left.todo \in {Deletion3, Deletion4}
         /\ \A p \in who : ~NotWaiting(left, p) /\ left.todo \in {Deletion1, Deletion3}
  <2>1. \/ j.todo = DeletionSteps /\ "accounts" = "answers" /\ kept = {}
        \/ j.todo = Deletion2 /\ "accounts" = "accounts"
    BY <1>2
  <2>2. j = job[h] /\ j \in Job /\ Fits(j)
    BY <1>1 DEF j
  <2>3. ReadRows(h, "accounts", who, kept)
    BY <1>3
  <2>4. UNCHANGED <<time, persons, event, backups, history>>
    BY <1>3
  <2> QED
    BY <1>4, <2>1, <2>2, <2>3, <2>4, ReadRowsMoves
<1> QED
  BY <1>2, <1>3, <1>5, <1>6, <1>7 DEF persons, j, kept

LEMMA WipeRowMoves ==
    ASSUME Typed, JobsFit, NEW h \in Handlers, WipeRow(h)
    PROVE  \E left, r :
             /\ Cares(h, left) /\ event' = event /\ left.kept = job[h].kept /\ r \in People
             /\ \/ /\ job[h].todo = Deletion1 /\ left.todo \in {Deletion1, Deletion2}
                   /\ data'["answers"][r][job[h].category] = None
                \/ /\ job[h].todo = Deletion3 /\ left.todo \in {Deletion3, Deletion4}
                   /\ data'["accounts"][r][job[h].category] = None
             /\ \A p \in People :
                  left.todo # job[h].todo \/ NotWaiting(left, p) => NotWaiting(job[h], p) \/ p = r
<1> DEFINE j == job[h]
<1>1. j \in Job /\ Fits(j) /\ j.todo # <<>> /\ Head(j.todo) = "wipe"
  BY StatementAt DEF WipeRow
<1>2. j.todo \in {Deletion1, Deletion3}
  BY <1>1, WhereItIs
<1>3. /\ Tail(Deletion1) = Deletion2 /\ Tail(Deletion3) = Deletion4
      /\ {Deletion2, Deletion4} \subseteq Todo
      /\ {Deletion1, Deletion2, Deletion3, Deletion4} \subseteq DeletionLeft
  BY DeletionFollows DEF Follows, Todo, DeletionLeft
<1>4. Deletion1 \notin {Deletion2, Deletion3, Deletion4} /\ Deletion2 # Deletion3
      /\ Deletion2 # Deletion4 /\ Deletion3 # Deletion4
  BY DeletionFollows DEF Deletion1, Deletion2, Deletion3, Deletion4
<1>5. j.category \in Categories /\ j.place \in Places
      /\ (j.todo = Deletion1 => j.place = "answers" /\ j.kept = {})
      /\ (j.todo = Deletion3 => j.place = "accounts")
  BY <1>1, <1>2, <1>3 DEF Fits, Places
<1>6. PICK row \in j.rows :
         /\ data' = [data EXCEPT ![j.place][row[1]] = Wiped(row[2], j.category)]
         /\ history' = [history EXCEPT !.crossed = Crossing(j.place, row[1], row[2])]
         /\ Then(h, Over(j, j.rows \ {row}))
  BY DEF WipeRow
<1>7. PICK r \in People, form \in Form : row = <<r, form>>
  BY <1>1 DEF Job
<1> DEFINE left == Over(j, j.rows \ {row})
           wiped == Wiped(form, j.category)
<1>8. row[1] = r /\ row[2] = form /\ j.rows \ {row} \in SUBSET (People \X Form)
  BY <1>1, <1>7 DEF Job
<1>9. Tail(j.todo) \in Todo
  BY <1>2, <1>3
<1>10. /\ left \in Job /\ Kin(left, j) /\ left.rows = j.rows \ {row}
       /\ left.todo = IF j.rows \ {row} = {} THEN Tail(j.todo) ELSE j.todo
       /\ left.place = j.place /\ left.kept = j.kept /\ left.settings = j.settings
       /\ left.was = j.was /\ left.file = j.file
  BY <1>1, <1>8, <1>9, OverIs
<1>11. Then(h, left)
  BY <1>6
<1> HIDE DEF left
<1>12. left.todo \in DeletionLeft /\ j.todo \in DeletionLeft
  BY <1>2, <1>3, <1>10
<1>13. Fits(left)
  <2>1. /\ left.todo = Deletion1 => left.place = "answers"
        /\ left.todo \in {Deletion1, Deletion2} => left.kept = {}
        /\ left.todo = Deletion3 => left.place = "accounts"
    BY <1>2, <1>3, <1>4, <1>5, <1>10
  <2> QED
    BY <1>1, <1>10, <1>12, <2>1, DeletionFits
<1>14. /\ wiped \in Form /\ wiped[j.category] = None
       /\ Renews(wiped, form)
  BY <1>5 DEF Wiped, Form, None, Renews
<1>15. UNCHANGED <<day, slot, elsewhere, consent, event, settings, files>>
  BY DEF WipeRow, time, backups
<1>16. WrittenBack(j.place, r, form, wiped)
  BY <1>6, <1>8 DEF WrittenBack
<1> HIDE DEF wiped, j
<1>17. data' \in Data /\ DataKept /\ PastKept /\ data'[j.place][r] = wiped
  BY <1>5, <1>14, <1>16, FormWritten
<1>18. Progress(h, left)
  BY <1>10, <1>11, <1>13, <1>15, ThenProgress DEF j
<1>19. Cares(h, left)
  BY <1>10, <1>12, <1>15, <1>17, <1>18 DEF Cares, j, Typed
<1>20. \A p \in People :
          left.todo # j.todo \/ NotWaiting(left, p) => NotWaiting(j, p) \/ p = r
  <2> SUFFICES ASSUME NEW p \in People, left.todo # j.todo \/ NotWaiting(left, p), p # r,
                      NEW other \in j.rows
               PROVE  other[1] # p
    BY DEF NotWaiting
  <2>1. CASE other = row
    BY <2>1, <1>8
  <2>2. CASE other # row
    <3>1. other \in left.rows /\ left.todo = j.todo
      BY <2>2, <1>10
    <3> QED
      BY <3>1 DEF NotWaiting
  <2> QED
    BY <2>1, <2>2
<1>21. data'[j.place][r][j.category] = None
  BY <1>14, <1>17
<1>22. \/ /\ j.todo = Deletion1 /\ left.todo \in {Deletion1, Deletion2}
          /\ data'["answers"][r][j.category] = None
       \/ /\ j.todo = Deletion3 /\ left.todo \in {Deletion3, Deletion4}
          /\ data'["accounts"][r][j.category] = None
  BY <1>2, <1>3, <1>5, <1>10, <1>21
<1> QED
  BY <1>10, <1>15, <1>19, <1>20, <1>22 DEF j

LEMMA WipeSheetsMoves ==
    ASSUME Typed, JobsFit, NEW h \in Handlers, WipeSheets(h)
    PROVE  \E left :
             /\ Cares(h, left) /\ event' = event
             /\ job[h].todo = Deletion4 /\ left.todo = Deletion5
             /\ left.kept = job[h].kept \cup Kept(job[h].category, "sheets")
             /\ \A p \in People : Forgettable(p) => data'["sheets"][p][job[h].category] = None
<1> DEFINE j == job[h]
           kept == j.kept \cup Kept(j.category, "sheets")
           left == [Left(j) EXCEPT !.kept = kept]
<1>1. j \in Job /\ Fits(j) /\ j.todo # <<>> /\ Head(j.todo) = "wipeSheets"
  BY StatementAt DEF WipeSheets
<1>2. j.todo = Deletion4
  BY <1>1, WhereItIs
<1>3. /\ Tail(Deletion4) = Deletion5 /\ Deletion5 \in Todo
      /\ {Deletion4, Deletion5} \subseteq DeletionLeft
      /\ Deletion5 \notin {Deletion1, Deletion2, Deletion3}
  BY DeletionFollows DEF Follows, Todo, DeletionLeft, Deletion1, Deletion2, Deletion3, Deletion5
<1>4. j.category \in Categories
  BY <1>1, <1>2, <1>3 DEF Fits
<1>5. kept \in SUBSET (Categories \X Places \X People)
  BY <1>1, <1>4 DEF Job, Kept, Places
<1>6. Left(j) \in Job /\ Left(j).todo = Deletion5 /\ Kin(Left(j), j) /\ Left(j).kept = j.kept
      /\ Left(j).settings = j.settings /\ Left(j).was = j.was /\ Left(j).file = j.file
  BY <1>1, <1>2, <1>3, LeftFields
<1>7. left = [Left(j) EXCEPT !.kept = @ \cup Kept(j.category, "sheets")]
  BY <1>6
<1> HIDE DEF kept
<1>8. left \in Job /\ left.todo = Deletion5 /\ Kin(left, j) /\ left.settings = j.settings
      /\ left.was = j.was /\ left.file = j.file /\ left.kept = kept
  BY <1>5, <1>6 DEF Job, Kin
<1>9. Then(h, left)
  BY <1>7 DEF WipeSheets
<1> DEFINE sheets == [p \in People |-> IF Forgettable(p) THEN Wiped(data["sheets"][p], j.category)
                                       ELSE data["sheets"][p]]
<1>10. data' = [data EXCEPT !["sheets"] = sheets]
  BY DEF WipeSheets
<1>11. data \in [Places -> [People -> Form]] /\ "sheets" \in Places
  BY DEF Typed, Data, Places
<1>12. \A p \in People : data["sheets"][p] \in Form
  BY <1>11
<1>13. \A p \in People :
          /\ sheets[p] \in Form
          /\ Forgettable(p) => sheets[p][j.category] = None
          /\ \A c \in Categories : sheets[p][c] \in {data["sheets"][p][c], None}
  BY <1>4, <1>12 DEF Wiped, Form, None
<1>14. sheets \in [People -> Form]
  BY <1>13
<1> HIDE DEF sheets, left
<1>15. data' \in Data /\ data'["sheets"] = sheets
       /\ \A place \in Places : place # "sheets" => data'[place] = data[place]
  BY <1>10, <1>11, <1>14 DEF Data
<1>16. DataKept
  BY <1>13, <1>15 DEF DataKept
<1>17. UNCHANGED <<day, slot, elsewhere, consent, event, settings, files, history>>
  BY DEF WipeSheets, time, backups
<1>18. PastKept /\ consent' \subseteq People
  BY <1>17 DEF PastKept, Typed
<1>19. left.todo \in DeletionLeft /\ j.todo \in DeletionLeft
  BY <1>2, <1>3, <1>8
<1>20. Fits(left)
  BY <1>1, <1>3, <1>8, <1>19, DeletionFits
<1>21. Progress(h, left)
  BY <1>8, <1>9, <1>17, <1>20, ThenProgress
<1>22. Cares(h, left)
  BY <1>8, <1>15, <1>16, <1>17, <1>18, <1>19, <1>21 DEF Cares
<1>23. \A p \in People : Forgettable(p) => data'["sheets"][p][j.category] = None
  BY <1>13, <1>15
<1> QED
  BY <1>2, <1>8, <1>17, <1>22, <1>23 DEF kept

LEMMA MarkDeletedMoves ==
    ASSUME Typed, JobsFit, NEW h \in Handlers, MarkDeleted(h)
    PROVE  LET j == job[h]
           IN  \E left :
                 /\ Cares(h, left) /\ data' = data /\ history' = history
                 /\ left.todo = <<>> /\ job[h].todo = Deletion5
                 /\ event' \in Event /\ event'.deleted = event.deleted \cup {j.category}
                 /\ event'.cut = [event.cut EXCEPT ![j.category] = j.n]
                 /\ event'.kept = {k \in event.kept : k[1] # j.category} \cup j.kept
                 /\ j.category \in Categories
<1> DEFINE j == job[h]
           left == Left(j)
<1>1. j \in Job /\ Fits(j) /\ j.todo # <<>> /\ Head(j.todo) = "mark"
  BY StatementAt DEF MarkDeleted
<1>2. j.todo = Deletion5 /\ Tail(j.todo) = <<>> /\ <<>> \in Todo /\ Deletion5 \in DeletionLeft
  BY <1>1, WhereItIs, DeletionFollows DEF Follows, Todo, DeletionLeft
<1>3. j.category \in Categories /\ j.n \in Nat
      /\ j.kept \in SUBSET (Categories \X Places \X People)
  BY <1>1, <1>2 DEF Fits, Job
<1>4. left \in Job /\ left.todo = <<>> /\ Kin(left, j) /\ left.settings = j.settings
      /\ left.was = j.was /\ left.file = j.file
  BY <1>1, <1>2, LeftFields
<1>5. PICK kept : kept = {k \in event.kept : k[1] # j.category} \cup j.kept
  OBVIOUS
<1>6. PICK cut : cut = [event.cut EXCEPT ![j.category] = j.n]
  OBVIOUS
<1>7. PICK deleted : deleted = event.deleted \cup {j.category}
  OBVIOUS
<1>8. event' = [event EXCEPT !.deleted = deleted, !.cut = cut, !.kept = kept]
  BY <1>5, <1>6, <1>7 DEF MarkDeleted
<1>9. event \in Event
  BY DEF Typed
<1>10. kept \in SUBSET (Categories \X Places \X People) /\ deleted \subseteq Categories
  BY <1>3, <1>5, <1>7, <1>9 DEF Event
<1>11. cut \in Form
  BY <1>3, <1>6, <1>9 DEF Event, Form
<1>12. event' \in Event /\ event'.deleted = deleted /\ event'.cut = cut /\ event'.kept = kept
  BY <1>8, <1>9, <1>10, <1>11 DEF Event
<1>13. Then(h, left)
       /\ UNCHANGED <<day, slot, elsewhere, data, consent, settings, files, history>>
  BY DEF MarkDeleted, time, persons, backups
<1> HIDE DEF left
<1>14. Progress(h, left)
  BY <1>4, <1>13, ThenProgress
<1>15. consent' \subseteq People /\ data' \in Data /\ DataKept /\ PastKept
  BY <1>13, NothingRewritten
<1>16. Cares(h, left)
  BY <1>2, <1>4, <1>13, <1>14, <1>15 DEF Cares
<1> QED
  BY <1>2, <1>3, <1>4, <1>5, <1>6, <1>7, <1>12, <1>13, <1>16

-----------------------------------------------------------------------------
(* What every statement leaves in order *)

LEMMA JobsAfter ==
    ASSUME RInv, NEW h \in Handlers, NEW left, Progress(h, left),
           data' \in Data, consent' \subseteq People, event' \in Event, settings' \in Settings,
           files' \subseteq File, (\A f, g \in files : f.n = g.n => f = g)', history' \in Past
    PROVE  Typed' /\ JobsFit' /\ OneBackup'
<1>1. job' \in [Handlers -> Job] /\ JobsFit' /\ OneBackup'
  BY ProgressFits DEF RInv
<1>2. Typed'
  BY <1>1 DEF Typed, RInv, Progress
<1> QED
  BY <1>1, <1>2

\* The job of the handler is what is left, or none.
LEMMA JobAfter ==
    ASSUME Typed, NEW h \in Handlers, NEW left, Progress(h, left)
    PROVE  /\ job'[h] = IF left.todo = <<>> THEN Done ELSE left
           /\ \A g \in Handlers \ {h} : job'[g] = job[g]
           /\ left.todo # <<>> => job'[h] = left
           /\ left.todo = <<>> => job'[h] = Done
           /\ left.day = job[h].day /\ left.n = job[h].n /\ left.category = job[h].category
           /\ left.kind = job[h].kind /\ day' = day /\ clock' = clock
  BY DEF Typed, Progress, Moved, Kin

LEMMA MarksAfter ==
    ASSUME RInv, NEW h \in Handlers, NEW left, Progress(h, left), Marks(event', clock),
           \A f \in files' : Marks(f.event, clock), Marks(left.file.event, clock)
    PROVE  CutsPast'
<1>1. /\ job'[h] = IF left.todo = <<>> THEN Done ELSE left
      /\ \A g \in Handlers \ {h} : job'[g] = job[g]
      /\ clock' = clock /\ clock \in Nat
  BY JobAfter DEF RInv, Typed
<1>2. Marks(Done.file.event, clock)
  BY <1>1 DEF Done, NoFile, NoEvent, NoForm, None, Marks
<1>3. \A g \in Handlers : Marks(job'[g].file.event, clock)
  BY <1>1, <1>2 DEF RInv, CutsPast
<1> QED
  BY <1>1, <1>3 DEF CutsPast

\* Days, runs and settings stay in order where neither runs nor settings change.
StaysOut(left) == left.todo \notin {RunSteps, Backup1, Backup2, Backup7, Saving}
DaysUntouched ==
    /\ settings' = settings /\ history'.runs = history.runs /\ history'.again = history.again
    /\ history'.changed = history.changed /\ history'.saved = history.saved
DaysInOrder ==
    RunsPast /\ FirstOfDay /\ DayMarked /\ DaysPast /\ SlotRunsOnce /\ SettingsAreKept
LEMMA QuietDays ==
    ASSUME RInv, NEW h \in Handlers, NEW left, Progress(h, left), DaysUntouched,
           left.settings = job[h].settings, StaysOut(left)
    PROVE  DaysInOrder'
<1>1. /\ \A g \in Handlers \ {h} : job'[g] = job[g]
      /\ left.todo # <<>> => job'[h] = left
      /\ left.todo = <<>> => job'[h] = Done
      /\ left.day = job[h].day /\ left.kind = job[h].kind /\ day' = day
      /\ day \in Days
  BY JobAfter DEF RInv, Typed
<1>2. /\ job'[h].kind = "backup" => job[h].kind = "backup" /\ job'[h].day = job[h].day
      /\ job'[h].todo \notin {RunSteps, Backup1, Backup2, Backup7, Saving}
      /\ job'[h].day \in {0, job[h].day}
      /\ job'[h].settings.lastRun \in {job[h].settings.lastRun, Never}
  <2>1. CASE left.todo # <<>>
    BY <1>1, <2>1 DEF StaysOut
  <2>2. CASE left.todo = <<>>
    <3>1. Done.todo \notin {RunSteps, Backup1, Backup2, Backup7, Saving}
      BY DoneFits, TodosDiffer DEF BackupLeft, RequestLeft
    <3>2. Done.day = 0 /\ Done.settings.lastRun = Never /\ Done.kind = "none"
      BY DEF Done, NoSettings
    <3> QED
      BY <1>1, <2>2, <3>1, <3>2
  <2> QED
    BY <2>1, <2>2
<1>3. 0 <= day
  BY <1>1, ConstantsFit DEF Days
<1>4. RunsPast'
  BY <1>1, <1>2 DEF RunsPast, RInv, DaysUntouched
<1>5. FirstOfDay'
  BY <1>1, <1>2 DEF FirstOfDay, ToDump, RInv, DaysUntouched
<1>6. DayMarked'
  BY <1>1, <1>2 DEF DayMarked, Marked, RInv, DaysUntouched
<1>7. \A g \in Handlers :
         /\ job'[g].day <= day
         /\ job'[g].settings.lastRun # Never => job'[g].settings.lastRun <= day
  BY <1>1, <1>2, <1>3 DEF DaysPast, RInv
<1>9. DaysPast'
  BY <1>1, <1>2, <1>7 DEF DaysPast, RInv, DaysUntouched
<1>10. SlotRunsOnce' /\ SettingsAreKept'
  BY DEF SlotRunsOnce, SettingsAreKept, RInv, DaysUntouched
<1> QED
  BY <1>4, <1>5, <1>6, <1>9, <1>10 DEF DaysInOrder

\* What was free of old data stays so, as data is kept and exceptions stay.
PastGrows ==
    /\ history.crossed \subseteq history'.crossed /\ history.returned \subseteq history'.returned
    /\ (history.restored => history'.restored)
LEMMA FreeStays ==
    ASSUME Typed, data' \in Data, DataKept, PastGrows,
           NEW c \in Categories, NEW place \in Places, NEW p \in People, NEW n \in Nat, n <= clock,
           NEW kept, NEW more, kept \subseteq more,
           Free(data[place][p], c, place, p, n, kept, history)
    PROVE  Free(data'[place][p], c, place, p, n, more, history')
<1>1. CASE Excused(place, p, history)
  BY <1>1 DEF Free, Excused, PastGrows
<1>2. CASE <<c, place, p>> \in kept \cup history.returned
  BY <1>2 DEF Free, PastGrows
<1>3. CASE data[place][p][c] = None \/ data[place][p][c] >= n
  <2>1. clock \in Nat /\ data[place][p][c] \in Nat /\ data'[place][p][c] \in Nat
    BY DEF Typed, Data, Form
  <2>2. CASE <<place, p>> \in history'.crossed
    BY <2>2 DEF Free, Excused
  <2>3. CASE data'[place][p][c] \in {data[place][p][c], None} \/ data'[place][p][c] >= clock
    <3>1. data'[place][p][c] = None \/ data'[place][p][c] >= n
      BY <1>3, <2>1, <2>3
    <3> QED
      BY <3>1 DEF Free
  <2> QED
    BY <2>2, <2>3 DEF DataKept
<1> QED
  BY <1>1, <1>2, <1>3 DEF Free

LEMMA ClearsStays ==
    ASSUME Typed, data' \in Data, DataKept, PastGrows, NEW j \in Job, Fits(j), j.n <= clock,
           Clears(j, data, history)
    PROVE  Clears(j, data', history')
<1> SUFFICES ASSUME NEW place \in Places, NEW p \in People, Handled(j, place, p)
             PROVE  Free(data'[place][p], j.category, place, p, j.n, j.kept, history')
  BY DEF Clears
<1>1. j.todo \in DeletionLeft
  BY DEF Handled, DeletionLeft
<1>2. j.category \in Categories /\ j.n \in Nat
  BY <1>1 DEF Fits, Job
<1>3. Free(data[place][p], j.category, place, p, j.n, j.kept, history)
  BY DEF Clears
<1> QED
  BY <1>2, <1>3, FreeStays

\* The promise of a file or of the event itself.
LEMMA ForgottenStays ==
    ASSUME Typed, data' \in Data, DataKept, PastGrows, NEW e \in Event, Marks(e, clock),
           Forgotten(data, e, history)
    PROVE  Forgotten(data', e, history')
<1> SUFFICES ASSUME NEW c \in e.deleted, NEW place \in Places, NEW p \in People
             PROVE  Free(data'[place][p], c, place, p, e.cut[c], e.kept, history')
  BY DEF Forgotten
<1>1. c \in Categories /\ e.cut[c] \in Nat
  BY DEF Event, Form
<1>2. e.cut[c] <= clock
  BY <1>1 DEF Marks
<1>3. Free(data[place][p], c, place, p, e.cut[c], e.kept, history)
  BY DEF Forgotten
<1> QED
  BY <1>1, <1>2, <1>3, FreeStays

LEMMA RestorableStays ==
    ASSUME PastGrows, NEW f \in File, Restorable(f, history)
    PROVE  Restorable(f, history')
  BY DEF PastGrows, Restorable, Forgotten, Free, Excused

\* What the events and the files promise is the property.
LEMMA ForgottenIs ==
    ForgottenIsGone <=> Forgotten(data, event, history)
  BY DEF ForgottenIsGone, Forgotten, Free, Excused

LEMMA DataAfter ==
    ASSUME RInv, NEW h \in Handlers, NEW left, Progress(h, left), data' \in Data, DataKept,
           PastGrows, Forgotten(data', event', history'),
           left.todo # <<>> => Clears(left, data', history'),
           left.todo \in {Backup4, Export2} => Restorable(left.file, history'),
           files' \subseteq File, \A f \in files' : f \in files \/ Restorable(f, history)
    PROVE  JobsForget' /\ BackupsForget' /\ ForgottenIsGone'
<1>1. /\ \A g \in Handlers \ {h} : job'[g] = job[g]
      /\ left.todo # <<>> => job'[h] = left
      /\ left.todo = <<>> => job'[h] = Done
      /\ \A g \in Handlers : job[g] \in Job /\ Fits(job[g]) /\ job[g].n <= clock
      /\ Typed /\ JobsForget /\ BackupsForget /\ \A f \in files : f \in File
  BY JobAfter DEF RInv, Typed, JobsFit
<1>2. /\ Done.todo \notin {Backup4, Export2}
      /\ \A place \in Places, p \in People : ~Handled(Done, place, p)
  BY DoneFits, TodosDiffer DEF Handled, BackupLeft, RequestLeft, DeletionLeft
<1>3. \A g \in Handlers : Clears(job'[g], data', history')
  <2> TAKE g \in Handlers
  <2>1. CASE g # h
    <3>1. job[g] \in Job /\ Fits(job[g]) /\ job[g].n <= clock /\ Clears(job[g], data, history)
      BY <1>1 DEF JobsForget
    <3>2. Clears(job[g], data', history')
      BY <1>1, <3>1, ClearsStays
    <3> QED
      BY <1>1, <2>1, <3>2
  <2>2. CASE g = h /\ left.todo = <<>>
    BY <1>1, <1>2, <2>2 DEF Clears
  <2>3. CASE g = h /\ left.todo # <<>>
    BY <1>1, <2>3
  <2> QED
    BY <2>1, <2>2, <2>3
<1>4. JobsForget'
  BY <1>3 DEF JobsForget, Clears, Handled, NotWaiting, Free, Excused
<1>5. \A f \in files' : Restorable(f, history')
  BY <1>1, RestorableStays DEF BackupsForget
<1>6. \A g \in Handlers :
         job'[g].todo \in {Backup4, Export2} => Restorable(job'[g].file, history')
  <2> TAKE g \in Handlers
  <2>1. CASE g # h
    <3>1. job[g].file \in File
      BY <1>1 DEF Job
    <3>2. job[g].todo \in {Backup4, Export2} => Restorable(job[g].file, history)
      BY <1>1 DEF BackupsForget
    <3>3. job[g].todo \in {Backup4, Export2} => Restorable(job[g].file, history')
      BY <3>1, <3>2, RestorableStays
    <3> QED
      BY <1>1, <2>1, <3>3
  <2>2. CASE g = h /\ left.todo = <<>>
    BY <1>1, <1>2, <2>2
  <2>3. CASE g = h /\ left.todo # <<>>
    BY <1>1, <2>3
  <2> QED
    BY <2>1, <2>2, <2>3
<1>7. BackupsForget'
  BY <1>5, <1>6 DEF BackupsForget, Restorable, Forgotten, Free, Excused
<1>8. ForgottenIsGone'
  BY DEF ForgottenIsGone, Forgotten, Free, Excused
<1> QED
  BY <1>4, <1>7, <1>8

\* The event's promise, where neither the event nor the data changes.
LEMMA EventStays ==
    ASSUME RInv, data' \in Data, DataKept, PastGrows, event' = event
    PROVE  Forgotten(data', event', history')
<1>1. Typed /\ event \in Event /\ Marks(event, clock) /\ Forgotten(data, event, history)
  BY ForgottenIs DEF RInv, Typed, CutsPast
<1> QED
  BY <1>1, ForgottenStays

\* Statements of backups change no data.
LEMMA DataStays ==
    ASSUME Typed, data' = data
    PROVE  data' \in Data /\ DataKept
  BY DEF Typed, DataKept

\* A job that is no deletion has cleared nothing.
LEMMA NothingHandled ==
    ASSUME NEW j, j.todo \notin DeletionLeft, NEW d, NEW past
    PROVE  Clears(j, d, past)
  BY DEF Clears, Handled, DeletionLeft

-----------------------------------------------------------------------------
(* Statements of backups keep the invariant *)

\* Everything but the days, for the statements that touch backups and settings only.
LEMMA BackupStepKeeps ==
    ASSUME RInv, NEW h \in Handlers, NEW left, Progress(h, left),
           UNCHANGED <<data, consent, event>>, settings' \in Settings, history' \in Past,
           PastGrows, left.todo \in BackupLeft \cup RequestLeft \cup {<<>>},
           files' \subseteq File, (\A f, g \in files : f.n = g.n => f = g)',
           \A f \in files' : f \in files \/ (Marks(f.event, clock) /\ Restorable(f, history)),
           Marks(left.file.event, clock),
           left.todo \in {Backup4, Export2} => Restorable(left.file, history'),
           DaysInOrder'
    PROVE  RInv'
<1>1. data' \in Data /\ DataKept /\ consent' \subseteq People /\ event' \in Event
  BY DataStays DEF RInv, Typed
<1>2. Typed' /\ JobsFit' /\ OneBackup'
  BY <1>1, JobsAfter
<1>3. Marks(event', clock) /\ \A f \in files' : Marks(f.event, clock)
  BY DEF RInv, CutsPast
<1>4. CutsPast'
  BY <1>3, MarksAfter
<1>5. left.todo \notin DeletionLeft
  BY TodosDiffer
<1>6. Clears(left, data', history')
  BY <1>5, NothingHandled
<1>7. Forgotten(data', event', history')
  BY <1>1, EventStays
<1>8. \A f \in files' : f \in files \/ Restorable(f, history)
  OBVIOUS
<1>9. JobsForget' /\ BackupsForget' /\ ForgottenIsGone'
  BY <1>1, <1>6, <1>7, <1>8, DataAfter
<1> QED
  BY <1>2, <1>4, <1>9 DEF RInv, DaysInOrder

\* Only the run under way is a backup.
LEMMA OneRun ==
    ASSUME RInv, NEW h \in Handlers, job[h].kind = "backup"
    PROVE  /\ job[h].todo \in BackupLeft /\ job[h].outcome \in {"ok", "partial", "error"}
           /\ \A g \in Handlers \ {h} :
                job[g].kind # "backup" /\ job[g].todo \notin BackupLeft
<1>1. \A g \in Handlers : Fits(job[g])
  BY DEF RInv, JobsFit
<1> QED
  BY <1>1 DEF RInv, OneBackup, Fits

LEMMA ReadStateKeeps ==
    ASSUME RInv, NEW h \in Handlers, ReadState(h)
    PROVE  RInv'
<1>1. PICK left :
         /\ Progress(h, left) /\ left.settings = settings /\ left.was = settings
         /\ left.file = job[h].file /\ job[h].kind = "backup"
         /\ \/ job[h].todo = RunSteps /\ left.todo = Backup1
            \/ job[h].todo = Backup6 /\ left.todo = Backup7
         /\ BackupUntouched /\ UNCHANGED <<settings, history>>
  BY ReadStateMoves DEF RInv
<1>2. /\ \A g \in Handlers \ {h} : job'[g] = job[g]
      /\ left.todo # <<>> => job'[h] = left
      /\ left.day = job[h].day /\ left.kind = job[h].kind /\ day' = day
  BY <1>1, JobAfter DEF RInv
<1>3. /\ left.todo \in BackupLeft /\ left.todo # Saving
      /\ left.todo \notin {<<>>, Backup2, Backup4, Export2}
      /\ left.todo = Backup7 => left.todo \notin {RunSteps, Backup1, Backup2}
  BY <1>1, ListsSorted
     DEF BackupLeft, RequestLeft, Backup1, Backup2, Backup4, Backup7, Export2, RunSteps
<1>4. job'[h] = left
  BY <1>2, <1>3
<1>5. RunsPast'
  BY <1>1, <1>2, <1>4 DEF RunsPast, RInv
<1>6. FirstOfDay'
  BY <1>1, <1>2, <1>3, <1>4 DEF FirstOfDay, ToDump, RInv
<1>7. DayMarked'
  BY <1>1, <1>2, <1>3, <1>4 DEF DayMarked, Marked, RInv
<1>8. DaysPast'
  BY <1>1, <1>2, <1>3, <1>4 DEF DaysPast, RInv
<1>9. SlotRunsOnce' /\ SettingsAreKept'
  BY <1>1 DEF SlotRunsOnce, SettingsAreKept, RInv
<1>10. DaysInOrder'
  BY <1>5, <1>6, <1>7, <1>8, <1>9 DEF DaysInOrder
<1>11. /\ UNCHANGED <<data, consent, event, files>> /\ PastGrows /\ settings' \in Settings
       /\ history' \in Past /\ files' \subseteq File
       /\ (\A f, g \in files : f.n = g.n => f = g)'
       /\ Marks(left.file.event, clock)
  BY <1>1 DEF BackupUntouched, PastGrows, RInv, Typed, CutsPast
<1> QED
  BY <1>1, <1>3, <1>10, <1>11, BackupStepKeeps

LEMMA SaveStateKeeps ==
    ASSUME RInv, NEW h \in Handlers, SaveState(h)
    PROVE  RInv'
<1> DEFINE j == job[h]
<1>1. PICK left :
         /\ Progress(h, left) /\ left.settings = j.settings /\ left.was = j.was
         /\ left.file = j.file /\ j.kind = "backup"
         /\ settings' \in Settings /\ settings'.change = j.settings.change
         /\ \/ j.todo = Backup1 /\ left.todo = Backup2 /\ settings'.lastRun = j.day
            \/ /\ j.todo = Backup7 /\ left.todo = <<>>
               /\ settings'.lastRun = j.settings.lastRun
         /\ history' = Overwriting(j) /\ BackupUntouched
  BY SaveStateMoves DEF RInv
<1>2. /\ \A g \in Handlers \ {h} : job'[g] = job[g] /\ job[g].kind # "backup"
                                    /\ job[g].todo # Backup2
      /\ left.todo # <<>> => job'[h] = left
      /\ left.todo = <<>> => job'[h] = Done
      /\ left.day = j.day /\ left.kind = j.kind /\ day' = day
      /\ j \in Job /\ day \in Days /\ MaxDay \in Nat
  BY <1>1, JobAfter, OneRun, ConstantsFit DEF RInv, Typed, BackupLeft
<1>3. /\ history' \in Past /\ history'.runs = history.runs /\ history'.saved = history.saved
      /\ history'.crossed = history.crossed /\ history'.restored = history.restored
      /\ history'.returned = history.returned
      /\ history.again \subseteq history'.again
      /\ settings.lastRun # j.was.lastRun => settings.lastRun \in history'.again
      /\ history'.changed = (history.changed \/ settings.change # j.was.change)
  BY <1>1, <1>2, OverwritingIs DEF RInv
<1>4. j.settings = j.was /\ j.day <= day
  BY <1>1 DEF RInv, DaysPast
<1>5. /\ Backup2 \in BackupLeft /\ Backup2 # <<>> /\ Backup2 \notin {Saving, Backup4, Export2}
      /\ Backup2 \notin {Backup1, Backup7} /\ <<>> \notin {Backup4, Export2}
  BY BackupFollows, RequestFollows DEF BackupLeft, Saving, Follows, Backup4
<1>6. /\ Done.kind = "none" /\ Done.todo = <<>> /\ Done.day = 0
      /\ Done.settings.lastRun = Never
      /\ <<>> \notin {Backup2, Backup1, Backup7, Saving, RunSteps}
  BY DoneFits, TodosDiffer DEF Done, NoSettings, BackupLeft, RequestLeft
<1>7. /\ job'[h].kind = "backup" => job'[h] = left /\ left.todo = Backup2 /\ j.todo = Backup1
      /\ job'[h].todo \in {Backup2, <<>>}
  BY <1>1, <1>2, <1>5, <1>6
<1>8. RunsPast'
  BY <1>1, <1>2, <1>3, <1>7 DEF RunsPast, RInv
<1>9. FirstOfDay'
  BY <1>1, <1>2, <1>3, <1>7 DEF FirstOfDay, ToDump, RInv
<1>10. DayMarked'
  <2>1. CASE left.todo = Backup2
    <3>1. settings'.lastRun = j.day
      BY <1>1, <1>5, <2>1
    <3>2. j.day = day => Marked'
      BY <1>2, <3>1 DEF Marked
    <3>3. history.runs[day] > 0 => day <= j.day
      BY <1>1, <1>2 DEF RunsPast, RInv
    <3>4. history'.runs[day] > 0 => j.day = day
      BY <1>2, <1>3, <1>4, <3>3 DEF Job, Days
    <3>5. \A g \in Handlers : job'[g].todo = Backup2 /\ job'[g].day = day => j.day = day
      BY <1>2, <1>5, <2>1
    <3> QED
      BY <1>2, <3>2, <3>4, <3>5 DEF DayMarked
  <2>2. CASE left.todo = <<>>
    <3>1. settings'.lastRun = j.was.lastRun
      BY <1>1, <1>4, <1>5, <2>2
    <3>2. Marked => Marked'
      BY <1>2, <1>3, <3>1 DEF Marked
    <3>3. \A g \in Handlers : job'[g].todo # Backup2
      BY <1>2, <1>6, <2>2
    <3> QED
      BY <1>2, <1>3, <3>2, <3>3 DEF DayMarked, RInv
  <2> QED
    BY <1>1, <2>1, <2>2
<1>11. DaysPast'
  <2>1. settings'.lastRun # Never => settings'.lastRun <= day
    BY <1>1, <1>4 DEF RInv, DaysPast
  <2>2. /\ job'[h].day <= day
        /\ job'[h].settings.lastRun # Never => job'[h].settings.lastRun <= day
        /\ job'[h].todo \notin {Saving, Backup1, Backup7}
    BY <1>1, <1>2, <1>4, <1>5, <1>6 DEF RInv, DaysPast, Days
  <2> QED
    BY <1>2, <2>1, <2>2 DEF RInv, DaysPast
<1>12. SlotRunsOnce'
  BY <1>3 DEF SlotRunsOnce, RInv
<1>13. SettingsAreKept'
  BY <1>1, <1>3, <1>4 DEF SettingsAreKept, RInv
<1>14. DaysInOrder'
  BY <1>8, <1>9, <1>10, <1>11, <1>12, <1>13 DEF DaysInOrder
<1>15. /\ UNCHANGED <<data, consent, event, files>> /\ PastGrows
       /\ files' \subseteq File /\ (\A f, g \in files : f.n = g.n => f = g)'
       /\ Marks(left.file.event, clock)
  BY <1>1, <1>3 DEF BackupUntouched, PastGrows, RInv, Typed, CutsPast
<1>16. left.todo \in BackupLeft \cup RequestLeft \cup {<<>>}
       /\ left.todo \notin {Backup4, Export2}
  BY <1>1, <1>5
<1> QED
  BY <1>1, <1>3, <1>14, <1>15, <1>16, BackupStepKeeps

LEMMA SaveSettingsKeeps ==
    ASSUME RInv, NEW h \in Handlers, SaveSettings(h)
    PROVE  RInv'
<1> DEFINE j == job[h]
<1>1. PICK left :
         /\ Progress(h, left) /\ left.todo = <<>> /\ j.todo = Saving
         /\ left.file = j.file /\ settings' = j.settings
         /\ history' \in Past /\ history'.runs = history.runs
         /\ history'.changed = history.changed /\ history'.saved = j.n
         /\ history.again \subseteq history'.again
         /\ settings.lastRun # j.was.lastRun => settings.lastRun \in history'.again
         /\ history'.crossed = history.crossed /\ history'.restored = history.restored
         /\ history'.returned = history.returned
         /\ BackupUntouched
  BY SaveSettingsMoves DEF RInv
<1>2. /\ \A g \in Handlers \ {h} : job'[g] = job[g]
      /\ job'[h] = Done /\ day' = day /\ j \in Job /\ day \in Days
  BY <1>1, JobAfter DEF RInv, Typed
<1>3. /\ Done.kind = "none" /\ Done.todo = <<>> /\ Done.day = 0
      /\ Done.settings.lastRun = Never
      /\ <<>> \notin {Backup2, Backup1, Backup7, Saving, RunSteps}
  BY DoneFits, TodosDiffer DEF Done, NoSettings, BackupLeft, RequestLeft
<1>4. RunsPast'
  BY <1>1, <1>2, <1>3 DEF RunsPast, RInv
<1>5. FirstOfDay'
  BY <1>1, <1>2, <1>3 DEF FirstOfDay, ToDump, RInv
<1>6. j.was.lastRun = day => j.settings.lastRun = day
  BY <1>1 DEF DaysPast, RInv
<1>7. Marked => Marked'
  BY <1>1, <1>2, <1>6 DEF Marked
<1>8. DayMarked'
  BY <1>1, <1>2, <1>3, <1>7 DEF DayMarked, RInv
<1>9. DaysPast'
  <2>1. settings'.lastRun # Never => settings'.lastRun <= day
    BY <1>1 DEF RInv, DaysPast
  <2>2. /\ job'[h].day <= day /\ job'[h].settings.lastRun = Never
        /\ job'[h].todo \notin {Saving, Backup1, Backup7}
    BY <1>2, <1>3, ConstantsFit DEF Days
  <2> QED
    BY <1>2, <2>1, <2>2 DEF RInv, DaysPast
<1>10. SlotRunsOnce'
  BY <1>1 DEF SlotRunsOnce, RInv
<1>11. SettingsAreKept'
  BY <1>1 DEF SettingsAreKept, RInv, DaysPast
<1>12. DaysInOrder'
  BY <1>4, <1>5, <1>8, <1>9, <1>10, <1>11 DEF DaysInOrder
<1>13. /\ UNCHANGED <<data, consent, event, files>> /\ PastGrows /\ settings' \in Settings
       /\ files' \subseteq File /\ (\A f, g \in files : f.n = g.n => f = g)'
       /\ Marks(left.file.event, clock)
  BY <1>1, <1>2 DEF BackupUntouched, PastGrows, RInv, Typed, CutsPast, Job
<1>14. <<>> \notin {Backup4, Export2}
  BY TodosDiffer DEF BackupLeft, RequestLeft
<1> QED
  BY <1>1, <1>12, <1>13, <1>14, BackupStepKeeps

LEMMA DumpKeeps ==
    ASSUME RInv, NEW h \in Handlers, Dump(h)
    PROVE  RInv'
<1> DEFINE j == job[h]
<1>1. PICK left :
         /\ Dumps(h, left) /\ left.file.event = NoEvent /\ files' = files
         /\ \/ j.todo = Backup2 /\ left.todo = Backup3 /\ j.kind = "backup"
            \/ j.todo = Export0 /\ left.todo = Export1 /\ j.kind # "backup"
         /\ history' = IF j.kind = "backup"
                       THEN [history EXCEPT !.runs[j.day] = @ + 1] ELSE history
  BY DumpMoves DEF RInv
<1>2. /\ Progress(h, left) /\ left.settings = j.settings /\ settings' = settings
      /\ UNCHANGED <<data, consent, event, settings>>
  BY <1>1 DEF Dumps
<1>3. /\ \A g \in Handlers \ {h} : job'[g] = job[g]
      /\ left.todo # <<>> => job'[h] = left
      /\ left.day = j.day /\ left.kind = j.kind /\ day' = day /\ j \in Job
      /\ day \in Days /\ history \in Past /\ j.day \in Days /\ MaxDay \in Nat
  BY <1>2, JobAfter, ConstantsFit DEF RInv, Typed, Job
<1>4. /\ left.todo \in {Backup3, Export1} /\ left.todo # <<>>
      /\ left.todo \in BackupLeft \cup RequestLeft
      /\ left.todo \notin {RunSteps, Backup1, Backup2, Backup7, Saving, Backup4, Export2}
  <2>1. /\ Backup3 \in BackupLeft /\ Export1 \in RequestLeft
        /\ {RunSteps, Backup1, Backup2, Backup7, Backup4} \subseteq BackupLeft
        /\ {Saving, Export2} \subseteq RequestLeft
    BY DEF BackupLeft, RequestLeft
  <2>2. Backup3 \notin {RunSteps, Backup1, Backup2, Backup7, Backup4}
    BY DEF Backup3, RunSteps, Backup1, Backup2, Backup7, Backup4
  <2>3. Export1 \notin {Saving, Export2}
    BY RequestFollows DEF Follows
  <2> QED
    BY <1>1, <2>1, <2>2, <2>3, TodosDiffer
<1>5. DaysInOrder'
  <2>1. CASE j.kind # "backup"
    <3>1. DaysUntouched
      BY <1>1, <1>2, <2>1 DEF DaysUntouched
    <3> QED
      BY <1>2, <1>4, <3>1, QuietDays DEF StaysOut
  <2>2. CASE j.kind = "backup"
    <3>1. history' = [history EXCEPT !.runs[j.day] = @ + 1] /\ j.todo = Backup2
      BY <1>1, <2>2
    <3>2. /\ \A d \in Days : d # j.day => history'.runs[d] = history.runs[d]
          /\ history'.runs[j.day] = history.runs[j.day] + 1
          /\ history'.again = history.again /\ history'.changed = history.changed
          /\ history'.saved = history.saved /\ history.runs \in [Days -> Nat]
      BY <1>3, <3>1 DEF Past
    <3>3. \A g \in Handlers \ {h} : job[g].kind # "backup" /\ job[g].todo \notin BackupLeft
      BY <2>2, OneRun
    <3>4. job'[h] = left
      BY <1>3, <1>4
    <3>5. j.day <= day
      BY DEF RInv, DaysPast
    <3>6. RunsPast'
      <4> SUFFICES ASSUME NEW d \in Days, history'.runs[d] > 0
                   PROVE  /\ d <= day
                          /\ \A g \in Handlers : job'[g].kind = "backup" => d <= job'[g].day
        BY <1>3 DEF RunsPast
      <4>1. CASE d = j.day
        BY <4>1, <1>3, <3>3, <3>4, <3>5 DEF Days
      <4>2. CASE d # j.day
        BY <4>2, <1>3, <3>2, <3>4 DEF RunsPast, RInv
      <4> QED
        BY <4>1, <4>2
    <3>7. FirstOfDay'
      BY <1>3, <1>4, <3>3, <3>4 DEF FirstOfDay, ToDump
    <3>8. DayMarked'
      <4>1. \A g \in Handlers : job'[g].todo # Backup2
        BY <1>3, <1>4, <3>3, <3>4 DEF BackupLeft
      <4>2. j.day = day => Marked
        BY <3>1 DEF RInv, DayMarked
      <4>3. j.day # day => (history.runs[day] > 0 => Marked)
        BY DEF RInv, DayMarked
      <4>4. history'.runs[day] > 0 => Marked
        BY <1>3, <3>2, <4>2, <4>3
      <4> QED
        BY <1>2, <1>3, <3>2, <4>1, <4>4 DEF DayMarked, Marked
    <3>9. DaysPast'
      BY <1>2, <1>3, <1>4, <3>4 DEF DaysPast, RInv
    <3>10. SlotRunsOnce'
      <4> SUFFICES ASSUME NEW d \in Days, history'.runs[d] > 1 PROVE d \in history.again
        BY <3>2 DEF SlotRunsOnce
      <4>1. CASE d # j.day
        BY <4>1, <3>2 DEF SlotRunsOnce, RInv
      <4>2. CASE d = j.day
        <5>1. ToDump(j)
          BY <2>2, <3>1 DEF ToDump
        <5>2. history.runs[j.day] # 0
          BY <4>2, <3>2
        <5> QED
          BY <4>2, <5>1, <5>2 DEF RInv, FirstOfDay
      <4> QED
        BY <4>1, <4>2
    <3>11. SettingsAreKept'
      BY <1>2, <3>2 DEF SettingsAreKept, RInv
    <3> QED
      BY <3>6, <3>7, <3>8, <3>9, <3>10, <3>11 DEF DaysInOrder
  <2> QED
    BY <2>1, <2>2
<1>6. history' \in Past /\ PastGrows
  <2>1. CASE j.kind # "backup"
    BY <1>1, <1>3, <2>1 DEF PastGrows
  <2>2. CASE j.kind = "backup"
    <3>1. PICK runs : runs = [history.runs EXCEPT ![j.day] = @ + 1]
      OBVIOUS
    <3>2. runs \in [Days -> Nat]
      BY <1>3, <3>1 DEF Past
    <3>3. history' = [history EXCEPT !.runs = runs]
      BY <1>1, <1>3, <2>2, <3>1 DEF Past
    <3> QED
      BY <1>3, <3>2, <3>3 DEF Past, PastGrows
  <2> QED
    BY <2>1, <2>2
<1>7. Marks(left.file.event, clock)
  BY <1>1 DEF Marks, NoEvent, NoForm, None, RInv, Typed
<1>8. settings' \in Settings /\ files' \subseteq File /\ (\A f, g \in files : f.n = g.n => f = g)'
  BY <1>1, <1>2 DEF RInv, Typed
<1>9. /\ UNCHANGED <<data, consent, event>>
      /\ left.todo \in BackupLeft \cup RequestLeft \cup {<<>>}
      /\ \A f \in files' : f \in files
      /\ left.todo \notin {Backup4, Export2}
  BY <1>1, <1>2, <1>4
<1> QED
  BY <1>2, <1>5, <1>6, <1>7, <1>8, <1>9, BackupStepKeeps

LEMMA QuietDumpKeeps ==
    ASSUME RInv, NEW h \in Handlers, NEW left, Dumps(h, left), history' = history,
           left.todo \in {<<>>, Backup4, Backup5, Backup6, Export2},
           files' \subseteq File, (\A f, g \in files : f.n = g.n => f = g)',
           \A f \in files' : f \in files \/ (Marks(f.event, clock) /\ Restorable(f, history)),
           Marks(left.file.event, clock),
           left.todo \in {Backup4, Export2} => Restorable(left.file, history')
    PROVE  RInv'
<1>1. /\ Progress(h, left) /\ left.settings = job[h].settings /\ settings' = settings
      /\ UNCHANGED <<data, consent, event, settings>>
  BY DEF Dumps
<1>2. left.todo \notin {RunSteps, Backup1, Backup2, Backup7, Saving}
  <2>1. <<>> \notin {RunSteps, Backup1, Backup2, Backup7, Saving}
    BY TodosDiffer DEF BackupLeft, RequestLeft
  <2>2. \A list \in {Backup4, Backup5, Backup6, Export2} :
           list \notin {RunSteps, Backup1, Backup2, Backup7, Saving}
    BY SMTT(30), BackupFollows, RequestFollows DEF Follows
  <2> QED
    BY <2>1, <2>2
<1>3. left.todo \in BackupLeft \cup RequestLeft \cup {<<>>}
  BY DEF BackupLeft, RequestLeft
<1>4. DaysUntouched
  BY <1>1 DEF DaysUntouched
<1>5. DaysInOrder'
  BY <1>1, <1>2, <1>4, QuietDays DEF StaysOut
<1>6. settings' \in Settings /\ history' \in Past /\ PastGrows
  BY <1>1 DEF RInv, Typed, PastGrows
<1> QED
  BY <1>1, <1>3, <1>5, <1>6, BackupStepKeeps

LEMMA DumpEventKeeps ==
    ASSUME RInv, NEW h \in Handlers, DumpEvent(h)
    PROVE  RInv'
<1>1. PICK left :
         /\ Dumps(h, left) /\ left.todo \in {Backup4, Export2}
         /\ left.file.data = job[h].file.data /\ left.file.event = event
         /\ left.file.torn = (job[h].file.data # data)
         /\ UNCHANGED <<files, history>>
  BY DumpEventMoves DEF RInv
<1>2. Restorable(left.file, history)
  <2>1. CASE job[h].file.data # data
    BY <1>1, <2>1 DEF Restorable
  <2>2. CASE job[h].file.data = data
    BY <1>1, <2>2, ForgottenIs DEF Restorable, RInv
  <2> QED
    BY <2>1, <2>2
<1>3. Marks(left.file.event, clock) /\ files' \subseteq File
      /\ (\A f, g \in files : f.n = g.n => f = g)'
  BY <1>1 DEF RInv, Typed, CutsPast
<1> QED
  BY <1>1, <1>2, <1>3, QuietDumpKeeps

LEMMA FailingKeeps ==
    ASSUME RInv, NEW h \in Handlers, DumpFails(h) \/ DeliverFails(h)
    PROVE  RInv'
<1>1. PICK left :
         /\ Dumps(h, left) /\ left.todo = Backup6 /\ left.file = job[h].file
         /\ UNCHANGED <<files, history>>
  BY FailingMoves DEF RInv
<1>2. Backup6 \notin {Backup4, Export2}
  BY BackupFollows, RequestFollows DEF Follows
<1>3. Marks(left.file.event, clock) /\ files' \subseteq File
      /\ (\A f, g \in files : f.n = g.n => f = g)'
  BY <1>1 DEF RInv, Typed, CutsPast
<1> QED
  BY <1>1, <1>2, <1>3, QuietDumpKeeps

LEMMA DeliverKeeps ==
    ASSUME RInv, NEW h \in Handlers, Deliver(h) \/ Prune(h)
    PROVE  RInv'
<1> DEFINE file == job[h].file
<1>1. PICK left :
         /\ Dumps(h, left) /\ left.todo \in {Backup5, Backup6, <<>>} /\ left.file = file
         /\ \/ /\ job[h].todo \in {Backup4, Export2}
               /\ files' = {f \in files : f.n # file.n} \cup {file}
            \/ files' \subseteq files
         /\ history' = history
  BY DeliverMoves DEF RInv
<1>2. /\ file \in File /\ Marks(file.event, clock)
      /\ job[h].todo \in {Backup4, Export2} => Restorable(file, history)
      /\ files \subseteq File /\ \A f, g \in files : f.n = g.n => f = g
  BY DEF RInv, Typed, Job, CutsPast, BackupsForget
<1>3. left.todo \notin {Backup4, Export2}
  <2>1. <<>> \notin {Backup4, Export2}
    BY TodosDiffer DEF BackupLeft, RequestLeft
  <2> QED
    BY <1>1, <2>1, BackupFollows, RequestFollows DEF Follows
<1> HIDE DEF file
<1>4. files' \subseteq File /\ (\A f, g \in files : f.n = g.n => f = g)'
  BY <1>1, <1>2
<1>5. \A f \in files' : f \in files \/ (Marks(f.event, clock) /\ Restorable(f, history))
  BY <1>1, <1>2
<1> QED
  BY <1>1, <1>2, <1>3, <1>4, <1>5, QuietDumpKeeps

-----------------------------------------------------------------------------
(* Statements that change data keep the invariant *)

LEMMA CareKeeps ==
    ASSUME RInv, NEW h \in Handlers, NEW left, Cares(h, left), event' \in Event,
           Marks(event', clock), Forgotten(data', event', history'),
           left.todo # <<>> => Clears(left, data', history')
    PROVE  RInv'
<1>1. /\ Progress(h, left) /\ left.settings = job[h].settings /\ left.file = job[h].file
      /\ left.todo \in DeletionLeft \cup {Recording, <<>>}
      /\ UNCHANGED <<settings, files>> /\ consent' \subseteq People
      /\ data' \in Data /\ DataKept /\ PastKept
  BY DEF Cares
<1>2. left.todo \notin {RunSteps, Backup1, Backup2, Backup7, Saving, Backup4, Export2}
  BY <1>1, TodosDiffer, RequestsDiffer, ListsSorted DEF BackupLeft, RequestLeft
<1>3. DaysUntouched /\ PastGrows /\ history' \in Past
  BY <1>1 DEF DaysUntouched, PastKept, PastGrows
<1>4. DaysInOrder'
  BY <1>1, <1>2, <1>3, QuietDays DEF StaysOut
<1>5. settings' \in Settings /\ files' \subseteq File
      /\ (\A f, g \in files : f.n = g.n => f = g)'
  BY <1>1 DEF RInv, Typed
<1>6. Typed' /\ JobsFit' /\ OneBackup'
  BY <1>1, <1>3, <1>5, JobsAfter
<1>7. Marks(left.file.event, clock) /\ \A f \in files' : Marks(f.event, clock)
  BY <1>1 DEF RInv, CutsPast
<1>8. CutsPast'
  BY <1>1, <1>7, MarksAfter
<1>9. \A f \in files' : f \in files \/ Restorable(f, history)
  BY <1>1
<1>10. JobsForget' /\ BackupsForget' /\ ForgottenIsGone'
  BY <1>1, <1>2, <1>3, <1>5, <1>9, DataAfter
<1> QED
  BY <1>4, <1>6, <1>8, <1>10 DEF RInv, DaysInOrder

\* Where the event is left alone.
LEMMA CareLeavesEvent ==
    ASSUME RInv, NEW h \in Handlers, NEW left, Cares(h, left), event' = event,
           left.todo # <<>> => Clears(left, data', history')
    PROVE  RInv'
<1>1. data' \in Data /\ DataKept /\ PastGrows
  BY DEF Cares, PastKept, PastGrows
<1>2. Forgotten(data', event', history')
  BY <1>1, EventStays
<1>3. event' \in Event /\ Marks(event', clock)
  BY DEF RInv, Typed, CutsPast
<1> QED
  BY <1>2, <1>3, CareKeeps

\* What a deletion had cleared before a statement is clear after it.
LEMMA HandledStays ==
    ASSUME RInv, NEW h \in Handlers, NEW left, Cares(h, left), job[h].todo \in DeletionLeft,
           NEW place \in Places, NEW p \in People, Handled(job[h], place, p),
           job[h].kept \subseteq left.kept
    PROVE  Free(data'[place][p], left.category, place, p, left.n, left.kept, history')
<1>1. /\ data' \in Data /\ DataKept /\ PastGrows
      /\ left.category = job[h].category /\ left.n = job[h].n
  BY DEF Cares, PastKept, PastGrows, Progress, Kin
<1>2. /\ job[h] \in Job /\ Fits(job[h]) /\ job[h].n <= clock /\ Typed
      /\ Clears(job[h], data, history)
  BY DEF RInv, Typed, JobsFit, JobsForget
<1>3. job[h].category \in Categories /\ job[h].n \in Nat
  BY <1>2 DEF Fits, Job
<1>4. Free(data[place][p], job[h].category, place, p, job[h].n, job[h].kept, history)
  BY <1>2 DEF Clears
<1> QED
  BY <1>1, <1>2, <1>3, <1>4, FreeStays

LEMMA WriteFormKeeps ==
    ASSUME RInv, NEW h \in Handlers, WriteForm(h) \/ RecordReview(h)
    PROVE  RInv'
<1>1. PICK left : Cares(h, left) /\ left.todo \in {Recording, <<>>} /\ event' = event
  BY WriteFormMoves, RecordReviewMoves DEF RInv
<1>2. left.todo \notin DeletionLeft
  BY <1>1, TodosDiffer, ListsSorted DEF RequestLeft
<1>3. Clears(left, data', history')
  BY <1>2, NothingHandled
<1> QED
  BY <1>1, <1>3, CareLeavesEvent

LEMMA DeletionsDiffer ==
    /\ Deletion1 \notin {Deletion2, Deletion3, Deletion4, Deletion5}
    /\ Deletion2 \notin {Deletion3, Deletion4, Deletion5}
    /\ Deletion3 \notin {Deletion4, Deletion5} /\ Deletion4 # Deletion5
    /\ {Deletion1, Deletion2, Deletion3, Deletion4, Deletion5} \subseteq DeletionLeft
    /\ <<>> \notin {Deletion1, Deletion2, Deletion3, Deletion4, Deletion5}
  BY DEF Deletion1, Deletion2, Deletion3, Deletion4, Deletion5, DeletionLeft

LEMMA ReadAnswersKeeps ==
    ASSUME RInv, NEW h \in Handlers, ReadAnswers(h)
    PROVE  RInv'
<1>1. PICK left :
         /\ Cares(h, left) /\ event' = event /\ data' = data
         /\ left.todo \in {Deletion1, Deletion2}
         /\ \A p \in People : ~NotWaiting(left, p) /\ left.todo = Deletion1
  BY ReadAnswersMoves DEF RInv
<1>2. \A place \in Places, p \in People : ~Handled(left, place, p)
  BY <1>1, DeletionsDiffer DEF Handled
<1>3. Clears(left, data', history')
  BY <1>2 DEF Clears
<1> QED
  BY <1>1, <1>3, CareLeavesEvent

LEMMA ReadAccountsKeeps ==
    ASSUME RInv, NEW h \in Handlers, ReadAccounts(h)
    PROVE  RInv'
<1>1. PICK left :
         /\ Cares(h, left) /\ event' = event /\ data' = data
         /\ left.kept = Kept(job[h].category, "accounts") /\ job[h].todo = Deletion2
         /\ left.todo \in {Deletion3, Deletion4}
         /\ \A p \in People : Forgettable(p) => ~NotWaiting(left, p) /\ left.todo = Deletion3
  BY ReadAccountsMoves DEF RInv
<1>2. job[h].kept = {} /\ left.category = job[h].category
  BY <1>1 DEF RInv, JobsFit, Fits, Cares, Progress, Kin
<1>3. Clears(left, data', history')
  <2> SUFFICES ASSUME NEW place \in Places, NEW p \in People, Handled(left, place, p)
               PROVE  Free(data'[place][p], left.category, place, p, left.n, left.kept, history')
    BY DEF Clears
  <2>1. CASE place = "answers"
    <3>1. Handled(job[h], place, p)
      BY <1>1, <2>1 DEF Handled
    <3>2. job[h].todo \in DeletionLeft
      BY <1>1, DeletionsDiffer
    <3> QED
      BY <1>1, <1>2, <3>1, <3>2, HandledStays
  <2>2. CASE place = "accounts"
    <3>1. ~Forgettable(p)
      BY <1>1, <2>2, DeletionsDiffer DEF Handled
    <3>2. <<left.category, place, p>> \in left.kept
      BY <1>1, <1>2, <2>2, <3>1 DEF Kept
    <3> QED
      BY <3>2 DEF Free
  <2>3. CASE place = "sheets"
    BY <1>1, <2>3, DeletionsDiffer DEF Handled
  <2> QED
    BY <2>1, <2>2, <2>3 DEF Places
<1> QED
  BY <1>1, <1>3, CareLeavesEvent

LEMMA WipeRowKeeps ==
    ASSUME RInv, NEW h \in Handlers, WipeRow(h)
    PROVE  RInv'
<1> DEFINE j == job[h]
<1>1. PICK left, r :
         /\ Cares(h, left) /\ event' = event /\ left.kept = j.kept /\ r \in People
         /\ \/ /\ j.todo = Deletion1 /\ left.todo \in {Deletion1, Deletion2}
               /\ data'["answers"][r][j.category] = None
            \/ /\ j.todo = Deletion3 /\ left.todo \in {Deletion3, Deletion4}
               /\ data'["accounts"][r][j.category] = None
         /\ \A p \in People :
              left.todo # j.todo \/ NotWaiting(left, p) => NotWaiting(j, p) \/ p = r
  BY WipeRowMoves DEF RInv
<1>2. left.category = j.category /\ j.todo \in DeletionLeft
  BY <1>1, DeletionsDiffer DEF Cares, Progress, Kin
<1>3. Clears(left, data', history')
  <2> SUFFICES ASSUME NEW place \in Places, NEW p \in People, Handled(left, place, p)
               PROVE  Free(data'[place][p], left.category, place, p, left.n, left.kept, history')
    BY DEF Clears
  <2>1. CASE Handled(j, place, p)
    BY <1>1, <1>2, <2>1, HandledStays
  <2>2. CASE ~Handled(j, place, p)
    <3>1. CASE j.todo = Deletion1
      <4>1. place = "answers" /\ ~NotWaiting(j, p)
        BY <1>1, <2>2, <3>1, DeletionsDiffer DEF Handled
      <4>2. left.todo # j.todo \/ NotWaiting(left, p)
        BY <1>1, <3>1, <4>1, DeletionsDiffer DEF Handled
      <4>3. p = r
        BY <1>1, <4>1, <4>2
      <4> QED
        BY <1>1, <1>2, <3>1, <4>1, <4>3, DeletionsDiffer DEF Free
    <3>2. CASE j.todo = Deletion3
      <4>1. place = "accounts" /\ ~NotWaiting(j, p)
        BY <1>1, <2>2, <3>2, DeletionsDiffer DEF Handled
      <4>2. left.todo # j.todo \/ NotWaiting(left, p)
        BY <1>1, <3>2, <4>1, DeletionsDiffer DEF Handled
      <4>3. p = r
        BY <1>1, <4>1, <4>2
      <4> QED
        BY <1>1, <1>2, <3>2, <4>1, <4>3, DeletionsDiffer DEF Free
    <3> QED
      BY <1>1, <3>1, <3>2
  <2> QED
    BY <2>1, <2>2
<1> QED
  BY <1>1, <1>3, CareLeavesEvent

LEMMA WipeSheetsKeeps ==
    ASSUME RInv, NEW h \in Handlers, WipeSheets(h)
    PROVE  RInv'
<1> DEFINE j == job[h]
<1>1. PICK left :
         /\ Cares(h, left) /\ event' = event
         /\ j.todo = Deletion4 /\ left.todo = Deletion5
         /\ left.kept = j.kept \cup Kept(j.category, "sheets")
         /\ \A p \in People : Forgettable(p) => data'["sheets"][p][j.category] = None
  BY WipeSheetsMoves DEF RInv
<1>2. left.category = j.category /\ j.todo \in DeletionLeft /\ j.kept \subseteq left.kept
  BY <1>1, DeletionsDiffer DEF Cares, Progress, Kin
<1>3. Clears(left, data', history')
  <2> SUFFICES ASSUME NEW place \in Places, NEW p \in People, Handled(left, place, p)
               PROVE  Free(data'[place][p], left.category, place, p, left.n, left.kept, history')
    BY DEF Clears
  <2>1. CASE place # "sheets"
    <3>1. Handled(j, place, p)
      BY <1>1, <2>1 DEF Handled, Places
    <3> QED
      BY <1>1, <1>2, <3>1, HandledStays
  <2>2. CASE place = "sheets" /\ Forgettable(p)
    BY <1>1, <1>2, <2>2 DEF Free
  <2>3. CASE place = "sheets" /\ ~Forgettable(p)
    <3>1. <<left.category, place, p>> \in left.kept
      BY <1>1, <1>2, <2>3 DEF Kept
    <3> QED
      BY <3>1 DEF Free
  <2> QED
    BY <2>1, <2>2, <2>3
<1> QED
  BY <1>1, <1>3, CareLeavesEvent

LEMMA MarkDeletedKeeps ==
    ASSUME RInv, NEW h \in Handlers, MarkDeleted(h)
    PROVE  RInv'
<1> DEFINE j == job[h]
<1>1. PICK left :
         /\ Cares(h, left) /\ data' = data /\ history' = history
         /\ left.todo = <<>> /\ j.todo = Deletion5
         /\ event' \in Event /\ event'.deleted = event.deleted \cup {j.category}
         /\ event'.cut = [event.cut EXCEPT ![j.category] = j.n]
         /\ event'.kept = {k \in event.kept : k[1] # j.category} \cup j.kept
         /\ j.category \in Categories
  BY MarkDeletedMoves DEF RInv
<1>2. /\ event \in Event /\ Marks(event, clock) /\ Forgotten(data, event, history)
      /\ j.n <= clock /\ Clears(j, data, history)
  BY ForgottenIs DEF RInv, Typed, CutsPast, JobsFit, JobsForget
<1>3. /\ event.cut \in Form /\ event'.cut[j.category] = j.n
      /\ \A c \in Categories : c # j.category => event'.cut[c] = event.cut[c]
  BY <1>1, <1>2 DEF Event, Form
<1>4. Marks(event', clock)
  BY <1>2, <1>3 DEF Marks
<1>5. Forgotten(data', event', history')
  <2> SUFFICES ASSUME NEW c \in event'.deleted, NEW place \in Places, NEW p \in People
               PROVE  Free(data[place][p], c, place, p, event'.cut[c], event'.kept, history)
    BY <1>1 DEF Forgotten
  <2>1. CASE c = j.category
    <3>1. Handled(j, place, p)
      BY <1>1 DEF Handled, Places
    <3>2. Free(data[place][p], c, place, p, j.n, j.kept, history)
      BY <1>2, <2>1, <3>1 DEF Clears
    <3>3. event'.cut[c] = j.n /\ j.kept \subseteq event'.kept
      BY <1>1, <1>3, <2>1
    <3> QED
      BY <3>2, <3>3 DEF Free
  <2>2. CASE c # j.category
    <3>1. c \in event.deleted /\ c \in Categories
      BY <1>1, <1>2, <2>2 DEF Event
    <3>2. Free(data[place][p], c, place, p, event.cut[c], event.kept, history)
      BY <1>2, <3>1 DEF Forgotten
    <3>3. event'.cut[c] = event.cut[c]
      BY <1>3, <2>2, <3>1
    <3>4. <<c, place, p>> \in event.kept => <<c, place, p>> \in event'.kept
      BY <1>1, <2>2
    <3> QED
      BY <3>2, <3>3, <3>4 DEF Free
  <2> QED
    BY <2>1, <2>2
<1> QED
  BY <1>1, <1>4, <1>5, CareKeeps

-----------------------------------------------------------------------------
(* Everything else keeps the invariant *)

\* While nothing under way moves and the marks of the past stay.
LEMMA JobsStand ==
    ASSUME RInv, job' = job, clock' \in Nat, clock <= clock', files' = files,
           Marks(event', clock')
    PROVE  JobsFit' /\ OneBackup' /\ CutsPast'
<1>1. /\ clock \in Nat /\ \A h \in Handlers : job[h] \in Job /\ job[h].n \in Nat
      /\ \A f \in files : f.event \in Event
      /\ \A h \in Handlers : job[h].file.event \in Event
  BY DEF RInv, Typed, Job, File
<1>2. JobsFit' /\ OneBackup'
  BY <1>1 DEF RInv, JobsFit, OneBackup, Fits
<1>3. \A f \in files' : Marks(f.event, clock')
  BY <1>1, MarksStay DEF RInv, CutsPast
<1>4. \A h \in Handlers : Marks(job'[h].file.event, clock')
  BY <1>1, MarksStay DEF RInv, CutsPast
<1> QED
  BY <1>2, <1>3, <1>4 DEF CutsPast

LEMMA DaysStand ==
    ASSUME RInv, job' = job, day' = day, DaysUntouched
    PROVE  DaysInOrder'
<1>1. RunsPast' /\ FirstOfDay'
  BY DEF RInv, DaysUntouched, RunsPast, FirstOfDay, ToDump
<1>2. DayMarked' /\ DaysPast'
  BY DEF RInv, DaysUntouched, DayMarked, Marked, DaysPast
<1>3. SlotRunsOnce' /\ SettingsAreKept'
  BY DEF RInv, DaysUntouched, SlotRunsOnce, SettingsAreKept
<1> QED
  BY <1>1, <1>2, <1>3 DEF DaysInOrder

\* Somebody registers elsewhere, the event ends or is opened again.
LEMMA CalmKeeps ==
    ASSUME RInv,
           UNCHANGED <<time, data, consent, backups, job, history, faults, ops>>,
           requests' \in 0..MaxRequests, clock' = clock + 1, elsewhere' \subseteq People,
           event' \in Event, event'.deleted = event.deleted, event'.cut = event.cut,
           event'.kept = event.kept
    PROVE  RInv'
<1>1. /\ UNCHANGED <<day, slot, data, consent, settings, files, job, history, ops>>
      /\ clock \in Nat /\ Typed /\ event \in Event /\ Marks(event, clock)
  BY DEF time, backups, RInv, Typed, CutsPast
<1>2. Typed'
  BY <1>1 DEF Typed
<1>3. clock' \in Nat /\ clock <= clock'
  BY <1>1
<1>4. Marks(event, clock')
  BY <1>1, <1>3, MarksStay
<1>5. Marks(event', clock')
  BY <1>4 DEF Marks
<1>6. JobsFit' /\ OneBackup' /\ CutsPast'
  BY <1>1, <1>3, <1>5, JobsStand
<1>7. DaysInOrder'
  BY <1>1, DaysStand DEF DaysUntouched
<1>8. JobsForget'
  BY <1>1 DEF RInv, JobsForget, Clears, Handled, NotWaiting, Free, Excused
<1>9. BackupsForget'
  BY <1>1 DEF RInv, BackupsForget, Restorable, Forgotten, Free, Excused
<1>10. ForgottenIsGone'
  BY <1>1 DEF RInv, ForgottenIsGone
<1> QED
  BY <1>2, <1>6, <1>7, <1>8, <1>9, <1>10 DEF RInv, DaysInOrder

LEMMA RegisterElsewhereKeeps ==
    ASSUME RInv, NEW p \in People, RegisterElsewhere(p)
    PROVE  RInv'
<1>1. /\ UNCHANGED <<time, data, consent, event, backups, history, job, faults, ops>>
      /\ requests < Limit /\ requests' = requests + 1 /\ clock' = clock + 1
      /\ elsewhere' \subseteq People /\ event \in Event
  BY DEF RegisterElsewhere, AtOnce, RInv, Typed
<1>2. requests' \in 0..MaxRequests
  BY <1>1, OneMoreRequest DEF RInv
<1> QED
  BY <1>1, <1>2, CalmKeeps

LEMMA EndingKeeps ==
    ASSUME RInv, EndEvent \/ ReopenEvent
    PROVE  RInv'
<1>1. /\ UNCHANGED <<time, persons, backups, history, job, faults, ops>>
      /\ requests < Limit /\ requests' = requests + 1 /\ clock' = clock + 1
      /\ day \in Days /\ event \in Event /\ elsewhere \subseteq People
  BY DEF EndEvent, ReopenEvent, AtOnce, RInv, Typed
<1>2. PICK ended \in Days \cup {Never} : event' = [event EXCEPT !.ended = ended]
  BY <1>1 DEF EndEvent, ReopenEvent
<1>3. event' \in Event /\ event'.deleted = event.deleted /\ event'.cut = event.cut
      /\ event'.kept = event.kept
  BY <1>1, <1>2 DEF Event
<1>4. requests' \in 0..MaxRequests
  BY <1>1, OneMoreRequest DEF RInv
<1>5. UNCHANGED <<time, data, consent, backups, job, history, faults, ops>>
      /\ elsewhere' \subseteq People
  BY <1>1 DEF persons
<1> QED
  BY <1>1, <1>3, <1>4, <1>5, CalmKeeps

LEMMA RestoreKeeps ==
    ASSUME RInv, NEW f \in files, NEW parts \in SUBSET Parts, Restore(f, parts)
    PROVE  RInv'
<1>1. /\ UNCHANGED <<day, slot, elsewhere, settings, files, job, faults, ops>>
      /\ requests < Limit /\ requests' = requests + 1 /\ clock' = clock + 1
      /\ data' = (IF "participants" \in parts THEN f.data ELSE data)
      /\ consent' = (IF "participants" \in parts THEN f.consent ELSE consent)
      /\ event' = (IF "events" \in parts THEN f.event ELSE event)
      /\ history' = [history EXCEPT !.restored = @ \/ ~Whole(f, parts)]
  BY DEF Restore, AtOnce, time, backups
<1>2. /\ Typed /\ f \in File /\ event \in Event /\ clock \in Nat /\ history \in Past
      /\ Marks(event, clock) /\ Marks(f.event, clock) /\ Restorable(f, history)
  BY DEF RInv, Typed, CutsPast, BackupsForget
<1>3. data' \in Data /\ consent' \subseteq People /\ event' \in Event
  BY <1>1, <1>2 DEF File, Typed
<1>4. PICK restored \in BOOLEAN : restored = (history.restored \/ ~Whole(f, parts))
  OBVIOUS
<1>5. history' = [history EXCEPT !.restored = restored]
  BY <1>1, <1>4
<1>6. /\ history' \in Past /\ history'.restored = restored /\ history'.runs = history.runs
      /\ history'.again = history.again /\ history'.changed = history.changed
      /\ history'.saved = history.saved /\ history'.crossed = history.crossed
      /\ history'.returned = history.returned
  BY <1>2, <1>5 DEF Past
<1>7. requests' \in 0..MaxRequests
  BY <1>1, <1>2, OneMoreRequest
<1>8. Typed'
  BY <1>1, <1>2, <1>3, <1>6, <1>7 DEF Typed
<1>9. clock' \in Nat /\ clock <= clock'
  BY <1>1, <1>2
<1>10. Marks(event', clock')
  <2>1. Marks(event, clock')
    BY <1>2, <1>9, MarksStay
  <2>2. f.event \in Event
    BY <1>2 DEF File
  <2>3. Marks(f.event, clock')
    BY <1>2, <1>9, <2>2, MarksStay
  <2> QED
    BY <1>1, <2>1, <2>3
<1>11. JobsFit' /\ OneBackup' /\ CutsPast'
  BY <1>1, <1>9, <1>10, JobsStand
<1>12. DaysInOrder'
  BY <1>1, <1>6, DaysStand DEF DaysUntouched
<1>13. PastGrows
  BY <1>4, <1>6 DEF PastGrows
<1>14. BackupsForget'
  <2>1. \A g \in files' : Restorable(g, history')
    BY <1>1, <1>2, <1>13, RestorableStays DEF Typed, RInv, BackupsForget
  <2>2. \A h \in Handlers : job[h].file \in File
    BY <1>2 DEF Typed, Job
  <2>3. \A h \in Handlers :
           job'[h].todo \in {Backup4, Export2} => Restorable(job'[h].file, history')
    BY <1>1, <1>13, <2>2, RestorableStays DEF RInv, BackupsForget
  <2> QED
    BY <2>1, <2>3 DEF BackupsForget, Restorable, Forgotten, Free, Excused
<1>15. CASE restored
  <2>2. JobsForget'
    BY <1>6, <1>15 DEF JobsForget, Clears, Free, Excused
  <2>3. ForgottenIsGone'
    BY <1>6, <1>15 DEF ForgottenIsGone
  <2> QED
    BY <1>8, <1>11, <1>12, <1>14, <2>2, <2>3 DEF RInv, DaysInOrder
<1>16. CASE ~restored
  <2>1. /\ parts = Parts /\ ~f.torn /\ \A h \in Handlers : job[h].category = "none"
    BY <1>4, <1>16 DEF Whole
  <2>2. data' = f.data /\ event' = f.event
    BY <1>1, <2>1 DEF Parts
  <2>3. Forgotten(f.data, f.event, history)
    BY <1>2, <2>1 DEF Restorable
  <2>4. ForgottenIsGone'
    <3>1. Forgotten(f.data, f.event, history')
      BY <1>13, <2>3 DEF PastGrows, Forgotten, Free, Excused
    <3> QED
      BY <2>2, <3>1 DEF ForgottenIsGone, Forgotten, Free, Excused
  <2>5. \A h \in Handlers : job[h].todo \notin DeletionLeft
    BY <2>1, ConstantsFit DEF RInv, JobsFit, Fits
  <2>6. \A h \in Handlers : Clears(job'[h], data', history')
    BY <1>1, <2>5, NothingHandled
  <2>7. JobsForget'
    BY <2>6 DEF JobsForget, Clears, Handled, NotWaiting, Free, Excused
  <2> QED
    BY <1>8, <1>11, <1>12, <1>14, <2>4, <2>7 DEF RInv, DaysInOrder
<1> QED
  BY <1>15, <1>16

\* What is put back is no deleted value but for those the property names.
LEMMA ResolveReviewKeeps ==
    ASSUME RInv, NEW r \in Review, NEW accepted \in BOOLEAN, ResolveReview(r, accepted)
    PROVE  RInv'
<1>1. /\ UNCHANGED <<day, slot, consent, elsewhere, event, settings, files, job, faults, ops>>
      /\ requests < Limit /\ requests' = requests + 1 /\ clock' = clock + 1
  BY DEF ResolveReview, AtOnce, time, backups
<1>2. /\ r.place \in Places /\ r.person \in People /\ r.category \in Categories /\ r.from \in Nat
      /\ Typed /\ clock \in Nat /\ data \in [Places -> [People -> Form]] /\ history \in Past
      /\ \A q \in Places, p \in People : data[q][p] \in Form
  BY DEF Review, RInv, Typed, Data
<1> DEFINE cell == <<r.category, r.place, r.person>>
<1>0. PICK returned : returned = IF accepted THEN {} ELSE Returned(r)
  OBVIOUS
<1>3. /\ history' = [history EXCEPT !.returned = @ \cup returned]
      /\ returned \in SUBSET (Categories \X Places \X People)
      /\ ~accepted /\ Deleting(r.category) => cell \in returned
  <2>1. history' = [history EXCEPT !.returned = @ \cup returned]
    BY <1>0 DEF ResolveReview
  <2>2. /\ returned \subseteq {cell}
        /\ ~accepted /\ Deleting(r.category) => cell \in returned
    BY <1>0 DEF Returned, When
  <2>3. cell \in Categories \X Places \X People
    BY <1>2
  <2> QED
    BY <2>1, <2>2, <2>3
<1>4. /\ history' \in Past /\ history'.returned = history.returned \cup returned
      /\ history'.runs = history.runs /\ history'.again = history.again
      /\ history'.changed = history.changed /\ history'.saved = history.saved
      /\ history'.crossed = history.crossed /\ history'.restored = history.restored
  BY <1>2, <1>3 DEF Past
<1>5. PastGrows
  BY <1>4 DEF PastGrows
<1>6. /\ data' \in Data
      /\ \A q \in Places, p \in People, c \in Categories :
           \/ data'[q][p][c] = data[q][p][c]
           \/ <<c, q, p>> = cell /\ ~accepted
  <2>1. CASE accepted
    BY <1>2, <2>1 DEF ResolveReview, Data
  <2>2. CASE ~accepted
    <3>1. data' = [data EXCEPT ![r.place][r.person][r.category] = r.from]
      BY <2>2 DEF ResolveReview
    <3>2. [data[r.place][r.person] EXCEPT ![r.category] = r.from] \in Form
      BY <1>2 DEF Form
    <3>3. data' \in Data
      BY <1>2, <3>1, <3>2 DEF Data
    <3>4. \A q \in Places, p \in People, c \in Categories :
             q # r.place \/ p # r.person \/ c # r.category => data'[q][p][c] = data[q][p][c]
      BY <1>2, <3>1 DEF Form
    <3> QED
      BY <2>2, <3>3, <3>4
  <2> QED
    BY <2>1, <2>2
<1> HIDE DEF cell
<1>7. \A q \in Places, p \in People, c \in Categories :
         Deleting(c) => data'[q][p][c] = data[q][p][c] \/ <<c, q, p>> \in history'.returned
  <2> SUFFICES ASSUME NEW q \in Places, NEW p \in People, NEW c \in Categories, Deleting(c),
                      <<c, q, p>> = cell, ~accepted
               PROVE  <<c, q, p>> \in history'.returned
    BY <1>6
  <2>1. c = r.category
    BY DEF cell
  <2> QED
    BY <1>3, <1>4, <2>1
<1>8. clock' \in Nat /\ clock <= clock' /\ Marks(event', clock')
  <2>1. Marks(event, clock) /\ event \in Event
    BY <1>2 DEF RInv, CutsPast, Typed
  <2> QED
    BY <1>1, <1>2, <2>1, MarksStay
<1>9. Typed'
  <2>1. requests' \in 0..MaxRequests
    BY <1>1, <1>2, OneMoreRequest
  <2> QED
    BY <1>1, <1>2, <1>4, <1>6, <1>8, <2>1 DEF Typed
<1>10. JobsFit' /\ OneBackup' /\ CutsPast'
  BY <1>1, <1>8, JobsStand
<1>11. DaysInOrder'
  BY <1>1, <1>4, DaysStand DEF DaysUntouched
<1>12. JobsForget'
  <2>1. \A h \in Handlers : Clears(job'[h], data', history')
    <3> SUFFICES ASSUME NEW h \in Handlers, NEW q \in Places, NEW p \in People,
                        Handled(job[h], q, p)
                 PROVE  Free(data'[q][p], job[h].category, q, p, job[h].n, job[h].kept, history')
      BY <1>1 DEF Clears
    <3>1. job[h].category \in Categories
      BY DEF Handled, DeletionLeft, RInv, JobsFit, Fits
    <3>2. Deleting(job[h].category)
      BY DEF Deleting
    <3>3. Free(data[q][p], job[h].category, q, p, job[h].n, job[h].kept, history)
      BY DEF RInv, JobsForget, Clears
    <3> QED
      BY <1>4, <1>7, <3>1, <3>2, <3>3 DEF Free, Excused
  <2> QED
    BY <2>1 DEF JobsForget, Clears, Handled, NotWaiting, Free, Excused
<1>13. BackupsForget'
  <2>1. \A f \in files' : Restorable(f, history')
    BY <1>1, <1>2, <1>5, RestorableStays DEF Typed, RInv, BackupsForget
  <2>2. \A h \in Handlers : job[h].file \in File
    BY <1>2 DEF Typed, Job
  <2>3. \A h \in Handlers :
           job'[h].todo \in {Backup4, Export2} => Restorable(job'[h].file, history')
    BY <1>1, <1>5, <2>2, RestorableStays DEF RInv, BackupsForget
  <2> QED
    BY <2>1, <2>3 DEF BackupsForget, Restorable, Forgotten, Free, Excused
<1>14. ForgottenIsGone'
  <2>1. Forgotten(data, event, history)
    BY ForgottenIs DEF RInv
  <2>2. Forgotten(data', event', history')
    <3> SUFFICES ASSUME NEW c \in event.deleted, NEW q \in Places, NEW p \in People
                 PROVE  Free(data'[q][p], c, q, p, event.cut[c], event.kept, history')
      BY <1>1 DEF Forgotten
    <3>1. c \in Categories /\ Deleting(c)
      BY <1>2 DEF Typed, Event, Deleting
    <3>2. Free(data[q][p], c, q, p, event.cut[c], event.kept, history)
      BY <2>1 DEF Forgotten
    <3> QED
      BY <1>4, <1>7, <3>1, <3>2 DEF Free, Excused
  <2> QED
    BY <2>2 DEF ForgottenIsGone, Forgotten, Free, Excused
<1> QED
  BY <1>9, <1>10, <1>11, <1>12, <1>13, <1>14 DEF RInv, DaysInOrder

\* What is put to a person has a place, a category and a value.
LEMMA ReviewsStay ==
    ASSUME RInv, ReviewsFit, [Next]_rvars
    PROVE  ReviewsFit'
<1>1. ASSUME NEW h \in Handlers, RecordReview(h) PROVE ReviewsFit'
  <2> DEFINE j == job[h]
  <2>1. j \in Job /\ Fits(j) /\ j.todo # <<>> /\ Head(j.todo) = "record"
    BY <1>1, StatementAt DEF RecordReview, RInv
  <2>2. j.todo = Recording
    BY <2>1, WhereItIs
  <2>3. j.n \in Nat /\ j.place \in Places /\ j.person \in People /\ j.outcome \in Categories
        /\ j.form[j.outcome] \in Nat
    BY <2>1, <2>2 DEF Fits, Job, Form
  <2>4. [n |-> j.n, place |-> j.place, person |-> j.person, category |-> j.outcome,
         from |-> j.form[j.outcome]] \in Review
    BY <2>3 DEF Review
  <2>5. reviews' = reviews \cup
          {[n |-> j.n, place |-> j.place, person |-> j.person, category |-> j.outcome,
            from |-> j.form[j.outcome]]}
    BY <1>1 DEF RecordReview
  <2> QED
    BY <2>4, <2>5 DEF ReviewsFit
<1>2. ASSUME NEW r \in reviews, NEW accepted \in BOOLEAN, ResolveReview(r, accepted)
      PROVE  ReviewsFit'
  BY <1>2 DEF ResolveReview, ReviewsFit
<1>3. CASE UNCHANGED reviews
  BY <1>3 DEF ReviewsFit
<1>4. ASSUME NEW h \in Handlers, Ask(h) PROVE UNCHANGED reviews
  BY <1>4 DEF Ask, RunScheduledBackup, ExportByHand, SetBackupSettings, Edit, RunDeletion,
       RunCleanup, persons
<1>5. ASSUME NEW h \in Handlers, Step(h), ~RecordReview(h) PROVE UNCHANGED reviews
  BY <1>5 DEF Step, ReadState, SaveState, SaveSettings, Dump, DumpEvent, Deliver, Prune,
       WriteForm, ReadAnswers, ReadAccounts, WipeRow, WipeSheets, MarkDeleted, persons
<1>6. ASSUME NEW h \in Handlers, DumpFails(h) \/ DeliverFails(h) PROVE UNCHANGED reviews
  BY <1>6 DEF DumpFails, DeliverFails, persons
<1>7. ASSUME NextDay \/ SlotComes \/ Restart \/ EndEvent \/ ReopenEvent PROVE UNCHANGED reviews
  BY <1>7 DEF NextDay, SlotComes, Restart, EndEvent, ReopenEvent, Waits, persons
<1>8. ASSUME NEW f \in files, NEW parts \in SUBSET Parts \ {{}}, Restore(f, parts)
      PROVE  UNCHANGED reviews
  BY <1>8 DEF Restore
<1>9. ASSUME NEW p \in People, RegisterElsewhere(p) PROVE UNCHANGED reviews
  BY <1>9 DEF RegisterElsewhere
<1>10. CASE UNCHANGED rvars
  BY <1>3, <1>10 DEF rvars, persons
<1> QED
  BY <1>1, <1>2, <1>3, <1>4, <1>5, <1>6, <1>7, <1>8, <1>9, <1>10 DEF Next

LEMMA RestartKeeps ==
    ASSUME RInv, Restart
    PROVE  RInv'
<1>1. /\ UNCHANGED <<day, slot, data, consent, elsewhere, event, settings, files, history>>
      /\ UNCHANGED <<clock, requests, ops>>
      /\ faults < MaxFaults /\ faults' = faults + 1 /\ job' = [h \in Handlers |-> Done]
  BY DEF Restart, time, persons, backups
<1>2. Typed /\ MaxFaults \in Nat /\ day \in Days /\ clock \in Nat /\ 0 <= day /\ MaxDay \in Nat
  BY RetentionAssumption DEF RInv, Typed, Days
<1>3. /\ Done \in Job /\ Fits(Done) /\ Done.n = 0 /\ Done.kind = "none" /\ Done.day = 0
      /\ Done.todo = <<>> /\ Done.settings.lastRun = Never /\ Done.file.event = NoEvent
  BY DoneFits DEF Done, NoSettings, NoFile
<1>4. \A h \in Handlers : job'[h] = Done
  BY <1>1
<1>5. Typed'
  BY <1>1, <1>2, <1>3 DEF Typed
<1>6. JobsFit' /\ OneBackup'
  <2>1. \A h \in Handlers : Fits(job'[h]) /\ job'[h].n <= clock'
    BY <1>1, <1>2, <1>3
  <2> QED
    BY <1>3, <1>4, <2>1 DEF JobsFit, OneBackup, Fits
<1>7. CutsPast'
  <2>1. Marks(NoEvent, clock)
    BY <1>2 DEF Marks, NoEvent, NoForm, None
  <2> QED
    BY <1>1, <1>3, <1>4, <2>1 DEF CutsPast, RInv, Marks
<1>8. <<>> \notin {RunSteps, Backup1, Backup2, Backup4, Backup7, Saving, Export2}
  BY TodosDiffer DEF BackupLeft, RequestLeft
<1>9. RunsPast' /\ FirstOfDay'
  BY <1>1, <1>3, <1>4 DEF RunsPast, FirstOfDay, ToDump, RInv
<1>10. DayMarked' /\ DaysPast'
  BY <1>1, <1>2, <1>3, <1>4, <1>8 DEF DayMarked, Marked, DaysPast, RInv
<1>11. SlotRunsOnce' /\ SettingsAreKept' /\ ForgottenIsGone'
  BY <1>1 DEF SlotRunsOnce, SettingsAreKept, ForgottenIsGone, RInv
<1>12. JobsForget'
  <2>1. Done.todo \notin DeletionLeft
    BY <1>3, TodosDiffer
  <2>2. \A h \in Handlers : Clears(job'[h], data', history')
    BY <1>4, <2>1, NothingHandled
  <2> QED
    BY <2>2 DEF JobsForget, Clears, Handled, NotWaiting, Free, Excused
<1>13. BackupsForget'
  BY <1>1, <1>3, <1>4, <1>8 DEF BackupsForget, Restorable, Forgotten, Free, Excused, RInv
<1> QED
  BY <1>5, <1>6, <1>7, <1>9, <1>10, <1>11, <1>12, <1>13 DEF RInv

\* Time passes: a day that begins has had no backup.
LEMMA TimeKeeps ==
    ASSUME RInv, NextDay \/ SlotComes
    PROVE  RInv'
<1>1. /\ UNCHANGED <<data, consent, elsewhere, event, settings, files, job, history>>
      /\ UNCHANGED <<clock, requests, faults, ops>> /\ slot' \in BOOLEAN
      /\ day' = day \/ (day < MaxDay /\ day' = day + 1)
  BY DEF NextDay, SlotComes, Waits, persons, backups
<1>2. MaxDay \in Nat /\ day \in Days /\ Typed /\ \A h \in Handlers : job[h] \in Job
  BY ConstantsFit DEF RInv, Typed
<1>3. day' \in Days /\ day <= day'
  BY <1>1, <1>2 DEF Days
<1>4. Typed'
  BY <1>1, <1>2, <1>3 DEF Typed
<1>0. JobsForget' /\ BackupsForget'
  <2>1. JobsForget'
    BY <1>1 DEF RInv, JobsForget, Clears, Handled, NotWaiting, Free, Excused
  <2>2. (\A f \in files : Restorable(f, history))'
    BY <1>1 DEF RInv, BackupsForget, Restorable, Forgotten, Free, Excused
  <2>3. (\A h \in Handlers : job[h].todo \in {Backup4, Export2}
                              => Restorable(job[h].file, history))'
    BY <1>1 DEF RInv, BackupsForget, Restorable, Forgotten, Free, Excused
  <2> QED
    BY <2>1, <2>2, <2>3 DEF BackupsForget
<1>5. JobsFit' /\ OneBackup' /\ CutsPast'
  BY <1>1 DEF RInv, JobsFit, OneBackup, CutsPast, Fits, Marks
<1>6. RunsPast'
  <2> SUFFICES ASSUME NEW d \in Days, history.runs[d] > 0
               PROVE  d <= day' /\ \A h \in Handlers : job[h].kind = "backup" => d <= job[h].day
    BY <1>1 DEF RunsPast
  <2> QED
    BY <1>2, <1>3 DEF RunsPast, RInv, Days
<1>7. FirstOfDay' /\ SlotRunsOnce' /\ SettingsAreKept' /\ ForgottenIsGone'
  BY <1>1 DEF RInv, FirstOfDay, ToDump, SlotRunsOnce, SettingsAreKept, ForgottenIsGone
<1>8. CASE day' = day
  <2>1. DayMarked' /\ DaysPast'
    BY <1>1, <1>8 DEF RInv, DayMarked, Marked, DaysPast
  <2> QED
    BY <1>0, <1>4, <1>5, <1>6, <1>7, <2>1 DEF RInv
<1>9. CASE day < MaxDay /\ day' = day + 1
  <2>1. day' # Never /\ day' \in Nat /\ day \in Nat
    BY <1>2, <1>9 DEF Never, Days
  <2>2. ~(history.runs[day'] > 0)
    BY <1>3, <1>9, <2>1 DEF RInv, RunsPast
  <2>3. \A h \in Handlers : job[h].day # day'
    BY <1>2, <1>9, <2>1 DEF RInv, DaysPast, Job, Days
  <2>4. DayMarked'
    BY <1>1, <2>2, <2>3 DEF DayMarked
  <2>5. settings.lastRun # Never => settings.lastRun <= day'
    BY <1>2, <1>9, <2>1 DEF RInv, DaysPast, Typed, Settings, Days
  <2>6. \A h \in Handlers :
           /\ job[h].day <= day'
           /\ job[h].settings.lastRun # Never => job[h].settings.lastRun <= day'
    BY <1>2, <1>9, <2>1 DEF RInv, DaysPast, Job, Settings, Days
  <2>7. \A h \in Handlers : job[h].todo = Saving =>
           /\ job[h].was.lastRun # Never => job[h].was.lastRun <= day'
           /\ job[h].was.lastRun # day'
    <3> SUFFICES ASSUME NEW h \in Handlers, job[h].todo = Saving
                 PROVE  /\ job[h].was.lastRun # Never => job[h].was.lastRun <= day'
                        /\ job[h].was.lastRun # day'
      OBVIOUS
    <3>1. job[h].was.lastRun \in Days \cup {Never}
      BY <1>2 DEF Job, Settings
    <3>2. job[h].was.lastRun # Never => job[h].was.lastRun <= day
      BY DEF RInv, DaysPast
    <3> QED
      BY <1>2, <1>9, <2>1, <3>1, <3>2 DEF Days
  <2>8. DaysPast'
    BY <1>1, <2>5, <2>6, <2>7 DEF DaysPast, RInv
  <2> QED
    BY <1>0, <1>4, <1>5, <1>6, <1>7, <2>4, <2>8 DEF RInv
<1> QED
  BY <1>1, <1>8, <1>9

LEMMA StartsKeep ==
    ASSUME RInv, NEW h \in Handlers, Ask(h)
    PROVE  RInv'
<1>1. Starts(h)
  BY AskStarts DEF RInv
<1>2. Typed' /\ JobsFit' /\ OneBackup' /\ CutsPast'
  BY <1>1, StartKeepsJobs
<1>3. RunsPast' /\ FirstOfDay' /\ DayMarked' /\ DaysPast' /\ SlotRunsOnce' /\ SettingsAreKept'
  BY <1>1, StartKeepsDays
<1>4. JobsForget' /\ BackupsForget' /\ ForgottenIsGone'
  BY <1>1, StartKeepsData
<1> QED
  BY <1>2, <1>3, <1>4 DEF RInv

LEMMA StepKeeps ==
    ASSUME RInv, NEW h \in Handlers, Step(h) \/ DumpFails(h) \/ DeliverFails(h)
    PROVE  RInv'
<1>1. CASE ReadState(h) \/ SaveState(h) \/ SaveSettings(h)
  BY <1>1, ReadStateKeeps, SaveStateKeeps, SaveSettingsKeeps
<1>2. CASE Dump(h) \/ DumpEvent(h) \/ Deliver(h) \/ Prune(h)
  BY <1>2, DumpKeeps, DumpEventKeeps, DeliverKeeps
<1>3. CASE WriteForm(h) \/ RecordReview(h) \/ ReadAnswers(h) \/ ReadAccounts(h) \/ WipeRow(h)
  BY <1>3, WriteFormKeeps, ReadAnswersKeeps, ReadAccountsKeeps, WipeRowKeeps
<1>4. CASE WipeSheets(h) \/ MarkDeleted(h)
  BY <1>4, WipeSheetsKeeps, MarkDeletedKeeps
<1>5. CASE DumpFails(h) \/ DeliverFails(h)
  BY <1>5, FailingKeeps
<1> QED
  BY <1>1, <1>2, <1>3, <1>4, <1>5 DEF Step

LEMMA InitKeeps ==
    ASSUME Init
    PROVE  RInv
<1>1. /\ day = 0 /\ slot = FALSE /\ elsewhere = {} /\ settings = NoSettings /\ files = {}
      /\ job = [h \in Handlers |-> Done] /\ clock = 1 /\ requests = 0 /\ faults = 0
      /\ ops \in Scenarios /\ consent \subseteq People
      /\ history = [runs |-> [d \in Days |-> 0], again |-> {}, changed |-> FALSE, saved |-> 0,
                    crossed |-> {}, returned |-> {}, restored |-> FALSE]
  BY DEF Init
<1>2. data \in Data
  <2>1. data = [place \in Places |-> [p \in People |-> [c \in Categories |-> 1]]]
    BY DEF Init
  <2>2. [c \in Categories |-> 1] \in Form
    BY DEF Form
  <2> QED
    BY <2>1, <2>2 DEF Data
<1>3. event \in Event /\ event.deleted = {} /\ event.cut = NoForm
  <2>1. PICK ended \in Days \cup {Never} : event = [NoEvent EXCEPT !.ended = ended]
    BY ConstantsFit DEF Init
  <2> QED
    BY <2>1, ConstantsFit DEF NoEvent, Event
<1>4. history \in Past
  BY <1>1, ConstantsFit DEF Past
<1>5. /\ Done \in Job /\ Fits(Done) /\ Done.n = 0 /\ Done.kind = "none" /\ Done.day = 0
      /\ Done.todo = <<>> /\ Done.settings.lastRun = Never /\ Done.file.event = NoEvent
  BY DoneFits DEF Done, NoSettings, NoFile
<1>6. \A h \in Handlers : job[h] = Done
  BY <1>1
<1>7. Typed
  <2>1. job \in [Handlers -> Job]
    BY <1>1, <1>5
  <2>2. requests \in 0..MaxRequests /\ faults \in 0..MaxFaults /\ clock \in Nat
    BY <1>1, RetentionAssumption
  <2>3. day \in Days /\ slot \in BOOLEAN /\ settings \in Settings
    BY <1>1, ConstantsFit
  <2>4. elsewhere \subseteq People /\ files \subseteq File /\ \A f, g \in files : f.n = g.n => f = g
    BY <1>1
  <2> QED
    BY <1>1, <1>2, <1>3, <1>4, <2>1, <2>2, <2>3, <2>4 DEF Typed
<1>8. JobsFit /\ OneBackup
  BY <1>1, <1>5, <1>6 DEF JobsFit, OneBackup
<1>9. CutsPast
  <2>1. Marks(NoEvent, clock) /\ Marks(event, clock)
    BY <1>1, <1>3 DEF Marks, NoEvent, NoForm, None
  <2> QED
    BY <1>1, <1>5, <1>6, <2>1 DEF CutsPast
<1>10. <<>> \notin {RunSteps, Backup1, Backup2, Backup4, Backup7, Saving, Export2}
  BY TodosDiffer DEF BackupLeft, RequestLeft
<1>11. \A d \in Days : history.runs[d] = 0
  BY <1>1
<1>12. RunsPast /\ FirstOfDay /\ SlotRunsOnce
  BY <1>5, <1>6, <1>11, <1>1, ConstantsFit DEF RunsPast, FirstOfDay, ToDump, SlotRunsOnce
<1>13. DayMarked /\ DaysPast
  <2>1. settings.lastRun = Never /\ 0 \in Days
    BY <1>1, ConstantsFit DEF NoSettings
  <2> QED
    BY <1>1, <1>5, <1>6, <1>10, <1>11, <2>1 DEF DayMarked, DaysPast
<1>14. SettingsAreKept
  BY <1>1 DEF SettingsAreKept, NoSettings
<1>15. JobsForget
  <2>1. Done.todo \notin DeletionLeft
    BY <1>5, TodosDiffer
  <2> QED
    BY <1>6, <2>1, NothingHandled DEF JobsForget
<1>16. BackupsForget
  BY <1>1, <1>5, <1>6, <1>10 DEF BackupsForget
<1>17. ForgottenIsGone
  BY <1>3 DEF ForgottenIsGone
<1> QED
  BY <1>7, <1>8, <1>9, <1>12, <1>13, <1>14, <1>15, <1>16, <1>17 DEF RInv

LEMMA NextKeeps ==
    ASSUME RInv, ReviewsFit, [Next]_rvars
    PROVE  RInv'
<1>1. CASE UNCHANGED rvars
  <2>1. UNCHANGED <<day, slot, data, consent, elsewhere, event, settings, files, job, history,
                    clock, requests, faults, ops>>
    BY <1>1 DEF rvars, time, persons, backups
  <2>2. Typed' /\ JobsFit' /\ OneBackup' /\ CutsPast'
    BY <2>1 DEF RInv, Typed, JobsFit, OneBackup, CutsPast, Fits, Marks
  <2>3. DaysInOrder'
    BY <2>1, DaysStand DEF DaysUntouched
  <2>4. JobsForget' /\ BackupsForget' /\ ForgottenIsGone'
    BY <2>1 DEF RInv, JobsForget, BackupsForget, ForgottenIsGone, Clears, Handled, NotWaiting,
                Restorable, Forgotten, Free, Excused
  <2> QED
    BY <2>2, <2>3, <2>4 DEF RInv, DaysInOrder
<1>2. CASE Next
  <2>1. CASE NextDay \/ SlotComes
    BY <2>1, TimeKeeps
  <2>2. CASE Restart \/ EndEvent \/ ReopenEvent
    BY <2>2, RestartKeeps, EndingKeeps
  <2>3. ASSUME NEW h \in Handlers, Ask(h) \/ Step(h) \/ DumpFails(h) \/ DeliverFails(h)
        PROVE  RInv'
    BY <2>3, StartsKeep, StepKeeps
  <2>4. ASSUME NEW f \in files, NEW parts \in SUBSET Parts \ {{}}, Restore(f, parts)
        PROVE  RInv'
    BY <2>4, RestoreKeeps
  <2>5. ASSUME NEW p \in People, RegisterElsewhere(p) PROVE RInv'
    BY <2>5, RegisterElsewhereKeeps
  <2>6. ASSUME NEW r \in reviews, NEW accepted \in BOOLEAN, ResolveReview(r, accepted)
        PROVE  RInv'
    BY <2>6, ResolveReviewKeeps DEF ReviewsFit
  <2> QED
    BY <1>2, <2>1, <2>2, <2>3, <2>4, <2>5, <2>6 DEF Next
<1> QED
  BY <1>1, <1>2

-----------------------------------------------------------------------------
(* Theorems *)

\* The invariant holds in every state, also where several deletions run at the same time.
THEOREM RetentionInvariant == Spec => []RetentionInv
<1>1. Init => RetentionInv
  BY InitKeeps DEF RetentionInv, ReviewsFit, Init
<1>2. RetentionInv /\ [Next]_rvars => RetentionInv'
  BY NextKeeps, ReviewsStay DEF RetentionInv
<1> QED
  BY <1>1, <1>2, PTL DEF Spec

\* Every variable keeps its type, and backups by the clock run one at a time (the flag
\* "running" of backend/backup/schedule.js).
THEOREM RetentionTypeCorrect == Spec => []TypeOK
<1>1. RetentionInv => TypeOK
  <2> SUFFICES ASSUME RetentionInv PROVE TypeOK
    OBVIOUS
  <2>1. \A h \in Handlers :
           /\ job[h].kind \in Kinds /\ job[h].n \in 0..clock
           /\ job[h].rows \subseteq People \X Form
           /\ {job[h].settings, job[h].was} \subseteq Settings
           /\ job[h].file \in File
    BY DEF RetentionInv, RInv, Typed, Job, JobsFit
  <2> QED
    BY <2>1 DEF RetentionInv, ReviewsFit, RInv, Typed, OneBackup, TypeOK
<1> QED
  BY <1>1, RetentionInvariant, PTL

\* Whatever stops the server and whatever an admin saves meanwhile, a day has one scheduled
\* backup, unless the mark of the run was overwritten with settings read before it.
THEOREM SlotRunsOnceCorrect == Spec => []SlotRunsOnce
<1>1. RetentionInv => SlotRunsOnce
  BY DEF RetentionInv, RInv
<1> QED
  BY <1>1, RetentionInvariant, PTL

\* A run of the schedule gives back the settings an admin saved last, unless the admin saved
\* between the two statements of one mark.
THEOREM SettingsAreKeptCorrect == Spec => []SettingsAreKept
<1>1. RetentionInv => SettingsAreKept
  BY DEF RetentionInv, RInv
<1> QED
  BY <1>1, RetentionInvariant, PTL

\* What counts as deleted is gone, whatever is saved, taken back, restored or started twice
\* meanwhile, with the four exceptions the property names.
THEOREM ForgottenIsGoneCorrect == Spec => []ForgottenIsGone
<1>1. RetentionInv => ForgottenIsGone
  BY DEF RetentionInv, RInv
<1> QED
  BY <1>1, RetentionInvariant, PTL
=============================================================================
