---------------------------- MODULE OfflineProofs ----------------------------
(***************************************************************************)
(* Theorems about OfflineSync, proved by TLAPS: the types, one writer at a *)
(* time, what was booked on site comes home, and every step of the         *)
(* protocol is a step of Handover, or changes nothing of it.               *)
(*                                                                         *)
(* A handler's job is a sequence of statements; the proofs look at the set *)
(* of its steps. What a step will do depends on what was true when it was  *)
(* decided on: the invariant HInv says what is still true of that.         *)
(***************************************************************************)
EXTENDS OfflineSync, TLAPS, FiniteSetTheorems, SequenceTheorems

-----------------------------------------------------------------------------
(* The invariant *)

\* What a handler does after its next step.
Rest(h) == {job[h][i] : i \in 2..Len(job[h])}
Works(s) == laptop[s].role \in {"offline_primary", "retired"}
Retired(s) == laptop[s].role = "retired"

\* The order of the steps in a job.
Later == {"number", "retire", "save", "abandon", "flush", "settle", "deliver"}
Pushing == {"retire", "receive", "merge", "return", "release", "flush", "deliver", "mark"}
JobsInOrder ==
    \A h \in Handlers :
        /\ \A x \in Rest(h) : x.do \in Later
        /\ Has(h, "seal") => Rest(h) = {}
        /\ Has(h, "save") =>
             \/ Now(h).do = "save" /\ Rest(h) = {}
             \/ Now(h).do = "retire" /\ Len(job[h]) = 2 /\ job[h][2].do = "save"
        /\ Has(h, "retire") =>
             /\ \A x \in Steps(h) : x.do \in Pushing \cup {"save"}
             /\ \A x, y \in Steps(h) : x.do = "retire" /\ y.do = "retire" => x = y

\* A delegation is exported by one handler, and one handler imports at a time.
Exports(x) == x.do \in {"export", "copy"}
ExportsApart ==
    \A g, h \in Handlers : \A x \in Steps(g), y \in Steps(h) :
        Exports(x) /\ Exports(y) /\ x.for = y.for => g = h
ImportsApart ==
    \A g, h \in Handlers : Has(g, "become") /\ Has(h, "become") => g = h
\* Whoever is about to book has an id of their own.
Unbooked(e) == e \notin online.ledger /\ \A s \in Snapshots : e \notin laptop[s].books.ledger
WritesApart ==
    /\ \A h \in Handlers : \A x \in Steps(h) :
         x.do = "write" => x.what = CheckIn \/ Unbooked(x.what)
    /\ \A g, h \in Handlers : \A x \in Steps(g), y \in Steps(h) :
         x.do = "write" /\ y.do = "write" /\ x.what = y.what /\ x.what # CheckIn => g = h

\* Only what was delegated has a laptop, and only what has a file has books.
Handed ==
    /\ Delegated => log[authority.snapshot] # {}
    /\ \A s \in Snapshots :
         /\ laptop[s].role # "none" => log[s] # {}
         /\ laptop[s].role = "none" => laptop[s].books = NothingYet /\ laptop[s].mails = {}
    /\ \A s \in history.closing : Works(s)
    /\ history.slipped \subseteq online.ledger

Timely(s, what) == <<s, what>> \notin history.late
StatusIsComplete(s, books) ==
    laptop[s].books.status = "checked_in" /\ Timely(s, CheckIn) => books.status = "checked_in"
\* The final package has all that was on the laptop in time.
Complete(p) ==
    /\ p.snapshot \in history.closing
    /\ \A e \in laptop[p.snapshot].books.ledger : Timely(p.snapshot, e) => e \in p.books.ledger
    /\ StatusIsComplete(p.snapshot, p.books)
    /\ \A m \in laptop[p.snapshot].mails : Timely(p.snapshot, m) => m \in p.mails
PackageKnown(p) ==
    /\ Works(p.snapshot)
    /\ p.books.ledger \subseteq laptop[p.snapshot].books.ledger
    /\ p.final => Complete(p)
Home(s) == s \in history.closing /\ CameHome(s)

\* Nobody else will make a file for it.
Untouched(s) ==
    /\ laptop[s].role = "none"
    /\ \A h \in Handlers : \A x \in Steps(h) : Exports(x) => x.for # s

\* What is still true of what the steps were decided on.
StepKnown(x) ==
    /\ Exports(x) =>
         /\ log[x.for] # {}
         /\ laptop[x.for].role = "none" \/ x.for \in history.mistaken
         /\ x.do = "copy" => log[x.snapshot] # {}
    /\ x.do \in {"become", "number", "retire"} => x.snapshot \in Snapshots
    /\ x.do = "become" => laptop[x.snapshot].role = "loaded"
    /\ x.do = "retire" => Works(x.snapshot) /\ x.snapshot \in history.closing
    /\ x.do = "seal" =>
         /\ Works(x.snapshot) /\ (x.retires => x.final)
         /\ x.books.ledger \subseteq laptop[x.snapshot].books.ledger
         /\ x.final => /\ x.snapshot \in history.closing
                       /\ x.retires \/ Retired(x.snapshot)
                       /\ StatusIsComplete(x.snapshot, x.books)
    /\ x.do \in {"receive", "merge", "save"} => PackageKnown(x.package)
    /\ x.do \in {"return", "release"} =>
         /\ x.for \in Snapshots => log[x.for] # {}
         /\ x.result = "returned" =>
              /\ x.for \in Snapshots
              /\ Untouched(x.for) \/ x.for \in history.mistaken \/ Home(x.for)
    /\ x.do = "release" =>
         /\ x.snapshot \in Snapshots => log[x.snapshot] # {}
         /\ DelegatedAs(x.for) => x.snapshot = x.for
    /\ x.do = "commit" =>
         \E c \in conflicts : /\ c.snapshot = x.conflict.snapshot
                              /\ c.entity = x.conflict.entity
                              /\ c.books = x.conflict.books
    /\ x.do = "recheck" => Home(x.snapshot)
StepsKnown == \A h \in Handlers : \A x \in Steps(h) : StepKnown(x)
FilesKnown == \A p \in files : PackageKnown(p) /\ (p.final => Retired(p.snapshot))
ConflictsKnown ==
    \A c \in conflicts :
        /\ c.books.ledger \subseteq laptop[c.snapshot].books.ledger
        /\ c.entity = "registration" => c.books.status = "checked_in"
MergesKnown ==
    \A m \in merges :
        /\ log[m.snapshot] # {}
        /\ m.mode # "forced" /\ DelegatedAs(m.snapshot)
             => m.generation < authority.generation
        /\ m.mode = "final" => Home(m.snapshot)
        /\ m.pending => m.mode = "final"

ReturnedKnown ==
    \A s \in Snapshots :
        "returned" \in log[s] => Untouched(s) \/ s \in history.mistaken \/ Home(s)

\* What makes sure that the laptop of s retires, or that it did not hear it had to.
Retiring(h, s) == \E x \in Steps(h) : x.do = "retire" /\ x.snapshot = s
Kept(h) == \A x \in Steps(h) : x.do \notin {"receive", "merge", "return", "release", "save"}
Closed(s) ==
    \/ Retired(s) \/ s \in history.unanswered
    \/ \E h \in Handlers : Retiring(h, s) /\ Kept(h)
StepClosed(h, x) ==
    /\ x.do \in {"return", "release"} /\ x.result = "returned" =>
         \/ Untouched(x.for) \/ x.for \in history.mistaken
         \/ Closed(x.for) \/ Retiring(h, x.for)
    /\ x.do \in {"receive", "merge"} /\ x.package.final =>
         Closed(x.package.snapshot) \/ Retiring(h, x.package.snapshot)
    /\ x.do = "save" /\ x.package.final =>
         Retired(x.package.snapshot) \/ Retiring(h, x.package.snapshot)
    /\ x.do = "recheck" => Closed(x.snapshot)
StepsClosed == \A h \in Handlers : \A x \in Steps(h) : StepClosed(h, x)
RetiringKnown ==
    /\ StepsClosed
    /\ \A m \in merges : m.pending => Closed(m.snapshot)
    /\ \A s \in Snapshots : log[s] # {} /\ ~DelegatedAs(s) =>
         "forced" \in log[s] \/ s \in history.mistaken \/ Closed(s) \/ Untouched(s)

HInv ==
    /\ TypeOK
    /\ JobsInOrder /\ ExportsApart /\ ImportsApart /\ WritesApart
    /\ Handed
    /\ StepsKnown /\ FilesKnown /\ ConflictsKnown /\ MergesKnown
    /\ ReturnedKnown
    /\ RetiringKnown

-----------------------------------------------------------------------------
(* Steps of jobs *)

\* What a step does to the jobs: h goes on with N, before what it had to do after this
\* step; or it stops.
Goes(h, N) ==
    /\ job' \in [Handlers -> Seq(Step)]
    /\ \A g \in Handlers \ {h} : job'[g] = job[g]
    /\ Steps(h)' = N \cup Rest(h)
    /\ Rest(h)' \subseteq {x \in N : x.do \in Later} \cup Rest(h)
Stops(h) ==
    /\ job' \in [Handlers -> Seq(Step)]
    /\ \A g \in Handlers \ {h} : job'[g] = job[g]
    /\ job'[h] = <<>>

\* The kinds of steps and what they carry.
LEMMA KindsOfSteps ==
    ASSUME NEW x \in Step
    PROVE  /\ x.do = "write" => x.what \in Writes
           /\ x.do = "export" => x.for \in Snapshots
           /\ x.do = "copy" => /\ x.for \in Snapshots /\ x.snapshot \in Snapshots
                               /\ x.generation \in Nat /\ x.books \in Books
           /\ x.do \in {"become", "number", "retire", "abandon", "recheck", "settle", "seal"}
                => x.snapshot \in MaybeSnapshot
           /\ x.do \in {"recheck", "settle", "seal"} => x.generation \in Nat
           /\ x.do \in {"recheck", "settle", "seal"} => x.snapshot \in Snapshots
           /\ x.do = "seal" => /\ x.books \in Books /\ x.final \in BOOLEAN
                               /\ x.push \in BOOLEAN /\ x.retires \in BOOLEAN
           /\ x.do \in {"save", "receive", "merge"} => x.package \in Package
           /\ x.do \in {"return", "release"} =>
                x.for \in MaybeSnapshot /\ x.result \in {"returned", "forced"}
           /\ x.do = "release" => x.snapshot \in MaybeSnapshot
           /\ x.do = "commit" => /\ x.conflict \in Conflict /\ x.last \in BOOLEAN
                                 /\ x.resolution \in {"offline", "merged", "online"}
           /\ x.do = "deliver" => x.mails \in SUBSET Mails
           /\ x.do = "mark" => x.mail \in Mails
<1>1. \/ x \in [do : {"write"}, what : Writes]
      \/ x \in [do : {"export"}, for : Snapshots]
      \/ x \in [do : {"copy"}, for : Snapshots, snapshot : Snapshots, generation : Nat,
                books : Books]
      \/ x \in [do : {"become", "number", "retire", "abandon"}, snapshot : MaybeSnapshot]
      \/ x \in [do : {"seal"}, snapshot : Snapshots, generation : Nat, books : Books,
                final : BOOLEAN, push : BOOLEAN, retires : BOOLEAN]
      \/ x \in [do : {"save", "receive", "merge"}, package : Package]
      \/ x \in [do : {"emergency", "flush"}]
      \/ x \in [do : {"return"}, for : MaybeSnapshot, result : {"returned", "forced"}]
      \/ x \in [do : {"release"}, for : MaybeSnapshot, result : {"returned", "forced"},
                snapshot : MaybeSnapshot]
      \/ x \in [do : {"commit"}, conflict : Conflict, last : BOOLEAN,
                resolution : {"offline", "merged", "online"}]
      \/ x \in [do : {"recheck", "settle"}, snapshot : Snapshots, generation : Nat]
      \/ x \in [do : {"deliver"}, mails : SUBSET Mails]
      \/ x \in [do : {"mark"}, mail : Mails]
  BY DEF Step
<1>2. Snapshots \subseteq MaybeSnapshot
  BY DEF MaybeSnapshot
<1> QED
  BY <1>1, <1>2

LEMMA TwoSteps ==
    ASSUME NEW x \in Step, NEW y \in Step
    PROVE  <<x>> \o <<y>> = <<x, y>> /\ <<x>> \o <<>> = <<x>> /\ <<>> \o <<x>> = <<x>>
<1>1. <<x>> \in Seq(Step) /\ <<y>> \in Seq(Step) /\ <<x, y>> \in Seq(Step)
      /\ <<>> \in Seq(Step)
  OBVIOUS
<1>2. <<x>> \o <<y>> \in Seq(Step) /\ Len(<<x>> \o <<y>>) = 2
      /\ (<<x>> \o <<y>>)[1] = x /\ (<<x>> \o <<y>>)[2] = y
  BY <1>1
<1>3. <<x>> \o <<y>> = <<x, y>>
  <2>1. /\ Len(<<x>> \o <<y>>) = Len(<<x, y>>)
        /\ \A i \in 1..Len(<<x>> \o <<y>>) : (<<x>> \o <<y>>)[i] = <<x, y>>[i]
    BY <1>2
  <2> QED
    BY <1>1, <1>2, <2>1, SeqEqual
<1> QED
  BY <1>1, <1>3

LEMMA HeadIs ==
    ASSUME TypeOK, NEW h \in Handlers, ~Idle(h)
    PROVE  /\ Now(h) \in Step /\ Now(h) \in Steps(h)
           /\ Steps(h) = {Now(h)} \cup Rest(h)
           /\ Rest(h) \subseteq Step
<1>1. job[h] \in Seq(Step) /\ job[h] # <<>>
  BY DEF TypeOK, Idle
<1>2. Len(job[h]) \in Nat \ {0} /\ DOMAIN job[h] = 1..Len(job[h])
  BY <1>1
<1>3. Now(h) = job[h][1] /\ \A i \in 1..Len(job[h]) : job[h][i] \in Step
  BY <1>1, <1>2 DEF Now
<1> QED
  BY <1>2, <1>3 DEF Steps, Rest

LEMMA StepsAreSteps ==
    ASSUME TypeOK, NEW h \in Handlers, NEW x \in Steps(h)
    PROVE  x \in Step
BY DEF TypeOK, Steps

LEMMA IdleHasNothing ==
    ASSUME TypeOK, NEW h \in Handlers, Idle(h)
    PROVE  Steps(h) = {} /\ Rest(h) = {}
BY DEF TypeOK, Idle, Steps, Rest

\* What goes on with the steps of a sequence.
LEMMA ThenGoes ==
    ASSUME TypeOK, NEW h \in Handlers, ~Idle(h), NEW steps \in Seq(Step), Then(h, steps),
           NEW N, N = {steps[i] : i \in 1..Len(steps)},
           \A i \in 2..Len(steps) : steps[i].do \in Later
    PROVE  Goes(h, N)
<1> DEFINE s == job[h]
<1> DEFINE t == steps \o Tail(s)
<1>1. s \in Seq(Step) /\ s # <<>> /\ Len(s) \in Nat \ {0}
  BY DEF TypeOK, Idle
<1>2. /\ Tail(s) \in Seq(Step) /\ Len(Tail(s)) = Len(s) - 1
      /\ \A i \in 1..(Len(s) - 1) : Tail(s)[i] = s[i + 1]
  BY <1>1
<1>3. /\ t \in Seq(Step) /\ Len(t) = Len(steps) + (Len(s) - 1)
      /\ \A i \in 1..Len(steps) : t[i] = steps[i]
      /\ \A i \in (Len(steps) + 1)..Len(t) : t[i] = s[i - Len(steps) + 1]
  <2>1. \A i \in (Len(steps) + 1)..Len(t) : t[i] = Tail(s)[i - Len(steps)]
    BY <1>2
  <2> QED
    BY <1>1, <1>2, <2>1
<1>4. job' = [job EXCEPT ![h] = t]
  BY DEF Then
<1>5. job'[h] = t /\ job' \in [Handlers -> Seq(Step)]
      /\ \A g \in Handlers \ {h} : job'[g] = job[g]
  BY <1>3, <1>4 DEF TypeOK
<1>6. Steps(h)' = {t[i] : i \in 1..Len(t)}
  <2>1. DOMAIN t = 1..Len(t)
    BY <1>3
  <2> HIDE DEF t
  <2> QED
    BY <1>5, <2>1 DEF Steps
<1>7. Rest(h)' = {t[i] : i \in 2..Len(t)}
  BY <1>5 DEF Rest
<1>8. Len(steps) \in Nat
  OBVIOUS
<1> HIDE DEF t
<1>9. {t[i] : i \in 1..Len(t)} = N \cup Rest(h)
  <2>1. \A i \in 2..Len(s) : /\ i - 1 + Len(steps) \in (Len(steps) + 1)..Len(t)
                             /\ t[i - 1 + Len(steps)] = s[i]
    BY <1>1, <1>3, <1>8
  <2>2. \A i \in (Len(steps) + 1)..Len(t) : i - Len(steps) + 1 \in 2..Len(s)
    BY <1>1, <1>3, <1>8
  <2>3. \A i \in 1..Len(t) : i \in 1..Len(steps) \/ i \in (Len(steps) + 1)..Len(t)
    BY <1>1, <1>3, <1>8
  <2>4. ASSUME NEW i \in 1..Len(t)
        PROVE  t[i] \in N \cup Rest(h)
    <3>1. CASE i \in 1..Len(steps)
      BY <1>3, <3>1
    <3>2. CASE i \in (Len(steps) + 1)..Len(t)
      <4>1. i - Len(steps) + 1 \in 2..Len(job[h]) /\ t[i] = job[h][i - Len(steps) + 1]
        BY <1>3, <2>2, <3>2
      <4> QED
        BY <4>1 DEF Rest
    <3> QED
      BY <2>3, <3>1, <3>2
  <2>5. ASSUME NEW x \in N
        PROVE  \E i \in 1..Len(t) : x = t[i]
    <3>1. PICK i \in 1..Len(steps) : x = steps[i]
      OBVIOUS
    <3>2. i \in 1..Len(t)
      BY <1>1, <1>3, <1>8
    <3> QED
      BY <1>3, <3>1, <3>2
  <2>6. ASSUME NEW x \in Rest(h)
        PROVE  \E i \in 1..Len(t) : x = t[i]
    <3>1. PICK i \in 2..Len(s) : x = s[i]
      BY DEF Rest
    <3>2. i - 1 + Len(steps) \in 1..Len(t) /\ t[i - 1 + Len(steps)] = s[i]
      BY <1>1, <1>3, <1>8, <2>1
    <3> QED
      BY <3>1, <3>2
  <2> QED
    BY <2>4, <2>5, <2>6
<1>10. \A i \in 2..Len(t) : t[i] \in {x \in N : x.do \in Later} \cup Rest(h)
  <2> TAKE i \in 2..Len(t)
  <2>1. CASE i \in 2..Len(steps)
    BY <1>3, <1>8, <2>1
  <2>2. CASE i \in (Len(steps) + 1)..Len(t)
    <3>1. i - Len(steps) + 1 \in 2..Len(s)
      BY <1>1, <1>3, <1>8, <2>2
    <3> QED
      BY <1>3, <2>2, <3>1 DEF Rest
  <2> QED
    BY <1>3, <1>8, <2>1, <2>2
<1>11. Rest(h)' \subseteq {x \in N : x.do \in Later} \cup Rest(h)
  BY <1>7, <1>10
<1>12. Steps(h)' = N \cup Rest(h)
  BY <1>6, <1>9
<1> QED
  BY <1>5, <1>11, <1>12 DEF Goes

LEMMA ThenNothing ==
    ASSUME TypeOK, NEW h \in Handlers, ~Idle(h), Then(h, <<>>)
    PROVE  Goes(h, {})
<1> DEFINE steps == <<>>
<1>1. steps \in Seq(Step) /\ Len(steps) = 0 /\ 2..0 = {}
  OBVIOUS
<1>2. {} = {steps[i] : i \in 1..Len(steps)}
  BY <1>1
<1>3. \A i \in 2..Len(steps) : steps[i].do \in Later
  BY <1>1
<1> HIDE DEF steps
<1>4. Then(h, steps)
  BY DEF steps
<1> QED
  BY <1>1, <1>2, <1>3, <1>4, ThenGoes

LEMMA ThenOne ==
    ASSUME TypeOK, NEW h \in Handlers, ~Idle(h), NEW x \in Step, Then(h, <<x>>)
    PROVE  Goes(h, {x})
<1> DEFINE steps == <<x>>
<1>1. steps \in Seq(Step) /\ Len(steps) = 1 /\ steps[1] = x
  OBVIOUS
<1>2. {steps[i] : i \in 1..Len(steps)} = {x}
  BY <1>1
<1>3. \A i \in 2..Len(steps) : steps[i].do \in Later
  BY <1>1
<1> HIDE DEF steps
<1>4. Then(h, steps)
  BY DEF steps
<1> QED
  BY <1>1, <1>2, <1>3, <1>4, ThenGoes

LEMMA ThenTwo ==
    ASSUME TypeOK, NEW h \in Handlers, ~Idle(h), NEW x \in Step, NEW y \in Step,
           y.do \in Later, Then(h, <<x, y>>)
    PROVE  Goes(h, {x, y})
<1> DEFINE steps == <<x, y>>
<1>1. steps \in Seq(Step) /\ Len(steps) = 2 /\ steps[1] = x /\ steps[2] = y
  OBVIOUS
<1>2. {steps[i] : i \in 1..Len(steps)} = {x, y}
  BY <1>1
<1>3. \A i \in 2..Len(steps) : steps[i].do \in Later
  BY <1>1
<1> HIDE DEF steps
<1>4. Then(h, steps)
  BY DEF steps
<1> QED
  BY <1>1, <1>2, <1>3, <1>4, ThenGoes

LEMMA StartIs ==
    ASSUME NEW h \in Handlers, NEW steps, Start(h, steps)
    PROVE  Idle(h) /\ job' = [job EXCEPT ![h] = steps]
<1>1. {g \in Handlers : Idle(g)} # {} /\ h = CHOOSE x \in {g \in Handlers : Idle(g)} : TRUE
  BY DEF Start, Fresh
<1>2. h \in {g \in Handlers : Idle(g)}
  BY <1>1
<1> QED
  BY <1>2 DEF Start

LEMMA StartOne ==
    ASSUME TypeOK, NEW h \in Handlers, NEW x \in Step, Start(h, <<x>>)
    PROVE  Idle(h) /\ Goes(h, {x})
<1>1. Idle(h) /\ job' = [job EXCEPT ![h] = <<x>>]
  BY StartIs
<1>2. /\ job' \in [Handlers -> Seq(Step)] /\ job'[h] = <<x>>
      /\ \A g \in Handlers \ {h} : job'[g] = job[g]
  BY <1>1 DEF TypeOK
<1>3. Steps(h)' = {x} /\ Rest(h)' = {}
  BY <1>2 DEF Steps, Rest
<1> QED
  BY <1>1, <1>2, <1>3, IdleHasNothing DEF Goes

LEMMA StartTwo ==
    ASSUME TypeOK, NEW h \in Handlers, NEW x \in Step, NEW y \in Step, y.do \in Later,
           Start(h, <<x, y>>)
    PROVE  Idle(h) /\ Goes(h, {x, y})
<1>1. Idle(h) /\ job' = [job EXCEPT ![h] = <<x, y>>]
  BY StartIs
<1>2. /\ job' \in [Handlers -> Seq(Step)] /\ job'[h] = <<x, y>>
      /\ \A g \in Handlers \ {h} : job'[g] = job[g]
  BY <1>1 DEF TypeOK
<1>3. Steps(h)' = {x, y} /\ Rest(h)' = {y}
  BY <1>2 DEF Steps, Rest
<1> QED
  BY <1>1, <1>2, <1>3, IdleHasNothing DEF Goes

LEMMA RefuseStops ==
    ASSUME TypeOK, NEW h \in Handlers, Refuse(h)
    PROVE  Stops(h) /\ Steps(h)' = {} /\ Rest(h)' = {}
BY DEF TypeOK, Refuse, Stops, Steps, Rest

-----------------------------------------------------------------------------
(* What a step of the protocol leaves true *)

\* h takes a step and has at most N to do besides what it had to do.
Moves(h, N) ==
    /\ job' \in [Handlers -> Seq(Step)]
    /\ \A g \in Handlers \ {h} : job'[g] = job[g]
    /\ Steps(h)' \subseteq N \cup Steps(h)
    /\ Rest(h)' \subseteq {x \in N : x.do \in Later} \cup Rest(h)

LaptopAdvances(s) ==
    /\ Works(s) => Works(s)'
    /\ Retired(s) => Retired(s)'
    /\ laptop[s].books.ledger \subseteq laptop'[s].books.ledger
    /\ s \in history.closing =>
         /\ \A e \in laptop'[s].books.ledger : Timely(s, e)' => e \in laptop[s].books.ledger
         /\ laptop'[s].books.status = "checked_in" /\ Timely(s, CheckIn)'
              => laptop[s].books.status = "checked_in"
         /\ \A m \in laptop'[s].mails : Timely(s, m)' => m \in laptop[s].mails
HistoryGrows ==
    /\ history.late \subseteq history'.late /\ history.closing \subseteq history'.closing
    /\ history.unanswered \subseteq history'.unanswered
    /\ history.mistaken \subseteq history'.mistaken
\* Nothing is forgotten: roles, bookings, check-ins, mails and what was asked about.
Advances ==
    /\ \A s \in Snapshots : log[s] \subseteq log'[s]
    /\ \A s \in Snapshots : DelegatedAs(s)' => DelegatedAs(s) \/ log[s] = {}
    /\ online.ledger \subseteq online'.ledger
    /\ online.status = "checked_in" => online'.status = "checked_in"
    /\ \A c \in conflicts : \E d \in conflicts' :
         d.snapshot = c.snapshot /\ d.entity = c.entity /\ d.books = c.books
    /\ \A m \in Mails : outbox[m].state # "none" => outbox'[m].state # "none"
    /\ \A s \in Snapshots : LaptopAdvances(s)
    /\ HistoryGrows
\* A file is made by whoever was to make it; a laptop goes to work as it was told.
OpensApart ==
    /\ \A g \in Handlers : \A y \in Steps(g)' : Exports(y) =>
         log[y.for] = {} \/ \E x \in Steps(g) : Exports(x) /\ x.for = y.for
    /\ \A s \in Snapshots : laptop[s].role = "none" =>
         \/ laptop'[s].role = "none" \/ s \in history'.mistaken
         \/ \E g \in Handlers : /\ \E x \in Steps(g) : Exports(x) /\ x.for = s
                                /\ \A y \in Steps(g)' : ~Exports(y)
    /\ \A s \in Snapshots : laptop[s].role = "loaded" =>
         \/ laptop'[s].role = "loaded"
         \/ \E g \in Handlers : Has(g, "become") /\ ~Has(g, "become")'

LEMMA GoesMoves ==
    ASSUME NEW h \in Handlers, NEW N, Goes(h, N), Rest(h) \subseteq Steps(h)
    PROVE  Moves(h, N)
BY DEF Goes, Moves

LEMMA RestIsOfSteps ==
    ASSUME TypeOK, NEW h \in Handlers
    PROVE  Rest(h) \subseteq Steps(h)
BY DEF TypeOK, Rest, Steps

LEMMA StopsMoves ==
    ASSUME NEW h \in Handlers, NEW N, Stops(h)
    PROVE  Moves(h, N)
<1>1. Steps(h)' = {} /\ Rest(h)' = {}
  BY DEF Stops, Steps, Rest
<1> QED
  BY <1>1 DEF Stops, Moves

LEMMA OthersStay ==
    ASSUME NEW h \in Handlers, NEW N, Moves(h, N), NEW g \in Handlers, g # h
    PROVE  Steps(g)' = Steps(g) /\ Rest(g)' = Rest(g)
BY DEF Moves, Steps, Rest

LEMMA UntouchedStays ==
    ASSUME OpensApart, HistoryGrows, NEW s \in Snapshots, log[s] # {}, Untouched(s)
    PROVE  Untouched(s)' \/ s \in history'.mistaken
<1>1. \A g \in Handlers : \A x \in Steps(g)' : Exports(x) => x.for # s
  BY DEF OpensApart, Untouched
<1>2. laptop'[s].role = "none" \/ s \in history'.mistaken
  BY DEF OpensApart, Untouched
<1> QED
  BY <1>1, <1>2 DEF Untouched

LEMMA HomeStays ==
    ASSUME TypeOK, Advances, NEW s \in Snapshots, Home(s)
    PROVE  Home(s)'
<1>1. s \in history'.closing
  BY DEF Advances, HistoryGrows, Home
<1>2. ASSUME NEW e \in laptop'[s].books.ledger, Timely(s, e)'
      PROVE  e \in online'.ledger
             \/ \E c \in Reviewed(s, "tavern_account")' : e \in c.books.ledger
  <2>1. e \in laptop[s].books.ledger /\ Timely(s, e)
    BY <1>2 DEF Advances, LaptopAdvances, HistoryGrows, Home, Timely
  <2>2. CASE e \in online.ledger
    BY <2>2 DEF Advances
  <2>3. CASE \E c \in Reviewed(s, "tavern_account") : e \in c.books.ledger
    BY <2>3 DEF Advances, Reviewed
  <2> QED
    BY <2>1, <2>2, <2>3 DEF Home, CameHome, Timely
<1>3. ASSUME laptop'[s].books.status = "checked_in", Timely(s, CheckIn)'
      PROVE  online'.status = "checked_in" \/ Reviewed(s, "registration")' # {}
  <2>1. laptop[s].books.status = "checked_in" /\ Timely(s, CheckIn)
    BY <1>3 DEF Advances, LaptopAdvances, HistoryGrows, Home, Timely
  <2>2. CASE online.status = "checked_in"
    BY <2>2 DEF Advances
  <2>3. CASE Reviewed(s, "registration") # {}
    BY <2>3 DEF Advances, Reviewed
  <2> QED
    BY <2>1, <2>2, <2>3 DEF Home, CameHome, Timely
<1>4. ASSUME NEW m \in laptop'[s].mails, Timely(s, m)'
      PROVE  outbox'[m].state # "none"
  <2>1. m \in laptop[s].mails /\ Timely(s, m)
    BY <1>4 DEF Advances, LaptopAdvances, HistoryGrows, Home, Timely
  <2>2. m \in Mails
    BY <1>4, <2>1 DEF TypeOK
  <2> QED
    BY <2>1, <2>2 DEF Home, CameHome, Timely, Advances
<1> QED
  BY <1>1, <1>2, <1>3, <1>4 DEF Home, CameHome, Timely

LEMMA StatusStays ==
    ASSUME Advances, NEW s \in Snapshots, s \in history.closing, NEW books,
           StatusIsComplete(s, books)
    PROVE  StatusIsComplete(s, books)'
BY DEF Advances, LaptopAdvances, HistoryGrows, StatusIsComplete, Timely

LEMMA PackageStays ==
    ASSUME Advances, NEW p \in Package, PackageKnown(p)
    PROVE  PackageKnown(p)'
<1>1. p.snapshot \in Snapshots
  BY DEF Package
<1>2. Works(p.snapshot)' /\ p.books.ledger \subseteq laptop'[p.snapshot].books.ledger
  BY <1>1 DEF PackageKnown, Advances, LaptopAdvances
<1>3. Complete(p) => Complete(p)'
  BY <1>1, StatusStays DEF Complete, Advances, LaptopAdvances, HistoryGrows, Timely
<1> QED
  BY <1>2, <1>3 DEF PackageKnown

-----------------------------------------------------------------------------
(* The parts of the invariant *)

LEMMA StepStays ==
    ASSUME TypeOK, TypeOK', StepsKnown, ExportsApart, ImportsApart, Advances, OpensApart,
           NEW g \in Handlers, NEW x \in Steps(g), x \in Steps(g)'
    PROVE  StepKnown(x)'
<1> USE StepsAreSteps, KindsOfSteps
<1>0. StepKnown(x) /\ x \in Step
  BY DEF StepsKnown
<1>1. ASSUME NEW s \in Snapshots, log[s] # {}
      PROVE  log'[s] # {}
  BY <1>1 DEF Advances
<1>2. ASSUME NEW s \in Snapshots, Untouched(s) \/ s \in history.mistaken \/ Home(s),
             log[s] # {}
      PROVE  Untouched(s)' \/ s \in history'.mistaken \/ Home(s)'
  BY <1>2, UntouchedStays, HomeStays DEF Advances, HistoryGrows
<1>3. ASSUME Exports(x)
      PROVE  /\ log'[x.for] # {}
             /\ laptop'[x.for].role = "none" \/ x.for \in history'.mistaken
             /\ x.do = "copy" => log'[x.snapshot] # {}
  <2>1. x.for \in Snapshots /\ log[x.for] # {}
    BY <1>0, <1>3 DEF StepKnown, Exports
  <2>2. x.do = "copy" => log'[x.snapshot] # {}
    BY <1>0, <1>1, <1>3 DEF StepKnown
  <2>3. CASE x.for \in history.mistaken
    BY <1>1, <2>1, <2>2, <2>3 DEF Advances, HistoryGrows
  <2>4. CASE laptop[x.for].role = "none"
    <3>1. ASSUME NEW f \in Handlers, NEW z \in Steps(f), Exports(z), z.for = x.for,
                 \A y \in Steps(f)' : ~Exports(y)
          PROVE  FALSE
      <4>1. f = g
        BY <1>3, <3>1 DEF ExportsApart
      <4> QED
        BY <1>3, <3>1, <4>1
    <3>2. laptop'[x.for].role = "none" \/ x.for \in history'.mistaken
      BY <2>1, <2>4, <3>1 DEF OpensApart
    <3> QED
      BY <1>1, <2>1, <2>2, <3>2
  <2> QED
    BY <1>0, <1>3, <2>3, <2>4 DEF StepKnown
<1>4. x.do \in {"become", "number", "retire"} => x.snapshot \in Snapshots
  BY <1>0 DEF StepKnown
<1>5. ASSUME x.do = "become"
      PROVE  laptop'[x.snapshot].role = "loaded"
  <2>1. x.snapshot \in Snapshots /\ laptop[x.snapshot].role = "loaded"
    BY <1>0, <1>4, <1>5 DEF StepKnown
  <2>2. ASSUME NEW f \in Handlers, Has(f, "become"), ~Has(f, "become")'
        PROVE  FALSE
    <3>1. f = g
      BY <1>5, <2>2 DEF ImportsApart, Has
    <3> QED
      BY <1>5, <2>2, <3>1 DEF Has
  <2> QED
    BY <2>1, <2>2 DEF OpensApart
<1>6. x.do = "retire" => Works(x.snapshot)' /\ x.snapshot \in history'.closing
  BY <1>0, <1>4 DEF StepKnown, Advances, LaptopAdvances, HistoryGrows
<1>7. ASSUME x.do = "seal"
      PROVE  /\ Works(x.snapshot)' /\ (x.retires => x.final)
             /\ x.books.ledger \subseteq laptop'[x.snapshot].books.ledger
             /\ x.final => /\ x.snapshot \in history'.closing
                           /\ x.retires \/ Retired(x.snapshot)'
                           /\ StatusIsComplete(x.snapshot, x.books)'
  <2>1. /\ Works(x.snapshot) /\ x.snapshot \in Snapshots /\ (x.retires => x.final)
        /\ x.books.ledger \subseteq laptop[x.snapshot].books.ledger
        /\ x.final => /\ x.snapshot \in history.closing
                      /\ x.retires \/ Retired(x.snapshot)
                      /\ StatusIsComplete(x.snapshot, x.books)
    BY <1>0, <1>7 DEF StepKnown
  <2>2. LaptopAdvances(x.snapshot) /\ HistoryGrows
    BY <2>1 DEF Advances
  <2> QED
    BY <2>1, <2>2, StatusStays DEF LaptopAdvances, HistoryGrows
<1>8. x.do \in {"receive", "merge", "save"} => PackageKnown(x.package)'
  BY <1>0, PackageStays DEF StepKnown
<1>9. ASSUME x.do \in {"return", "release"}
      PROVE  /\ x.for \in Snapshots => log'[x.for] # {}
             /\ x.result = "returned" =>
                  /\ x.for \in Snapshots
                  /\ Untouched(x.for)' \/ x.for \in history'.mistaken \/ Home(x.for)'
  BY <1>0, <1>1, <1>2, <1>9 DEF StepKnown
<1>10. ASSUME x.do = "release"
       PROVE  /\ x.snapshot \in Snapshots => log'[x.snapshot] # {}
              /\ DelegatedAs(x.for)' => x.snapshot = x.for
  <2>1. x.for \in Snapshots => (DelegatedAs(x.for)' => x.snapshot = x.for)
    BY <1>0, <1>10 DEF StepKnown, Advances
  <2>2. x.for \notin Snapshots => x.for = NoSnapshot
    BY <1>0, <1>10 DEF MaybeSnapshot
  <2>3. x.snapshot \in Snapshots => log'[x.snapshot] # {}
    BY <1>0, <1>1, <1>10 DEF StepKnown
  <2>4. x.for = NoSnapshot => ~DelegatedAs(x.for)'
    BY DEF TypeOK, DelegatedAs, Delegated
  <2> QED
    BY <2>1, <2>2, <2>3, <2>4
<1>11. ASSUME x.do = "commit"
       PROVE  \E c \in conflicts' : /\ c.snapshot = x.conflict.snapshot
                                    /\ c.entity = x.conflict.entity
                                    /\ c.books = x.conflict.books
  BY <1>0, <1>11 DEF StepKnown, Advances
<1>12. x.do = "recheck" => Home(x.snapshot)'
  BY <1>0, HomeStays DEF StepKnown
<1> QED
  BY <1>3, <1>4, <1>5, <1>6, <1>7, <1>8, <1>9, <1>10, <1>11, <1>12 DEF StepKnown

LEMMA StepsStay ==
    ASSUME TypeOK, TypeOK', StepsKnown, ExportsApart, ImportsApart, Advances, OpensApart,
           NEW h \in Handlers, NEW N, Moves(h, N), \A x \in N : StepKnown(x)'
    PROVE  StepsKnown'
<1> SUFFICES ASSUME NEW g \in Handlers, NEW x \in Steps(g)'
             PROVE  StepKnown(x)'
  BY DEF StepsKnown
<1>1. CASE x \in Steps(g)
  BY <1>1, StepStays
<1>2. CASE x \notin Steps(g)
  BY <1>2, OthersStay DEF Moves
<1> QED
  BY <1>1, <1>2

LEMMA FilesStay ==
    ASSUME TypeOK, FilesKnown, Advances, files' \subseteq files
    PROVE  FilesKnown'
<1> SUFFICES ASSUME NEW p \in files
             PROVE  PackageKnown(p)' /\ (p.final => Retired(p.snapshot)')
  BY DEF FilesKnown
<1>1. p \in Package /\ p.snapshot \in Snapshots
  BY DEF TypeOK, Package
<1> QED
  BY <1>1, PackageStays DEF FilesKnown, Advances, LaptopAdvances

LEMMA ConflictsStay ==
    ASSUME TypeOK, ConflictsKnown, Advances, conflicts' = conflicts
    PROVE  ConflictsKnown'
<1> SUFFICES ASSUME NEW c \in conflicts
             PROVE  /\ c.books.ledger \subseteq laptop'[c.snapshot].books.ledger
                    /\ c.entity = "registration" => c.books.status = "checked_in"
  BY DEF ConflictsKnown
<1>1. c.snapshot \in Snapshots
  BY DEF TypeOK, Conflict
<1> QED
  BY <1>1 DEF ConflictsKnown, Advances, LaptopAdvances

LEMMA MergesStay ==
    ASSUME TypeOK, TypeOK', MergesKnown, Advances, authority.generation <= authority'.generation,
           NEW M, M \subseteq merges
    PROVE  \A m \in M :
             /\ log'[m.snapshot] # {}
             /\ m.mode # "forced" /\ DelegatedAs(m.snapshot)'
                  => m.generation < authority'.generation
             /\ m.mode = "final" => Home(m.snapshot)'
             /\ m.pending => m.mode = "final"
<1> TAKE m \in M
<1>1. m.snapshot \in Snapshots /\ m.generation \in Nat /\ m \in merges
  BY DEF TypeOK
<1>2. log'[m.snapshot] # {} /\ (DelegatedAs(m.snapshot)' => DelegatedAs(m.snapshot))
  BY <1>1 DEF MergesKnown, Advances
<1>3. m.mode = "final" => Home(m.snapshot)'
  BY <1>1, HomeStays DEF MergesKnown
<1>4. authority.generation \in Nat
  BY DEF TypeOK
<1>5. authority'.generation \in Nat
  BY DEF TypeOK
<1> QED
  BY <1>1, <1>2, <1>3, <1>4, <1>5 DEF MergesKnown

\* What is home stays home.
LEMMA ReturnsStay ==
    ASSUME TypeOK, ReturnedKnown, Advances, OpensApart,
           \A s \in Snapshots : "returned" \in log'[s] =>
             \/ "returned" \in log[s] \/ s \in history'.mistaken
             \/ (Untouched(s) /\ log[s] # {}) \/ Home(s)
    PROVE  ReturnedKnown'
<1> SUFFICES ASSUME NEW s \in Snapshots, "returned" \in log'[s]
             PROVE  Untouched(s)' \/ s \in history'.mistaken \/ Home(s)'
  BY DEF ReturnedKnown
<1>1. \/ s \in history'.mistaken \/ s \in history.mistaken
      \/ (Untouched(s) /\ log[s] # {}) \/ Home(s)
  BY DEF ReturnedKnown
<1> QED
  BY <1>1, UntouchedStays, HomeStays DEF Advances, HistoryGrows

LEMMA ReturnedIsHome ==
    ASSUME Handed, ReturnedKnown
    PROVE  ReturnedComesHome
<1> SUFFICES ASSUME NEW s \in Snapshots, s \notin history.mistaken, "returned" \in log[s]
             PROVE  CameHome(s)
  BY DEF ReturnedComesHome
<1>1. CASE Untouched(s)
  <2>1. laptop[s].books = NothingYet /\ laptop[s].mails = {}
    BY <1>1 DEF Untouched, Handed
  <2> QED
    BY <2>1 DEF CameHome, NothingYet
<1> QED
  BY <1>1 DEF ReturnedKnown, Home

-----------------------------------------------------------------------------
(* Jobs stay in order *)

LEMMA RestIsLater ==
    ASSUME TypeOK, JobsInOrder, NEW h \in Handlers, ~Idle(h), Now(h).do # "retire",
           NEW x \in Rest(h)
    PROVE  x.do \in Later \ {"save"}
<1>1. x.do \in Later /\ x \in Steps(h)
  BY RestIsOfSteps DEF JobsInOrder
<1>2. x.do = "save" => FALSE
  BY <1>1 DEF JobsInOrder, Has
<1> QED
  BY <1>1, <1>2

\* A handler goes on with N, which is neither a save nor about to retire or to seal.
GoesOn(h, N) ==
    /\ Moves(h, N)
    /\ Steps(h)' \subseteq N \cup Rest(h)
    /\ Idle(h) \/ Now(h).do # "retire"
    /\ \A x \in N : x.do \notin {"retire", "save"}
    /\ ~Idle(h) => /\ \A x \in N : x.do # "seal"
                   /\ Now(h).do \in Pushing => \A x \in N : x.do \in Pushing
    /\ Idle(h) => \A x \in N : x.do = "seal" => Rest(h)' = {}

LEMMA OrderStays ==
    ASSUME TypeOK, JobsInOrder, NEW h \in Handlers, NEW N, GoesOn(h, N)
    PROVE  JobsInOrder'
<1>1. \A g \in Handlers : g # h => Steps(g)' = Steps(g) /\ Rest(g)' = Rest(g)
                                  /\ job'[g] = job[g]
  BY OthersStay DEF GoesOn, Moves
<1>2. ASSUME NEW x \in Rest(h)
      PROVE  ~Idle(h) /\ x \in Steps(h) /\ x.do \in Later \ {"save"}
  <2>1. ~Idle(h)
    BY IdleHasNothing
  <2> QED
    BY <2>1, RestIsLater, RestIsOfSteps DEF GoesOn
<1>3. \A x \in Rest(h)' : x.do \in Later
  BY <1>2 DEF GoesOn, Moves
<1>4. \A x \in Steps(h)' : x.do # "save"
  BY <1>2 DEF GoesOn
<1>5. ASSUME NEW x \in Steps(h)', x.do = "seal"
      PROVE  Rest(h)' = {}
  <2>1. x \in N
    BY <1>2, <1>5 DEF GoesOn, Later
  <2> QED
    BY <1>5, <2>1 DEF GoesOn
<1>6. ASSUME NEW z \in Steps(h)', z.do = "retire"
      PROVE  /\ \A x \in Steps(h)' : x.do \in Pushing \cup {"save"}
             /\ \A x, y \in Steps(h)' : x.do = "retire" /\ y.do = "retire" => x = y
  <2>1. z \in Rest(h) /\ ~Idle(h) /\ z \in Steps(h)
    BY <1>2, <1>6 DEF GoesOn
  <2>2. /\ \A x \in Steps(h) : x.do \in Pushing \cup {"save"}
        /\ \A x, y \in Steps(h) : x.do = "retire" /\ y.do = "retire" => x = y
    BY <1>6, <2>1 DEF JobsInOrder, Has
  <2>3. Now(h) \in Steps(h) /\ Now(h).do # "save"
    <3>1. Now(h) \in Steps(h)
      BY <2>1, HeadIs
    <3>2. ASSUME Now(h).do = "save"
          PROVE  FALSE
      BY <1>6, <2>1, <3>1, <3>2 DEF JobsInOrder, Has
    <3> QED
      BY <3>1, <3>2
  <2>4. \A x \in N : x.do \in Pushing
    BY <2>1, <2>2, <2>3 DEF GoesOn
  <2> QED
    BY <1>2, <2>2, <2>4 DEF GoesOn
<1>7. ASSUME NEW g \in Handlers
      PROVE  /\ \A x \in Rest(g)' : x.do \in Later
             /\ Has(g, "seal")' => Rest(g)' = {}
             /\ Has(g, "save")' =>
                  \/ Now(g)'.do = "save" /\ Rest(g)' = {}
                  \/ Now(g)'.do = "retire" /\ Len(job'[g]) = 2 /\ job'[g][2].do = "save"
             /\ Has(g, "retire")' =>
                  /\ \A x \in Steps(g)' : x.do \in Pushing \cup {"save"}
                  /\ \A x, y \in Steps(g)' : x.do = "retire" /\ y.do = "retire" => x = y
  <2>1. CASE g = h
    BY <1>3, <1>4, <1>5, <1>6, <2>1 DEF Has
  <2>2. CASE g # h
    BY <1>1, <2>2 DEF JobsInOrder, Has, Now
  <2> QED
    BY <2>1, <2>2
<1> QED
  BY <1>7 DEF JobsInOrder

\* A handler that drops what it had to do.
LEMMA OrderStops ==
    ASSUME TypeOK, JobsInOrder, NEW h \in Handlers, Stops(h)
    PROVE  JobsInOrder'
<1>1. \A g \in Handlers : g # h => Steps(g)' = Steps(g) /\ Rest(g)' = Rest(g)
                                  /\ job'[g] = job[g]
  BY StopsMoves, OthersStay DEF Stops
<1>2. Steps(h)' = {} /\ Rest(h)' = {}
  BY DEF Stops, Steps, Rest
<1> QED
  BY <1>1, <1>2 DEF JobsInOrder, Has, Now

LEMMA ExportsStayApart ==
    ASSUME TypeOK, StepsKnown, ExportsApart, OpensApart, NEW h \in Handlers, NEW N, Moves(h, N)
    PROVE  ExportsApart'
<1>1. ASSUME NEW g \in Handlers, NEW x \in Steps(g)', Exports(x), log[x.for] = {}
      PROVE  g = h
  BY <1>1, OthersStay DEF StepsKnown, StepKnown
<1> SUFFICES ASSUME NEW f \in Handlers, NEW g \in Handlers, NEW x \in Steps(f)',
                    NEW y \in Steps(g)', Exports(x), Exports(y), x.for = y.for
             PROVE  f = g
  BY DEF ExportsApart, Exports
<1>2. CASE log[x.for] = {}
  BY <1>1, <1>2
<1>3. CASE log[x.for] # {}
  <2>1. PICK v \in Steps(f) : Exports(v) /\ v.for = x.for
    BY <1>3 DEF OpensApart
  <2>2. PICK w \in Steps(g) : Exports(w) /\ w.for = y.for
    BY <1>3 DEF OpensApart
  <2> QED
    BY <2>1, <2>2 DEF ExportsApart
<1> QED
  BY <1>2, <1>3

LEMMA ImportsStayApart ==
    ASSUME ImportsApart, NEW h \in Handlers, NEW N, Moves(h, N),
           \A x \in N : x.do = "become" => \A g \in Handlers : ~Has(g, "become")
    PROVE  ImportsApart'
<1> SUFFICES ASSUME NEW f \in Handlers, NEW g \in Handlers, Has(f, "become")',
                    Has(g, "become")'
             PROVE  f = g
  BY DEF ImportsApart
<1>1. \A d \in Handlers : Has(d, "become")' =>
        Has(d, "become") \/ (d = h /\ \E x \in N : x.do = "become")
  BY OthersStay DEF Has, Moves
<1> QED
  BY <1>1 DEF ImportsApart

\* Nobody books what another one is about to book.
BooksApart ==
    \A e \in Entries : Unbooked(e) =>
        \/ Unbooked(e)'
        \/ \A g \in Handlers : \A x \in Steps(g)' : x.do = "write" => x.what # e

LEMMA WritesStayApart ==
    ASSUME TypeOK, WritesApart, BooksApart, NEW h \in Handlers, NEW N, Moves(h, N),
           \A x \in N : x.do = "write" /\ x.what # CheckIn =>
             /\ Unbooked(x.what)'
             /\ \A g \in Handlers : \A y \in Steps(g) : y.do = "write" => y.what # x.what,
           \A x, y \in N : x.do = "write" /\ y.do = "write" => x = y
    PROVE  WritesApart'
<1>1. ASSUME NEW g \in Handlers, NEW x \in Steps(g)', x.do = "write", x.what # CheckIn
      PROVE  Unbooked(x.what)'
  <2>1. CASE x \in Steps(g)
    <3>1. x.what \in Entries /\ Unbooked(x.what)
      BY <1>1, <2>1, StepsAreSteps, KindsOfSteps DEF WritesApart, Writes
    <3> QED
      BY <1>1, <3>1 DEF BooksApart
  <2>2. CASE x \notin Steps(g)
    BY <1>1, <2>2, OthersStay DEF Moves
  <2> QED
    BY <2>1, <2>2
<1>2. ASSUME NEW f \in Handlers, NEW g \in Handlers, NEW x \in Steps(f)', NEW y \in Steps(g)',
             x.do = "write", y.do = "write", x.what = y.what, x.what # CheckIn
      PROVE  f = g
  <2>1. CASE x \in Steps(f) /\ y \in Steps(g)
    BY <1>2, <2>1 DEF WritesApart
  <2>2. CASE x \notin Steps(f)
    <3>1. f = h /\ x \in N
      BY <2>2, OthersStay DEF Moves
    <3>2. y \notin Steps(g)
      BY <1>2, <3>1
    <3> QED
      BY <3>1, <3>2, OthersStay DEF Moves
  <2>3. CASE y \notin Steps(g)
    <3>1. g = h /\ y \in N
      BY <2>3, OthersStay DEF Moves
    <3>2. x \notin Steps(f)
      BY <1>2, <3>1
    <3> QED
      BY <3>1, <3>2, OthersStay DEF Moves
  <2> QED
    BY <2>1, <2>2, <2>3
<1> QED
  BY <1>1, <1>2 DEF WritesApart

-----------------------------------------------------------------------------
(* A laptop that was to retire still does *)

\* A handler that has nothing left but to retire goes on with that, does it, or is lost.
Keeps(h) ==
    \A s \in Snapshots : Retiring(h, s) /\ Kept(h) =>
        Retired(s)' \/ s \in history'.unanswered \/ (Retiring(h, s)' /\ Kept(h)')

AllKeep == \A h \in Handlers : Keeps(h)

LEMMA OthersKeep ==
    ASSUME NEW h \in Handlers, NEW N, Moves(h, N), Keeps(h)
    PROVE  AllKeep
<1> SUFFICES ASSUME NEW g \in Handlers, g # h
             PROVE  Keeps(g)
  BY DEF AllKeep
<1>1. Steps(g)' = Steps(g)
  BY OthersStay
<1> QED
  BY <1>1 DEF Keeps, Retiring, Kept

LEMMA ClosedStays ==
    ASSUME Advances, AllKeep, NEW s \in Snapshots, Closed(s)
    PROVE  Closed(s)'
<1>1. CASE Retired(s)
  BY <1>1 DEF Advances, LaptopAdvances, Closed
<1>2. CASE s \in history.unanswered
  BY <1>2 DEF Advances, HistoryGrows, Closed
<1>3. CASE \E g \in Handlers : Retiring(g, s) /\ Kept(g)
  BY <1>3 DEF AllKeep, Keeps, Closed
<1> QED
  BY <1>1, <1>2, <1>3 DEF Closed

LEMMA OnlyRetiring ==
    ASSUME TypeOK, JobsInOrder, NEW h \in Handlers, NEW s, Retiring(h, s), Kept(h)
    PROVE  ~Idle(h) /\ Now(h).do \in {"retire", "flush", "deliver", "mark"}
<1>1. ~Idle(h)
  BY IdleHasNothing DEF Retiring
<1>2. Now(h) \in Steps(h)
  BY <1>1, HeadIs
<1>3. Now(h).do \in Pushing \cup {"save"}
  BY <1>2 DEF JobsInOrder, Retiring, Has
<1> QED
  BY <1>1, <1>2, <1>3 DEF Kept, Pushing

LEMMA BusyKeeps ==
    ASSUME TypeOK, JobsInOrder, NEW h \in Handlers,
           Idle(h) \/ Now(h).do \notin {"retire", "flush", "deliver", "mark"}
    PROVE  Keeps(h)
BY OnlyRetiring DEF Keeps

LEMMA SendingKeeps ==
    ASSUME TypeOK, JobsInOrder, NEW h \in Handlers, ~Idle(h),
           Now(h).do \in {"flush", "deliver", "mark"}, NEW N, Goes(h, N),
           \A x \in N : x.do \in {"deliver", "mark"}
    PROVE  Keeps(h)
<1> SUFFICES ASSUME NEW s \in Snapshots, Retiring(h, s), Kept(h)
             PROVE  Retiring(h, s)' /\ Kept(h)'
  BY DEF Keeps
<1>1. Steps(h)' = N \cup Rest(h) /\ Steps(h) = {Now(h)} \cup Rest(h)
  BY HeadIs DEF Goes
<1> QED
  BY <1>1 DEF Retiring, Kept

LEMMA ClosedStepStays ==
    ASSUME TypeOK, RetiringKnown, StepsKnown, Advances, OpensApart,
           AllKeep, NEW g \in Handlers, NEW x \in Steps(g), Steps(g)' = Steps(g)
    PROVE  StepClosed(g, x)'
<1> USE StepsAreSteps, KindsOfSteps
<1>0. StepClosed(g, x) /\ StepKnown(x) /\ x \in Step
  BY DEF RetiringKnown, StepsClosed, StepsKnown
<1>2. \A s : Retiring(g, s)' = Retiring(g, s)
  BY DEF Retiring
<1>3. \A s \in Snapshots : Closed(s) => Closed(s)'
  BY ClosedStays
<1>4. ASSUME x.do \in {"return", "release"}, x.result = "returned"
      PROVE  \/ Untouched(x.for)' \/ x.for \in history'.mistaken
             \/ Closed(x.for)' \/ Retiring(g, x.for)'
  <2>1. x.for \in Snapshots /\ log[x.for] # {}
    BY <1>0, <1>4 DEF StepKnown
  <2>2. Untouched(x.for) => Untouched(x.for)' \/ x.for \in history'.mistaken
    BY <2>1, UntouchedStays DEF Advances
  <2> QED
    BY <1>0, <1>2, <1>3, <1>4, <2>1, <2>2 DEF StepClosed, Advances, HistoryGrows
<1>5. ASSUME x.do \in {"receive", "merge", "save"}, x.package.final
      PROVE  /\ Closed(x.package.snapshot) => Closed(x.package.snapshot)'
             /\ Retired(x.package.snapshot) => Retired(x.package.snapshot)'
  <2>1. x.package.snapshot \in Snapshots
    BY <1>0, <1>5 DEF Package
  <2> QED
    BY <1>3, <2>1 DEF Advances, LaptopAdvances
<1>6. x.do = "recheck" => Closed(x.snapshot)'
  BY <1>0, <1>3 DEF StepClosed
<1> QED
  BY <1>0, <1>2, <1>4, <1>5, <1>6 DEF StepClosed

LEMMA ClosedStepsStay ==
    ASSUME TypeOK, RetiringKnown, StepsKnown, Advances, OpensApart,
           NEW h \in Handlers, NEW N, Moves(h, N), Keeps(h),
           \A x \in Steps(h)' : StepClosed(h, x)'
    PROVE  StepsClosed'
<1> SUFFICES ASSUME NEW g \in Handlers, NEW x \in Steps(g)'
             PROVE  StepClosed(g, x)'
  BY DEF StepsClosed
<1>1. CASE g = h
  BY <1>1
<1>2. CASE g # h
  <2>1. Steps(g)' = Steps(g) /\ AllKeep
    BY <1>2, OthersStay, OthersKeep
  <2> QED
    BY <2>1, ClosedStepStays
<1> QED
  BY <1>1, <1>2

LEMMA RetiringStays ==
    ASSUME TypeOK, RetiringKnown, Advances, OpensApart, AllKeep, StepsClosed',
           merges' \subseteq [snapshot : Snapshots, generation : Nat, pending : BOOLEAN,
                              mode : {"final", "interim", "forced"}, queued : BOOLEAN],
           \A m \in merges' : m.pending =>
             Closed(m.snapshot)' \/ \E n \in merges : n.pending /\ n.snapshot = m.snapshot,
           \A s \in Snapshots : log'[s] # {} /\ ~DelegatedAs(s)' =>
             \/ log[s] # {} /\ ~DelegatedAs(s)
             \/ "forced" \in log'[s] \/ s \in history'.mistaken
             \/ Closed(s)' \/ Untouched(s)'
    PROVE  RetiringKnown'
<1>1. \A s \in Snapshots : Closed(s) => Closed(s)'
  BY ClosedStays
<1>2. ASSUME NEW m \in merges', m.pending
      PROVE  Closed(m.snapshot)'
  BY <1>1, <1>2 DEF RetiringKnown
<1>3. ASSUME NEW s \in Snapshots, log'[s] # {}, ~DelegatedAs(s)'
      PROVE  \/ "forced" \in log'[s] \/ s \in history'.mistaken
             \/ Closed(s)' \/ Untouched(s)'
  <2>1. CASE log[s] # {} /\ ~DelegatedAs(s)
    <3>1. "forced" \in log[s] \/ s \in history.mistaken \/ Closed(s) \/ Untouched(s)
      BY <2>1 DEF RetiringKnown
    <3> QED
      BY <1>1, <2>1, <3>1, UntouchedStays DEF Advances, HistoryGrows
  <2> QED
    BY <1>3, <2>1
<1> QED
  BY <1>2, <1>3 DEF RetiringKnown

-----------------------------------------------------------------------------
(* Steps of one handler *)

\* What h is going to do is right, and nobody else's.
RightNext(h, N) ==
    /\ \A x \in N : StepKnown(x)' /\ StepClosed(h, x)'
    /\ \A x \in N : x.do = "become" => \A g \in Handlers : ~Has(g, "become")
    /\ \A x \in N : x.do = "write" /\ x.what # CheckIn =>
         /\ Unbooked(x.what)'
         /\ \A g \in Handlers : \A y \in Steps(g) : y.do = "write" => y.what # x.what
    /\ \A x, y \in N : x.do = "write" /\ y.do = "write" => x = y
\* It exports what it was already exporting, or what is new.
ExportsItsOwn(h, N) ==
    \A x \in N : Exports(x) =>
        log[x.for] = {} \/ \E y \in Steps(h) : Exports(y) /\ y.for = x.for

LEMMA ExportsAreOwn ==
    ASSUME TypeOK, StepsKnown, NEW h \in Handlers, NEW N, Moves(h, N), ExportsItsOwn(h, N)
    PROVE  \A g \in Handlers : \A y \in Steps(g)' : Exports(y) =>
             log[y.for] = {} \/ \E x \in Steps(g) : Exports(x) /\ x.for = y.for
<1> SUFFICES ASSUME NEW g \in Handlers, NEW y \in Steps(g)', Exports(y)
             PROVE  log[y.for] = {} \/ \E x \in Steps(g) : Exports(x) /\ x.for = y.for
  OBVIOUS
<1>1. CASE y \in Steps(g)
  BY <1>1
<1>2. CASE y \notin Steps(g)
  <2>1. g = h /\ y \in N
    BY <1>2, OthersStay DEF Moves
  <2> QED
    BY <2>1 DEF ExportsItsOwn
<1> QED
  BY <1>1, <1>2

LEMMA JobsStay ==
    ASSUME HInv, TypeOK', Advances, OpensApart, BooksApart,
           NEW h \in Handlers, NEW N, GoesOn(h, N), Keeps(h), RightNext(h, N)
    PROVE  JobsInOrder' /\ ExportsApart' /\ ImportsApart' /\ WritesApart'
           /\ StepsKnown' /\ StepsClosed'
<1>1. Moves(h, N) /\ TypeOK /\ JobsInOrder /\ ExportsApart /\ ImportsApart /\ WritesApart
      /\ StepsKnown /\ RetiringKnown
  BY DEF GoesOn, HInv
<1>2. JobsInOrder'
  BY <1>1, OrderStays
<1>3. ExportsApart'
  BY <1>1, ExportsStayApart
<1>4. ImportsApart'
  BY <1>1, ImportsStayApart DEF RightNext
<1>5. WritesApart'
  BY <1>1, WritesStayApart DEF RightNext
<1>6. StepsKnown'
  BY <1>1, StepsStay DEF RightNext
<1>7. ASSUME NEW x \in Steps(h)'
      PROVE  StepClosed(h, x)'
  <2>1. CASE x \in N
    BY <2>1 DEF RightNext
  <2>2. CASE x \in Rest(h)
    <3>1. ~Idle(h)
      BY <1>1, <2>2, IdleHasNothing
    <3>2. x.do \in Later \ {"save"}
      BY <1>1, <2>2, <3>1, RestIsLater DEF GoesOn
    <3> QED
      BY <3>2 DEF Later, StepClosed
  <2> QED
    BY <2>1, <2>2 DEF GoesOn
<1>8. StepsClosed'
  BY <1>1, <1>7, ClosedStepsStay
<1> QED
  BY <1>2, <1>3, <1>4, <1>5, <1>6, <1>8

CoreVars == <<authority, log, merges, conflicts>>
RestVars == <<authority, log, merges, conflicts, files>>
OtherVars == <<authority, log, online, merges, conflicts, laptop, files>>
DataVars == <<authority, log, online, merges, conflicts, outbox, laptop, files>>

LEMMA KeptAdvances ==
    ASSUME UNCHANGED <<authority, log, online, conflicts, outbox, laptop>>, HistoryGrows
    PROVE  Advances
<1>1. \A s \in Snapshots : LaptopAdvances(s)
  BY DEF LaptopAdvances, HistoryGrows, Timely, Works, Retired
<1> QED
  BY <1>1 DEF Advances, DelegatedAs, Delegated

LEMMA KeptOpens ==
    ASSUME TypeOK, StepsKnown, UNCHANGED laptop, NEW h \in Handlers, NEW N, Moves(h, N),
           ExportsItsOwn(h, N)
    PROVE  OpensApart
BY ExportsAreOwn DEF OpensApart

LEMMA KeptBooks ==
    ASSUME UNCHANGED <<online, laptop>>
    PROVE  BooksApart
BY DEF BooksApart, Unbooked

\* The same when no handler takes a step.
LEMMA JobsRest ==
    ASSUME HInv, TypeOK', Advances, OpensApart, BooksApart, UNCHANGED job
    PROVE  JobsInOrder' /\ ExportsApart' /\ ImportsApart' /\ WritesApart'
           /\ StepsKnown' /\ StepsClosed' /\ AllKeep
<1>1. TypeOK /\ JobsInOrder /\ ExportsApart /\ ImportsApart /\ WritesApart
      /\ StepsKnown /\ RetiringKnown
  BY DEF HInv
<1>2. \A g \in Handlers : Steps(g)' = Steps(g) /\ Rest(g)' = Rest(g) /\ Now(g)' = Now(g)
  BY DEF Steps, Rest, Now
<1>3. JobsInOrder' /\ ExportsApart' /\ ImportsApart'
  BY <1>1, <1>2 DEF JobsInOrder, ExportsApart, ImportsApart, Has
<1>4. WritesApart'
  <2>1. ASSUME NEW g \in Handlers, NEW x \in Steps(g), x.do = "write", x.what # CheckIn
        PROVE  Unbooked(x.what)'
    <3>1. x.what \in Entries /\ Unbooked(x.what)
      BY <1>1, <2>1, StepsAreSteps, KindsOfSteps DEF WritesApart, Writes
    <3> QED
      BY <1>2, <2>1, <3>1 DEF BooksApart
  <2> QED
    BY <1>1, <1>2, <2>1 DEF WritesApart
<1>5. StepsKnown'
  BY <1>1, <1>2, StepStays DEF StepsKnown
<1>6. AllKeep
  BY <1>2 DEF AllKeep, Keeps, Retiring, Kept
<1>7. StepsClosed'
  BY <1>1, <1>2, <1>6, ClosedStepStays DEF StepsClosed
<1> QED
  BY <1>3, <1>4, <1>5, <1>6, <1>7

\* The parts that are not about jobs, when nothing but jobs changes.
LEMMA CoreStays ==
    ASSUME HInv, TypeOK', Advances, OpensApart, UNCHANGED CoreVars, AllKeep, StepsClosed'
    PROVE  ConflictsKnown' /\ MergesKnown' /\ ReturnedKnown' /\ RetiringKnown'
<1>1. TypeOK /\ ConflictsKnown /\ MergesKnown /\ ReturnedKnown
      /\ RetiringKnown /\ StepsKnown
  BY DEF HInv
<1>3. ConflictsKnown'
  BY <1>1, ConflictsStay DEF CoreVars
<1>4. MergesKnown'
  <2>1. authority.generation <= authority'.generation /\ merges \subseteq merges
    BY <1>1 DEF CoreVars, TypeOK
  <2> QED
    BY <1>1, <2>1, MergesStay DEF CoreVars, MergesKnown
<1>5. ReturnedKnown'
  BY <1>1, ReturnsStay DEF CoreVars
<1>6. RetiringKnown'
  <2>1. /\ \A m \in merges' : m.pending => \E n \in merges : n.pending /\ n.snapshot = m.snapshot
        /\ merges' \subseteq [snapshot : Snapshots, generation : Nat, pending : BOOLEAN,
                              mode : {"final", "interim", "forced"}, queued : BOOLEAN]
        /\ \A s \in Snapshots : log'[s] = log[s] /\ DelegatedAs(s)' = DelegatedAs(s)
    BY <1>1 DEF CoreVars, TypeOK, DelegatedAs, Delegated
  <2> QED
    BY <1>1, <2>1, RetiringStays
<1> QED
  BY <1>3, <1>4, <1>5, <1>6

LEMMA DataStays ==
    ASSUME HInv, TypeOK', Advances, OpensApart, UNCHANGED RestVars, AllKeep, StepsClosed'
    PROVE  FilesKnown' /\ ConflictsKnown' /\ MergesKnown' /\ ReturnedKnown'
           /\ RetiringKnown'
BY CoreStays, FilesStay DEF CoreVars, RestVars, HInv

LEMMA HandedStays ==
    ASSUME Handed, UNCHANGED <<authority, log, laptop>>,
           history'.slipped \subseteq online'.ledger,
           \A s \in history'.closing : s \in history.closing \/ Works(s)
    PROVE  Handed'
BY DEF Handed, Delegated, Works

\* A step that only changes what h has to do.
LEMMA QuietStep ==
    ASSUME HInv, TypeOK', UNCHANGED DataVars, HistoryGrows, history'.slipped = history.slipped,
           \A s \in history'.closing : s \in history.closing \/ Works(s),
           NEW h \in Handlers, NEW N, GoesOn(h, N), Keeps(h), RightNext(h, N),
           ExportsItsOwn(h, N)
    PROVE  HInv'
<1>1. TypeOK /\ StepsKnown /\ Moves(h, N) /\ AllKeep
  BY OthersKeep DEF HInv, GoesOn
<1>2. Advances /\ OpensApart /\ BooksApart
  BY <1>1, KeptAdvances, KeptOpens, KeptBooks DEF DataVars
<1>3. JobsInOrder' /\ ExportsApart' /\ ImportsApart' /\ WritesApart' /\ StepsKnown'
      /\ StepsClosed'
  BY <1>2, JobsStay
<1>4. Handed' /\ FilesKnown' /\ ConflictsKnown' /\ MergesKnown' /\ ReturnedKnown'
      /\ RetiringKnown'
  BY <1>1, <1>2, <1>3, DataStays, HandedStays DEF DataVars, RestVars, HInv, Handed
<1> QED
  BY <1>3, <1>4 DEF HInv

-----------------------------------------------------------------------------
(* Requests and statements that change nothing but jobs *)

LEMMA NowGoesOn ==
    ASSUME TypeOK, NEW h \in Handlers, ~Idle(h), Now(h).do # "retire", NEW N, Goes(h, N),
           \A x \in N : x.do \notin {"retire", "save", "seal"},
           Now(h).do \in Pushing => \A x \in N : x.do \in Pushing
    PROVE  GoesOn(h, N)
<1>1. Moves(h, N)
  BY GoesMoves, RestIsOfSteps
<1> QED
  BY <1>1 DEF GoesOn, Goes

LEMMA StartGoesOn ==
    ASSUME TypeOK, NEW h \in Handlers, Idle(h), NEW x, x.do \notin {"retire", "save"},
           Goes(h, {x})
    PROVE  GoesOn(h, {x}) /\ Keeps(h)
<1>1. Moves(h, {x})
  BY GoesMoves, RestIsOfSteps
<1>2. x.do = "seal" => Rest(h)' = {}
  BY IdleHasNothing DEF Goes, Later
<1>3. Keeps(h)
  BY IdleHasNothing DEF Keeps, Retiring
<1> QED
  BY <1>1, <1>2, <1>3 DEF GoesOn, Goes

LEMMA StopGoesOn ==
    ASSUME NEW h \in Handlers, Stops(h), Idle(h) \/ Now(h).do # "retire"
    PROVE  GoesOn(h, {})
<1>1. Steps(h)' = {}
  BY DEF Stops, Steps
<1> QED
  BY <1>1, StopsMoves DEF GoesOn

LEMMA QuietType ==
    ASSUME TypeOK, job' \in [Handlers -> Seq(Step)], UNCHANGED <<DataVars, history, ops>>,
           returns' \in 0..MaxReturns, faults' \in 0..MaxFaults
    PROVE  TypeOK'
BY DEF TypeOK, DataVars

LEMMA NewIsUnused ==
    ASSUME NEW b, NEW w, New(b, w), w # CheckIn
    PROVE  /\ w \in Entries /\ Unbooked(w)
           /\ \A g \in Handlers : \A y \in Steps(g) : y.do = "write" => y.what # w
<1>1. w \in Entries \ UsedEntries
  BY DEF New, Fresh
<1>2. w \notin online.ledger /\ \A s \in Snapshots : w \notin laptop[s].books.ledger
  BY <1>1 DEF UsedEntries
<1>3. ASSUME NEW g \in Handlers, NEW y \in Steps(g), y.do = "write", y.what = w
      PROVE  FALSE
  <2>1. y \in {x \in Running : x.do = "write"}
    BY <1>3 DEF Running
  <2>2. w \in {step.what : step \in {x \in Running : x.do = "write"}}
    BY <1>3, <2>1
  <2> QED
    BY <1>1, <2>2 DEF UsedEntries
<1> QED
  BY <1>1, <1>2, <1>3 DEF Unbooked

LEMMA PassGuardKeeps ==
    ASSUME HInv, NEW h \in Handlers, NEW w \in Writes, PassGuard(h, w), UNCHANGED ops
    PROVE  HInv'
<1> DEFINE x == [do |-> "write", what |-> w]
<1>1. TypeOK /\ UNCHANGED DataVars /\ UNCHANGED history /\ returns' = returns
      /\ faults' = faults
  BY DEF HInv, PassGuard, DataVars
<1>2. x \in Step /\ x.do = "write" /\ x.what = w
  BY DEF Step
<1>3. Start(h, <<x>>)
  BY DEF PassGuard
<1>4. w # CheckIn => /\ Unbooked(w)
                     /\ \A g \in Handlers : \A y \in Steps(g) : y.do = "write" => y.what # w
  BY NewIsUnused DEF PassGuard
<1>5. w # CheckIn => Unbooked(w)'
  BY <1>1, <1>4 DEF Unbooked, DataVars
<1> HIDE DEF x
<1>6. Idle(h) /\ Goes(h, {x})
  BY <1>1, <1>2, <1>3, StartOne
<1>7. GoesOn(h, {x}) /\ Keeps(h)
  BY <1>1, <1>2, <1>6, StartGoesOn
<1>8. StepKnown(x)' /\ StepClosed(h, x)'
  BY <1>2 DEF StepKnown, StepClosed, Exports
<1>9. RightNext(h, {x})
  BY <1>2, <1>4, <1>5, <1>8 DEF RightNext
<1>10. ExportsItsOwn(h, {x}) /\ HistoryGrows /\ history'.slipped = history.slipped
  BY <1>1, <1>2 DEF ExportsItsOwn, Exports, HistoryGrows
<1>11. TypeOK'
  BY <1>1, <1>6, QuietType DEF Goes, TypeOK
<1> QED
  BY <1>1, <1>7, <1>9, <1>10, <1>11, QuietStep

LEMMA QuietStart ==
    ASSUME HInv, TypeOK', NEW h \in Handlers, NEW x \in Step, Start(h, <<x>>),
           UNCHANGED DataVars, HistoryGrows, history'.slipped = history.slipped,
           \A s \in history'.closing : s \in history.closing \/ Works(s),
           x.do \in {"emergency", "commit", "seal", "deliver"}, StepKnown(x)'
    PROVE  HInv'
<1>1. TypeOK
  BY DEF HInv
<1>2. Idle(h) /\ Goes(h, {x})
  BY <1>1, StartOne
<1>3. GoesOn(h, {x}) /\ Keeps(h)
  BY <1>1, <1>2, StartGoesOn
<1>4. RightNext(h, {x})
  BY DEF RightNext, StepClosed
<1>5. ExportsItsOwn(h, {x})
  BY DEF ExportsItsOwn, Exports
<1> QED
  BY <1>3, <1>4, <1>5, QuietStep

LEMMA ReleaseKeeps ==
    ASSUME HInv, NEW h \in Handlers, Release(h) \/ ReleaseForce(h), UNCHANGED ops
    PROVE  HInv'
<1>1. TypeOK /\ UNCHANGED DataVars /\ UNCHANGED history /\ returns' = returns
      /\ faults' = faults
  BY DEF HInv, Release, ReleaseForce, DataVars
<1>2. PICK x \in Step : x = [do |-> "emergency"] /\ Start(h, <<x>>)
  BY DEF Step, Release, ReleaseForce
<1>3. job' \in [Handlers -> Seq(Step)]
  BY <1>1, <1>2, StartOne DEF Goes
<1>4. TypeOK' /\ HistoryGrows /\ history'.slipped = history.slipped
  BY <1>1, <1>3, QuietType DEF TypeOK, HistoryGrows
<1>5. StepKnown(x)'
  BY <1>2 DEF StepKnown, Exports
<1> QED
  BY <1>1, <1>2, <1>4, <1>5, QuietStart

LEMMA ResolveKeeps ==
    ASSUME HInv, NEW h \in Handlers, NEW c \in conflicts,
           NEW r \in {"offline", "merged", "online"}, Resolve(h, c, r), UNCHANGED ops
    PROVE  HInv'
<1>1. TypeOK /\ UNCHANGED DataVars /\ UNCHANGED history /\ returns' = returns
      /\ faults' = faults /\ c \in conflicts'
  BY DEF HInv, Resolve, DataVars
<1>2. c \in Conflict
  BY <1>1 DEF TypeOK
<1>3. PICK x \in Step : x.do = "commit" /\ x.conflict = c /\ Start(h, <<x>>)
  BY <1>2 DEF Step, Resolve
<1>4. job' \in [Handlers -> Seq(Step)]
  BY <1>1, <1>3, StartOne DEF Goes
<1>5. TypeOK' /\ HistoryGrows /\ history'.slipped = history.slipped
  BY <1>1, <1>4, QuietType DEF TypeOK, HistoryGrows
<1>6. StepKnown(x)'
  BY <1>1, <1>3 DEF StepKnown, Exports
<1> QED
  BY <1>1, <1>3, <1>5, <1>6, QuietStart

\* A return package: what it will have of the books is read in time.
LEMMA BuildKeeps ==
    ASSUME HInv, NEW h \in Handlers, NEW s \in Snapshots, NEW final \in BOOLEAN,
           NEW push \in BOOLEAN, Build(h, s, final, push), UNCHANGED ops
    PROVE  HInv'
<1>1. TypeOK /\ UNCHANGED DataVars /\ faults' = faults
  BY DEF HInv, Build, DataVars
<1>2. /\ Past("closing", IF final THEN {s} ELSE {})
      /\ returns \in Nat /\ returns' = returns + 1 /\ MaxReturns \in Nat
      /\ returns < MaxReturns
      /\ laptop[s].role = "offline_primary" \/ laptop[s].role = "retired"
  BY <1>1, BoundsAssumption DEF Build, TypeOK
<1>3. /\ laptop[s].generation \in Nat /\ laptop[s].books \in Books
      /\ Retires(s, final) \in BOOLEAN
  BY <1>1 DEF TypeOK, Retires
<1>4. PICK x \in Step :
        /\ x = [do |-> "seal", snapshot |-> s, generation |-> laptop[s].generation,
                books |-> laptop[s].books, final |-> final, push |-> push,
                retires |-> Retires(s, final)]
        /\ Start(h, <<x>>)
  BY <1>3 DEF Step, Build
<1>5. job' \in [Handlers -> Seq(Step)]
  BY <1>1, <1>4, StartOne DEF Goes
<1>6. /\ HistoryGrows /\ history'.slipped = history.slipped /\ history'.late = history.late
      /\ final => s \in history'.closing
      /\ \A u \in history'.closing : u \in history.closing \/ Works(u)
      /\ history' \in [slipped : SUBSET Entries,
                        late : SUBSET (Snapshots \X (Writes \cup Mails)),
                        closing : SUBSET Snapshots, unanswered : SUBSET Snapshots,
                        mistaken : SUBSET Snapshots]
  BY <1>1, <1>2 DEF TypeOK, Past, HistoryGrows, Works
<1>7. returns' \in 0..MaxReturns
  BY <1>2
<1>8. TypeOK'
  BY <1>1, <1>5, <1>6, <1>7 DEF TypeOK, DataVars
<1>9. StepKnown(x)'
  <2>1. /\ Works(s)' /\ x.snapshot = s /\ x.do = "seal" /\ x.final = final
        /\ x.books = laptop'[s].books
    BY <1>1, <1>2, <1>4 DEF Works, DataVars
  <2>2. (final => x.retires \/ Retired(s)') /\ (x.retires => x.final)
    BY <1>1, <1>2, <1>4 DEF Retires, Retired, DataVars
  <2>3. StatusIsComplete(s, x.books)'
    BY <2>1 DEF StatusIsComplete
  <2> QED
    BY <1>6, <2>1, <2>2, <2>3 DEF StepKnown, Exports
<1> QED
  BY <1>1, <1>4, <1>6, <1>8, <1>9, QuietStart

LEMMA DoingIs ==
    ASSUME NEW h \in Handlers, NEW w, Doing(h, w)
    PROVE  ~Idle(h) /\ Now(h).do = w
BY DEF Doing, Idle, Now

LEMMA QuietNow ==
    ASSUME HInv, TypeOK', NEW h \in Handlers, ~Idle(h), Now(h).do # "retire",
           NEW N, Goes(h, N), Keeps(h), UNCHANGED <<DataVars, history>>,
           \A x \in N : /\ x.do \notin {"retire", "save", "seal", "become", "write"}
                        /\ StepKnown(x)' /\ StepClosed(h, x)',
           Now(h).do \in Pushing => \A x \in N : x.do \in Pushing,
           ExportsItsOwn(h, N)
    PROVE  HInv'
<1>1. TypeOK
  BY DEF HInv
<1>2. GoesOn(h, N)
  BY <1>1, NowGoesOn
<1>3. RightNext(h, N)
  BY DEF RightNext
<1>4. HistoryGrows /\ history'.slipped = history.slipped
  BY DEF HistoryGrows
<1> QED
  BY <1>2, <1>3, <1>4, QuietStep

LEMMA QuietStop ==
    ASSUME HInv, TypeOK', NEW h \in Handlers, ~Idle(h), Now(h).do # "retire",
           Stops(h), Keeps(h), UNCHANGED <<DataVars, history>>
    PROVE  HInv'
<1>1. GoesOn(h, {})
  BY StopGoesOn
<1>2. RightNext(h, {}) /\ ExportsItsOwn(h, {})
  BY DEF RightNext, ExportsItsOwn
<1>3. HistoryGrows /\ history'.slipped = history.slipped
  BY DEF HistoryGrows
<1> QED
  BY <1>1, <1>2, <1>3, QuietStep

\* What stays of a delegation and of a laptop when only jobs change.
LEMMA QuietStays ==
    ASSUME HInv, NEW h \in Handlers, ~Idle(h), NEW N, Goes(h, N), Keeps(h),
           UNCHANGED <<DataVars, history>>, ExportsItsOwn(h, N), NEW s \in Snapshots
    PROVE  /\ log[s] # {} => log'[s] # {}
           /\ log[s] # {} /\ Untouched(s) => Untouched(s)' \/ s \in history'.mistaken
           /\ s \in history.mistaken => s \in history'.mistaken
           /\ Home(s) => Home(s)'
           /\ Closed(s) => Closed(s)'
           /\ Retiring(h, s) /\ Now(h).do # "retire" => Retiring(h, s)'
<1>1. TypeOK /\ StepsKnown /\ HistoryGrows
  BY DEF HInv, HistoryGrows
<1>2. Moves(h, N)
  BY <1>1, GoesMoves, RestIsOfSteps
<1>3. Advances /\ OpensApart
  BY <1>1, <1>2, KeptAdvances, KeptOpens DEF DataVars
<1>4. log[s] # {} => log'[s] # {}
  BY DEF DataVars
<1>5. Home(s) => Home(s)'
  BY <1>1, <1>3, HomeStays
<1>6. Closed(s) => Closed(s)'
  BY <1>2, <1>3, OthersKeep, ClosedStays
<1>7. log[s] # {} /\ Untouched(s) => Untouched(s)' \/ s \in history'.mistaken
  BY <1>1, <1>3, UntouchedStays
<1>8. Retiring(h, s) /\ Now(h).do # "retire" => Retiring(h, s)'
  BY <1>1, HeadIs DEF Goes, Retiring
<1> QED
  BY <1>4, <1>5, <1>6, <1>7, <1>8

\* An export that is over, for better or worse.
LEMMA ExportsKeep ==
    ASSUME HInv, NEW h \in Handlers, NEW x \in Step, UNCHANGED <<DataVars, history>>, TypeOK',
           ~Idle(h), Exports(Now(h)), Then(h, <<x>>), x.do = "return", x.result = "returned",
           x.for = Now(h).for
    PROVE  HInv'
<1>0. PICK s : s = Now(h).for
  OBVIOUS
<1>1. TypeOK /\ Now(h) \in Step /\ Now(h) \in Steps(h) /\ StepKnown(Now(h))
  BY HeadIs DEF HInv, StepsKnown
<1>2. s \in Snapshots /\ log[s] # {} /\ (laptop[s].role = "none" \/ s \in history.mistaken)
  BY <1>0, <1>1, KindsOfSteps DEF StepKnown, Exports
<1>3. Goes(h, {x})
  BY <1>1, ThenOne
<1>4. Keeps(h) /\ Now(h).do \notin Pushing \cup {"retire"}
  BY <1>1, BusyKeeps DEF HInv, Exports, Pushing
<1>5. ASSUME NEW g \in Handlers, NEW y \in Steps(g)', Exports(y)
      PROVE  y.for # s
  <2>1. CASE g = h
    <3>1. y \in Rest(h)
      BY <1>3, <1>5, <2>1 DEF Goes, Exports
    <3> QED
      BY <1>5, <3>1 DEF HInv, JobsInOrder, Exports, Later
  <2>2. CASE g # h
    <3>1. y \in Steps(g)
      BY <1>3, <2>2 DEF Goes, Steps
    <3> QED
      BY <1>0, <1>1, <1>5, <2>2, <3>1 DEF HInv, ExportsApart
  <2> QED
    BY <2>1, <2>2
<1>6. Untouched(s)' \/ s \in history'.mistaken
  BY <1>2, <1>5 DEF Untouched, DataVars
<1>7. StepKnown(x)' /\ StepClosed(h, x)'
  BY <1>0, <1>2, <1>6 DEF StepKnown, StepClosed, Exports, DataVars
<1>8. ExportsItsOwn(h, {x})
  BY DEF ExportsItsOwn, Exports
<1> QED
  BY <1>3, <1>4, <1>7, <1>8, QuietNow

LEMMA ExportKeeps ==
    ASSUME HInv, NEW h \in Handlers, Export(h), UNCHANGED ops
    PROVE  HInv'
<1>1. TypeOK /\ UNCHANGED <<DataVars, history>> /\ returns' = returns /\ faults' = faults
  BY DEF HInv, Export, DataVars
<1>2. ~Idle(h) /\ Now(h).do = "export" /\ Exports(Now(h))
  BY DoingIs DEF Export, Exports
<1>3. Now(h) \in Step /\ Now(h) \in Steps(h) /\ StepKnown(Now(h))
  BY <1>1, <1>2, HeadIs DEF HInv, StepsKnown
<1>4. Now(h).for \in Snapshots /\ log[Now(h).for] # {}
  BY <1>2, <1>3, KindsOfSteps DEF StepKnown
<1>5. CASE Delegated
  <2>1. authority.snapshot \in Snapshots /\ authority.generation \in Nat /\ online \in Books
        /\ log[authority.snapshot] # {}
    BY <1>1, <1>5 DEF TypeOK, Delegated, MaybeSnapshot, HInv, Handed
  <2>2. PICK x \in Step :
          /\ x = [do |-> "copy", for |-> Now(h).for, snapshot |-> authority.snapshot,
                  generation |-> authority.generation, books |-> online]
          /\ Then(h, <<x>>)
    BY <1>4, <1>5, <2>1 DEF Step, Export
  <2>3. x.do = "copy" /\ x.for = Now(h).for /\ x.snapshot = authority.snapshot
    BY <2>2
  <2>4. Goes(h, {x})
    BY <1>1, <1>2, <2>2, ThenOne
  <2>5. TypeOK'
    BY <1>1, <2>4, QuietType DEF Goes, TypeOK
  <2>6. Keeps(h)
    BY <1>1, <1>2, BusyKeeps DEF HInv
  <2>7. StepKnown(x)' /\ StepClosed(h, x)'
    BY <1>1, <1>2, <1>3, <1>4, <2>1, <2>3 DEF StepKnown, StepClosed, Exports, DataVars
  <2>8. ExportsItsOwn(h, {x})
    BY <1>2, <1>3, <2>3 DEF ExportsItsOwn
  <2> QED
    BY <1>1, <1>2, <2>3, <2>4, <2>5, <2>6, <2>7, <2>8, QuietNow DEF Pushing
<1>6. CASE ~Delegated
  <2>1. PICK x \in Step :
          /\ x = [do |-> "return", for |-> Now(h).for, result |-> "returned"]
          /\ Then(h, <<x>>)
    BY <1>4, <1>6 DEF Step, Export, ReturnToPrimary, MaybeSnapshot
  <2>2. Goes(h, {x})
    BY <1>1, <1>2, <2>1, ThenOne
  <2>3. TypeOK'
    BY <1>1, <2>2, QuietType DEF Goes, TypeOK
  <2> QED
    BY <1>1, <1>2, <2>1, <2>3, ExportsKeep
<1> QED
  BY <1>5, <1>6

LEMMA ExportFailsKeeps ==
    ASSUME HInv, NEW h \in Handlers, ExportFails(h), UNCHANGED ops
    PROVE  HInv'
<1>1. TypeOK /\ UNCHANGED <<DataVars, history>> /\ returns' = returns
  BY DEF HInv, ExportFails, DataVars
<1>2. ~Idle(h) /\ Exports(Now(h))
  BY DoingIs DEF ExportFails, Exports
<1>3. Now(h) \in Step /\ Now(h).for \in Snapshots
  BY <1>1, <1>2, HeadIs, KindsOfSteps DEF Exports
<1>4. PICK x \in Step :
        /\ x = [do |-> "return", for |-> Now(h).for, result |-> "returned"]
        /\ Then(h, <<x>>)
  BY <1>3 DEF Step, ExportFails, ReturnToPrimary, MaybeSnapshot
<1>5. Goes(h, {x})
  BY <1>1, <1>2, <1>4, ThenOne
<1>6. faults' \in 0..MaxFaults
  BY <1>1, BoundsAssumption DEF ExportFails, Fault, TypeOK
<1>7. TypeOK'
  BY <1>1, <1>5, <1>6, QuietType DEF Goes, TypeOK
<1> QED
  BY <1>1, <1>2, <1>4, <1>7, ExportsKeep

LEMMA ReadSnapshotKeeps ==
    ASSUME HInv, NEW h \in Handlers, ReadSnapshot(h), UNCHANGED ops
    PROVE  HInv'
<1>1. TypeOK /\ UNCHANGED <<DataVars, history>> /\ returns' = returns /\ faults' = faults
  BY DEF HInv, ReadSnapshot, DataVars
<1>2. ~Idle(h) /\ Now(h).do = "return"
  BY DoingIs DEF ReadSnapshot
<1>3. PICK a : a = Now(h)
  OBVIOUS
<1>4. a \in Step /\ a \in Steps(h) /\ StepKnown(a) /\ StepClosed(h, a) /\ a.do = "return"
  BY <1>1, <1>2, <1>3, HeadIs DEF HInv, StepsKnown, RetiringKnown, StepsClosed
<1>5. a.for \in MaybeSnapshot /\ a.result \in {"returned", "forced"}
      /\ authority.snapshot \in MaybeSnapshot
  BY <1>1, <1>4, KindsOfSteps DEF TypeOK
<1>6. PICK x \in Step :
        /\ x = [do |-> "release", for |-> a.for, result |-> a.result,
                snapshot |-> authority.snapshot]
        /\ Then(h, <<x>>)
  BY <1>3, <1>5 DEF Step, ReadSnapshot
<1>7. x.do = "release" /\ x.for = a.for /\ x.result = a.result
      /\ x.snapshot = authority.snapshot
  BY <1>6
<1>8. Goes(h, {x})
  BY <1>1, <1>2, <1>6, ThenOne
<1>9. TypeOK'
  BY <1>1, <1>8, QuietType DEF Goes, TypeOK
<1>10. Keeps(h) /\ ExportsItsOwn(h, {x})
  BY <1>1, <1>2, <1>7, BusyKeeps DEF HInv, ExportsItsOwn, Exports
<1>11. a.for \in Snapshots => log'[a.for] # {}
  BY <1>1, <1>4 DEF StepKnown, DataVars
<1>12. ASSUME a.result = "returned"
       PROVE  /\ a.for \in Snapshots
              /\ Untouched(a.for)' \/ a.for \in history'.mistaken \/ Home(a.for)'
              /\ \/ Untouched(a.for)' \/ a.for \in history'.mistaken
                 \/ Closed(a.for)' \/ Retiring(h, a.for)'
  <2>1. a.for \in Snapshots /\ log[a.for] # {}
        /\ (Untouched(a.for) \/ a.for \in history.mistaken \/ Home(a.for))
    BY <1>4, <1>12 DEF StepKnown
  <2>2. \/ Untouched(a.for) \/ a.for \in history.mistaken
        \/ Closed(a.for) \/ Retiring(h, a.for)
    BY <1>4, <1>12 DEF StepClosed
  <2> QED
    BY <1>1, <1>2, <1>8, <1>10, <2>1, <2>2, QuietStays
<1>13. x.snapshot \in Snapshots => log'[x.snapshot] # {}
  <2>1. x.snapshot \in Snapshots => Delegated
    BY <1>1, <1>7, IdsAssumption DEF TypeOK, Delegated
  <2> QED
    BY <1>1, <1>7, <2>1 DEF HInv, Handed, DataVars
<1>14. DelegatedAs(x.for)' => x.snapshot = x.for
  BY <1>1, <1>7 DEF DelegatedAs, Delegated, DataVars
<1>15. StepKnown(x)'
  BY <1>7, <1>11, <1>12, <1>13, <1>14 DEF StepKnown, Exports
<1>16. StepClosed(h, x)'
  BY <1>7, <1>12 DEF StepClosed
<1> QED
  BY <1>1, <1>2, <1>7, <1>8, <1>9, <1>10, <1>15, <1>16, QuietNow DEF Pushing

LEMMA EmergencyKeeps ==
    ASSUME HInv, NEW h \in Handlers, Emergency(h), UNCHANGED ops
    PROVE  HInv'
<1>1. TypeOK /\ UNCHANGED <<DataVars, history>> /\ returns' = returns /\ faults' = faults
  BY DEF HInv, Emergency, DataVars
<1>2. ~Idle(h) /\ Now(h).do = "emergency"
  BY DoingIs DEF Emergency
<1>3. PICK s \in MaybeSnapshot : s = authority.snapshot
  BY <1>1 DEF TypeOK
<1>4. PICK x \in Step : x = [do |-> "return", for |-> s, result |-> "forced"]
  BY <1>3 DEF Step
<1>5. PICK y \in Step : y = [do |-> "abandon", snapshot |-> s]
  BY <1>3 DEF Step
<1>6. Then(h, <<x, y>>)
  BY <1>3, <1>4, <1>5 DEF Emergency
<1>7. x.do = "return" /\ x.for = s /\ x.result = "forced" /\ y.do = "abandon"
  BY <1>4, <1>5
<1>8. Goes(h, {x, y})
  BY <1>1, <1>2, <1>6, <1>7, ThenTwo DEF Later
<1>9. TypeOK'
  BY <1>1, <1>8, QuietType DEF Goes, TypeOK
<1>10. Keeps(h) /\ ExportsItsOwn(h, {x, y})
  BY <1>1, <1>2, <1>7, BusyKeeps DEF HInv, ExportsItsOwn, Exports
<1>11. s \in Snapshots => log'[s] # {}
  BY <1>1, <1>3, IdsAssumption DEF TypeOK, Delegated, HInv, Handed, DataVars
<1>12. StepKnown(x)' /\ StepClosed(h, x)' /\ StepKnown(y)' /\ StepClosed(h, y)'
  BY <1>7, <1>11 DEF StepKnown, StepClosed, Exports
<1> QED
  BY <1>1, <1>2, <1>7, <1>8, <1>9, <1>10, <1>12, QuietNow DEF Pushing

LEMMA ReceiveKeeps ==
    ASSUME HInv, NEW h \in Handlers, Receive(h), UNCHANGED ops
    PROVE  HInv'
<1>1. TypeOK /\ UNCHANGED <<DataVars, history>> /\ returns' = returns /\ faults' = faults
  BY DEF HInv, Receive, DataVars
<1>2. ~Idle(h) /\ Now(h).do = "receive"
  BY DoingIs DEF Receive
<1>3. PICK p : p = Now(h).package
  OBVIOUS
<1>4. /\ p \in Package /\ p.snapshot \in Snapshots /\ PackageKnown(p)
      /\ p.final => Closed(p.snapshot) \/ Retiring(h, p.snapshot)
  <2>1. Now(h) \in Step /\ Now(h) \in Steps(h)
    BY <1>1, <1>2, HeadIs
  <2>2. p \in Package
    BY <1>2, <1>3, <2>1, KindsOfSteps
  <2>3. StepKnown(Now(h)) /\ StepClosed(h, Now(h))
    BY <2>1 DEF HInv, StepsKnown, RetiringKnown, StepsClosed
  <2> QED
    BY <1>2, <1>3, <2>2, <2>3 DEF StepKnown, StepClosed, Package
<1>5. Keeps(h)
  BY <1>1, <1>2, BusyKeeps DEF HInv
<1>6. CASE DelegatedAs(p.snapshot)
  <2>1. PICK x \in Step : x = [do |-> "merge", package |-> p] /\ Then(h, <<x>>)
    BY <1>3, <1>4, <1>6 DEF Step, Receive
  <2>2. x.do = "merge" /\ x.package = p
    BY <2>1
  <2>3. Goes(h, {x})
    BY <1>1, <1>2, <2>1, ThenOne
  <2>4. TypeOK'
    BY <1>1, <2>3, QuietType DEF Goes, TypeOK
  <2>5. ExportsItsOwn(h, {x})
    BY <2>2 DEF ExportsItsOwn, Exports
  <2>6. PackageKnown(p)'
    <3>1. Advances
      BY <1>1, KeptAdvances DEF DataVars, HistoryGrows
    <3> QED
      BY <1>4, <3>1, PackageStays
  <2>7. p.final => Closed(p.snapshot)' \/ Retiring(h, p.snapshot)'
    BY <1>1, <1>2, <1>4, <1>5, <2>3, <2>5, QuietStays
  <2>8. StepKnown(x)' /\ StepClosed(h, x)'
    BY <2>2, <2>6, <2>7 DEF StepKnown, StepClosed, Exports
  <2> QED
    BY <1>1, <1>2, <1>5, <2>2, <2>3, <2>4, <2>5, <2>8, QuietNow DEF Pushing
<1>7. CASE ~DelegatedAs(p.snapshot)
  <2>1. Stops(h)
    BY <1>1, <1>3, <1>7, RefuseStops DEF Receive
  <2>2. TypeOK'
    BY <1>1, <2>1, QuietType DEF Stops, TypeOK
  <2> QED
    BY <1>1, <1>2, <1>5, <2>1, <2>2, QuietStop
<1> QED
  BY <1>6, <1>7

LEMMA RecheckKeeps ==
    ASSUME HInv, NEW h \in Handlers, Recheck(h), UNCHANGED ops
    PROVE  HInv'
<1>1. TypeOK /\ UNCHANGED <<DataVars, history>> /\ returns' = returns /\ faults' = faults
  BY DEF HInv, Recheck, DataVars
<1>2. ~Idle(h) /\ Now(h).do = "recheck"
  BY DoingIs DEF Recheck
<1>3. PICK s, n : s = Now(h).snapshot /\ n = Now(h).generation
  OBVIOUS
<1>4. s \in Snapshots /\ n \in Nat /\ Home(s) /\ Closed(s)
  <2>1. Now(h) \in Step /\ Now(h) \in Steps(h)
    BY <1>1, <1>2, HeadIs
  <2>2. StepKnown(Now(h)) /\ StepClosed(h, Now(h))
    BY <2>1 DEF HInv, StepsKnown, RetiringKnown, StepsClosed
  <2> QED
    BY <1>2, <1>3, <2>1, <2>2, KindsOfSteps DEF StepKnown, StepClosed
<1>5. Keeps(h)
  BY <1>1, <1>2, BusyKeeps DEF HInv
<1>6. PICK y \in Step : y = [do |-> "settle", snapshot |-> s, generation |-> n]
  BY <1>4 DEF Step
<1>7. y.do = "settle"
  BY <1>6
<1>8. StepKnown(y)' /\ StepClosed(h, y)'
  BY <1>7 DEF StepKnown, StepClosed, Exports
<1>9. CASE DelegatedAs(s)
  <2>1. PICK x \in Step : x = [do |-> "return", for |-> s, result |-> "returned"]
    BY <1>4 DEF Step, MaybeSnapshot
  <2>2. x.do = "return" /\ x.for = s /\ x.result = "returned"
    BY <2>1
  <2>3. Then(h, <<x, y>>)
    <3>1. Then(h, <<x>> \o <<y>>)
      BY <1>3, <1>6, <1>9, <2>1 DEF Recheck, ReturnToPrimary
    <3>2. <<x>> \o <<y>> = <<x, y>>
      BY TwoSteps
    <3> QED
      BY <3>1, <3>2
  <2>4. Goes(h, {x, y})
    BY <1>1, <1>2, <1>7, <2>3, ThenTwo DEF Later
  <2>5. TypeOK'
    BY <1>1, <2>4, QuietType DEF Goes, TypeOK
  <2>6. ExportsItsOwn(h, {x, y})
    BY <1>7, <2>2 DEF ExportsItsOwn, Exports
  <2>7. log[s] # {}
    BY <1>9 DEF DelegatedAs, HInv, Handed
  <2>8. log'[s] # {} /\ Home(s)' /\ Closed(s)'
    BY <1>1, <1>2, <1>4, <1>5, <2>4, <2>6, <2>7, QuietStays
  <2>9. StepKnown(x)' /\ StepClosed(h, x)'
    BY <1>4, <2>2, <2>8 DEF StepKnown, StepClosed, Exports
  <2> QED
    BY <1>1, <1>2, <1>5, <1>7, <1>8, <2>2, <2>4, <2>5, <2>6, <2>9, QuietNow DEF Pushing
<1>10. CASE ~DelegatedAs(s)
  <2>1. Then(h, <<y>>)
    BY <1>3, <1>6, <1>10 DEF Recheck
  <2>2. Goes(h, {y})
    BY <1>1, <1>2, <2>1, ThenOne
  <2>3. TypeOK'
    BY <1>1, <2>2, QuietType DEF Goes, TypeOK
  <2>4. ExportsItsOwn(h, {y})
    BY <1>7 DEF ExportsItsOwn, Exports
  <2> QED
    BY <1>1, <1>2, <1>5, <1>7, <1>8, <2>2, <2>3, <2>4, QuietNow DEF Pushing
<1> QED
  BY <1>9, <1>10

-----------------------------------------------------------------------------
(* Mails are sent *)

MailStep(x) == x.do \in {"deliver", "mark"}

LEMMA MailsKeep ==
    ASSUME HInv, TypeOK', NEW h \in Handlers, ~Idle(h),
           Now(h).do \in {"flush", "deliver", "mark"}, NEW N, Goes(h, N),
           \A x \in N : MailStep(x), UNCHANGED <<OtherVars, history>>,
           \A m \in Mails : outbox[m].state # "none" => outbox'[m].state # "none"
    PROVE  HInv'
<1>1. TypeOK /\ StepsKnown /\ HistoryGrows /\ history'.slipped = history.slipped
  BY DEF HInv, HistoryGrows
<1>2. Advances
  <2>1. \A s \in Snapshots : LaptopAdvances(s)
    BY DEF LaptopAdvances, OtherVars, Timely, Works, Retired
  <2> QED
    BY <1>1, <2>1 DEF Advances, OtherVars, DelegatedAs, Delegated
<1>3. GoesOn(h, N)
  BY <1>1, NowGoesOn DEF MailStep, Pushing
<1>4. Moves(h, N)
  BY <1>3 DEF GoesOn
<1>5. ExportsItsOwn(h, N) /\ RightNext(h, N)
  BY DEF ExportsItsOwn, RightNext, MailStep, Exports, StepKnown, StepClosed
<1>6. OpensApart /\ BooksApart
  BY <1>1, <1>4, <1>5, KeptOpens, KeptBooks DEF OtherVars
<1>7. Keeps(h)
  BY <1>1, SendingKeeps DEF HInv, MailStep
<1>8. JobsInOrder' /\ ExportsApart' /\ ImportsApart' /\ WritesApart' /\ StepsKnown'
      /\ StepsClosed'
  BY <1>2, <1>3, <1>5, <1>6, <1>7, JobsStay
<1>9. Handed' /\ FilesKnown' /\ ConflictsKnown' /\ MergesKnown' /\ ReturnedKnown'
      /\ RetiringKnown'
  BY <1>1, <1>2, <1>4, <1>6, <1>7, <1>8, OthersKeep, DataStays, HandedStays
     DEF OtherVars, RestVars, HInv, Handed
<1> QED
  BY <1>8, <1>9 DEF HInv

LEMMA SendingGoes ==
    ASSUME TypeOK, NEW h \in Handlers, ~Idle(h), NEW mails \in SUBSET Mails,
           Then(h, Sending(mails))
    PROVE  \E N : Goes(h, N) /\ \A x \in N : MailStep(x)
<1>1. CASE mails = {}
  <2>1. Goes(h, {})
    BY <1>1, ThenNothing DEF Sending
  <2> QED
    BY <2>1
<1>2. CASE mails # {}
  <2>1. PICK x \in Step : x = [do |-> "deliver", mails |-> mails] /\ Then(h, <<x>>)
    BY <1>2 DEF Step, Sending
  <2>2. Goes(h, {x})
    BY <2>1, ThenOne
  <2> QED
    BY <2>1, <2>2 DEF MailStep
<1> QED
  BY <1>1, <1>2

LEMMA FlushKeeps ==
    ASSUME HInv, NEW h \in Handlers, Flush(h), UNCHANGED ops
    PROVE  HInv'
<1>1. TypeOK /\ UNCHANGED <<DataVars, history>> /\ returns' = returns /\ faults' = faults
  BY DEF HInv, Flush, DataVars
<1>2. ~Idle(h) /\ Now(h).do = "flush"
  BY DoingIs DEF Flush
<1>3. PICK mails \in SUBSET Mails : Then(h, Sending(mails))
  BY DEF Flush, Unsent
<1>4. PICK N : Goes(h, N) /\ \A x \in N : MailStep(x)
  BY <1>1, <1>2, <1>3, SendingGoes
<1>5. TypeOK'
  BY <1>1, <1>4, QuietType DEF Goes, TypeOK
<1> QED
  BY <1>1, <1>2, <1>4, <1>5, MailsKeep DEF DataVars, OtherVars

LEMMA DeliverFailsKeeps ==
    ASSUME HInv, NEW h \in Handlers, DeliverFails(h), UNCHANGED ops
    PROVE  HInv'
<1>1. TypeOK /\ UNCHANGED <<DataVars, history>> /\ returns' = returns
  BY DEF HInv, DeliverFails, DataVars
<1>2. ~Idle(h) /\ Now(h).do = "deliver"
  BY DoingIs DEF DeliverFails
<1>3. Now(h).mails \in SUBSET Mails
  BY <1>1, <1>2, HeadIs, KindsOfSteps
<1>4. PICK mails \in SUBSET Mails : Then(h, Sending(mails))
  BY <1>3 DEF DeliverFails
<1>5. PICK N : Goes(h, N) /\ \A x \in N : MailStep(x)
  BY <1>1, <1>2, <1>4, SendingGoes
<1>6. faults' \in 0..MaxFaults
  BY <1>1, BoundsAssumption DEF DeliverFails, Fault, TypeOK
<1>7. TypeOK'
  BY <1>1, <1>5, <1>6, QuietType DEF Goes, TypeOK
<1> QED
  BY <1>1, <1>2, <1>5, <1>7, MailsKeep DEF DataVars, OtherVars

LEMMA MailHousekeepingKeeps ==
    ASSUME HInv, NEW h \in Handlers, MailHousekeeping(h), UNCHANGED ops
    PROVE  HInv'
<1>1. TypeOK /\ UNCHANGED <<DataVars, history>> /\ returns' = returns /\ faults' = faults
  BY DEF HInv, MailHousekeeping, DataVars
<1>2. PICK x \in Step : x = [do |-> "deliver", mails |-> Unsent] /\ Start(h, <<x>>)
  BY DEF Step, MailHousekeeping, Sending, Unsent
<1>3. job' \in [Handlers -> Seq(Step)]
  BY <1>1, <1>2, StartOne DEF Goes
<1>4. TypeOK' /\ HistoryGrows /\ history'.slipped = history.slipped
  BY <1>1, <1>3, QuietType DEF TypeOK, HistoryGrows
<1>5. StepKnown(x)'
  BY <1>2 DEF StepKnown, Exports
<1> QED
  BY <1>1, <1>2, <1>4, <1>5, QuietStart

LEMMA DeliverKeeps ==
    ASSUME HInv, NEW h \in Handlers, Deliver(h), UNCHANGED ops
    PROVE  HInv'
<1>1. TypeOK /\ UNCHANGED <<OtherVars, history>> /\ returns' = returns /\ faults' = faults
  BY DEF HInv, Deliver, OtherVars
<1>2. ~Idle(h) /\ Now(h).do = "deliver"
  BY DoingIs DEF Deliver
<1>3. PICK all \in SUBSET Mails : all = Now(h).mails
  BY <1>1, <1>2, HeadIs, KindsOfSteps
<1>4. PICK m \in all :
        \/ /\ outbox' = [outbox EXCEPT ![m].copies = @ + 1]
           /\ Then(h, <<[do |-> "mark", mail |-> m]>> \o Sending(all \ {m}))
        \/ /\ outbox' = [outbox EXCEPT ![m].state = "sent"]
           /\ Then(h, Sending(all \ {m}))
  BY <1>3 DEF Deliver
<1>5. /\ outbox' \in [Mails -> [state : {"none", "queued", "sent"}, copies : Nat]]
      /\ \A n \in Mails : outbox[n].state # "none" => outbox'[n].state # "none"
  <2>1. outbox \in [Mails -> [state : {"none", "queued", "sent"}, copies : Nat]]
    BY <1>1 DEF TypeOK
  <2>2. outbox[m] \in [state : {"none", "queued", "sent"}, copies : Nat] /\ m \in Mails
    BY <1>4, <2>1
  <2>3. PICK now \in [state : {"none", "queued", "sent"}, copies : Nat] :
          outbox' = [outbox EXCEPT ![m] = now] /\ (outbox[m].state # "none" => now.state # "none")
    <3>1. CASE outbox' = [outbox EXCEPT ![m].copies = @ + 1]
      <4>1. outbox' = [outbox EXCEPT ![m] = [outbox[m] EXCEPT !.copies = @ + 1]]
        BY <3>1
      <4>2. /\ [outbox[m] EXCEPT !.copies = @ + 1] \in
                 [state : {"none", "queued", "sent"}, copies : Nat]
            /\ [outbox[m] EXCEPT !.copies = @ + 1].state = outbox[m].state
        BY <2>2
      <4> QED
        BY <4>1, <4>2
    <3>2. CASE outbox' = [outbox EXCEPT ![m].state = "sent"]
      <4>1. outbox' = [outbox EXCEPT ![m] = [outbox[m] EXCEPT !.state = "sent"]]
        BY <3>2
      <4>2. /\ [outbox[m] EXCEPT !.state = "sent"] \in
                 [state : {"none", "queued", "sent"}, copies : Nat]
            /\ [outbox[m] EXCEPT !.state = "sent"].state = "sent"
        BY <2>2
      <4> QED
        BY <4>1, <4>2
    <3> QED
      BY <1>4, <3>1, <3>2
  <2> QED
    BY <2>1, <2>2, <2>3
<1>6. \E N : Goes(h, N) /\ \A x \in N : MailStep(x)
  <2>1. CASE Then(h, <<[do |-> "mark", mail |-> m]>> \o Sending(all \ {m}))
    <3>1. PICK x \in Step : x = [do |-> "mark", mail |-> m]
      BY <1>4 DEF Step
    <3>2. CASE all \ {m} = {}
      <4>1. <<x>> \o <<>> = <<x>>
        BY TwoSteps
      <4>2. Then(h, <<x>>)
        BY <2>1, <3>1, <3>2, <4>1 DEF Sending
      <4>3. Goes(h, {x})
        BY <1>1, <1>2, <4>2, ThenOne
      <4> QED
        BY <3>1, <4>3 DEF MailStep
    <3>3. CASE all \ {m} # {}
      <4>1. PICK y \in Step : y = [do |-> "deliver", mails |-> all \ {m}]
        BY DEF Step
      <4>2. <<x>> \o <<y>> = <<x, y>>
        BY TwoSteps
      <4>3. Then(h, <<x, y>>)
        BY <2>1, <3>1, <3>3, <4>1, <4>2 DEF Sending
      <4>4. Goes(h, {x, y})
        BY <1>1, <1>2, <4>1, <4>3, ThenTwo DEF Later
      <4> QED
        BY <3>1, <4>1, <4>4 DEF MailStep
    <3> QED
      BY <3>2, <3>3
  <2>2. CASE Then(h, Sending(all \ {m}))
    BY <1>1, <1>2, <2>2, SendingGoes
  <2> QED
    BY <1>4, <2>1, <2>2
<1>7. PICK N : Goes(h, N) /\ \A x \in N : MailStep(x)
  BY <1>6
<1>8. TypeOK'
  BY <1>1, <1>5, <1>7 DEF Goes, TypeOK, OtherVars
<1> QED
  BY <1>1, <1>2, <1>5, <1>7, <1>8, MailsKeep

LEMMA MarkKeeps ==
    ASSUME HInv, NEW h \in Handlers, Mark(h), UNCHANGED ops
    PROVE  HInv'
<1>1. TypeOK /\ UNCHANGED <<OtherVars, history>> /\ returns' = returns /\ faults' = faults
  BY DEF HInv, Mark, OtherVars
<1>2. ~Idle(h) /\ Now(h).do = "mark"
  BY DoingIs DEF Mark
<1>3. PICK m \in Mails : m = Now(h).mail
  BY <1>1, <1>2, HeadIs, KindsOfSteps
<1>4. /\ outbox' \in [Mails -> [state : {"none", "queued", "sent"}, copies : Nat]]
      /\ \A n \in Mails : outbox[n].state # "none" => outbox'[n].state # "none"
  <2>1. outbox \in [Mails -> [state : {"none", "queued", "sent"}, copies : Nat]]
    BY <1>1 DEF TypeOK
  <2>2. outbox' = [outbox EXCEPT ![m] = [outbox[m] EXCEPT !.state = "sent"]]
    BY <1>3 DEF Mark
  <2>3. [outbox[m] EXCEPT !.state = "sent"] \in
          [state : {"none", "queued", "sent"}, copies : Nat]
        /\ [outbox[m] EXCEPT !.state = "sent"].state = "sent"
    BY <2>1
  <2> QED
    BY <2>1, <2>2, <2>3
<1>5. Goes(h, {})
  BY <1>1, <1>2, ThenNothing DEF Mark
<1>6. TypeOK'
  BY <1>1, <1>4, <1>5 DEF Goes, TypeOK, OtherVars
<1> QED
  BY <1>1, <1>2, <1>4, <1>5, <1>6, MailsKeep

-----------------------------------------------------------------------------
(* Writing online *)

LEMMA BookedIs ==
    ASSUME NEW b \in Books, NEW w \in Writes
    PROVE  /\ Booked(b, w) \in Books
           /\ Booked(b, w).ledger = b.ledger \cup ({w} \ {CheckIn})
           /\ Booked(b, w).status = IF w = CheckIn THEN "checked_in" ELSE b.status
<1>1. CASE w = CheckIn
  BY <1>1 DEF Booked, Books
<1>2. CASE w # CheckIn
  <2>1. w \in Entries
    BY <1>2 DEF Writes
  <2>2. PICK l, n : l = b.ledger \cup {w} /\ n = b.balance + 1
    OBVIOUS
  <2>3. Booked(b, w) = [b EXCEPT !.ledger = l, !.balance = n]
    BY <1>2, <2>2 DEF Booked
  <2>4. n \in Int /\ l \in SUBSET Entries
    BY <2>1, <2>2 DEF Books
  <2>5. PICK c : c = [b EXCEPT !.ledger = l, !.balance = n]
    OBVIOUS
  <2>6. c \in Books /\ c.ledger = l /\ c.status = b.status
    BY <2>4, <2>5 DEF Books
  <2> QED
    BY <1>2, <2>2, <2>3, <2>5, <2>6
<1> QED
  BY <1>1, <1>2

\* The data parts, when only the books online change.
LEMMA OnlineAdvances ==
    ASSUME UNCHANGED <<authority, log, conflicts, outbox, laptop>>, HistoryGrows,
           online.ledger \subseteq online'.ledger,
           online.status = "checked_in" => online'.status = "checked_in"
    PROVE  Advances
<1>1. \A s \in Snapshots : LaptopAdvances(s)
  BY DEF LaptopAdvances, HistoryGrows, Timely, Works, Retired
<1> QED
  BY <1>1 DEF Advances, DelegatedAs, Delegated

HistoryType ==
    history \in [slipped : SUBSET Entries,
                 late : SUBSET (Snapshots \X (Writes \cup Mails)),
                 closing : SUBSET Snapshots, unanswered : SUBSET Snapshots,
                 mistaken : SUBSET Snapshots]

LEMMA PastIs ==
    ASSUME HistoryType, NEW more
    PROVE  /\ more \subseteq Entries /\ Past("slipped", more) =>
                /\ HistoryType' /\ HistoryGrows
                /\ history'.slipped = history.slipped \cup more
                /\ history'.late = history.late /\ history'.closing = history.closing
           /\ more \subseteq Snapshots /\ Past("mistaken", more) =>
                /\ HistoryType' /\ HistoryGrows
                /\ history'.slipped = history.slipped /\ more \subseteq history'.mistaken
                /\ history'.late = history.late /\ history'.closing = history.closing
           /\ more \subseteq Snapshots /\ Past("unanswered", more) =>
                /\ HistoryType' /\ HistoryGrows
                /\ history'.slipped = history.slipped /\ more \subseteq history'.unanswered
                /\ history'.late = history.late /\ history'.closing = history.closing
           /\ more \subseteq Snapshots \X (Writes \cup Mails) /\ Past("late", more) =>
                /\ HistoryType' /\ HistoryGrows
                /\ history'.slipped = history.slipped /\ more \subseteq history'.late
                /\ history'.closing = history.closing
BY DEF HistoryType, Past, HistoryGrows

LEMMA SlippedIs ==
    ASSUME TypeOK, NEW w \in Writes, Slipped(w)
    PROVE  /\ HistoryType' /\ HistoryGrows /\ history'.closing = history.closing
           /\ history'.slipped \subseteq history.slipped \cup ({w} \ {CheckIn})
           /\ history'.slipped = history.slipped \cup (IF Delegated THEN {w} \ {CheckIn} ELSE {})
<1> DEFINE more == IF Delegated THEN {w} \ {CheckIn} ELSE {}
<1>1. HistoryType
  BY DEF TypeOK, HistoryType
<1>2. Past("slipped", more)
  BY DEF Slipped
<1>3. more \subseteq Entries /\ more \subseteq {w} \ {CheckIn}
  BY DEF Writes
<1>4. more = IF Delegated THEN {w} \ {CheckIn} ELSE {}
  OBVIOUS
<1> HIDE DEF more
<1>5. HistoryType' /\ HistoryGrows /\ history'.slipped = history.slipped \cup more
      /\ history'.closing = history.closing
  BY <1>1, <1>2, <1>3, PastIs
<1> QED
  BY <1>3, <1>4, <1>5

LEMMA WriteKeeps ==
    ASSUME HInv, NEW h \in Handlers, Write(h), UNCHANGED ops
    PROVE  HInv'
<1>1. /\ TypeOK /\ UNCHANGED <<RestVars, laptop, outbox>> /\ returns' = returns
      /\ faults' = faults
  BY DEF HInv, Write, RestVars
<1>2. ~Idle(h) /\ Now(h).do = "write"
  BY DoingIs DEF Write
<1>3. PICK w \in Writes : w = Now(h).what
  BY <1>1, <1>2, HeadIs, KindsOfSteps
<1>4. Now(h) \in Steps(h)
  BY <1>1, <1>2, HeadIs
<1>5. /\ online' \in Books /\ online'.ledger = online.ledger \cup ({w} \ {CheckIn})
      /\ online.status = "checked_in" => online'.status = "checked_in"
  <2>1. online' = Booked(online, w) /\ online \in Books
    BY <1>1, <1>3 DEF Write, TypeOK
  <2> QED
    BY <2>1, BookedIs
<1>6. HistoryType' /\ HistoryGrows /\ history'.slipped \subseteq online'.ledger
      /\ history'.closing = history.closing
  <2>1. Slipped(w) /\ history.slipped \subseteq online.ledger
    BY <1>3 DEF Write, HInv, Handed
  <2> QED
    BY <1>1, <1>5, <2>1, SlippedIs
<1>7. Goes(h, {})
  BY <1>1, <1>2, ThenNothing DEF Write
<1>8. TypeOK'
  BY <1>1, <1>5, <1>6, <1>7 DEF TypeOK, HistoryType, Goes, RestVars
<1>9. Advances
  BY <1>1, <1>5, <1>6, OnlineAdvances DEF RestVars
<1>10. GoesOn(h, {}) /\ Keeps(h)
  BY <1>1, <1>2, <1>7, NowGoesOn, BusyKeeps DEF HInv
<1>11. RightNext(h, {}) /\ ExportsItsOwn(h, {}) /\ Moves(h, {}) /\ AllKeep
  BY <1>10, OthersKeep DEF RightNext, ExportsItsOwn, GoesOn
<1>12. OpensApart
  BY <1>1, <1>11, KeptOpens DEF HInv
<1>13. BooksApart
  <2> SUFFICES ASSUME NEW e \in Entries, Unbooked(e), NEW g \in Handlers,
                      NEW x \in Steps(g)', x.do = "write", x.what = e
               PROVE  Unbooked(e)'
    BY DEF BooksApart
  <2>1. CASE g = h
    <3>1. x \in Rest(h)
      BY <1>7, <2>1 DEF Goes
    <3> QED
      BY <3>1 DEF HInv, JobsInOrder, Later
  <2>2. CASE g # h
    <3>1. x \in Steps(g)
      BY <1>11, <2>2, OthersStay
    <3>2. e # CheckIn
      BY IdsAssumption
    <3>3. e # w
      BY <1>2, <1>3, <1>4, <2>2, <3>1, <3>2 DEF HInv, WritesApart
    <3> QED
      BY <1>1, <1>5, <3>3 DEF Unbooked
  <2> QED
    BY <2>1, <2>2
<1>14. JobsInOrder' /\ ExportsApart' /\ ImportsApart' /\ WritesApart' /\ StepsKnown'
       /\ StepsClosed'
  BY <1>8, <1>9, <1>10, <1>11, <1>12, <1>13, JobsStay
<1>15. FilesKnown' /\ ConflictsKnown' /\ MergesKnown' /\ ReturnedKnown' /\ RetiringKnown'
  BY <1>1, <1>8, <1>9, <1>11, <1>12, <1>14, DataStays
<1>16. Handed'
  BY <1>1, <1>6, HandedStays DEF HInv, RestVars
<1> QED
  BY <1>8, <1>14, <1>15, <1>16 DEF HInv

\* Without a handler.
LEMMA RestOpens ==
    ASSUME UNCHANGED <<job, laptop>>
    PROVE  OpensApart
BY DEF OpensApart, Steps, Has

LEMMA OnlineKeeps ==
    ASSUME HInv, TypeOK', UNCHANGED <<RestVars, laptop, outbox, job>>, HistoryGrows,
           BooksApart, history'.slipped \subseteq online'.ledger,
           history'.closing = history.closing,
           online.ledger \subseteq online'.ledger,
           online.status = "checked_in" => online'.status = "checked_in"
    PROVE  HInv'
<1>1. Advances /\ OpensApart
  BY OnlineAdvances, RestOpens DEF RestVars
<1>2. JobsInOrder' /\ ExportsApart' /\ ImportsApart' /\ WritesApart' /\ StepsKnown'
       /\ StepsClosed' /\ AllKeep
  BY <1>1, JobsRest
<1>3. FilesKnown' /\ ConflictsKnown' /\ MergesKnown' /\ ReturnedKnown' /\ RetiringKnown'
  BY <1>1, <1>2, DataStays
<1>4. Handed'
  BY HandedStays DEF HInv, RestVars
<1> QED
  BY <1>2, <1>3, <1>4 DEF HInv

LEMMA WebhookTopUpKeeps ==
    ASSUME HInv, NEW w \in Entries, WebhookTopUp(w), UNCHANGED ops
    PROVE  HInv'
<1>1. /\ TypeOK /\ UNCHANGED <<RestVars, laptop, outbox, job>> /\ returns' = returns
      /\ faults' = faults /\ w # CheckIn /\ w \in Writes
  BY IdsAssumption DEF HInv, WebhookTopUp, RestVars, Writes
<1>2. /\ online' \in Books /\ online'.ledger = online.ledger \cup {w}
      /\ online.status = "checked_in" => online'.status = "checked_in"
  <2>1. online' = Booked(online, w) /\ online \in Books
    BY <1>1 DEF WebhookTopUp, TypeOK
  <2> QED
    BY <1>1, <2>1, BookedIs
<1>3. HistoryType' /\ HistoryGrows /\ history'.slipped \subseteq online'.ledger
      /\ history'.closing = history.closing
  <2>1. Slipped(w) /\ history.slipped \subseteq online.ledger
    BY DEF WebhookTopUp, HInv, Handed
  <2> QED
    BY <1>1, <1>2, <2>1, SlippedIs
<1>4. TypeOK'
  BY <1>1, <1>2, <1>3 DEF TypeOK, HistoryType, RestVars
<1>5. \A g \in Handlers : \A y \in Steps(g) : y.do = "write" => y.what # w
  BY <1>1, NewIsUnused DEF WebhookTopUp
<1>6. BooksApart
  BY <1>1, <1>2, <1>5 DEF BooksApart, Unbooked, Steps
<1> QED
  BY <1>1, <1>2, <1>3, <1>4, <1>6, OnlineKeeps

LEMMA CancelOnlineKeeps ==
    ASSUME HInv, CancelOnline, UNCHANGED ops
    PROVE  HInv'
<1>1. /\ TypeOK /\ UNCHANGED <<RestVars, laptop, outbox, job, history>> /\ returns' = returns
      /\ faults' = faults /\ online.status = "confirmed"
  BY DEF HInv, CancelOnline, RestVars
<1>2. online' \in Books /\ online'.ledger = online.ledger
  BY <1>1 DEF CancelOnline, TypeOK, Books
<1>3. TypeOK' /\ HistoryGrows /\ history'.slipped \subseteq online'.ledger
  BY <1>1, <1>2 DEF TypeOK, RestVars, HistoryGrows, HInv, Handed
<1>4. BooksApart
  BY <1>1, <1>2 DEF BooksApart, Unbooked
<1> QED
  BY <1>1, <1>2, <1>3, <1>4, OnlineKeeps

-----------------------------------------------------------------------------
(* The laptop *)

LaptopType ==
    [role : {"none", "file", "loaded", "offline_primary", "retired"},
     handed : Nat, generation : Nat, books : Books, mails : SUBSET Mails]

LEMMA LaptopsAre ==
    ASSUME TypeOK, NEW s \in Snapshots
    PROVE  laptop[s] \in LaptopType /\ laptop \in [Snapshots -> LaptopType]
BY DEF TypeOK, LaptopType

LEMMA OneLaptop ==
    ASSUME TypeOK, NEW s \in Snapshots, NEW l \in LaptopType, laptop' = [laptop EXCEPT ![s] = l]
    PROVE  /\ laptop' \in [Snapshots -> LaptopType] /\ laptop'[s] = l
           /\ \A t \in Snapshots \ {s} : laptop'[t] = laptop[t]
BY LaptopsAre

LEMMA LaptopAdvanced ==
    ASSUME UNCHANGED <<authority, log, online, conflicts, outbox>>, HistoryGrows,
           NEW s \in Snapshots, \A t \in Snapshots \ {s} : laptop'[t] = laptop[t],
           LaptopAdvances(s)
    PROVE  Advances
<1>1. \A t \in Snapshots : LaptopAdvances(t)
  <2> SUFFICES ASSUME NEW t \in Snapshots, t # s
               PROVE  LaptopAdvances(t)
    OBVIOUS
  <2> QED
    BY DEF LaptopAdvances, HistoryGrows, Timely, Works, Retired
<1> QED
  BY <1>1 DEF Advances, DelegatedAs, Delegated

\* The staff books, checks in, or writes a mail.
LEMMA LaptopKeeps ==
    ASSUME HInv, TypeOK', UNCHANGED <<RestVars, online, outbox, job>>, HistoryGrows,
           history'.slipped = history.slipped, history'.closing = history.closing, BooksApart,
           NEW s \in Snapshots, \A t \in Snapshots \ {s} : laptop'[t] = laptop[t],
           LaptopAdvances(s), laptop[s].role # "none", laptop'[s].role = laptop[s].role
    PROVE  HInv'
<1>1. Advances
  BY LaptopAdvanced DEF RestVars
<1>2. \A t \in Snapshots : laptop'[t].role = laptop[t].role
  OBVIOUS
<1>3. OpensApart
  BY <1>2 DEF OpensApart, Steps
<1>4. JobsInOrder' /\ ExportsApart' /\ ImportsApart' /\ WritesApart' /\ StepsKnown'
       /\ StepsClosed' /\ AllKeep
  BY <1>1, <1>3, JobsRest
<1>5. FilesKnown' /\ ConflictsKnown' /\ MergesKnown' /\ ReturnedKnown' /\ RetiringKnown'
  BY <1>1, <1>3, <1>4, DataStays
<1>6. Handed'
  <2>1. history'.closing \subseteq Snapshots
    BY DEF TypeOK
  <2>2. \A t \in Snapshots : laptop'[t].role = "none" => laptop'[t] = laptop[t]
    OBVIOUS
  <2> QED
    BY <1>2, <2>1, <2>2 DEF HInv, Handed, RestVars, Delegated, Works
<1> QED
  BY <1>4, <1>5, <1>6 DEF HInv

LEMMA LateIs ==
    ASSUME TypeOK, NEW s \in Snapshots, NEW w \in Writes \cup Mails, Late(s, w)
    PROVE  /\ HistoryType' /\ HistoryGrows /\ history'.slipped = history.slipped
           /\ history'.closing = history.closing
           /\ s \in history.closing => ~Timely(s, w)'
<1> DEFINE more == IF s \in history.closing THEN {<<s, w>>} ELSE {}
<1>1. HistoryType /\ Past("late", more) /\ more \subseteq Snapshots \X (Writes \cup Mails)
  BY DEF TypeOK, HistoryType, Late
<1>2. s \in history.closing => <<s, w>> \in more
  OBVIOUS
<1> HIDE DEF more
<1>3. /\ HistoryType' /\ HistoryGrows
      /\ history'.slipped = history.slipped /\ more \subseteq history'.late
      /\ history'.closing = history.closing
  BY <1>1, PastIs
<1> QED
  BY <1>2, <1>3 DEF Timely

LEMMA LaptopWriteKeeps ==
    ASSUME HInv, NEW s \in Snapshots, NEW w \in Writes, LaptopWrite(s, w), UNCHANGED ops
    PROVE  HInv'
<1>1. /\ TypeOK /\ UNCHANGED <<RestVars, online, outbox, job>> /\ returns' = returns
      /\ faults' = faults /\ Works(s)
  BY DEF HInv, LaptopWrite, RestVars, MayWork, Works
<1>2. laptop[s] \in LaptopType /\ laptop[s].books \in Books
  BY <1>1, LaptopsAre DEF LaptopType
<1>3. PICK b : b = Booked(laptop[s].books, w)
  OBVIOUS
<1>4. /\ b \in Books /\ b.ledger = laptop[s].books.ledger \cup ({w} \ {CheckIn})
      /\ b.status = IF w = CheckIn THEN "checked_in" ELSE laptop[s].books.status
  BY <1>2, <1>3, BookedIs
<1>5. PICK l : l = [laptop[s] EXCEPT !.books = b]
  OBVIOUS
<1>6. /\ l \in LaptopType /\ l.role = laptop[s].role /\ l.books = b
      /\ l.mails = laptop[s].mails
  BY <1>2, <1>4, <1>5 DEF LaptopType
<1>7. laptop' = [laptop EXCEPT ![s] = l]
  BY <1>3, <1>5 DEF LaptopWrite
<1>8. /\ laptop' \in [Snapshots -> LaptopType] /\ laptop'[s] = l
      /\ \A t \in Snapshots \ {s} : laptop'[t] = laptop[t]
  BY <1>1, <1>6, <1>7, OneLaptop
<1>9. /\ HistoryType' /\ HistoryGrows /\ history'.slipped = history.slipped
      /\ history'.closing = history.closing
      /\ s \in history.closing => ~Timely(s, w)'
  BY <1>1, LateIs DEF LaptopWrite
<1>10. TypeOK'
  BY <1>1, <1>8, <1>9 DEF TypeOK, HistoryType, LaptopType, RestVars
<1>11. LaptopAdvances(s)
  BY <1>4, <1>6, <1>8, <1>9 DEF LaptopAdvances, Works, Retired
<1>12. BooksApart
  <2>1. w # CheckIn => \A g \in Handlers : \A y \in Steps(g) : y.do = "write" => y.what # w
    BY NewIsUnused DEF LaptopWrite
  <2>2. \A e \in Entries : Unbooked(e) /\ e # w => Unbooked(e)'
    BY <1>1, <1>4, <1>6, <1>8 DEF Unbooked
  <2>3. CheckIn \notin Entries
    BY IdsAssumption
  <2> QED
    BY <1>1, <2>1, <2>2, <2>3 DEF BooksApart, Steps
<1> QED
  BY <1>1, <1>6, <1>8, <1>9, <1>10, <1>11, <1>12, LaptopKeeps DEF Works

LEMMA LaptopMailKeeps ==
    ASSUME HInv, NEW s \in Snapshots, NEW m \in Mails, LaptopMail(s, m), UNCHANGED ops
    PROVE  HInv'
<1>1. /\ TypeOK /\ UNCHANGED <<RestVars, online, outbox, job>> /\ returns' = returns
      /\ faults' = faults /\ Works(s)
  BY DEF HInv, LaptopMail, RestVars, MayWork, Works
<1>2. laptop[s] \in LaptopType
  BY <1>1, LaptopsAre
<1>3. PICK l : l = [laptop[s] EXCEPT !.mails = laptop[s].mails \cup {m}]
  OBVIOUS
<1>4. /\ l \in LaptopType /\ l.role = laptop[s].role /\ l.books = laptop[s].books
      /\ l.mails = laptop[s].mails \cup {m}
  BY <1>2, <1>3 DEF LaptopType
<1>5. laptop' = [laptop EXCEPT ![s] = l]
  BY <1>3 DEF LaptopMail
<1>6. /\ laptop' \in [Snapshots -> LaptopType] /\ laptop'[s] = l
      /\ \A t \in Snapshots \ {s} : laptop'[t] = laptop[t]
  BY <1>1, <1>4, <1>5, OneLaptop
<1>7. /\ HistoryType' /\ HistoryGrows /\ history'.slipped = history.slipped
      /\ history'.closing = history.closing
      /\ s \in history.closing => ~Timely(s, m)'
  BY <1>1, LateIs DEF LaptopMail
<1>8. TypeOK'
  BY <1>1, <1>6, <1>7 DEF TypeOK, HistoryType, LaptopType, RestVars
<1>9. LaptopAdvances(s)
  BY <1>4, <1>6, <1>7 DEF LaptopAdvances, Works, Retired, HistoryGrows, Timely
<1>10. BooksApart
  <2>1. \A t \in Snapshots : laptop'[t].books = laptop[t].books
    BY <1>4, <1>6
  <2> QED
    BY <1>1, <2>1 DEF BooksApart, Unbooked
<1> QED
  BY <1>1, <1>4, <1>6, <1>7, <1>8, <1>9, <1>10, LaptopKeeps DEF Works

LEMMA StartsGoOn ==
    ASSUME TypeOK, NEW h \in Handlers, Idle(h), NEW N, Goes(h, N),
           \A x \in N : x.do \notin {"retire", "save", "seal"}
    PROVE  GoesOn(h, N) /\ Keeps(h)
<1>1. Moves(h, N)
  BY GoesMoves, RestIsOfSteps
<1>2. Keeps(h)
  BY IdleHasNothing DEF Keeps, Retiring
<1> QED
  BY <1>1, <1>2 DEF GoesOn, Goes

\* A handler changes the laptop of s.
LEMMA TurnKeeps ==
    ASSUME HInv, TypeOK', UNCHANGED <<RestVars, online, outbox>>, HistoryGrows,
           history'.slipped = history.slipped, history'.closing = history.closing,
           NEW s \in Snapshots, \A t \in Snapshots \ {s} : laptop'[t] = laptop[t],
           LaptopAdvances(s), laptop'[s].role # "none", log[s] # {},
           BooksApart, OpensApart,
           NEW h \in Handlers, NEW N, GoesOn(h, N), Keeps(h), RightNext(h, N)
    PROVE  HInv'
<1>1. Advances
  BY LaptopAdvanced DEF RestVars
<1>2. JobsInOrder' /\ ExportsApart' /\ ImportsApart' /\ WritesApart' /\ StepsKnown'
       /\ StepsClosed'
  BY <1>1, JobsStay
<1>3. AllKeep
  BY OthersKeep DEF GoesOn
<1>4. FilesKnown' /\ ConflictsKnown' /\ MergesKnown' /\ ReturnedKnown' /\ RetiringKnown'
  BY <1>1, <1>2, <1>3, DataStays
<1>5. Handed'
  <2>1. history'.closing \subseteq Snapshots
    BY DEF TypeOK
  <2>2. \A t \in history'.closing : Works(t)'
    BY <1>1, <2>1 DEF HInv, Handed, Advances, LaptopAdvances
  <2> QED
    BY <2>2 DEF HInv, Handed, RestVars, Delegated
<1> QED
  BY <1>2, <1>4, <1>5 DEF HInv

LEMMA ImportKeeps ==
    ASSUME HInv, NEW h \in Handlers, NEW s \in Snapshots, Import(h, s), UNCHANGED ops
    PROVE  HInv'
<1>1. /\ TypeOK /\ UNCHANGED <<RestVars, online, outbox, history>> /\ returns' = returns
      /\ faults' = faults /\ laptop[s].role \in {"file", "loaded"}
      /\ \A g \in Handlers : ~Has(g, "become")
  BY DEF HInv, Import, RestVars
<1>2. PICK x \in Step : x = [do |-> "become", snapshot |-> s]
  BY DEF Step, MaybeSnapshot
<1>3. PICK y \in Step : y = [do |-> "number", snapshot |-> s]
  BY DEF Step, MaybeSnapshot
<1>4. Idle(h) /\ Goes(h, {x, y})
  BY <1>1, <1>2, <1>3, StartTwo DEF Import, Later
<1>5. x.do = "become" /\ x.snapshot = s /\ y.do = "number" /\ y.snapshot = s
  BY <1>2, <1>3
<1>6. GoesOn(h, {x, y}) /\ Keeps(h)
  BY <1>1, <1>4, <1>5, StartsGoOn
<1>7. laptop[s] \in LaptopType
  BY <1>1, LaptopsAre
<1>8. PICK l : l = [laptop[s] EXCEPT !.role = "loaded"]
  OBVIOUS
<1>9. /\ l \in LaptopType /\ l.role = "loaded" /\ l.books = laptop[s].books
      /\ l.mails = laptop[s].mails
  BY <1>7, <1>8 DEF LaptopType
<1>10. laptop' = [laptop EXCEPT ![s] = l]
  BY <1>8 DEF Import
<1>11. /\ laptop' \in [Snapshots -> LaptopType] /\ laptop'[s] = l
       /\ \A t \in Snapshots \ {s} : laptop'[t] = laptop[t]
  BY <1>1, <1>9, <1>10, OneLaptop
<1>12. TypeOK' /\ HistoryGrows
  BY <1>1, <1>4, <1>11 DEF TypeOK, LaptopType, RestVars, Goes, HistoryGrows
<1>13. LaptopAdvances(s)
  BY <1>1, <1>9, <1>11 DEF LaptopAdvances, Works, Retired, Timely
<1>14. BooksApart
  BY <1>1, <1>9, <1>11 DEF BooksApart, Unbooked
<1>15. StepKnown(x)' /\ StepClosed(h, x)' /\ StepKnown(y)' /\ StepClosed(h, y)'
  BY <1>5, <1>9, <1>11 DEF StepKnown, StepClosed, Exports
<1>16. RightNext(h, {x, y}) /\ ExportsItsOwn(h, {x, y})
  BY <1>1, <1>5, <1>15 DEF RightNext, ExportsItsOwn, Exports
<1>17. OpensApart
  BY <1>1, <1>6, <1>9, <1>11, <1>16, ExportsAreOwn DEF OpensApart, HInv, GoesOn
<1>18. log[s] # {}
  BY <1>1 DEF HInv, Handed
<1> QED
  BY <1>1, <1>6, <1>9, <1>11, <1>12, <1>13, <1>14, <1>16, <1>17, <1>18, TurnKeeps

LEMMA BecomeOfflinePrimaryKeeps ==
    ASSUME HInv, NEW h \in Handlers, BecomeOfflinePrimary(h), UNCHANGED ops
    PROVE  HInv'
<1>1. /\ TypeOK /\ UNCHANGED <<RestVars, online, outbox, history>> /\ returns' = returns
      /\ faults' = faults
  BY DEF HInv, BecomeOfflinePrimary, RestVars
<1>2. ~Idle(h) /\ Now(h).do = "become"
  BY DoingIs DEF BecomeOfflinePrimary
<1>3. Now(h) \in Steps(h) /\ StepKnown(Now(h))
  BY <1>1, <1>2, HeadIs DEF HInv, StepsKnown
<1>4. PICK s \in Snapshots : s = Now(h).snapshot /\ laptop[s].role = "loaded"
  BY <1>2, <1>3 DEF StepKnown
<1>5. Goes(h, {})
  BY <1>1, <1>2, ThenNothing DEF BecomeOfflinePrimary
<1>6. GoesOn(h, {}) /\ Keeps(h)
  BY <1>1, <1>2, <1>5, NowGoesOn, BusyKeeps DEF HInv
<1>7. laptop[s] \in LaptopType
  BY <1>1, LaptopsAre
<1>8. PICK l : l = [laptop[s] EXCEPT !.role = "offline_primary"]
  OBVIOUS
<1>9. /\ l \in LaptopType /\ l.role = "offline_primary" /\ l.books = laptop[s].books
      /\ l.mails = laptop[s].mails
  BY <1>7, <1>8 DEF LaptopType
<1>10. laptop' = [laptop EXCEPT ![s] = l]
  BY <1>4, <1>8 DEF BecomeOfflinePrimary
<1>11. /\ laptop' \in [Snapshots -> LaptopType] /\ laptop'[s] = l
       /\ \A t \in Snapshots \ {s} : laptop'[t] = laptop[t]
  BY <1>1, <1>9, <1>10, OneLaptop
<1>12. TypeOK' /\ HistoryGrows
  BY <1>1, <1>5, <1>11 DEF TypeOK, LaptopType, RestVars, Goes, HistoryGrows
<1>13. LaptopAdvances(s)
  BY <1>1, <1>4, <1>9, <1>11 DEF LaptopAdvances, Works, Retired, Timely
<1>14. BooksApart
  BY <1>1, <1>9, <1>11 DEF BooksApart, Unbooked
<1>16. RightNext(h, {}) /\ ExportsItsOwn(h, {})
  BY DEF RightNext, ExportsItsOwn
<1>17. Has(h, "become") /\ ~Has(h, "become")'
  <2>1. ~Has(h, "become")'
    BY <1>5 DEF Goes, Has, HInv, JobsInOrder, Later
  <2> QED
    BY <1>2, <1>3, <2>1 DEF Has
<1>18. OpensApart
  BY <1>1, <1>4, <1>6, <1>9, <1>11, <1>16, <1>17, ExportsAreOwn DEF OpensApart, HInv, GoesOn
<1>19. log[s] # {}
  BY <1>4 DEF HInv, Handed
<1> QED
  BY <1>1, <1>6, <1>9, <1>11, <1>12, <1>13, <1>14, <1>16, <1>18, <1>19, TurnKeeps

LEMMA SetGenerationKeeps ==
    ASSUME HInv, NEW h \in Handlers, SetGeneration(h), UNCHANGED ops
    PROVE  HInv'
<1>1. /\ TypeOK /\ UNCHANGED <<RestVars, online, outbox, history>> /\ returns' = returns
      /\ faults' = faults
  BY DEF HInv, SetGeneration, RestVars
<1>2. ~Idle(h) /\ Now(h).do = "number"
  BY DoingIs DEF SetGeneration
<1>3. Now(h) \in Steps(h) /\ StepKnown(Now(h))
  BY <1>1, <1>2, HeadIs DEF HInv, StepsKnown
<1>4. PICK s \in Snapshots : s = Now(h).snapshot
  BY <1>2, <1>3 DEF StepKnown
<1>5. Goes(h, {})
  BY <1>1, <1>2, ThenNothing DEF SetGeneration
<1>6. GoesOn(h, {}) /\ Keeps(h)
  BY <1>1, <1>2, <1>5, NowGoesOn, BusyKeeps DEF HInv
<1>7. laptop[s] \in LaptopType
  BY <1>1, LaptopsAre
<1>8. PICK l : l = [laptop[s] EXCEPT !.generation = laptop[s].handed]
  OBVIOUS
<1>9. /\ l \in LaptopType /\ l.role = laptop[s].role /\ l.books = laptop[s].books
      /\ l.mails = laptop[s].mails
  BY <1>7, <1>8 DEF LaptopType
<1>10. laptop' = [laptop EXCEPT ![s] = l]
  BY <1>4, <1>8 DEF SetGeneration
<1>11. /\ laptop' \in [Snapshots -> LaptopType] /\ laptop'[s] = l
       /\ \A t \in Snapshots \ {s} : laptop'[t] = laptop[t]
  BY <1>1, <1>9, <1>10, OneLaptop
<1>12. TypeOK' /\ HistoryGrows
  BY <1>1, <1>5, <1>11 DEF TypeOK, LaptopType, RestVars, Goes, HistoryGrows
<1>13. \A t \in Snapshots : laptop'[t].role = laptop[t].role /\ laptop'[t].books = laptop[t].books
  BY <1>9, <1>11
<1>14. LaptopAdvances(s)
  BY <1>1, <1>9, <1>11 DEF LaptopAdvances, Works, Retired, Timely
<1>15. BooksApart
  BY <1>1, <1>13 DEF BooksApart, Unbooked
<1>16. RightNext(h, {}) /\ ExportsItsOwn(h, {}) /\ Moves(h, {}) /\ AllKeep
  BY <1>6, OthersKeep DEF RightNext, ExportsItsOwn, GoesOn
<1>17. OpensApart
  BY <1>1, <1>13, <1>16, ExportsAreOwn DEF OpensApart, HInv
<1>18. Advances
  BY <1>1, <1>11, <1>12, <1>14, LaptopAdvanced DEF RestVars
<1>19. JobsInOrder' /\ ExportsApart' /\ ImportsApart' /\ WritesApart' /\ StepsKnown'
       /\ StepsClosed'
  BY <1>6, <1>12, <1>15, <1>16, <1>17, <1>18, JobsStay
<1>20. FilesKnown' /\ ConflictsKnown' /\ MergesKnown' /\ ReturnedKnown' /\ RetiringKnown'
  BY <1>1, <1>12, <1>16, <1>17, <1>18, <1>19, DataStays
<1>21. Handed'
  <2>1. \A t \in Snapshots : laptop'[t].mails = laptop[t].mails
    BY <1>9, <1>11
  <2>2. history.closing \subseteq Snapshots
    BY <1>1 DEF TypeOK
  <2> QED
    BY <1>1, <1>13, <2>1, <2>2 DEF HInv, Handed, RestVars, Delegated, Works
<1> QED
  BY <1>12, <1>19, <1>20, <1>21 DEF HInv

LEMMA CopyKeeps ==
    ASSUME HInv, NEW h \in Handlers, Copy(h), UNCHANGED ops
    PROVE  HInv'
<1>1. /\ TypeOK /\ UNCHANGED <<RestVars, online, outbox>> /\ returns' = returns
      /\ faults' = faults
  BY DEF HInv, Copy, RestVars
<1>2. ~Idle(h) /\ Now(h).do = "copy"
  BY DoingIs DEF Copy
<1>3. PICK a \in Step : a = Now(h)
  BY <1>1, <1>2, HeadIs
<1>4. a \in Steps(h) /\ StepKnown(a) /\ a.do = "copy"
  BY <1>1, <1>2, <1>3, HeadIs DEF HInv, StepsKnown
<1>5. PICK s \in Snapshots : s = a.snapshot
  BY <1>4, KindsOfSteps
<1>6. /\ a.for \in Snapshots /\ a.generation \in Nat /\ a.books \in Books /\ log[s] # {}
  BY <1>4, <1>5, KindsOfSteps DEF StepKnown, Exports
<1>7. Goes(h, {})
  BY <1>1, <1>2, ThenNothing DEF Copy
<1>8. GoesOn(h, {}) /\ Keeps(h)
  BY <1>1, <1>2, <1>7, NowGoesOn, BusyKeeps DEF HInv
<1>9. RightNext(h, {}) /\ ExportsItsOwn(h, {}) /\ Moves(h, {})
  BY <1>8 DEF RightNext, ExportsItsOwn, GoesOn
<1>10. /\ HistoryType' /\ HistoryGrows /\ history'.slipped = history.slipped
       /\ history'.closing = history.closing /\ {s} \ {a.for} \subseteq history'.mistaken
  <2>1. Past("mistaken", {s} \ {a.for}) /\ {s} \ {a.for} \subseteq Snapshots
    BY <1>3, <1>5 DEF Copy
  <2>2. HistoryType
    BY <1>1 DEF TypeOK, HistoryType
  <2> QED
    BY <2>1, <2>2, PastIs
<1>11. laptop[s] \in LaptopType /\ laptop \in [Snapshots -> LaptopType] /\ online \in Books
  BY <1>1, LaptopsAre DEF TypeOK
<1>12. PICK b : b = [a.books EXCEPT !.ledger = online.ledger]
  OBVIOUS
<1>13. b \in Books /\ b.ledger = online.ledger
  BY <1>6, <1>11, <1>12 DEF Books
<1>14. PICK l \in LaptopType :
         /\ laptop' = [laptop EXCEPT ![s] = l]
         /\ \/ l = laptop[s] /\ laptop[s].role # "none"
            \/ laptop[s].role = "none" /\ l.role = "file" /\ l.books = b
  <2>1. CASE laptop[s].role # "none"
    <3>1. laptop' = [laptop EXCEPT ![s] = laptop[s]]
      BY <1>3, <1>5, <1>11, <2>1 DEF Copy
    <3> QED
      BY <1>11, <2>1, <3>1
  <2>2. CASE laptop[s].role = "none"
    <3>1. PICK l : l = [role |-> "file", handed |-> a.generation, generation |-> 0,
                        books |-> b, mails |-> {}]
      OBVIOUS
    <3>2. l \in LaptopType /\ l.role = "file" /\ l.books = b
      BY <1>6, <1>13, <3>1 DEF LaptopType
    <3>3. laptop' = [laptop EXCEPT ![s] = l]
      BY <1>3, <1>5, <1>12, <2>2, <3>1 DEF Copy
    <3> QED
      BY <2>2, <3>2, <3>3
  <2> QED
    BY <2>1, <2>2
<1>15. /\ laptop' \in [Snapshots -> LaptopType] /\ laptop'[s] = l
       /\ \A t \in Snapshots \ {s} : laptop'[t] = laptop[t]
  BY <1>1, <1>14, OneLaptop
<1>16. TypeOK'
  BY <1>1, <1>7, <1>10, <1>15 DEF TypeOK, HistoryType, LaptopType, RestVars, Goes
<1>17. LaptopAdvances(s)
  <2>1. CASE l = laptop[s]
    BY <1>10, <1>15, <2>1 DEF LaptopAdvances, HistoryGrows, Timely, Works, Retired
  <2>2. CASE laptop[s].role = "none" /\ l.role = "file" /\ l.books = b
    <3>1. s \notin history.closing /\ laptop[s].books.ledger = {}
      BY <2>2 DEF HInv, Handed, Works, NothingYet
    <3> QED
      BY <2>2, <3>1 DEF LaptopAdvances, Works, Retired
  <2> QED
    BY <1>14, <2>1, <2>2
<1>18. BooksApart
  BY <1>1, <1>13, <1>14, <1>15 DEF BooksApart, Unbooked
<1>19. OpensApart
  <2>1. \A g \in Handlers : \A y \in Steps(g)' : Exports(y) =>
          log[y.for] = {} \/ \E x \in Steps(g) : Exports(x) /\ x.for = y.for
    BY <1>1, <1>9, ExportsAreOwn DEF HInv
  <2>2. \A y \in Steps(h)' : ~Exports(y)
    BY <1>7 DEF Goes, HInv, JobsInOrder, Later, Exports
  <2>3. \A t \in Snapshots : laptop[t].role = "none" =>
          \/ laptop'[t].role = "none" \/ t \in history'.mistaken
          \/ \E x \in Steps(h) : Exports(x) /\ x.for = t
    BY <1>4, <1>10, <1>15 DEF Exports
  <2>4. \A t \in Snapshots : laptop[t].role = "loaded" => laptop'[t].role = "loaded"
    BY <1>14, <1>15
  <2> QED
    BY <2>1, <2>2, <2>3, <2>4 DEF OpensApart
<1>20. laptop'[s].role # "none"
  BY <1>14, <1>15
<1> QED
  BY <1>1, <1>6, <1>8, <1>9, <1>10, <1>15, <1>16, <1>17, <1>18, <1>19, <1>20, TurnKeeps

\* What is left of a job whose head retires.
LEMMA OrderRetires ==
    ASSUME TypeOK, JobsInOrder, NEW h \in Handlers, ~Idle(h), Now(h).do = "retire",
           Then(h, <<>>)
    PROVE  JobsInOrder'
<1>1. job[h] \in Seq(Step) /\ job[h] # <<>> /\ Len(job[h]) \in Nat \ {0}
  BY DEF TypeOK, Idle
<1>2. /\ Tail(job[h]) \in Seq(Step) /\ Len(Tail(job[h])) = Len(job[h]) - 1
      /\ \A i \in 1..(Len(job[h]) - 1) : Tail(job[h])[i] = job[h][i + 1]
  BY <1>1
<1>3. <<>> \o Tail(job[h]) = Tail(job[h])
  BY <1>2
<1>4. /\ job' \in [Handlers -> Seq(Step)] /\ job'[h] = Tail(job[h])
      /\ \A g \in Handlers \ {h} : job'[g] = job[g]
  BY <1>2, <1>3 DEF Then, TypeOK
<1>5. Now(h) \in Steps(h) /\ Steps(h) = {Now(h)} \cup Rest(h)
  BY HeadIs
<1>6. Goes(h, {})
  BY ThenNothing
<1>7. Steps(h)' = Rest(h) /\ Rest(h)' \subseteq Rest(h)
  BY <1>6 DEF Goes
<1>8. /\ \A x \in Steps(h) : x.do \in Pushing \cup {"save"}
      /\ \A x, y \in Steps(h) : x.do = "retire" /\ y.do = "retire" => x = y
  BY <1>5 DEF JobsInOrder, Has
<1>9. ASSUME Has(h, "save")'
      PROVE  Now(h)'.do = "save" /\ Rest(h)' = {}
  <2>1. Has(h, "save")
    BY <1>5, <1>7, <1>9 DEF Has
  <2>2. Len(job[h]) = 2 /\ job[h][2].do = "save"
    BY <2>1 DEF JobsInOrder
  <2>3. Len(job'[h]) = 1 /\ job'[h][1].do = "save" /\ 2..1 = {} /\ job'[h] \in Seq(Step)
    BY <1>2, <1>4, <2>2
  <2>4. Head(job'[h]) = job'[h][1]
    BY <2>3
  <2>5. Now(h)' = job'[h][1]
    BY <2>4 DEF Now
  <2> QED
    BY <2>3, <2>5 DEF Rest
<1>10. \A g \in Handlers : g # h => Steps(g)' = Steps(g) /\ Rest(g)' = Rest(g)
  BY <1>4 DEF Steps, Rest
<1>11. ASSUME NEW g \in Handlers
      PROVE  /\ \A x \in Rest(g)' : x.do \in Later
             /\ Has(g, "seal")' => Rest(g)' = {}
             /\ Has(g, "save")' =>
                  \/ Now(g)'.do = "save" /\ Rest(g)' = {}
                  \/ Now(g)'.do = "retire" /\ Len(job'[g]) = 2 /\ job'[g][2].do = "save"
             /\ Has(g, "retire")' =>
                  /\ \A x \in Steps(g)' : x.do \in Pushing \cup {"save"}
                  /\ \A x, y \in Steps(g)' : x.do = "retire" /\ y.do = "retire" => x = y
  <2>1. CASE g = h
    <3>1. \A x \in Rest(h)' : x.do \in Later
      BY <1>7 DEF JobsInOrder
    <3>2. ~Has(h, "seal")'
      BY <1>5, <1>7, <1>8 DEF Has, Pushing
    <3>3. /\ \A x \in Steps(h)' : x.do \in Pushing \cup {"save"}
          /\ \A x, y \in Steps(h)' : x.do = "retire" /\ y.do = "retire" => x = y
      BY <1>5, <1>7, <1>8
    <3> QED
      BY <1>9, <2>1, <3>1, <3>2, <3>3
  <2>2. CASE g # h
    BY <1>4, <1>10, <2>2 DEF JobsInOrder, Has, Now
  <2> QED
    BY <2>1, <2>2
<1> QED
  BY <1>11 DEF JobsInOrder

LEMMA RetireKeeps ==
    ASSUME HInv, NEW h \in Handlers, Retire(h), UNCHANGED ops
    PROVE  HInv'
<1>1. /\ TypeOK /\ UNCHANGED <<RestVars, online, outbox, history>> /\ returns' = returns
      /\ faults' = faults
  BY DEF HInv, Retire, RestVars
<1>2. ~Idle(h) /\ Now(h).do = "retire"
  BY DoingIs DEF Retire
<1>3. Now(h) \in Steps(h) /\ StepKnown(Now(h)) /\ Steps(h) = {Now(h)} \cup Rest(h)
  BY <1>1, <1>2, HeadIs DEF HInv, StepsKnown
<1>4. PICK s \in Snapshots : s = Now(h).snapshot /\ Works(s)
  BY <1>2, <1>3 DEF StepKnown
<1>5. laptop[s] \in LaptopType /\ laptop \in [Snapshots -> LaptopType]
  BY <1>1, LaptopsAre
<1>6. PICK l : l = [laptop[s] EXCEPT !.role = "retired"]
  OBVIOUS
<1>7. /\ l \in LaptopType /\ l.role = "retired" /\ l.books = laptop[s].books
      /\ l.mails = laptop[s].mails
  BY <1>5, <1>6 DEF LaptopType
<1>8. /\ laptop' = [laptop EXCEPT ![s] = l]
      /\ Then(h, <<>>) \/ Refuse(h)
  <2>1. CASE laptop[s].role = "offline_primary"
    BY <1>4, <1>6, <2>1 DEF Retire
  <2>2. CASE laptop[s].role # "offline_primary"
    <3>1. laptop[s].role = "retired"
      BY <1>4, <2>2 DEF Works
    <3>2. l = laptop[s]
      BY <1>5, <1>6, <3>1 DEF LaptopType
    <3> QED
      BY <1>4, <1>5, <2>2, <3>2 DEF Retire
  <2> QED
    BY <2>1, <2>2
<1>9. /\ laptop' \in [Snapshots -> LaptopType] /\ laptop'[s] = l
      /\ \A t \in Snapshots \ {s} : laptop'[t] = laptop[t]
  BY <1>1, <1>7, <1>8, OneLaptop
<1>10. /\ Moves(h, {}) /\ Steps(h)' \subseteq Rest(h)
       /\ job' \in [Handlers -> Seq(Step)] /\ JobsInOrder'
  <2>1. CASE Then(h, <<>>)
    <3>1. Goes(h, {})
      BY <1>1, <1>2, <2>1, ThenNothing
    <3> QED
      BY <1>1, <1>2, <2>1, <3>1, GoesMoves, RestIsOfSteps, OrderRetires DEF HInv, Goes
  <2>2. CASE Refuse(h)
    BY <1>1, <2>2, RefuseStops, StopsMoves, OrderStops DEF HInv, Stops
  <2> QED
    BY <1>8, <2>1, <2>2
<1>11. TypeOK' /\ HistoryGrows
  BY <1>1, <1>9, <1>10 DEF TypeOK, LaptopType, RestVars, HistoryGrows
<1>12. LaptopAdvances(s)
  BY <1>1, <1>7, <1>9 DEF LaptopAdvances, Works, Retired, Timely
<1>13. Advances
  BY <1>1, <1>9, <1>11, <1>12, LaptopAdvanced DEF RestVars
<1>14. \A x, y \in Steps(h) : x.do = "retire" /\ y.do = "retire" => x = y
  BY <1>2, <1>3 DEF HInv, JobsInOrder, Has
<1>15. Keeps(h)
  <2>1. \A t \in Snapshots : Retiring(h, t) => t = s
    BY <1>2, <1>3, <1>4, <1>14 DEF Retiring
  <2>2. Retired(s)'
    BY <1>7, <1>9 DEF Retired
  <2> QED
    BY <2>1, <2>2 DEF Keeps
<1>16. AllKeep
  BY <1>10, <1>15, OthersKeep
<1>17. OpensApart
  <2>1. ExportsItsOwn(h, {})
    BY DEF ExportsItsOwn
  <2> QED
    BY <1>1, <1>4, <1>9, <1>10, <2>1, ExportsAreOwn DEF OpensApart, HInv, Works
<1>18. BooksApart
  BY <1>1, <1>7, <1>9 DEF BooksApart, Unbooked
<1>19. ExportsApart' /\ ImportsApart' /\ WritesApart' /\ StepsKnown'
  <2>1. RightNext(h, {})
    BY DEF RightNext
  <2> QED
    BY <1>1, <1>10, <1>11, <1>13, <1>17, <1>18, <2>1, ExportsStayApart, ImportsStayApart,
       WritesStayApart, StepsStay DEF HInv, RightNext
<1>20. StepsClosed'
  <2> SUFFICES ASSUME NEW x \in Steps(h)'
               PROVE  StepClosed(h, x)'
    BY <1>1, <1>10, <1>13, <1>15, <1>17, ClosedStepsStay DEF HInv
  <2>1. x \in Rest(h) /\ x \in Steps(h) /\ x.do \in Later
    BY <1>3, <1>10 DEF HInv, JobsInOrder
  <2>2. ASSUME x.do = "save", x.package.final
        PROVE  Retired(x.package.snapshot)'
    <3>1. Retired(x.package.snapshot) \/ Retiring(h, x.package.snapshot)
      BY <2>1, <2>2 DEF HInv, RetiringKnown, StepsClosed, StepClosed
    <3>2. CASE Retiring(h, x.package.snapshot)
      <4>1. x.package.snapshot = s
        BY <1>2, <1>3, <1>4, <1>14, <3>2 DEF Retiring
      <4> QED
        BY <1>7, <1>9, <4>1 DEF Retired
    <3>3. CASE Retired(x.package.snapshot)
      <4>1. x.package.snapshot \in Snapshots
        BY <1>1, <2>1, <2>2, StepsAreSteps, KindsOfSteps DEF Package
      <4> QED
        BY <1>13, <3>3, <4>1 DEF Advances, LaptopAdvances
    <3> QED
      BY <3>1, <3>2, <3>3
  <2> QED
    BY <2>1, <2>2 DEF StepClosed, Later
<1>21. FilesKnown' /\ ConflictsKnown' /\ MergesKnown' /\ ReturnedKnown' /\ RetiringKnown'
  BY <1>1, <1>11, <1>13, <1>16, <1>17, <1>20, DataStays
<1>22. Handed'
  <2>1. history'.closing \subseteq Snapshots /\ laptop[s].role # "none" /\ l.role # "none"
    BY <1>4, <1>7, <1>11 DEF TypeOK, Works
  <2>2. \A t \in history'.closing : Works(t)'
    BY <1>1, <1>13, <2>1 DEF HInv, Handed, Advances, LaptopAdvances
  <2> QED
    BY <1>1, <1>9, <2>1, <2>2 DEF HInv, Handed, RestVars, Delegated
<1> QED
  BY <1>10, <1>11, <1>19, <1>20, <1>21, <1>22 DEF HInv

LEMMA SaveKeeps ==
    ASSUME HInv, NEW h \in Handlers, Save(h), UNCHANGED ops
    PROVE  HInv'
<1>1. /\ TypeOK /\ UNCHANGED <<CoreVars, online, outbox, laptop, history>>
      /\ returns' = returns /\ faults' = faults
  BY DEF HInv, Save, CoreVars
<1>2. ~Idle(h) /\ Now(h).do = "save"
  BY DoingIs DEF Save
<1>3. PICK a \in Step : a = Now(h)
  BY <1>1, <1>2, HeadIs
<1>4. /\ a \in Steps(h) /\ Steps(h) = {a} \cup Rest(h) /\ a.do = "save"
      /\ StepKnown(a) /\ StepClosed(h, a) /\ a.package \in Package
  BY <1>1, <1>2, <1>3, HeadIs, KindsOfSteps DEF HInv, StepsKnown, RetiringKnown, StepsClosed
<1>5. files' = files \cup {a.package}
  BY <1>3 DEF Save
<1>6. Goes(h, {})
  BY <1>1, <1>2, ThenNothing DEF Save
<1>7. GoesOn(h, {}) /\ Keeps(h)
  BY <1>1, <1>2, <1>6, NowGoesOn, BusyKeeps DEF HInv
<1>8. RightNext(h, {}) /\ ExportsItsOwn(h, {}) /\ Moves(h, {}) /\ AllKeep
  BY <1>7, OthersKeep DEF RightNext, ExportsItsOwn, GoesOn
<1>9. TypeOK' /\ HistoryGrows
  BY <1>1, <1>4, <1>5, <1>6 DEF TypeOK, CoreVars, Goes, HistoryGrows
<1>10. Advances /\ OpensApart /\ BooksApart
  BY <1>1, <1>8, <1>9, KeptAdvances, KeptOpens, KeptBooks DEF CoreVars, HInv
<1>11. JobsInOrder' /\ ExportsApart' /\ ImportsApart' /\ WritesApart' /\ StepsKnown'
       /\ StepsClosed'
  BY <1>7, <1>8, <1>9, <1>10, JobsStay
<1>12. ConflictsKnown' /\ MergesKnown' /\ ReturnedKnown' /\ RetiringKnown'
  BY <1>1, <1>8, <1>9, <1>10, <1>11, CoreStays
<1>13. Handed'
  BY <1>1, HandedStays DEF HInv, CoreVars, Handed
<1>14. a.package.final => Retired(a.package.snapshot)
  <2>1. Rest(h) = {}
    BY <1>2, <1>4 DEF HInv, JobsInOrder, Has
  <2>2. ~Retiring(h, a.package.snapshot)
    BY <1>4, <2>1 DEF Retiring
  <2> QED
    BY <1>4, <2>2 DEF StepClosed
<1>15. FilesKnown'
  <2> SUFFICES ASSUME NEW p \in files'
               PROVE  PackageKnown(p)' /\ (p.final => Retired(p.snapshot)')
    BY DEF FilesKnown
  <2>1. PackageKnown(p) /\ (p.final => Retired(p.snapshot))
    BY <1>4, <1>5, <1>14 DEF HInv, FilesKnown, StepKnown
  <2>2. p \in Package /\ p.snapshot \in Snapshots
    BY <1>9 DEF TypeOK, Package
  <2> QED
    BY <1>10, <2>1, <2>2, PackageStays DEF Advances, LaptopAdvances
<1> QED
  BY <1>9, <1>11, <1>12, <1>13, <1>15 DEF HInv

-----------------------------------------------------------------------------
(* Returns that are not waited for any more *)

MergeType ==
    [snapshot : Snapshots, generation : Nat, pending : BOOLEAN,
     mode : {"final", "interim", "forced"}, queued : BOOLEAN]

LEMMA FewerPendingKeeps ==
    ASSUME HInv, NEW h \in Handlers, ~Idle(h), Now(h).do \in {"abandon", "settle"},
           Then(h, <<>>),
           UNCHANGED <<authority, log, online, conflicts, outbox, laptop, files, history,
                       returns, faults, ops>>,
           \A m \in merges' : m \in MergeType /\ \E n \in merges :
             /\ m.snapshot = n.snapshot /\ m.generation = n.generation
             /\ m.mode = n.mode /\ (m.pending => n.pending)
    PROVE  HInv'
<1>1. TypeOK
  BY DEF HInv
<1>2. Goes(h, {})
  BY <1>1, ThenNothing
<1>3. TypeOK' /\ HistoryGrows
  BY <1>1, <1>2 DEF TypeOK, MergeType, Goes, HistoryGrows
<1>4. GoesOn(h, {}) /\ Keeps(h)
  BY <1>1, <1>2, NowGoesOn, BusyKeeps DEF HInv
<1>5. RightNext(h, {}) /\ ExportsItsOwn(h, {}) /\ Moves(h, {}) /\ AllKeep
  BY <1>4, OthersKeep DEF RightNext, ExportsItsOwn, GoesOn
<1>6. Advances /\ OpensApart /\ BooksApart
  BY <1>1, <1>3, <1>5, KeptAdvances, KeptOpens, KeptBooks DEF HInv
<1>7. JobsInOrder' /\ ExportsApart' /\ ImportsApart' /\ WritesApart' /\ StepsKnown'
      /\ StepsClosed'
  BY <1>3, <1>4, <1>5, <1>6, JobsStay
<1>8. Handed'
  BY <1>1, HandedStays DEF HInv, Handed
<1>9. FilesKnown' /\ ConflictsKnown' /\ ReturnedKnown'
  BY <1>1, <1>6, FilesStay, ConflictsStay, ReturnsStay DEF HInv
<1>10. MergesKnown'
  <2> SUFFICES ASSUME NEW m \in merges'
               PROVE  /\ log'[m.snapshot] # {}
                      /\ m.mode # "forced" /\ DelegatedAs(m.snapshot)'
                           => m.generation < authority'.generation
                      /\ m.mode = "final" => Home(m.snapshot)'
                      /\ m.pending => m.mode = "final"
    BY DEF MergesKnown
  <2>1. PICK n \in merges : /\ m.snapshot = n.snapshot /\ m.generation = n.generation
                            /\ m.mode = n.mode /\ (m.pending => n.pending)
    OBVIOUS
  <2>2. /\ log[n.snapshot] # {}
        /\ n.mode # "forced" /\ DelegatedAs(n.snapshot) => n.generation < authority.generation
        /\ n.mode = "final" => Home(n.snapshot)
        /\ n.pending => n.mode = "final"
    BY DEF HInv, MergesKnown
  <2>3. n.snapshot \in Snapshots
    BY <1>1 DEF TypeOK
  <2>4. Home(n.snapshot) => Home(n.snapshot)'
    BY <1>1, <1>6, <2>3, HomeStays
  <2> QED
    BY <2>1, <2>2, <2>4 DEF DelegatedAs, Delegated
<1>11. RetiringKnown'
  <2>1. \A s \in Snapshots : log'[s] = log[s] /\ DelegatedAs(s)' = DelegatedAs(s)
    BY DEF DelegatedAs, Delegated
  <2>2. /\ merges' \subseteq MergeType
        /\ \A m \in merges' : m.pending => \E n \in merges : n.pending /\ n.snapshot = m.snapshot
    OBVIOUS
  <2> QED
    BY <1>1, <1>5, <1>6, <1>7, <2>1, <2>2, RetiringStays DEF HInv, MergeType
<1> QED
  BY <1>3, <1>7, <1>8, <1>9, <1>10, <1>11 DEF HInv

LEMMA SomePendingNoMore ==
    ASSUME TypeOK, NEW S,
           merges' = {[m EXCEPT !.pending = m.pending /\ m \notin S] : m \in merges}
    PROVE  \A m \in merges' : m \in MergeType /\ \E n \in merges :
             /\ m.snapshot = n.snapshot /\ m.generation = n.generation
             /\ m.mode = n.mode /\ (m.pending => n.pending)
<1> TAKE m \in merges'
<1>1. PICK n \in merges : m = [n EXCEPT !.pending = n.pending /\ n \notin S]
  OBVIOUS
<1>2. n \in MergeType
  BY DEF TypeOK, MergeType
<1>3. PICK b \in BOOLEAN : b = (n.pending /\ n \notin S)
  OBVIOUS
<1>4. b => n.pending
  BY <1>2, <1>3 DEF MergeType
<1>5. m = [n EXCEPT !.pending = b]
  BY <1>1, <1>3
<1>6. /\ m \in MergeType /\ m.snapshot = n.snapshot /\ m.generation = n.generation
      /\ m.mode = n.mode /\ m.pending = b
  BY <1>2, <1>5 DEF MergeType
<1> QED
  BY <1>4, <1>6

LEMMA AbandonKeeps ==
    ASSUME HInv, NEW h \in Handlers, Abandon(h), UNCHANGED ops
    PROVE  HInv'
<1>1. ~Idle(h) /\ Now(h).do = "abandon"
  BY DoingIs DEF Abandon
<1> DEFINE S == {m \in merges : m.snapshot = Now(h).snapshot}
<1>2. merges' = {[m EXCEPT !.pending = m.pending /\ m \notin S] : m \in merges}
  <2>1. \A m \in merges : (m \notin S) = (m.snapshot # Now(h).snapshot)
    OBVIOUS
  <2>2. merges' = {[m EXCEPT !.pending = m.pending /\ m.snapshot # Now(h).snapshot] : m \in merges}
    BY DEF Abandon
  <2> HIDE DEF S
  <2> QED
    BY <2>1, <2>2
<1> HIDE DEF S
<1>3. \A m \in merges' : m \in MergeType /\ \E n \in merges :
             /\ m.snapshot = n.snapshot /\ m.generation = n.generation
             /\ m.mode = n.mode /\ (m.pending => n.pending)
  BY <1>2, SomePendingNoMore DEF HInv
<1> QED
  BY <1>1, <1>3, FewerPendingKeeps DEF Abandon

LEMMA SettleKeeps ==
    ASSUME HInv, NEW h \in Handlers, Settle(h), UNCHANGED ops
    PROVE  HInv'
<1>1. ~Idle(h) /\ Now(h).do = "settle"
  BY DoingIs DEF Settle
<1> DEFINE S == {m \in merges : /\ m.snapshot = Now(h).snapshot
                                /\ m.generation = Now(h).generation}
<1>2. merges' = {[m EXCEPT !.pending = m.pending /\ m \notin S] : m \in merges}
  <2>1. \A m \in merges : (m \notin S) = ~(/\ m.snapshot = Now(h).snapshot
                                           /\ m.generation = Now(h).generation)
    OBVIOUS
  <2>2. merges' = {[m EXCEPT !.pending = m.pending /\ ~(/\ m.snapshot = Now(h).snapshot
                                                        /\ m.generation = Now(h).generation)] :
                     m \in merges}
    BY DEF Settle
  <2> HIDE DEF S
  <2> QED
    BY <2>1, <2>2
<1> HIDE DEF S
<1>3. \A m \in merges' : m \in MergeType /\ \E n \in merges :
             /\ m.snapshot = n.snapshot /\ m.generation = n.generation
             /\ m.mode = n.mode /\ (m.pending => n.pending)
  BY <1>2, SomePendingNoMore DEF HInv
<1> QED
  BY <1>1, <1>3, FewerPendingKeeps DEF Settle

-----------------------------------------------------------------------------
(* Requests and answers that are lost *)

\* h does less than it was to do; whose retiring is lost has not heard the answer.
LEMMA LossKeeps ==
    ASSUME HInv, TypeOK', UNCHANGED DataVars, HistoryGrows,
           history'.slipped = history.slipped, history'.closing = history.closing,
           NEW h \in Handlers, \A g \in Handlers \ {h} : job'[g] = job[g],
           Steps(h)' \subseteq Steps(h), Rest(h)' \subseteq Rest(h),
           Steps(h)' = {} \/ ~Has(h, "save"),
           ~Has(h, "save") => \A s \in Snapshots : Retiring(h, s) => s \in history'.unanswered
    PROVE  HInv'
<1>1. TypeOK /\ JobsInOrder /\ ExportsApart /\ ImportsApart /\ WritesApart /\ StepsKnown
      /\ RetiringKnown
  BY DEF HInv
<1>2. Moves(h, {})
  BY DEF Moves, TypeOK
<1>3. ExportsItsOwn(h, {}) /\ RightNext(h, {})
  BY DEF ExportsItsOwn, RightNext
<1>4. Keeps(h)
  BY DEF Keeps, Kept, Has
<1>5. AllKeep
  BY <1>2, <1>4, OthersKeep
<1>6. Advances /\ OpensApart /\ BooksApart
  BY <1>1, <1>2, <1>3, KeptAdvances, KeptOpens, KeptBooks DEF DataVars
<1>7. ExportsApart' /\ ImportsApart' /\ WritesApart' /\ StepsKnown'
  BY <1>1, <1>2, <1>3, <1>6, ExportsStayApart, ImportsStayApart, WritesStayApart, StepsStay
     DEF RightNext
<1>8. JobsInOrder'
  <2>1. ASSUME NEW g \in Handlers
        PROVE  /\ \A x \in Rest(g)' : x.do \in Later
               /\ Has(g, "seal")' => Rest(g)' = {}
               /\ Has(g, "save")' =>
                    \/ Now(g)'.do = "save" /\ Rest(g)' = {}
                    \/ Now(g)'.do = "retire" /\ Len(job'[g]) = 2 /\ job'[g][2].do = "save"
               /\ Has(g, "retire")' =>
                    /\ \A x \in Steps(g)' : x.do \in Pushing \cup {"save"}
                    /\ \A x, y \in Steps(g)' : x.do = "retire" /\ y.do = "retire" => x = y
    <3>1. CASE g = h
      <4>1. ~Has(h, "save")'
        BY DEF Has
      <4> QED
        BY <1>1, <3>1, <4>1 DEF JobsInOrder, Has
    <3>2. CASE g # h
      <4>1. Steps(g)' = Steps(g) /\ Rest(g)' = Rest(g) /\ job'[g] = job[g]
        BY <3>2 DEF Steps, Rest
      <4> QED
        BY <1>1, <4>1 DEF JobsInOrder, Has, Now
    <3> QED
      BY <3>1, <3>2
  <2> QED
    BY <2>1 DEF JobsInOrder
<1>9. ASSUME NEW x \in Steps(h)'
      PROVE  StepClosed(h, x)'
  <2>1. x \in Steps(h) /\ x \in Step /\ StepClosed(h, x) /\ StepKnown(x) /\ x.do # "save"
    BY <1>1, StepsAreSteps DEF RetiringKnown, StepsClosed, StepsKnown, Has
  <2>2. \A s \in Snapshots : Retiring(h, s) \/ Closed(s) => Closed(s)'
    BY <1>5, <1>6, ClosedStays DEF Closed, Has
  <2>3. ASSUME x.do \in {"return", "release"}, x.result = "returned"
        PROVE  Untouched(x.for)' \/ x.for \in history'.mistaken \/ Closed(x.for)'
    <3>1. x.for \in Snapshots /\ log[x.for] # {}
      BY <2>1, <2>3 DEF StepKnown
    <3>2. Untouched(x.for) => Untouched(x.for)' \/ x.for \in history'.mistaken
      BY <1>6, <3>1, UntouchedStays
    <3> QED
      BY <2>1, <2>2, <2>3, <3>1, <3>2 DEF StepClosed, HistoryGrows
  <2>4. ASSUME x.do \in {"receive", "merge"}, x.package.final
        PROVE  Closed(x.package.snapshot)'
    <3>1. x.package.snapshot \in Snapshots
      BY <2>1, <2>4, KindsOfSteps DEF Package
    <3> QED
      BY <2>1, <2>2, <2>4, <3>1 DEF StepClosed
  <2>5. x.do = "recheck" => Closed(x.snapshot)'
    BY <2>1, <2>2, KindsOfSteps DEF StepClosed
  <2> QED
    BY <2>1, <2>3, <2>4, <2>5 DEF StepClosed
<1>10. StepsClosed'
  BY <1>1, <1>2, <1>4, <1>6, <1>9, ClosedStepsStay
<1>11. Handed' /\ FilesKnown' /\ ConflictsKnown' /\ MergesKnown' /\ ReturnedKnown'
       /\ RetiringKnown'
  BY <1>1, <1>5, <1>6, <1>10, DataStays, HandedStays DEF DataVars, RestVars, HInv, Handed
<1> QED
  BY <1>7, <1>8, <1>10, <1>11 DEF HInv

LEMMA UnansweredIs ==
    ASSUME HInv, NEW h \in Handlers, Unanswered(h)
    PROVE  /\ HistoryType' /\ HistoryGrows /\ history'.slipped = history.slipped
           /\ history'.closing = history.closing
           /\ Waiting(h) => \A s \in Snapshots : Retiring(h, s) => s \in history'.unanswered
           /\ ~Has(h, "save") => \A s \in Snapshots : Retiring(h, s) => s \in history'.unanswered
<1> DEFINE more == IF ~Waiting(h) THEN {}
                   ELSE {step.snapshot : step \in {x \in Steps(h) : x.do = "retire"}}
<1>1. more \subseteq Snapshots
  BY DEF HInv, StepsKnown, StepKnown
<1>2. HistoryType /\ Past("unanswered", more)
  BY DEF HInv, TypeOK, HistoryType, Unanswered
<1>3. Waiting(h) => \A s \in Snapshots : Retiring(h, s) => s \in more
  BY DEF Retiring
<1> HIDE DEF more
<1>4. /\ HistoryType' /\ HistoryGrows
      /\ history'.slipped = history.slipped /\ more \subseteq history'.unanswered
      /\ history'.closing = history.closing
  BY <1>1, <1>2, PastIs
<1>5. ~Has(h, "save") => \A s \in Snapshots : Retiring(h, s) => Waiting(h)
  BY DEF Waiting, Retiring, Has
<1> QED
  BY <1>3, <1>4, <1>5

LEMMA EndsKeep ==
    ASSUME HInv, NEW h \in Handlers, Refuse(h), Unanswered(h), UNCHANGED DataVars,
           returns' = returns, faults' \in 0..MaxFaults, ops' = ops
    PROVE  HInv'
<1>1. TypeOK
  BY DEF HInv
<1>2. Stops(h) /\ Steps(h)' = {} /\ Rest(h)' = {}
  BY <1>1, RefuseStops
<1>3. /\ HistoryType' /\ HistoryGrows /\ history'.slipped = history.slipped
      /\ history'.closing = history.closing
      /\ ~Has(h, "save") => \A s \in Snapshots : Retiring(h, s) => s \in history'.unanswered
  BY UnansweredIs
<1>4. TypeOK'
  BY <1>1, <1>2, <1>3 DEF TypeOK, HistoryType, DataVars, Stops
<1> QED
  BY <1>2, <1>3, <1>4, LossKeeps DEF Stops

LEMMA FaultIs ==
    ASSUME TypeOK, NEW kind, Fault(kind)
    PROVE  faults' \in 0..MaxFaults
BY BoundsAssumption DEF Fault, TypeOK

LEMMA LoseRequestKeeps ==
    ASSUME HInv, NEW h \in Handlers, LoseRequest(h), UNCHANGED ops
    PROVE  HInv'
<1>1. UNCHANGED DataVars /\ Refuse(h) /\ Unanswered(h) /\ returns' = returns
  BY DEF LoseRequest, DataVars
<1>2. faults' \in 0..MaxFaults
  BY FaultIs DEF LoseRequest, HInv
<1> QED
  BY <1>1, <1>2, EndsKeep

LEMMA RestartKeeps ==
    ASSUME HInv, NEW h \in Handlers, Restart(h), UNCHANGED ops
    PROVE  HInv'
<1>1. UNCHANGED DataVars /\ Refuse(h) /\ Unanswered(h) /\ returns' = returns
  BY DEF Restart, DataVars
<1>2. faults' \in 0..MaxFaults
  BY FaultIs DEF Restart, HInv
<1> QED
  BY <1>1, <1>2, EndsKeep

LEMMA LoseAnswerKeeps ==
    ASSUME HInv, NEW h \in Handlers, LoseAnswer(h), UNCHANGED ops
    PROVE  HInv'
<1>1. TypeOK /\ UNCHANGED DataVars /\ Unanswered(h) /\ returns' = returns /\ Waiting(h)
  BY DEF HInv, LoseAnswer, DataVars
<1>2. faults' \in 0..MaxFaults
  BY <1>1, FaultIs DEF LoseAnswer
<1>3. job[h] \in Seq(Step) /\ job[h] # <<>>
  <2>1. job[h] # <<>>
    BY <1>1, IdleHasNothing DEF Waiting, Has, Idle
  <2> QED
    BY <1>1, <2>1 DEF TypeOK
<1>4. PICK t : t = Front(job[h])
  OBVIOUS
<1>5. t \in Seq(Step) /\ Len(t) = Len(job[h]) - 1 /\ \A i \in 1..Len(t) : t[i] = job[h][i]
  BY <1>3, <1>4 DEF Front
<1>6. job' \in [Handlers -> Seq(Step)] /\ job'[h] = t
      /\ \A g \in Handlers \ {h} : job'[g] = job[g]
  <2>1. job' = [job EXCEPT ![h] = t]
    BY <1>4 DEF LoseAnswer
  <2> QED
    BY <1>1, <1>5, <2>1 DEF TypeOK
<1>7. Steps(h)' \subseteq Steps(h) /\ Rest(h)' \subseteq Rest(h)
  <2>1. Len(job[h]) \in Nat /\ DOMAIN job[h] = 1..Len(job[h]) /\ DOMAIN t = 1..Len(t)
    BY <1>3, <1>5
  <2>2. DOMAIN t \subseteq DOMAIN job[h] /\ 2..Len(t) \subseteq 2..Len(job[h])
        /\ 2..Len(t) \subseteq 1..Len(t)
    BY <1>5, <2>1
  <2> QED
    BY <1>5, <1>6, <2>1, <2>2 DEF Steps, Rest
<1>8. /\ HistoryType' /\ HistoryGrows /\ history'.slipped = history.slipped
      /\ history'.closing = history.closing
      /\ ~Has(h, "save") => \A s \in Snapshots : Retiring(h, s) => s \in history'.unanswered
  BY <1>1, UnansweredIs
<1>9. TypeOK'
  BY <1>1, <1>2, <1>6, <1>8 DEF TypeOK, HistoryType, DataVars
<1>10. ~Has(h, "save")
  BY <1>1 DEF Waiting
<1> QED
  BY <1>1, <1>6, <1>7, <1>8, <1>9, <1>10, LossKeeps

-----------------------------------------------------------------------------
(* A delegation begins and ends *)

LEMMA DelegateKeeps ==
    ASSUME HInv, NEW h \in Handlers, NEW s \in Snapshots, Delegate(h, s), UNCHANGED ops
    PROVE  HInv'
<1>1. /\ TypeOK /\ UNCHANGED <<online, merges, conflicts, outbox, laptop, files, history>>
      /\ returns' = returns /\ faults' = faults /\ StepsKnown
  BY DEF HInv, Delegate
<1>2. /\ ~Delegated /\ log[s] = {} /\ authority.generation \in Nat
      /\ authority' = [role |-> "delegated", snapshot |-> s,
                       generation |-> authority.generation + 1]
      /\ log' = [log EXCEPT ![s] = {"delegated"}]
  BY <1>1 DEF Delegate, Fresh, TypeOK
<1>3. PICK x \in Step : x = [do |-> "export", for |-> s] /\ Start(h, <<x>>)
  BY DEF Step, Delegate
<1>4. x.do = "export" /\ x.for = s
  BY <1>3
<1>5. Idle(h) /\ Goes(h, {x})
  BY <1>1, <1>3, StartOne
<1>6. GoesOn(h, {x}) /\ Keeps(h)
  BY <1>1, <1>4, <1>5, StartGoesOn
<1>7. Moves(h, {x}) /\ AllKeep
  BY <1>6, OthersKeep DEF GoesOn
<1>8. /\ log'[s] = {"delegated"} /\ \A t \in Snapshots \ {s} : log'[t] = log[t]
      /\ log' \in [Snapshots -> SUBSET {"delegated", "interim", "returned", "forced"}]
      /\ authority'.role = "delegated" /\ authority'.snapshot = s
      /\ authority'.generation = authority.generation + 1
      /\ s # NoSnapshot
      /\ authority' \in [role : {"primary", "delegated"}, snapshot : MaybeSnapshot,
                         generation : Nat]
  BY <1>1, <1>2, IdsAssumption DEF TypeOK, MaybeSnapshot
<1>9. TypeOK' /\ HistoryGrows
  BY <1>1, <1>5, <1>8 DEF TypeOK, Goes, HistoryGrows
<1>10. \A t : DelegatedAs(t)' => t = s
  BY <1>8 DEF DelegatedAs, Delegated
<1>11. Advances
  <2>1. \A t \in Snapshots : LaptopAdvances(t)
    BY <1>1 DEF LaptopAdvances, Timely, Works, Retired
  <2>2. \A t \in Snapshots : log[t] \subseteq log'[t]
    BY <1>2, <1>8
  <2> QED
    BY <1>1, <1>2, <1>9, <1>10, <2>1, <2>2 DEF Advances
<1>12. ExportsItsOwn(h, {x})
  BY <1>2, <1>4 DEF ExportsItsOwn
<1>13. OpensApart /\ BooksApart
  BY <1>1, <1>7, <1>12, KeptOpens, KeptBooks
<1>14. laptop[s].role = "none"
  BY <1>2 DEF HInv, Handed
<1>15. RightNext(h, {x})
  <2>1. StepKnown(x)' /\ StepClosed(h, x)'
    BY <1>1, <1>4, <1>8, <1>14 DEF StepKnown, StepClosed, Exports
  <2> QED
    BY <1>4, <2>1 DEF RightNext
<1>16. JobsInOrder' /\ ExportsApart' /\ ImportsApart' /\ WritesApart' /\ StepsKnown'
       /\ StepsClosed'
  BY <1>6, <1>9, <1>11, <1>13, <1>15, JobsStay
<1>17. Handed'
  BY <1>1, <1>8 DEF HInv, Handed, Delegated, Works
<1>18. FilesKnown' /\ ConflictsKnown'
  BY <1>1, <1>11, FilesStay, ConflictsStay DEF HInv
<1>19. MergesKnown'
  <2>1. authority.generation <= authority'.generation /\ merges \subseteq merges
    BY <1>2, <1>8
  <2> QED
    BY <1>1, <1>9, <1>11, <2>1, MergesStay DEF HInv, MergesKnown
<1>20. ReturnedKnown'
  <2>1. \A t \in Snapshots : "returned" \in log'[t] => "returned" \in log[t]
    BY <1>8
  <2> QED
    BY <1>1, <1>11, <1>13, <2>1, ReturnsStay DEF HInv
<1>21. RetiringKnown'
  <2>1. \A t \in Snapshots : log'[t] # {} /\ ~DelegatedAs(t)' => log[t] # {} /\ ~DelegatedAs(t)
    <3>1. DelegatedAs(s)'
      BY <1>8 DEF DelegatedAs, Delegated
    <3>2. \A t : ~DelegatedAs(t)
      BY <1>2 DEF DelegatedAs
    <3> QED
      BY <1>8, <3>1, <3>2
  <2>2. /\ merges' \subseteq [snapshot : Snapshots, generation : Nat, pending : BOOLEAN,
                              mode : {"final", "interim", "forced"}, queued : BOOLEAN]
        /\ \A m \in merges' : m.pending => \E n \in merges : n.pending /\ n.snapshot = m.snapshot
    BY <1>1 DEF TypeOK
  <2> QED
    BY <1>1, <1>7, <1>11, <1>13, <1>16, <2>1, <2>2, RetiringStays DEF HInv
<1> QED
  BY <1>9, <1>16, <1>17, <1>18, <1>19, <1>20, <1>21 DEF HInv

\* What comes home was returned, or is about somebody else's delegation.
LEMMA EndDelegationKeeps ==
    ASSUME HInv, NEW h \in Handlers, EndDelegation(h), UNCHANGED ops
    PROVE  HInv'
<1>1. /\ TypeOK /\ UNCHANGED <<online, merges, conflicts, outbox, laptop, files>>
      /\ returns' = returns /\ faults' = faults
  BY DEF HInv, EndDelegation
<1>2. ~Idle(h) /\ Now(h).do = "release"
  BY DoingIs DEF EndDelegation
<1>3. PICK a \in Step : a = Now(h)
  BY <1>1, <1>2, HeadIs
<1>4. /\ a \in Steps(h) /\ StepKnown(a) /\ StepClosed(h, a) /\ a.do = "release"
      /\ a.result \in {"returned", "forced"} /\ a.snapshot \in MaybeSnapshot
      /\ a.for \in MaybeSnapshot
  BY <1>1, <1>2, <1>3, HeadIs, KindsOfSteps DEF HInv, StepsKnown, RetiringKnown, StepsClosed
<1>5. Keeps(h)
  BY <1>1, <1>2, BusyKeeps DEF HInv
<1>6. CASE ~(Delegated /\ a.snapshot # NoSnapshot)
  <2>1. Refuse(h) /\ UNCHANGED <<DataVars, history>>
    BY <1>1, <1>3, <1>6 DEF EndDelegation, DataVars
  <2>2. Stops(h)
    BY <1>1, <2>1, RefuseStops
  <2>3. TypeOK'
    BY <1>1, <2>1, <2>2, QuietType DEF Stops, TypeOK
  <2> QED
    BY <1>2, <1>5, <2>1, <2>2, <2>3, QuietStop
<1>7. CASE Delegated /\ a.snapshot # NoSnapshot
  <2>1. PICK s \in Snapshots : s = a.snapshot
    BY <1>4, <1>7 DEF MaybeSnapshot
  <2>2. PICK d \in Snapshots : d = authority.snapshot
    BY <1>1, <1>7, IdsAssumption DEF TypeOK, MaybeSnapshot, Delegated
  <2>3. log[d] # {} /\ log[s] # {} /\ authority.generation \in Nat
    BY <1>1, <1>4, <1>7, <2>1, <2>2 DEF HInv, Handed, StepKnown, TypeOK
  <2>4. /\ authority' = [role |-> "primary", snapshot |-> NoSnapshot,
                         generation |-> authority.generation + 1]
        /\ log' = [log EXCEPT ![s] = log[s] \cup {a.result}]
        /\ Past("mistaken", {d, s} \ {a.for})
        /\ Then(h, <<>>)
    BY <1>3, <1>7, <2>1, <2>2 DEF EndDelegation, Released
  <2>5. Goes(h, {})
    BY <1>1, <1>2, <2>4, ThenNothing
  <2>6. GoesOn(h, {})
    BY <1>1, <1>2, <2>5, NowGoesOn
  <2>7. RightNext(h, {}) /\ ExportsItsOwn(h, {}) /\ Moves(h, {}) /\ AllKeep
    BY <1>5, <2>6, OthersKeep DEF RightNext, ExportsItsOwn, GoesOn
  <2>8. /\ HistoryType' /\ HistoryGrows /\ history'.slipped = history.slipped
        /\ history'.closing = history.closing /\ {d, s} \ {a.for} \subseteq history'.mistaken
    <3>1. {d, s} \ {a.for} \subseteq Snapshots /\ HistoryType
      BY <1>1 DEF TypeOK, HistoryType
    <3> QED
      BY <2>4, <3>1, PastIs
  <2>9. /\ authority'.role = "primary" /\ authority'.snapshot = NoSnapshot
        /\ authority'.generation = authority.generation + 1
        /\ authority' \in [role : {"primary", "delegated"}, snapshot : MaybeSnapshot,
                           generation : Nat]
    BY <2>3, <2>4 DEF MaybeSnapshot
  <2>10. /\ log'[s] = log[s] \cup {a.result} /\ \A t \in Snapshots \ {s} : log'[t] = log[t]
         /\ log' \in [Snapshots -> SUBSET {"delegated", "interim", "returned", "forced"}]
    BY <1>1, <1>4, <2>4 DEF TypeOK
  <2>11. TypeOK'
    BY <1>1, <2>5, <2>8, <2>9, <2>10 DEF TypeOK, Goes, HistoryType
  <2>12. \A t : ~DelegatedAs(t)'
    BY <2>9 DEF DelegatedAs, Delegated
  <2>13. Advances
    <3>1. \A t \in Snapshots : LaptopAdvances(t)
      BY <1>1, <2>8 DEF LaptopAdvances, HistoryGrows, Timely, Works, Retired
    <3>2. \A t \in Snapshots : log[t] \subseteq log'[t]
      BY <2>10
    <3> QED
      BY <1>1, <2>8, <2>12, <3>1, <3>2 DEF Advances
  <2>14. OpensApart /\ BooksApart
    BY <1>1, <2>7, KeptOpens, KeptBooks DEF HInv
  <2>15. JobsInOrder' /\ ExportsApart' /\ ImportsApart' /\ WritesApart' /\ StepsKnown'
         /\ StepsClosed'
    BY <1>5, <2>6, <2>7, <2>11, <2>13, <2>14, JobsStay
  <2>16. Handed'
    <3>1. \A t \in Snapshots : log[t] # {} => log'[t] # {}
      BY <2>10
    <3> QED
      BY <1>1, <2>8, <2>9, <3>1 DEF HInv, Handed, Delegated, Works
  <2>17. FilesKnown' /\ ConflictsKnown'
    BY <1>1, <2>13, FilesStay, ConflictsStay DEF HInv
  <2>18. MergesKnown'
    <3>1. authority.generation <= authority'.generation /\ merges \subseteq merges
      BY <2>3, <2>9
    <3> QED
      BY <1>1, <2>11, <2>13, <3>1, MergesStay DEF HInv, MergesKnown
  <2>20. ReturnedKnown'
    <3>1. ASSUME "returned" \in log'[s]
          PROVE  \/ "returned" \in log[s] \/ s \in history'.mistaken
                 \/ (Untouched(s) /\ log[s] # {}) \/ Home(s)
      <4>1. CASE s # a.for
        BY <2>8, <4>1
      <4>2. CASE s = a.for /\ a.result = "returned"
        BY <1>4, <2>3, <2>8, <4>2 DEF StepKnown, HistoryGrows
      <4> QED
        BY <1>4, <2>10, <3>1, <4>1, <4>2
    <3>2. \A t \in Snapshots : "returned" \in log'[t] =>
            \/ "returned" \in log[t] \/ t \in history'.mistaken
            \/ (Untouched(t) /\ log[t] # {}) \/ Home(t)
      BY <2>10, <3>1
    <3> QED
      BY <1>1, <2>13, <2>14, <3>2, ReturnsStay DEF HInv
  <2>21. RetiringKnown'
    <3>1. \/ "forced" \in log'[d] \/ d \in history'.mistaken
          \/ Closed(d)' \/ Untouched(d)'
      <4>1. CASE d # a.for
        BY <2>8, <4>1
      <4>2. CASE d = a.for
        <5>1. s = d
          BY <1>4, <1>7, <2>1, <2>2, <4>2 DEF StepKnown, DelegatedAs
        <5>2. CASE a.result = "forced"
          BY <2>10, <5>1, <5>2
        <5>3. CASE a.result = "returned"
          <6>1. \/ Untouched(d) \/ d \in history.mistaken \/ Closed(d) \/ Retiring(h, d)
            BY <1>4, <4>2, <5>3 DEF StepClosed
          <6>2. CASE Untouched(d)
            BY <2>3, <2>8, <2>14, <6>2, UntouchedStays
          <6>3. CASE d \in history.mistaken
            BY <2>8, <6>3 DEF HistoryGrows
          <6>4. CASE Closed(d)
            BY <2>7, <2>13, <6>4, ClosedStays
          <6>5. CASE Retiring(h, d)
            <7>1. Retiring(h, d)'
              BY <1>1, <1>2, <2>5, <6>5, HeadIs DEF Retiring, Goes
            <7>2. Kept(h)'
              <8>1. \A x \in Rest(h) : x.do \in Later \ {"save"}
                BY <1>1, <1>2, RestIsLater DEF HInv
              <8> QED
                BY <2>5, <8>1 DEF Goes, Kept, Later
            <7> QED
              BY <7>1, <7>2 DEF Closed
          <6> QED
            BY <6>1, <6>2, <6>3, <6>4, <6>5
        <5> QED
          BY <1>4, <5>2, <5>3
      <4> QED
        BY <4>1, <4>2
    <3>2. \A t \in Snapshots : log'[t] # {} /\ ~DelegatedAs(t)' =>
            \/ log[t] # {} /\ ~DelegatedAs(t)
            \/ "forced" \in log'[t] \/ t \in history'.mistaken
            \/ Closed(t)' \/ Untouched(t)'
      <4>1. \A t \in Snapshots : t # d => ~DelegatedAs(t)
        BY <2>2 DEF DelegatedAs
      <4>2. \A t \in Snapshots : log'[t] # {} => log[t] # {}
        BY <2>3, <2>10
      <4> QED
        BY <3>1, <4>1, <4>2
    <3>3. /\ merges' \subseteq [snapshot : Snapshots, generation : Nat, pending : BOOLEAN,
                                mode : {"final", "interim", "forced"}, queued : BOOLEAN]
          /\ \A m \in merges' : m.pending => \E n \in merges : n.pending /\ n.snapshot = m.snapshot
      BY <1>1 DEF TypeOK
    <3> QED
      BY <1>1, <2>7, <2>13, <2>14, <2>15, <3>2, <3>3, RetiringStays DEF HInv
  <2> QED
    BY <2>11, <2>15, <2>16, <2>17, <2>18, <2>20, <2>21 DEF HInv
<1> QED
  BY <1>6, <1>7

-----------------------------------------------------------------------------
(* A return package is made *)

\* The job of a handler that had one thing left.
LEMMA FromOne ==
    ASSUME TypeOK, NEW h \in Handlers, ~Idle(h), Rest(h) = {}, NEW steps \in Seq(Step),
           Then(h, steps)
    PROVE  /\ job' \in [Handlers -> Seq(Step)] /\ job'[h] = steps
           /\ \A g \in Handlers \ {h} : job'[g] = job[g]
<1>1. job[h] \in Seq(Step) /\ job[h] # <<>> /\ Len(job[h]) \in Nat \ {0}
  BY DEF TypeOK, Idle
<1>2. Len(job[h]) = 1
  <2> SUFFICES ASSUME Len(job[h]) # 1
               PROVE  FALSE
    OBVIOUS
  <2>1. PICK n : n = Len(job[h])
    OBVIOUS
  <2>2. n \in Nat /\ n # 0 /\ n # 1
    BY <1>1, <2>1
  <2>3. 2 \in 2..n
    BY <2>2
  <2>4. job[h][2] \in Rest(h)
    BY <2>1, <2>3 DEF Rest
  <2> QED
    BY <2>4
<1>3. Tail(job[h]) \in Seq(Step) /\ Len(Tail(job[h])) = 0
  BY <1>1, <1>2
<1>4. Tail(job[h]) = <<>>
  <2>1. <<>> \in Seq(Step) /\ Len(<<>>) = 0 /\ 1..0 = {}
    OBVIOUS
  <2> QED
    BY <1>3, <2>1, SeqEqual
<1>5. steps \o <<>> = steps
  OBVIOUS
<1>6. job' = [job EXCEPT ![h] = steps]
  BY <1>4, <1>5 DEF Then
<1> QED
  BY <1>6 DEF TypeOK

LEMMA MakesOne ==
    ASSUME TypeOK, JobsInOrder, NEW h \in Handlers, ~Idle(h), Rest(h) = {},
           NEW x \in Step, x.do \in {"receive", "save"}, Then(h, <<x>>)
    PROVE  JobsInOrder' /\ Moves(h, {x}) /\ Steps(h)' = {x}
           /\ job' \in [Handlers -> Seq(Step)]
<1>1. /\ job' \in [Handlers -> Seq(Step)] /\ job'[h] = <<x>>
      /\ \A g \in Handlers \ {h} : job'[g] = job[g]
  <2>1. <<x>> \in Seq(Step)
    OBVIOUS
  <2> QED
    BY <2>1, FromOne
<1>2. Steps(h)' = {x} /\ Rest(h)' = {} /\ Now(h)' = x
  BY <1>1 DEF Steps, Rest, Now
<1>3. \A g \in Handlers : g # h => Steps(g)' = Steps(g) /\ Rest(g)' = Rest(g)
                                  /\ job'[g] = job[g]
  BY <1>1 DEF Steps, Rest
<1>4. JobsInOrder'
  BY <1>2, <1>3 DEF JobsInOrder, Has, Now
<1> QED
  BY <1>1, <1>2, <1>4 DEF Moves

LEMMA MakesTwo ==
    ASSUME TypeOK, JobsInOrder, NEW h \in Handlers, ~Idle(h), Rest(h) = {},
           NEW x \in Step, NEW y \in Step, Then(h, <<x, y>>),
           \/ x.do = "receive" /\ y.do = "retire"
           \/ x.do = "retire" /\ y.do = "save"
    PROVE  JobsInOrder' /\ Moves(h, {x, y}) /\ Steps(h)' = {x, y}
           /\ job' \in [Handlers -> Seq(Step)]
<1>1. /\ job' \in [Handlers -> Seq(Step)] /\ job'[h] = <<x, y>>
      /\ \A g \in Handlers \ {h} : job'[g] = job[g]
  <2>1. <<x, y>> \in Seq(Step)
    OBVIOUS
  <2> QED
    BY <2>1, FromOne
<1>2. Steps(h)' = {x, y} /\ Rest(h)' = {y}
  BY <1>1 DEF Steps, Rest
<1>3. Now(h)' = x /\ Len(job'[h]) = 2 /\ job'[h][2] = y
  BY <1>1 DEF Now
<1>4. \A g \in Handlers : g # h => Steps(g)' = Steps(g) /\ Rest(g)' = Rest(g)
                                  /\ job'[g] = job[g]
  BY <1>1 DEF Steps, Rest
<1>5. JobsInOrder'
  <2>1. ASSUME NEW g \in Handlers
        PROVE  /\ \A z \in Rest(g)' : z.do \in Later
               /\ Has(g, "seal")' => Rest(g)' = {}
               /\ Has(g, "save")' =>
                    \/ Now(g)'.do = "save" /\ Rest(g)' = {}
                    \/ Now(g)'.do = "retire" /\ Len(job'[g]) = 2 /\ job'[g][2].do = "save"
               /\ Has(g, "retire")' =>
                    /\ \A z \in Steps(g)' : z.do \in Pushing \cup {"save"}
                    /\ \A v, w \in Steps(g)' : v.do = "retire" /\ w.do = "retire" => v = w
    <3>1. CASE g = h
      BY <1>2, <1>3, <3>1 DEF Later, Pushing, Has
    <3>2. CASE g # h
      BY <1>4, <3>2 DEF JobsInOrder, Has, Now
    <3> QED
      BY <3>1, <3>2
  <2> QED
    BY <2>1 DEF JobsInOrder
<1>6. {y} \subseteq {z \in {x, y} : z.do \in Later}
  BY DEF Later
<1> QED
  BY <1>1, <1>2, <1>5, <1>6 DEF Moves

LEMMA MadeKeeps ==
    ASSUME HInv, TypeOK', UNCHANGED <<RestVars, online, outbox, history>>,
           \A t \in Snapshots : /\ laptop'[t].role = laptop[t].role
                                /\ laptop'[t].books = laptop[t].books
                                /\ laptop'[t].mails = laptop[t].mails,
           NEW h \in Handlers, ~Idle(h), Now(h).do = "seal", NEW N, Moves(h, N),
           Steps(h)' = N, JobsInOrder',
           \A x \in N : /\ x.do \in {"receive", "retire", "save"}
                        /\ StepKnown(x)' /\ StepClosed(h, x)'
    PROVE  HInv'
<1>1. TypeOK /\ ExportsApart /\ ImportsApart /\ WritesApart /\ StepsKnown /\ RetiringKnown
  BY DEF HInv
<1>2. Keeps(h) /\ AllKeep
  BY <1>1, BusyKeeps, OthersKeep DEF HInv
<1>3. Advances
  <2>1. \A t \in Snapshots : LaptopAdvances(t)
    BY DEF LaptopAdvances, Timely, Works, Retired
  <2> QED
    BY <2>1 DEF Advances, RestVars, DelegatedAs, Delegated, HistoryGrows
<1>4. ExportsItsOwn(h, N) /\ RightNext(h, N)
  BY DEF ExportsItsOwn, RightNext, Exports
<1>5. OpensApart
  BY <1>1, <1>4, ExportsAreOwn DEF OpensApart
<1>6. BooksApart
  BY DEF BooksApart, Unbooked
<1>7. ExportsApart' /\ ImportsApart' /\ WritesApart' /\ StepsKnown'
  BY <1>1, <1>3, <1>4, <1>5, <1>6, ExportsStayApart, ImportsStayApart, WritesStayApart,
     StepsStay DEF RightNext
<1>8. StepsClosed'
  BY <1>1, <1>2, <1>3, <1>5, ClosedStepsStay
<1>9. FilesKnown' /\ ConflictsKnown' /\ MergesKnown' /\ ReturnedKnown' /\ RetiringKnown'
  BY <1>2, <1>3, <1>5, <1>8, DataStays
<1>10. Handed'
  <2>1. history.closing \subseteq Snapshots
    BY <1>1 DEF TypeOK
  <2> QED
    BY <2>1 DEF HInv, Handed, RestVars, Delegated, Works
<1> QED
  BY <1>7, <1>8, <1>9, <1>10 DEF HInv

LEMMA SealKeeps ==
    ASSUME HInv, NEW h \in Handlers, Seal(h), UNCHANGED ops
    PROVE  HInv'
<1>1. /\ TypeOK /\ UNCHANGED <<RestVars, online, outbox, history>> /\ returns' = returns
      /\ faults' = faults /\ JobsInOrder
  BY DEF HInv, Seal, RestVars
<1>2. ~Idle(h) /\ Now(h).do = "seal"
  BY DoingIs DEF Seal
<1>3. PICK a \in Step : a = Now(h)
  BY <1>1, <1>2, HeadIs
<1>4. /\ a \in Steps(h) /\ StepKnown(a) /\ a.do = "seal" /\ Rest(h) = {}
  BY <1>1, <1>2, <1>3, HeadIs DEF HInv, StepsKnown, JobsInOrder, Has
<1>5. PICK s \in Snapshots : s = a.snapshot
  BY <1>4, KindsOfSteps
<1>6. /\ a.generation \in Nat /\ a.books \in Books /\ a.final \in BOOLEAN
      /\ a.push \in BOOLEAN /\ a.retires \in BOOLEAN
  BY <1>4, KindsOfSteps
<1>7. /\ Works(s) /\ (a.retires => a.final)
      /\ a.final => /\ s \in history.closing
                    /\ a.retires \/ Retired(s)
                    /\ StatusIsComplete(s, a.books)
  BY <1>4, <1>5 DEF StepKnown
<1>8. laptop[s] \in LaptopType /\ laptop \in [Snapshots -> LaptopType]
  BY <1>1, LaptopsAre
<1>9. PICK b : b = [a.books EXCEPT !.ledger = laptop[s].books.ledger]
  OBVIOUS
<1>10. b \in Books /\ b.ledger = laptop[s].books.ledger /\ b.status = a.books.status
  BY <1>6, <1>8, <1>9 DEF Books, LaptopType
<1>11. PICK skewed \in BOOLEAN :
         LET retire == IF a.retires THEN <<[do |-> "retire", snapshot |-> s]>> ELSE <<>>
             p == [snapshot |-> s, generation |-> a.generation, final |-> a.final,
                   skewed |-> skewed, books |-> b, mails |-> laptop[s].mails]
         IN  /\ Then(h, IF a.push THEN <<[do |-> "receive", package |-> p]>> \o retire
                        ELSE Append(retire, [do |-> "save", package |-> p]))
             /\ laptop' = IF laptop[s].role # "offline_primary" THEN laptop
                          ELSE [laptop EXCEPT ![s].generation = @ + 1]
  BY <1>3, <1>5, <1>9 DEF Seal
<1>12. PICK p : p = [snapshot |-> s, generation |-> a.generation, final |-> a.final,
                     skewed |-> skewed, books |-> b, mails |-> laptop[s].mails]
  OBVIOUS
<1>13. /\ p \in Package /\ p.snapshot = s /\ p.final = a.final /\ p.books = b
       /\ p.mails = laptop[s].mails
  BY <1>6, <1>8, <1>10, <1>12 DEF Package, LaptopType
<1>14. PICK r \in Step : r = [do |-> "retire", snapshot |-> s]
  BY DEF Step, MaybeSnapshot
<1>15. PICK x \in Step : x = [do |-> "receive", package |-> p]
  BY <1>13 DEF Step
<1>16. PICK y \in Step : y = [do |-> "save", package |-> p]
  BY <1>13 DEF Step
<1>17. /\ r.do = "retire" /\ r.snapshot = s /\ x.do = "receive" /\ x.package = p
       /\ y.do = "save" /\ y.package = p
  BY <1>14, <1>15, <1>16
<1>18. PICK l \in LaptopType :
         /\ laptop' = [laptop EXCEPT ![s] = l]
         /\ l.role = laptop[s].role /\ l.books = laptop[s].books /\ l.mails = laptop[s].mails
  <2>1. CASE laptop[s].role # "offline_primary"
    <3>1. laptop' = [laptop EXCEPT ![s] = laptop[s]]
      BY <1>8, <1>11, <2>1
    <3> QED
      BY <1>8, <3>1
  <2>2. CASE laptop[s].role = "offline_primary"
    <3>1. PICK n \in Nat : n = laptop[s].generation + 1
      BY <1>8 DEF LaptopType
    <3>2. PICK l : l = [laptop[s] EXCEPT !.generation = n]
      OBVIOUS
    <3>3. l \in LaptopType /\ l.role = laptop[s].role /\ l.books = laptop[s].books
          /\ l.mails = laptop[s].mails
      BY <1>8, <3>2 DEF LaptopType
    <3>4. laptop' = [laptop EXCEPT ![s] = l]
      BY <1>11, <2>2, <3>1, <3>2
    <3> QED
      BY <3>3, <3>4
  <2> QED
    BY <2>1, <2>2
<1>19. /\ laptop' \in [Snapshots -> LaptopType]
       /\ \A t \in Snapshots : /\ laptop'[t].role = laptop[t].role
                               /\ laptop'[t].books = laptop[t].books
                               /\ laptop'[t].mails = laptop[t].mails
  BY <1>1, <1>18, OneLaptop
<1>20. PackageKnown(p)'
  <2>1. /\ Works(s)' /\ p.books.ledger = laptop'[s].books.ledger
        /\ p.mails = laptop'[s].mails
    BY <1>7, <1>10, <1>13, <1>19 DEF Works
  <2>2. a.final => s \in history'.closing /\ StatusIsComplete(s, p.books)'
    BY <1>1, <1>7, <1>10, <1>13, <1>19 DEF StatusIsComplete, Timely
  <2> QED
    BY <1>13, <2>1, <2>2 DEF PackageKnown, Complete
<1>21. (a.retires => StepKnown(r)') /\ StepKnown(x)' /\ StepKnown(y)' /\ StepClosed(h, r)'
  <2>1. Works(s)' /\ (a.retires => s \in history'.closing)
    BY <1>1, <1>7, <1>19 DEF Works
  <2> QED
    BY <1>17, <1>20, <2>1 DEF StepKnown, StepClosed, Exports
<1>22. a.final /\ ~a.retires => Retired(s)' /\ Closed(s)'
  BY <1>7, <1>19 DEF Retired, Closed
<1>23. ASSUME NEW N, Moves(h, N), Steps(h)' = N, JobsInOrder', job' \in [Handlers -> Seq(Step)],
              N \subseteq {r, x, y}, a.retires <=> r \in N
       PROVE  HInv'
  <2>1. TypeOK'
    BY <1>1, <1>19, <1>23 DEF TypeOK, LaptopType, RestVars
  <2>2. a.retires => Retiring(h, s)'
    BY <1>17, <1>23 DEF Retiring
  <2>3. StepClosed(h, x)' /\ StepClosed(h, y)'
    BY <1>13, <1>17, <1>22, <2>2 DEF StepClosed
  <2>4. \A z \in N : /\ z.do \in {"receive", "retire", "save"}
                     /\ StepKnown(z)' /\ StepClosed(h, z)'
    BY <1>17, <1>21, <1>23, <2>3
  <2> QED
    BY <1>1, <1>2, <1>19, <1>23, <2>1, <2>4, MadeKeeps
<1>24. CASE a.push /\ ~a.retires
  <2>1. <<x>> \o <<>> = <<x>>
    BY TwoSteps
  <2>2. Then(h, <<x>>)
    BY <1>11, <1>12, <1>15, <1>24, <2>1
  <2>3. JobsInOrder' /\ Moves(h, {x}) /\ Steps(h)' = {x} /\ job' \in [Handlers -> Seq(Step)]
    BY <1>1, <1>2, <1>4, <1>17, <2>2, MakesOne
  <2> QED
    BY <1>17, <1>23, <1>24, <2>3
<1>25. CASE a.push /\ a.retires
  <2>1. <<x>> \o <<r>> = <<x, r>>
    BY TwoSteps
  <2>2. Then(h, <<x, r>>)
    BY <1>11, <1>12, <1>14, <1>15, <1>25, <2>1
  <2>3. JobsInOrder' /\ Moves(h, {x, r}) /\ Steps(h)' = {x, r}
        /\ job' \in [Handlers -> Seq(Step)]
    BY <1>1, <1>2, <1>4, <1>17, <2>2, MakesTwo
  <2> QED
    BY <1>17, <1>23, <1>25, <2>3
<1>26. CASE ~a.push /\ ~a.retires
  <2>1. Append(<<>>, y) = <<y>>
    OBVIOUS
  <2>2. Then(h, <<y>>)
    BY <1>11, <1>12, <1>16, <1>26, <2>1
  <2>3. JobsInOrder' /\ Moves(h, {y}) /\ Steps(h)' = {y} /\ job' \in [Handlers -> Seq(Step)]
    BY <1>1, <1>2, <1>4, <1>17, <2>2, MakesOne
  <2> QED
    BY <1>17, <1>23, <1>26, <2>3
<1>27. CASE ~a.push /\ a.retires
  <2>1. Append(<<r>>, y) = <<r, y>>
    <3>1. <<r>> \in Seq(Step) /\ <<r, y>> \in Seq(Step)
      OBVIOUS
    <3>2. /\ Append(<<r>>, y) \in Seq(Step) /\ Len(Append(<<r>>, y)) = Len(<<r, y>>)
          /\ \A i \in 1..2 : Append(<<r>>, y)[i] = <<r, y>>[i]
      BY <3>1
    <3> QED
      BY <3>1, <3>2, SeqEqual
  <2>2. Then(h, <<r, y>>)
    BY <1>11, <1>12, <1>14, <1>16, <1>27, <2>1
  <2>3. JobsInOrder' /\ Moves(h, {r, y}) /\ Steps(h)' = {r, y}
        /\ job' \in [Handlers -> Seq(Step)]
    BY <1>1, <1>2, <1>4, <1>17, <2>2, MakesTwo
  <2> QED
    BY <1>17, <1>23, <1>27, <2>3
<1> QED
  BY <1>6, <1>24, <1>25, <1>26, <1>27

-----------------------------------------------------------------------------
(* A conflict is resolved *)

LEMMA SumIsNumber ==
    ASSUME NEW b \in Books
    PROVE  Sum(b) \in Nat
<1>1. b.ledger \subseteq Entries
  BY DEF Books
<1>2. IsFiniteSet(b.ledger)
  BY <1>1, EntriesAssumption, FS_Subset
<1> QED
  BY <1>2, FS_CardinalityType DEF Sum

LEMMA AdoptedIs ==
    ASSUME TypeOK, NEW c \in Conflict, NEW r,
           c.entity = "registration" => c.books.status = "checked_in"
    PROVE  /\ Adopted(c, r) \in Books
           /\ online.ledger \subseteq Adopted(c, r).ledger
           /\ Adopted(c, r).ledger \subseteq online.ledger \cup c.books.ledger
           /\ online.status = "checked_in" => Adopted(c, r).status = "checked_in"
<1>1. online \in Books /\ c.books \in Books
      /\ c.entity \in {"registration", "tavern_account", "package"}
  BY DEF TypeOK, Conflict
<1>2. CASE r = "online" \/ c.entity = "package"
  BY <1>1, <1>2 DEF Adopted
<1>3. CASE r # "online" /\ c.entity = "registration"
  <2>1. PICK b : b = [online EXCEPT !.status = c.books.status]
    OBVIOUS
  <2>2. b \in Books /\ b.ledger = online.ledger /\ b.status = c.books.status
    BY <1>1, <2>1 DEF Books
  <2>3. Adopted(c, r) = b
    BY <1>3, <2>1 DEF Adopted
  <2> QED
    BY <1>3, <2>2, <2>3
<1>4. CASE r # "online" /\ c.entity = "tavern_account"
  <2>1. PICK l : l = online.ledger \cup c.books.ledger
    OBVIOUS
  <2>2. PICK n \in Int : n = IF r = "merged" THEN Sum(c.books) ELSE c.books.balance
    BY <1>1, SumIsNumber DEF Books
  <2>3. PICK b : b = [online EXCEPT !.ledger = l, !.balance = n]
    OBVIOUS
  <2>4. l \in SUBSET Entries
    BY <1>1, <2>1 DEF Books
  <2>5. b \in Books /\ b.ledger = l /\ b.status = online.status
    BY <1>1, <2>3, <2>4 DEF Books
  <2>6. Adopted(c, r) = b
    BY <1>4, <2>1, <2>2, <2>3 DEF Adopted
  <2> QED
    BY <2>1, <2>5, <2>6
<1> QED
  BY <1>1, <1>2, <1>3, <1>4

LEMMA CommitResolutionKeeps ==
    ASSUME HInv, NEW h \in Handlers, CommitResolution(h), UNCHANGED ops
    PROVE  HInv'
<1>1. /\ TypeOK /\ UNCHANGED <<authority, log, merges, outbox, laptop, files, history>>
      /\ returns' = returns /\ faults' = faults
  BY DEF HInv, CommitResolution
<1>2. ~Idle(h) /\ Now(h).do = "commit"
  BY DoingIs DEF CommitResolution
<1>3. PICK a \in Step : a = Now(h)
  BY <1>1, <1>2, HeadIs
<1>4. a \in Steps(h) /\ StepKnown(a) /\ a.do = "commit" /\ a.last \in BOOLEAN
      /\ a.resolution \in {"offline", "merged", "online"} /\ a.conflict \in Conflict
  BY <1>1, <1>2, <1>3, HeadIs, KindsOfSteps DEF HInv, StepsKnown
<1>5. PICK c \in Conflict : c = a.conflict
  BY <1>4
<1>6. PICK s \in Snapshots : s = c.snapshot
  BY DEF Conflict
<1>7. PICK d \in conflicts : d.snapshot = s /\ d.entity = c.entity /\ d.books = c.books
  BY <1>4, <1>5, <1>6 DEF StepKnown, Exports
<1>8. /\ c.books.ledger \subseteq laptop[s].books.ledger
      /\ c.entity = "registration" => c.books.status = "checked_in"
  BY <1>7 DEF HInv, ConflictsKnown
<1>9. PICK e : e = [c EXCEPT !.resolution = a.resolution]
  OBVIOUS
<1>10. e \in Conflict /\ e.snapshot = s /\ e.entity = c.entity /\ e.books = c.books
  BY <1>4, <1>6, <1>9 DEF Conflict
<1>11. /\ conflicts' = (conflicts \ {c}) \cup {e}
       /\ online' = Adopted(c, a.resolution)
       /\ \/ \E m \in Pending(s) :
               Then(h, <<[do |-> "recheck", snapshot |-> s, generation |-> m.generation]>>)
          \/ Then(h, <<>>)
  BY <1>3, <1>5, <1>6, <1>9 DEF CommitResolution
<1>12. /\ online' \in Books /\ online.ledger \subseteq online'.ledger
       /\ online'.ledger \subseteq online.ledger \cup laptop[s].books.ledger
       /\ online.status = "checked_in" => online'.status = "checked_in"
  BY <1>1, <1>8, <1>11, AdoptedIs
<1>13. Keeps(h)
  BY <1>1, <1>2, BusyKeeps DEF HInv
<1>14. Advances
  <2>1. \A t \in Snapshots : LaptopAdvances(t)
    BY <1>1 DEF LaptopAdvances, Timely, Works, Retired
  <2>2. \A x \in conflicts : \E y \in conflicts' :
          y.snapshot = x.snapshot /\ y.entity = x.entity /\ y.books = x.books
    <3> TAKE x \in conflicts
    <3>1. CASE x = c
      BY <1>6, <1>10, <1>11, <3>1
    <3>2. CASE x # c
      BY <1>11, <3>2
    <3> QED
      BY <3>1, <3>2
  <2> QED
    BY <1>1, <1>12, <2>1, <2>2 DEF Advances, HistoryGrows, DelegatedAs, Delegated
<1>15. ASSUME NEW N, Goes(h, N),
              \A x \in N : /\ x.do = "recheck" /\ x.snapshot = s
                           /\ \E m \in merges : m.snapshot = s /\ m.pending
       PROVE  HInv'
  <2>1. GoesOn(h, N)
    BY <1>1, <1>2, <1>15, NowGoesOn DEF Pushing
  <2>2. Moves(h, N) /\ AllKeep
    BY <1>13, <2>1, OthersKeep DEF GoesOn
  <2>3. TypeOK'
    BY <1>1, <1>10, <1>11, <1>12, <1>15 DEF TypeOK, Goes
  <2>4. ExportsItsOwn(h, N)
    BY <1>15 DEF ExportsItsOwn, Exports
  <2>5. OpensApart
    BY <1>1, <2>2, <2>4, KeptOpens DEF HInv
  <2>6. BooksApart
    BY <1>1, <1>12 DEF BooksApart, Unbooked
  <2>7. RightNext(h, N)
    <3>1. ASSUME NEW x \in N
          PROVE  StepKnown(x)' /\ StepClosed(h, x)'
      <4>1. PICK m \in merges : m.snapshot = s /\ m.pending
        BY <1>15
      <4>2. Home(s) /\ Closed(s)
        BY <4>1 DEF HInv, MergesKnown, RetiringKnown
      <4>3. Home(s)' /\ Closed(s)'
        BY <1>1, <1>14, <2>2, <4>2, HomeStays, ClosedStays
      <4> QED
        BY <1>15, <4>3 DEF StepKnown, StepClosed, Exports
    <3> QED
      BY <1>15, <3>1 DEF RightNext
  <2>8. JobsInOrder' /\ ExportsApart' /\ ImportsApart' /\ WritesApart' /\ StepsKnown'
        /\ StepsClosed'
    BY <1>13, <1>14, <2>1, <2>3, <2>5, <2>6, <2>7, JobsStay
  <2>9. Handed'
    BY <1>1, <1>12, HandedStays DEF HInv, Handed
  <2>10. FilesKnown' /\ ReturnedKnown'
    BY <1>1, <1>14, <2>5, FilesStay, ReturnsStay DEF HInv
  <2>11. ConflictsKnown'
    <3> SUFFICES ASSUME NEW x \in conflicts'
                 PROVE  /\ x.books.ledger \subseteq laptop[x.snapshot].books.ledger
                        /\ x.entity = "registration" => x.books.status = "checked_in"
      BY <1>1 DEF ConflictsKnown
    <3>1. CASE x = e
      BY <1>8, <1>10, <3>1
    <3>2. CASE x \in conflicts
      BY <3>2 DEF HInv, ConflictsKnown
    <3> QED
      BY <1>11, <3>1, <3>2
  <2>12. MergesKnown'
    <3>1. authority.generation <= authority'.generation /\ merges \subseteq merges
      BY <1>1 DEF TypeOK
    <3> QED
      BY <1>1, <1>14, <2>3, <3>1, MergesStay DEF HInv, MergesKnown
  <2>13. RetiringKnown'
    <3>1. /\ \A m \in merges' : m.pending =>
               \E n \in merges : n.pending /\ n.snapshot = m.snapshot
          /\ merges' \subseteq [snapshot : Snapshots, generation : Nat, pending : BOOLEAN,
                                mode : {"final", "interim", "forced"}, queued : BOOLEAN]
          /\ \A t \in Snapshots : log'[t] = log[t] /\ DelegatedAs(t)' = DelegatedAs(t)
      BY <1>1 DEF TypeOK, DelegatedAs, Delegated
    <3> QED
      BY <1>1, <1>14, <2>2, <2>5, <2>8, <3>1, RetiringStays DEF HInv
  <2> QED
    BY <2>3, <2>8, <2>9, <2>10, <2>11, <2>12, <2>13 DEF HInv
<1>16. CASE Then(h, <<>>)
  <2>1. Goes(h, {})
    BY <1>1, <1>2, <1>16, ThenNothing
  <2> QED
    BY <1>15, <2>1
<1>17. CASE \E m \in Pending(s) :
              Then(h, <<[do |-> "recheck", snapshot |-> s, generation |-> m.generation]>>)
  <2>1. PICK m \in merges :
          /\ m.snapshot = s /\ m.pending
          /\ Then(h, <<[do |-> "recheck", snapshot |-> s, generation |-> m.generation]>>)
    BY <1>17 DEF Pending
  <2>2. m.generation \in Nat
    BY <1>1 DEF TypeOK
  <2>3. PICK x \in Step : x = [do |-> "recheck", snapshot |-> s, generation |-> m.generation]
    BY <2>2 DEF Step
  <2>4. Goes(h, {x}) /\ x.do = "recheck" /\ x.snapshot = s
    BY <1>1, <1>2, <2>1, <2>3, ThenOne
  <2> QED
    BY <1>15, <2>1, <2>4
<1> QED
  BY <1>11, <1>16, <1>17

-----------------------------------------------------------------------------
(* A return package is taken over *)

LEMMA MaxOfTwo ==
    ASSUME NEW a \in Nat, NEW b \in Nat
    PROVE  Max({a, b}) \in Nat /\ a <= Max({a, b}) /\ b <= Max({a, b})
<1> DEFINE Upper(x) == x \in {a, b} /\ \A y \in {a, b} : x >= y
<1>1. \E x : Upper(x)
  <2>1. CASE a >= b
    <3>1. Upper(a)
      BY <2>1
    <3> QED
      BY <3>1
  <2>2. CASE b >= a
    <3>1. Upper(b)
      BY <2>2
    <3> QED
      BY <3>1
  <2> QED
    BY <2>1, <2>2
<1>2. Max({a, b}) = CHOOSE x : Upper(x)
  BY DEF Max
<1>3. Upper(Max({a, b}))
  <2> HIDE DEF Upper
  <2> QED
    BY <1>1, <1>2
<1>4. Max({a, b}) \in {a, b} /\ Max({a, b}) >= a /\ Max({a, b}) >= b
  BY <1>3
<1> QED
  BY <1>4

LEMMA NewConflictIs ==
    ASSUME NEW p \in Package,
           NEW t \in {"registration_changed_online", "balance_mismatch", "forced_release",
                      "clock_skew"},
           NEW e \in {"registration", "tavern_account", "package"}
    PROVE  /\ NewConflict(p, t, e) \in Conflict
           /\ NewConflict(p, t, e).snapshot = p.snapshot
           /\ NewConflict(p, t, e).books = p.books
           /\ NewConflict(p, t, e).entity = e
BY DEF NewConflict, Conflict, Package

\* A conflict about p, and about a check-in only if there is one.
About(p, c) ==
    /\ c \in Conflict /\ c.snapshot = p.snapshot /\ c.books = p.books
    /\ c.entity = "registration" => p.books.status = "checked_in"

LEMMA FoundIs ==
    ASSUME NEW p \in Package, NEW c \in Found(p)
    PROVE  About(p, c)
<1>1. \/ c = NewConflict(p, "registration_changed_online", "registration") /\ Touched(p)
      \/ c = NewConflict(p, "balance_mismatch", "tavern_account")
      \/ c = NewConflict(p, "forced_release", "registration") /\ Touched(p)
      \/ c = NewConflict(p, "forced_release", "tavern_account")
  BY DEF Found, Flag
<1> QED
  BY <1>1, NewConflictIs DEF About, Touched

LEMMA ApplyingIs ==
    ASSUME TypeOK, NEW p \in Package
    PROVE  /\ Applying(p) \in Books
           /\ online.ledger \subseteq Applying(p).ledger
           /\ Applying(p).ledger \subseteq online.ledger \cup p.books.ledger
           /\ Balanced(p) => p.books.ledger \subseteq Applying(p).ledger
           /\ online.status = "checked_in" => Applying(p).status = "checked_in"
           /\ Touched(p) /\ online.status # "cancelled" => Applying(p).status = "checked_in"
<1>1. online \in Books /\ p.books \in Books
  BY DEF TypeOK, Package
<1>2. PICK l : l = IF Balanced(p) THEN online.ledger \cup p.books.ledger ELSE online.ledger
  OBVIOUS
<1>3. PICK n : n = IF Balanced(p) THEN p.books.balance ELSE online.balance
  OBVIOUS
<1>4. PICK t : t = IF Touched(p) /\ online.status # "cancelled" THEN "checked_in"
                   ELSE online.status
  OBVIOUS
<1>5. l \in SUBSET Entries /\ n \in Int /\ t \in {"confirmed", "checked_in", "cancelled"}
  BY <1>1, <1>2, <1>3, <1>4 DEF Books
<1>6. PICK b : b = [ledger |-> l, balance |-> n, status |-> t]
  OBVIOUS
<1>7. b \in Books /\ b.ledger = l /\ b.status = t
  BY <1>5, <1>6 DEF Books
<1>8. Applying(p) = b
  BY <1>2, <1>3, <1>4, <1>6 DEF Applying
<1> QED
  BY <1>2, <1>4, <1>7, <1>8

LEMMA QueueIs ==
    ASSUME TypeOK, NEW S \in SUBSET Mails
    PROVE  /\ Queue(S) \in [Mails -> [state : {"none", "queued", "sent"}, copies : Nat]]
           /\ \A m \in Mails : outbox[m].state # "none" => Queue(S)[m].state # "none"
           /\ \A m \in S : Queue(S)[m].state # "none"
<1>1. ASSUME NEW m \in Mails
      PROVE  /\ Queue(S)[m] \in [state : {"none", "queued", "sent"}, copies : Nat]
             /\ outbox[m].state # "none" => Queue(S)[m].state # "none"
             /\ m \in S => Queue(S)[m].state # "none"
  <2>1. outbox[m] \in [state : {"none", "queued", "sent"}, copies : Nat]
    BY DEF TypeOK
  <2>2. PICK q : q = [outbox[m] EXCEPT !.state = "queued"]
    OBVIOUS
  <2>3. q \in [state : {"none", "queued", "sent"}, copies : Nat] /\ q.state = "queued"
    BY <2>1, <2>2
  <2>4. Queue(S)[m] = IF m \in S /\ outbox[m].state = "none" THEN q ELSE outbox[m]
    BY <2>2 DEF Queue
  <2> QED
    BY <2>1, <2>3, <2>4
<1>2. Queue(S) \in [Mails -> [state : {"none", "queued", "sent"}, copies : Nat]]
  <2>1. Queue(S) = [m \in Mails |-> Queue(S)[m]]
    BY DEF Queue
  <2> QED
    BY <1>1, <2>1
<1> QED
  BY <1>1, <1>2

\* What a merge may do to the books, the delegation, the merges and the jobs.
BooksMerge(p, C) ==
    /\ online' \in Books /\ online.ledger \subseteq online'.ledger
    /\ online'.ledger \subseteq online.ledger \cup p.books.ledger
    /\ online.status = "checked_in" => online'.status = "checked_in"
    /\ outbox' \in [Mails -> [state : {"none", "queued", "sent"}, copies : Nat]]
    /\ \A m \in Mails : outbox[m].state # "none" => outbox'[m].state # "none"
    /\ conflicts' = conflicts \cup C /\ \A c \in C : About(p, c)
DelegationMerges(s) ==
    /\ authority' \in [role : {"primary", "delegated"}, snapshot : MaybeSnapshot,
                       generation : Nat]
    /\ authority'.role = authority.role /\ authority'.snapshot = authority.snapshot
    /\ authority.generation <= authority'.generation
    /\ log' \in [Snapshots -> SUBSET {"delegated", "interim", "returned", "forced"}]
    /\ \A t \in Snapshots : log[t] \subseteq log'[t]
    /\ \A t \in Snapshots : log'[t] \subseteq log[t] \/ t = s
    /\ log'[s] \subseteq log[s] \cup {"interim"}
MergesMerge(h, s, M) ==
    /\ merges' = merges \cup M
    /\ \A m \in M :
         /\ m \in MergeType /\ m.snapshot = s
         /\ m.mode # "forced" => m.generation < authority'.generation
         /\ m.mode = "final" => Home(s)'
         /\ m.pending => /\ m.mode = "final"
                         /\ Closed(s) \/ (Retiring(h, s)' /\ Kept(h)')
JobsMerge(h, s, N) ==
    /\ GoesOn(h, N) /\ Keeps(h)
    /\ \A x \in N :
         \/ x.do = "flush"
         \/ /\ x.do = "return" /\ x.for = s /\ x.result = "returned"
            /\ Home(s)' /\ (Closed(s) \/ Retiring(h, s)')

LEMMA MergedKeeps ==
    ASSUME HInv, UNCHANGED <<laptop, files, history, returns, faults, ops>>,
           NEW h \in Handlers, NEW p \in Package, PackageKnown(p),
           NEW s \in Snapshots, s = p.snapshot,
           NEW C, BooksMerge(p, C), DelegationMerges(s),
           NEW M, MergesMerge(h, s, M), NEW N, JobsMerge(h, s, N)
    PROVE  HInv'
<1> USE DEF BooksMerge, DelegationMerges, MergesMerge, JobsMerge
<1>1. TypeOK /\ Moves(h, N) /\ StepsKnown /\ AllKeep
  BY OthersKeep DEF HInv, GoesOn
<1>2. TypeOK'
  <2>1. job' \in [Handlers -> Seq(Step)]
    BY <1>1 DEF Moves
  <2>2. conflicts' \subseteq Conflict
    BY <1>1 DEF TypeOK, About
  <2>3. merges' \subseteq MergeType
    BY <1>1 DEF TypeOK, MergeType
  <2> QED
    BY <1>1, <2>1, <2>2, <2>3 DEF TypeOK, MergeType
<1>3. \A t : DelegatedAs(t)' = DelegatedAs(t)
  BY DEF DelegatedAs, Delegated
<1>4. log[s] # {} /\ log'[s] # {}
  BY DEF PackageKnown, Works, HInv, Handed
<1>5. Advances
  <2>1. \A t \in Snapshots : LaptopAdvances(t)
    BY DEF LaptopAdvances, Timely, Works, Retired
  <2>2. \A c \in conflicts : \E d \in conflicts' :
          d.snapshot = c.snapshot /\ d.entity = c.entity /\ d.books = c.books
    OBVIOUS
  <2> QED
    BY <1>3, <2>1, <2>2 DEF Advances, HistoryGrows
<1>6. ExportsItsOwn(h, N)
  BY DEF ExportsItsOwn, Exports
<1>7. OpensApart
  BY <1>1, <1>6, KeptOpens
<1>8. BooksApart
  <2>1. p.books.ledger \subseteq laptop[s].books.ledger
    BY DEF PackageKnown
  <2> QED
    BY <2>1 DEF BooksApart, Unbooked
<1>9. \A t \in Snapshots : Closed(t) => Closed(t)'
  BY <1>1, <1>5, ClosedStays
<1>10. RightNext(h, N)
  <2>1. ASSUME NEW x \in N
        PROVE  StepKnown(x)' /\ StepClosed(h, x)'
    <3>1. CASE x.do = "flush"
      BY <3>1 DEF StepKnown, StepClosed, Exports
    <3>2. CASE /\ x.do = "return" /\ x.for = s /\ x.result = "returned"
               /\ Home(s)' /\ (Closed(s) \/ Retiring(h, s)')
      BY <1>4, <1>9, <3>2 DEF StepKnown, StepClosed, Exports
    <3> QED
      BY <3>1, <3>2
  <2> QED
    BY <2>1 DEF RightNext
<1>11. JobsInOrder' /\ ExportsApart' /\ ImportsApart' /\ WritesApart' /\ StepsKnown'
       /\ StepsClosed'
  BY <1>2, <1>5, <1>7, <1>8, <1>10, JobsStay
<1>12. Handed'
  <2>1. \A t \in Snapshots : log[t] # {} => log'[t] # {}
    OBVIOUS
  <2>2. Delegated => authority.snapshot \in Snapshots
    BY <1>1, IdsAssumption DEF TypeOK, Delegated, MaybeSnapshot
  <2>3. Delegated' => log'[authority'.snapshot] # {}
    BY <2>1, <2>2 DEF HInv, Handed, Delegated
  <2> QED
    BY <2>1, <2>3 DEF HInv, Handed, Works
<1>13. FilesKnown'
  BY <1>1, <1>5, FilesStay DEF HInv
<1>14. ConflictsKnown'
  <2> SUFFICES ASSUME NEW c \in conflicts'
               PROVE  /\ c.books.ledger \subseteq laptop[c.snapshot].books.ledger
                      /\ c.entity = "registration" => c.books.status = "checked_in"
    BY DEF ConflictsKnown
  <2>1. CASE c \in conflicts
    BY <2>1 DEF HInv, ConflictsKnown
  <2>2. CASE c \in C
    BY <2>2 DEF About, PackageKnown
  <2> QED
    BY <2>1, <2>2
<1>15. MergesKnown'
  <2>1. \A m \in merges :
          /\ log'[m.snapshot] # {}
          /\ m.mode # "forced" /\ DelegatedAs(m.snapshot)'
               => m.generation < authority'.generation
          /\ m.mode = "final" => Home(m.snapshot)'
          /\ m.pending => m.mode = "final"
    <3>1. merges \subseteq merges
      OBVIOUS
    <3> QED
      BY <1>1, <1>2, <1>5, <3>1, MergesStay DEF HInv
  <2> SUFFICES ASSUME NEW m \in merges'
               PROVE  /\ log'[m.snapshot] # {}
                      /\ m.mode # "forced" /\ DelegatedAs(m.snapshot)'
                           => m.generation < authority'.generation
                      /\ m.mode = "final" => Home(m.snapshot)'
                      /\ m.pending => m.mode = "final"
    BY DEF MergesKnown
  <2> QED
    BY <1>4, <2>1
<1>16. ReturnedKnown'
  <2>1. \A t \in Snapshots : "returned" \in log'[t] => "returned" \in log[t]
    OBVIOUS
  <2> QED
    BY <1>1, <1>5, <1>7, <2>1, ReturnsStay DEF HInv
<1>17. RetiringKnown'
  <2>1. \A m \in merges' : m.pending =>
          Closed(m.snapshot)' \/ \E n \in merges : n.pending /\ n.snapshot = m.snapshot
    <3> SUFFICES ASSUME NEW m \in M, m.pending
                 PROVE  Closed(s)'
      OBVIOUS
    <3>1. CASE Closed(s)
      BY <1>9, <3>1
    <3>2. CASE Retiring(h, s)' /\ Kept(h)'
      BY <3>2 DEF Closed
    <3> QED
      BY <3>1, <3>2
  <2>2. merges' \subseteq [snapshot : Snapshots, generation : Nat, pending : BOOLEAN,
                           mode : {"final", "interim", "forced"}, queued : BOOLEAN]
    BY <1>2 DEF TypeOK
  <2>3. \A t \in Snapshots : log'[t] # {} => log[t] # {}
    BY <1>4
  <2> QED
    BY <1>1, <1>3, <1>5, <1>7, <1>11, <2>1, <2>2, <2>3, RetiringStays DEF HInv
<1> QED
  BY <1>2, <1>11, <1>12, <1>13, <1>14, <1>15, <1>16, <1>17 DEF HInv

\* A handler goes on with what it decides now and then with what it had to do.
LEMMA Takes ==
    ASSUME TypeOK, NEW h \in Handlers, NEW rest,
           \/ Idle(h) /\ rest = <<>>
           \/ ~Idle(h) /\ rest = Tail(job[h]),
           NEW steps \in Seq(Step), job' = [job EXCEPT ![h] = steps \o rest],
           NEW N, N = {steps[i] : i \in 1..Len(steps)},
           \A i \in 2..Len(steps) : steps[i].do \in Later
    PROVE  Goes(h, N)
<1>1. CASE ~Idle(h)
  <2>1. rest = Tail(job[h])
    BY <1>1
  <2>2. Then(h, steps)
    BY <2>1 DEF Then
  <2> QED
    BY <1>1, <2>2, ThenGoes
<1>2. CASE Idle(h)
  <2>1. steps \o <<>> = steps
    OBVIOUS
  <2>2. job' \in [Handlers -> Seq(Step)] /\ job'[h] = steps
        /\ \A g \in Handlers \ {h} : job'[g] = job[g]
    BY <1>2, <2>1 DEF TypeOK
  <2>3. DOMAIN steps = 1..Len(steps)
    OBVIOUS
  <2>4. Steps(h)' = N
    BY <2>2, <2>3 DEF Steps
  <2>5. Rest(h)' = {steps[i] : i \in 2..Len(steps)}
    BY <2>2 DEF Rest
  <2>6. Len(steps) \in Nat
    OBVIOUS
  <2>7. \A i \in 2..Len(steps) : i \in 1..Len(steps)
    BY <2>6
  <2>8. \A i \in 2..Len(steps) : steps[i] \in {x \in N : x.do \in Later}
    BY <2>7
  <2>9. Rest(h)' \subseteq {x \in N : x.do \in Later}
    BY <2>5, <2>8
  <2>10. Rest(h) = {}
    BY <1>2, IdleHasNothing
  <2> QED
    BY <2>2, <2>4, <2>9, <2>10 DEF Goes
<1> QED
  BY <1>1, <1>2

\* What comes after the merge: a file is imported by a handler that had nothing to do.
Leaves(h, rest) ==
    \/ Idle(h) /\ rest = <<>>
    \/ Doing(h, "merge") /\ rest = Tail(job[h])
Answers(h, rest, s, clean, queued) ==
    job' = [job EXCEPT ![h] =
              (IF clean THEN ReturnToPrimary(s) ELSE <<>>)
              \o (IF queued THEN <<[do |-> "flush"]>> ELSE <<>>) \o rest]

\* After a merge the delegation may be ended, and mails may be sent.
LEMMA MergeGoes ==
    ASSUME TypeOK, JobsInOrder, NEW h \in Handlers, NEW rest, Leaves(h, rest),
           NEW clean \in BOOLEAN, NEW queued \in BOOLEAN, NEW s \in Snapshots,
           Answers(h, rest, s, clean, queued)
    PROVE  \E N : /\ Goes(h, N) /\ GoesOn(h, N) /\ Keeps(h)
                  /\ \A x \in N : \/ x.do = "flush"
                                  \/ /\ clean /\ x.do = "return" /\ x.for = s
                                     /\ x.result = "returned"
<1> USE DEF Leaves, Answers
<1>1. PICK r \in Step : r = [do |-> "return", for |-> s, result |-> "returned"]
  BY DEF Step, MaybeSnapshot
<1>2. PICK f \in Step : f = [do |-> "flush"]
  BY DEF Step
<1>3. /\ r.do = "return" /\ r.for = s /\ r.result = "returned" /\ f.do = "flush"
      /\ <<r>> \o <<f>> = <<r, f>> /\ <<r>> \o <<>> = <<r>> /\ <<>> \o <<f>> = <<f>>
      /\ <<>> \o <<>> = <<>>
  <2>1. <<>> \o <<>> = <<>>
    OBVIOUS
  <2> QED
    BY <1>1, <1>2, <2>1, TwoSteps
<1>4. PICK steps \in Seq(Step) :
        /\ job' = [job EXCEPT ![h] = steps \o rest]
        /\ \/ clean /\ steps = <<r, f>>
           \/ clean /\ steps = <<r>>
           \/ steps = <<f>> \/ steps = <<>>
  <2>1. CASE clean /\ queued
    <3>1. job' = [job EXCEPT ![h] = <<r, f>> \o rest]
      BY <1>1, <1>2, <1>3, <2>1 DEF ReturnToPrimary
    <3>2. <<r, f>> \in Seq(Step)
      OBVIOUS
    <3> QED
      BY <2>1, <3>1, <3>2
  <2>2. CASE clean /\ ~queued
    <3>1. job' = [job EXCEPT ![h] = <<r>> \o rest]
      BY <1>1, <1>3, <2>2 DEF ReturnToPrimary
    <3>2. <<r>> \in Seq(Step)
      OBVIOUS
    <3> QED
      BY <2>2, <3>1, <3>2
  <2>3. CASE ~clean /\ queued
    <3>1. job' = [job EXCEPT ![h] = <<f>> \o rest]
      BY <1>2, <1>3, <2>3
    <3>2. <<f>> \in Seq(Step)
      OBVIOUS
    <3> QED
      BY <3>1, <3>2
  <2>4. CASE ~clean /\ ~queued
    <3>1. job' = [job EXCEPT ![h] = <<>> \o rest]
      BY <1>3, <2>4
    <3>2. <<>> \in Seq(Step)
      OBVIOUS
    <3> QED
      BY <3>1, <3>2
  <2> QED
    BY <2>1, <2>2, <2>3, <2>4
<1>5. PICK N : N = {steps[i] : i \in 1..Len(steps)}
  OBVIOUS
<1>6. /\ \A x \in N : x = f \/ (clean /\ x = r)
      /\ \A i \in 2..Len(steps) : steps[i].do \in Later
  <2>1. CASE steps = <<r, f>> /\ clean
    <3>1. Len(steps) = 2 /\ steps[1] = r /\ steps[2] = f
      BY <2>1
    <3>2. \A i \in 1..2 : i = 1 \/ i = 2
      OBVIOUS
    <3>3. \A i \in 2..2 : i = 2
      OBVIOUS
    <3> QED
      BY <1>3, <1>5, <2>1, <3>1, <3>2, <3>3 DEF Later
  <2>2. CASE steps = <<r>> /\ clean
    <3>1. Len(steps) = 1 /\ steps[1] = r /\ 2..1 = {}
      BY <2>2
    <3>2. \A i \in 1..1 : i = 1
      OBVIOUS
    <3> QED
      BY <1>5, <2>2, <3>1, <3>2
  <2>3. CASE steps = <<f>>
    <3>1. Len(steps) = 1 /\ steps[1] = f /\ 2..1 = {}
      BY <2>3
    <3>2. \A i \in 1..1 : i = 1
      OBVIOUS
    <3> QED
      BY <1>5, <3>1, <3>2
  <2>4. CASE steps = <<>>
    <3>1. Len(steps) = 0 /\ 1..0 = {} /\ 2..0 = {}
      BY <2>4
    <3> QED
      BY <1>5, <3>1
  <2> QED
    BY <1>4, <2>1, <2>2, <2>3, <2>4
<1>7. Doing(h, "merge") => ~Idle(h) /\ Now(h).do = "merge"
  BY DoingIs
<1>8. Goes(h, N)
  BY <1>4, <1>5, <1>6, <1>7, Takes
<1>9. GoesOn(h, N) /\ Keeps(h)
  <2>1. CASE Idle(h)
    BY <1>3, <1>6, <1>8, <2>1, StartsGoOn
  <2>2. CASE ~Idle(h)
    <3>1. \A x \in N : x.do \in Pushing \ {"retire"}
      BY <1>3, <1>6 DEF Pushing
    <3> QED
      BY <1>7, <1>8, <2>2, <3>1, NowGoesOn, BusyKeeps DEF Pushing
  <2> QED
    BY <2>1, <2>2
<1> QED
  BY <1>3, <1>6, <1>8, <1>9

LEMMA AppliedKeeps ==
    ASSUME HInv, NEW h \in Handlers, Idle(h) \/ Doing(h, "merge"),
           UNCHANGED <<DataVars, history, returns, faults, ops>>,
           Refuse(h) \/ job' = [job EXCEPT ![h] = <<[do |-> "flush"]>>]
    PROVE  HInv'
<1>1. TypeOK
  BY DEF HInv
<1>2. PICK f \in Step : f = [do |-> "flush"]
  BY DEF Step
<1>3. f.do = "flush"
  BY <1>2
<1>4. ~Idle(h) => Now(h).do = "merge"
  BY DoingIs DEF Doing, Now
<1>5. /\ job' \in [Handlers -> Seq(Step)] /\ \A g \in Handlers \ {h} : job'[g] = job[g]
      /\ Steps(h)' \subseteq {f} /\ Rest(h)' = {}
  <2>1. CASE Refuse(h)
    BY <1>1, <2>1, RefuseStops DEF Stops
  <2>2. CASE job' = [job EXCEPT ![h] = <<[do |-> "flush"]>>]
    <3>1. job' = [job EXCEPT ![h] = <<f>>] /\ <<f>> \in Seq(Step)
      BY <1>2, <2>2
    <3>2. /\ job' \in [Handlers -> Seq(Step)] /\ job'[h] = <<f>>
          /\ \A g \in Handlers \ {h} : job'[g] = job[g]
      BY <1>1, <3>1 DEF TypeOK
    <3> QED
      BY <3>2 DEF Steps, Rest
  <2> QED
    BY <2>1, <2>2
<1>6. GoesOn(h, {f})
  BY <1>3, <1>4, <1>5 DEF GoesOn, Moves, Pushing
<1>7. Keeps(h)
  BY <1>1, <1>4, BusyKeeps DEF HInv
<1>8. RightNext(h, {f}) /\ ExportsItsOwn(h, {f})
  BY <1>3 DEF RightNext, ExportsItsOwn, Exports, StepKnown, StepClosed
<1>9. TypeOK' /\ HistoryGrows /\ history'.slipped = history.slipped
  BY <1>1, <1>5, QuietType DEF TypeOK, HistoryGrows
<1> QED
  BY <1>6, <1>7, <1>8, <1>9, QuietStep

\* The package waits for an admin.
LEMMA HeldBackKeeps ==
    ASSUME HInv, NEW h \in Handlers, Idle(h) \/ Doing(h, "merge"),
           NEW p \in Package, PackageKnown(p), Refuse(h),
           conflicts' = conflicts \cup {NewConflict(p, "clock_skew", "package")},
           UNCHANGED <<authority, log, online, merges, outbox, laptop, files, history,
                       returns, faults, ops>>
    PROVE  HInv'
<1>1. TypeOK
  BY DEF HInv
<1>2. PICK s \in Snapshots : s = p.snapshot
  BY DEF Package
<1>3. ~Idle(h) => Now(h).do = "merge"
  BY DoingIs DEF Doing, Now
<1>4. Stops(h)
  BY <1>1, RefuseStops
<1>5. GoesOn(h, {}) /\ Keeps(h)
  BY <1>1, <1>3, <1>4, StopGoesOn, BusyKeeps DEF HInv
<1>6. PICK C : C = {NewConflict(p, "clock_skew", "package")}
  OBVIOUS
<1>7. conflicts' = conflicts \cup C /\ \A c \in C : About(p, c)
  BY <1>6, NewConflictIs DEF About
<1>8. BooksMerge(p, C) /\ DelegationMerges(s)
  BY <1>1, <1>7 DEF TypeOK, BooksMerge, DelegationMerges
<1>9. MergesMerge(h, s, {}) /\ JobsMerge(h, s, {})
  BY <1>5 DEF MergesMerge, JobsMerge
<1> QED
  BY <1>2, <1>8, <1>9, MergedKeeps

\* What the final package had on site is online, or an admin is asked about it.
LEMMA FinalIsHome ==
    ASSUME TypeOK, NEW p \in Package, Complete(p), Normal(p),
           UNCHANGED <<laptop, history>>,
           online' = Applying(p), outbox' = Queue(p.mails),
           conflicts' = conflicts \cup Found(p)
    PROVE  Home(p.snapshot)'
<1>1. PICK s \in Snapshots : s = p.snapshot
  BY DEF Package
<1>2. s \in history'.closing
  BY <1>1 DEF Complete
<1>3. ASSUME NEW e \in laptop[s].books.ledger, Timely(s, e)'
      PROVE  e \in online'.ledger
             \/ \E c \in Reviewed(s, "tavern_account")' : e \in c.books.ledger
  <2>1. e \in p.books.ledger
    BY <1>1, <1>3 DEF Complete, Timely
  <2>2. CASE Balanced(p)
    BY <2>1, <2>2, ApplyingIs
  <2>3. CASE ~Balanced(p)
    <3>1. PICK c : c = NewConflict(p, "balance_mismatch", "tavern_account")
      OBVIOUS
    <3>2. c \in Found(p) /\ c.snapshot = s /\ c.entity = "tavern_account" /\ c.books = p.books
      BY <1>1, <2>3, <3>1, NewConflictIs DEF Found, Flag
    <3>3. c \in Reviewed(s, "tavern_account")'
      BY <3>2 DEF Reviewed
    <3> QED
      BY <2>1, <3>2, <3>3
  <2> QED
    BY <2>2, <2>3
<1>4. ASSUME laptop[s].books.status = "checked_in", Timely(s, CheckIn)'
      PROVE  online'.status = "checked_in" \/ Reviewed(s, "registration")' # {}
  <2>1. p.books.status = "checked_in"
    BY <1>1, <1>4 DEF Complete, StatusIsComplete, Timely
  <2>2. CASE online.status = "checked_in"
    BY <2>2, ApplyingIs
  <2>3. CASE Touched(p) /\ online.status # "cancelled"
    BY <2>3, ApplyingIs
  <2>4. CASE Touched(p) /\ online.status = "cancelled"
    <3>1. PICK c : c = NewConflict(p, "registration_changed_online", "registration")
      OBVIOUS
    <3>2. c \in Found(p) /\ c.snapshot = s /\ c.entity = "registration"
      BY <1>1, <2>4, <3>1, NewConflictIs DEF Found, Flag
    <3>3. c \in Reviewed(s, "registration")'
      BY <3>2 DEF Reviewed
    <3> QED
      BY <3>3
  <2> QED
    BY <2>1, <2>2, <2>3, <2>4 DEF Touched
<1>5. ASSUME NEW m \in laptop[s].mails, Timely(s, m)'
      PROVE  outbox'[m].state # "none"
  <2>1. m \in p.mails
    BY <1>1, <1>5 DEF Complete, Timely
  <2>2. p.mails \in SUBSET Mails
    BY DEF Package
  <2> QED
    BY <2>1, <2>2, QueueIs
<1>6. CameHome(s)'
  BY <1>3, <1>4, <1>5 DEF CameHome, Timely
<1> QED
  BY <1>1, <1>2, <1>6 DEF Home

\* Nothing is lost by taking over a package, and its laptop retires if it was final.
LEMMA TakenOverKeeps ==
    ASSUME HInv, NEW h \in Handlers, NEW rest, Leaves(h, rest),
           NEW p \in Package, PackageKnown(p),
           p.final => \/ Closed(p.snapshot)
                      \/ Doing(h, "merge") /\ Retiring(h, p.snapshot),
           MergeReturnPackage(h, p, rest),
           Applied(p) = {}, Acceptable(p), ~HeldBack(p),
           UNCHANGED <<laptop, files, history, returns, faults, ops>>
    PROVE  HInv'
<1>1. TypeOK /\ JobsInOrder
  BY DEF HInv
<1>2. PICK s \in Snapshots : s = p.snapshot
  BY DEF Package
<1>3. PICK mode : mode = IF ~Normal(p) THEN "forced"
                         ELSE IF p.final THEN "final" ELSE "interim"
  OBVIOUS
<1>4. PICK queued \in BOOLEAN :
        queued = (Normal(p) /\ \E m \in p.mails : outbox[m].state = "none")
  OBVIOUS
<1>5. PICK clean \in BOOLEAN : clean = (mode = "final" /\ Found(p) = {})
  OBVIOUS
<1>6. PICK m : m = [snapshot |-> p.snapshot, generation |-> p.generation, mode |-> mode,
                    pending |-> mode = "final" /\ Found(p) # {}, queued |-> queued]
  OBVIOUS
<1>7. /\ conflicts' = conflicts \cup Found(p)
      /\ merges' = merges \cup {m}
      /\ online' = IF Normal(p) THEN Applying(p) ELSE online
      /\ outbox' = IF Normal(p) THEN Queue(p.mails) ELSE outbox
      /\ authority' = IF Normal(p)
                      THEN [authority EXCEPT !.generation =
                              Max({authority.generation, p.generation}) + 1]
                      ELSE authority
      /\ log' = IF mode # "interim" THEN log
                ELSE [log EXCEPT ![s] = log[s] \cup {"interim"}]
      /\ Answers(h, rest, s, clean, queued)
  BY <1>2, <1>3, <1>4, <1>5, <1>6 DEF MergeReturnPackage, Answers
<1>8. PICK N : /\ GoesOn(h, N) /\ Keeps(h) /\ Goes(h, N)
               /\ \A x \in N : \/ x.do = "flush"
                               \/ /\ clean /\ x.do = "return" /\ x.for = s
                                  /\ x.result = "returned"
  BY <1>1, <1>7, MergeGoes
<1>9. mode \in {"final", "interim", "forced"} /\ (mode # "forced" => Normal(p))
      /\ (mode = "final" => p.final /\ Normal(p))
  BY <1>3
<1>10. /\ m \in MergeType /\ m.snapshot = s /\ m.mode = mode
       /\ m.generation = p.generation
       /\ m.pending = (mode = "final" /\ Found(p) # {})
  BY <1>2, <1>6, <1>9 DEF MergeType, Package
<1>11. BooksMerge(p, Found(p))
  <2>1. online \in Books /\ p.books \in Books /\ p.mails \in SUBSET Mails
        /\ outbox \in [Mails -> [state : {"none", "queued", "sent"}, copies : Nat]]
    BY <1>1 DEF TypeOK, Package
  <2>2. online' \in Books /\ online.ledger \subseteq online'.ledger
        /\ online'.ledger \subseteq online.ledger \cup p.books.ledger
        /\ (online.status = "checked_in" => online'.status = "checked_in")
    BY <1>1, <1>7, <2>1, ApplyingIs
  <2>3. /\ outbox' \in [Mails -> [state : {"none", "queued", "sent"}, copies : Nat]]
        /\ \A i \in Mails : outbox[i].state # "none" => outbox'[i].state # "none"
    BY <1>1, <1>7, <2>1, QueueIs
  <2>4. \A c \in Found(p) : About(p, c)
    BY FoundIs
  <2> QED
    BY <1>7, <2>2, <2>3, <2>4 DEF BooksMerge
<1>12. DelegationMerges(s) /\ (mode # "forced" => p.generation < authority'.generation)
  <2>1. PICK n \in Nat : n = Max({authority.generation, p.generation})
    BY <1>1, MaxOfTwo DEF TypeOK, Package
  <2>2. authority.generation \in Nat /\ p.generation \in Nat
        /\ authority.generation <= n /\ p.generation <= n
    BY <1>1, <2>1, MaxOfTwo DEF TypeOK, Package
  <2>3. PICK a : a = [authority EXCEPT !.generation = n + 1]
    OBVIOUS
  <2> authority \in [role : {"primary", "delegated"}, snapshot : MaybeSnapshot,
                     generation : Nat]
    BY <1>1 DEF TypeOK
  <2>4. /\ a \in [role : {"primary", "delegated"}, snapshot : MaybeSnapshot,
                  generation : Nat]
        /\ a.role = authority.role /\ a.snapshot = authority.snapshot
        /\ a.generation = n + 1
    BY <2>2, <2>3
  <2>5. authority' = IF Normal(p) THEN a ELSE authority
    BY <1>7, <2>1, <2>3
  <2>6. /\ authority' \in [role : {"primary", "delegated"}, snapshot : MaybeSnapshot,
                           generation : Nat]
        /\ authority'.role = authority.role /\ authority'.snapshot = authority.snapshot
        /\ authority.generation <= authority'.generation
        /\ mode # "forced" => p.generation < authority'.generation
    BY <1>9, <2>2, <2>4, <2>5
  <2>7. /\ log' \in [Snapshots -> SUBSET {"delegated", "interim", "returned", "forced"}]
        /\ \A t \in Snapshots : log[t] \subseteq log'[t]
        /\ \A t \in Snapshots : log'[t] \subseteq log[t] \/ t = s
        /\ log'[s] \subseteq log[s] \cup {"interim"}
    BY <1>1, <1>7 DEF TypeOK
  <2> QED
    BY <2>6, <2>7 DEF DelegationMerges
<1>13. ASSUME mode = "final"
       PROVE  Home(s)'
  <2>1. Complete(p) /\ Normal(p)
    BY <1>9, <1>13 DEF PackageKnown
  <2> QED
    BY <1>1, <1>2, <1>7, <2>1, FinalIsHome
<1>14. ASSUME mode = "final"
       PROVE  Closed(s) \/ (Retiring(h, s)' /\ (~clean => Kept(h)'))
  <2>1. CASE Closed(s)
    BY <2>1
  <2>2. CASE Doing(h, "merge") /\ Retiring(h, s)
    <3>1. ~Idle(h) /\ Now(h).do = "merge"
      BY <2>2, DoingIs
    <3>2. Steps(h)' = N \cup Rest(h) /\ Steps(h) = {Now(h)} \cup Rest(h)
      BY <1>1, <1>8, <3>1, HeadIs DEF Goes
    <3>3. Retiring(h, s)'
      BY <2>2, <3>1, <3>2 DEF Retiring
    <3>4. \A x \in Rest(h) : x.do \in Later \ {"save"}
      BY <1>1, <3>1, RestIsLater
    <3>5. ~clean => Kept(h)'
      BY <1>8, <3>2, <3>4 DEF Kept, Later
    <3> QED
      BY <3>3, <3>5
  <2> QED
    BY <1>2, <1>9, <1>14, <2>1, <2>2
<1>15. MergesMerge(h, s, {m})
  <2>1. m.pending => m.mode = "final" /\ (Closed(s) \/ (Retiring(h, s)' /\ Kept(h)'))
    BY <1>5, <1>10, <1>14
  <2> QED
    BY <1>7, <1>10, <1>12, <1>13, <2>1 DEF MergesMerge
<1>16. JobsMerge(h, s, N)
  <2>1. clean => Home(s)' /\ (Closed(s) \/ Retiring(h, s)')
    BY <1>5, <1>13, <1>14
  <2> QED
    BY <1>8, <2>1 DEF JobsMerge
<1> HIDE DEF HInv
<1> QED
  BY <1>2, <1>11, <1>12, <1>15, <1>16, MergedKeeps

LEMMA MergeReturnPackageKeeps ==
    ASSUME HInv, NEW h \in Handlers, NEW rest, Leaves(h, rest),
           NEW p \in Package, PackageKnown(p),
           p.final => \/ Closed(p.snapshot)
                      \/ Doing(h, "merge") /\ Retiring(h, p.snapshot),
           MergeReturnPackage(h, p, rest),
           UNCHANGED <<laptop, files, history, returns, faults, ops>>
    PROVE  HInv'
<1>1. \/ /\ job' = [job EXCEPT ![h] = IF \E m \in Applied(p) : m.queued
                                      THEN <<[do |-> "flush"]>> ELSE <<>>]
         /\ UNCHANGED <<authority, log, online, merges, conflicts, outbox>>
      \/ /\ Refuse(h)
         /\ UNCHANGED <<authority, log, online, merges, conflicts, outbox>>
      \/ /\ conflicts' = conflicts \cup {NewConflict(p, "clock_skew", "package")}
         /\ Refuse(h)
         /\ UNCHANGED <<authority, log, online, merges, outbox>>
      \/ Applied(p) = {} /\ Acceptable(p) /\ ~HeldBack(p)
  BY DEF MergeReturnPackage
<1> Idle(h) \/ Doing(h, "merge")
  BY DEF Leaves
<1>2. CASE /\ job' = [job EXCEPT ![h] = IF \E m \in Applied(p) : m.queued
                                        THEN <<[do |-> "flush"]>> ELSE <<>>]
           /\ UNCHANGED <<authority, log, online, merges, conflicts, outbox>>
  <2>1. Refuse(h) \/ job' = [job EXCEPT ![h] = <<[do |-> "flush"]>>]
    BY <1>2 DEF Refuse
  <2> QED
    BY <1>2, <2>1, AppliedKeeps DEF DataVars
<1>3. CASE /\ Refuse(h)
           /\ UNCHANGED <<authority, log, online, merges, conflicts, outbox>>
  BY <1>3, AppliedKeeps DEF DataVars
<1>4. CASE /\ conflicts' = conflicts \cup {NewConflict(p, "clock_skew", "package")}
           /\ Refuse(h)
           /\ UNCHANGED <<authority, log, online, merges, outbox>>
  BY <1>4, HeldBackKeeps
<1>5. CASE Applied(p) = {} /\ Acceptable(p) /\ ~HeldBack(p)
  BY <1>5, TakenOverKeeps
<1> QED
  BY <1>1, <1>2, <1>3, <1>4, <1>5

LEMMA MergeKeeps ==
    ASSUME HInv, NEW h \in Handlers, Merge(h), UNCHANGED ops
    PROVE  HInv'
<1>1. Doing(h, "merge") /\ MergeReturnPackage(h, Now(h).package, Tail(job[h]))
      /\ UNCHANGED <<laptop, files, history, returns, faults, ops>>
  BY DEF Merge
<1>2. ~Idle(h) /\ Now(h).do = "merge" /\ TypeOK
  BY <1>1, DoingIs DEF HInv
<1>3. PICK x : x = Now(h)
  OBVIOUS
<1>4. x \in Step /\ x \in Steps(h) /\ StepKnown(x) /\ StepClosed(h, x) /\ x.do = "merge"
  BY <1>2, <1>3, HeadIs DEF HInv, StepsKnown, RetiringKnown, StepsClosed
<1>5. PICK p \in Package : p = x.package
  BY <1>4, KindsOfSteps
<1>6. PackageKnown(p)
  BY <1>4, <1>5 DEF StepKnown
<1>7. p.final => Closed(p.snapshot) \/ (Doing(h, "merge") /\ Retiring(h, p.snapshot))
  BY <1>1, <1>4, <1>5 DEF StepClosed
<1>8. Leaves(h, Tail(job[h]))
  BY <1>1 DEF Leaves
<1>9. MergeReturnPackage(h, p, Tail(job[h]))
  BY <1>1, <1>3, <1>5
<1> QED
  BY <1>1, <1>6, <1>7, <1>8, <1>9, MergeReturnPackageKeeps

LEMMA ImportFileKeeps ==
    ASSUME HInv, NEW h \in Handlers, NEW p \in files, ImportFile(h, p), UNCHANGED ops
    PROVE  HInv'
<1>1. Idle(h) /\ MergeReturnPackage(h, p, <<>>)
      /\ UNCHANGED <<laptop, files, history, returns, faults, ops>>
  BY DEF ImportFile, Fresh
<1>2. p \in Package /\ PackageKnown(p) /\ (p.final => Closed(p.snapshot))
  BY DEF HInv, TypeOK, FilesKnown, Closed
<1>3. Leaves(h, <<>>)
  BY <1>1 DEF Leaves
<1> QED
  BY <1>1, <1>2, <1>3, MergeReturnPackageKeeps

-----------------------------------------------------------------------------
(* The invariant *)

LEMMA InitKeeps ==
    ASSUME Init
    PROVE  HInv
<1> USE DEF Init
<1>1. NothingYet \in Books /\ 0 \in Nat
  BY DEF NothingYet, Books
<1>2. \A s \in Snapshots : laptop[s].role = "none" /\ laptop[s].books = NothingYet
                           /\ laptop[s].mails = {} /\ log[s] = {}
  OBVIOUS
<1>3. \A h \in Handlers : Steps(h) = {} /\ Rest(h) = {}
  <2> SUFFICES ASSUME NEW h \in Handlers
               PROVE  Steps(h) = {} /\ Rest(h) = {}
    OBVIOUS
  <2>1. job[h] = <<>>
    OBVIOUS
  <2>2. Len(job[h]) = 0 /\ DOMAIN job[h] = 1..0
    BY <2>1
  <2> QED
    BY <2>2 DEF Steps, Rest
<1>4. authority.role = "primary" /\ authority.snapshot = NoSnapshot
      /\ ~Delegated
  BY DEF Delegated
<1>5. TypeOK
  <2>1. authority \in [role : {"primary", "delegated"}, snapshot : MaybeSnapshot,
                       generation : Nat]
    BY <1>1 DEF MaybeSnapshot
  <2>2. log \in [Snapshots -> SUBSET {"delegated", "interim", "returned", "forced"}]
    OBVIOUS
  <2>3. outbox \in [Mails -> [state : {"none", "queued", "sent"}, copies : Nat]]
    BY <1>1
  <2>4. laptop \in [Snapshots ->
          [role : {"none", "file", "loaded", "offline_primary", "retired"},
           handed : Nat, generation : Nat, books : Books, mails : SUBSET Mails]]
    BY <1>1
  <2>5. job \in [Handlers -> Seq(Step)]
    OBVIOUS
  <2>6. history \in [slipped : SUBSET Entries,
                     late : SUBSET (Snapshots \X (Writes \cup Mails)),
                     closing : SUBSET Snapshots, unanswered : SUBSET Snapshots,
                     mistaken : SUBSET Snapshots]
    OBVIOUS
  <2>7. returns \in 0..MaxReturns /\ faults \in 0..MaxFaults
    BY BoundsAssumption
  <2>8. (authority.role = "delegated") = (authority.snapshot # NoSnapshot)
    BY <1>4
  <2> QED
    BY <1>1, <2>1, <2>2, <2>3, <2>4, <2>5, <2>6, <2>7, <2>8 DEF TypeOK
<1>6. JobsInOrder /\ ExportsApart /\ ImportsApart /\ WritesApart
  BY <1>3 DEF JobsInOrder, ExportsApart, ImportsApart, WritesApart, Has
<1>7. Handed
  BY <1>2, <1>4 DEF Handed
<1>8. StepsKnown /\ FilesKnown /\ ConflictsKnown /\ MergesKnown /\ ReturnedKnown
  BY <1>2, <1>3 DEF StepsKnown, FilesKnown, ConflictsKnown, MergesKnown, ReturnedKnown
<1>9. RetiringKnown
  BY <1>2, <1>3 DEF RetiringKnown, StepsClosed
<1> QED
  BY <1>5, <1>6, <1>7, <1>8, <1>9 DEF HInv

LEMMA StutterKeeps ==
    ASSUME HInv, UNCHANGED ovars
    PROVE  HInv'
<1>1. /\ authority' = authority /\ log' = log /\ online' = online /\ merges' = merges
      /\ conflicts' = conflicts /\ outbox' = outbox /\ laptop' = laptop /\ files' = files
      /\ job' = job /\ history' = history /\ returns' = returns /\ faults' = faults
      /\ ops' = ops
  BY DEF ovars
<1>2. TypeOK' /\ HistoryGrows /\ BooksApart /\ history'.slipped \subseteq online'.ledger
  BY <1>1 DEF HInv, TypeOK, HistoryGrows, BooksApart, Unbooked, Handed
<1> QED
  BY <1>1, <1>2, OnlineKeeps DEF RestVars

LEMMA ProceedKeeps ==
    ASSUME HInv, NEW h \in Handlers, Proceed(h), UNCHANGED ops
    PROVE  HInv'
BY WriteKeeps, ExportKeeps, CopyKeeps, ReadSnapshotKeeps, EndDelegationKeeps, EmergencyKeeps,
   AbandonKeeps, BecomeOfflinePrimaryKeeps, SetGenerationKeeps, SealKeeps, RetireKeeps,
   SaveKeeps, ReceiveKeeps, MergeKeeps, CommitResolutionKeeps, RecheckKeeps, SettleKeeps,
   FlushKeeps, DeliverKeeps, MarkKeeps DEF Proceed

LEMMA RequestKeeps ==
    ASSUME HInv, NEW h \in Handlers, Request(h), UNCHANGED ops
    PROVE  HInv'
BY PassGuardKeeps, DelegateKeeps, ImportKeeps, BuildKeeps, ReleaseKeeps,
   MailHousekeepingKeeps, ImportFileKeeps, ResolveKeeps DEF Request

LEMMA NextKeeps ==
    ASSUME HInv, Next
    PROVE  HInv'
<1>1. UNCHANGED ops
  BY DEF Next
<1>2. ASSUME NEW h \in Handlers,
             \/ Proceed(h) \/ Request(h) \/ ExportFails(h) \/ DeliverFails(h)
             \/ LoseRequest(h) \/ LoseAnswer(h) \/ Restart(h)
      PROVE  HInv'
  BY <1>1, <1>2, ProceedKeeps, RequestKeeps, ExportFailsKeeps, DeliverFailsKeeps,
     LoseRequestKeeps, LoseAnswerKeeps, RestartKeeps
<1>3. ASSUME NEW e \in Entries, WebhookTopUp(e)
      PROVE  HInv'
  BY <1>1, <1>3, WebhookTopUpKeeps
<1>4. ASSUME CancelOnline
      PROVE  HInv'
  BY <1>1, <1>4, CancelOnlineKeeps
<1>5. ASSUME NEW s \in Snapshots, NEW w \in Writes, LaptopWrite(s, w)
      PROVE  HInv'
  BY <1>1, <1>5, LaptopWriteKeeps
<1>6. ASSUME NEW s \in Snapshots, NEW m \in Mails, LaptopMail(s, m)
      PROVE  HInv'
  BY <1>1, <1>6, LaptopMailKeeps
<1> QED
  BY <1>2, <1>3, <1>4, <1>5, <1>6 DEF Next

\* Everything a handler has yet to do was decided on what is still true: in particular no
\* package loses what was on its laptop, and whoever was told to retire does, or never
\* heard of it (the statements of instanceAuthority, offlinePackage and offlineMerge).
THEOREM HandoverInvariant == Spec => []HInv
<1>1. Init => HInv
  BY InitKeeps
<1>2. HInv /\ [Next]_ovars => HInv'
  BY NextKeeps, StutterKeeps
<1> QED
  BY <1>1, <1>2, PTL DEF Spec

\* The rows of instance_authority, snapshot_log, offline_merges, sync_conflicts and
\* mail_outbox, and the statements of the handlers, keep their types.
THEOREM OfflineTypeCorrect == Spec => []TypeOK
<1>1. HInv => TypeOK
  BY DEF HInv
<1> QED
  BY <1>1, HandoverInvariant, PTL

\* What was booked, checked in or mailed on site before the final return is online when the
\* delegation has been returned, or an admin was asked about it (mergeReturnPackage).
THEOREM ReturnedComesHomeCorrect == Spec => []ReturnedComesHome
<1>1. HInv => ReturnedComesHome
  BY ReturnedIsHome DEF HInv
<1> QED
  BY <1>1, HandoverInvariant, PTL

\* A laptop that retired, or never heard that it had to, has made its final return.
EndedKnown ==
    \A s \in Snapshots : Retired(s) \/ s \in history.unanswered => s \in history.closing

LEMMA EndedStays ==
    ASSUME EndedKnown, HistoryGrows,
           \A s \in Snapshots : Retired(s)' => Retired(s) \/ s \in history.closing,
           \A s \in Snapshots : s \in history'.unanswered =>
               s \in history.unanswered \/ s \in history.closing
    PROVE  EndedKnown'
BY DEF EndedKnown, HistoryGrows

\* Which is so whatever happens on the laptop otherwise.
LEMMA EndedAnyway ==
    ASSUME EndedKnown, HistoryGrows, history'.unanswered = history.unanswered,
           \A s \in Snapshots : Retired(s)' => Retired(s)
    PROVE  EndedKnown'
BY EndedStays

LEMMA EndedByFault ==
    ASSUME HInv, EndedKnown, NEW h \in Handlers, Unanswered(h), UNCHANGED laptop
    PROVE  EndedKnown'
<1>1. HistoryGrows
  BY UnansweredIs
<1>2. \A x \in Steps(h) : x.do = "retire" => x.snapshot \in history.closing
  BY DEF HInv, StepsKnown, StepKnown
<1> DEFINE more == IF ~Waiting(h) THEN {}
                   ELSE {step.snapshot : step \in {x \in Steps(h) : x.do = "retire"}}
<1>3. more \subseteq history.closing
  BY <1>2
<1>4. Past("unanswered", more)
  BY DEF Unanswered
<1> HIDE DEF more
<1>5. history'.unanswered = history.unanswered \cup more
  BY <1>4 DEF Past, HInv, TypeOK
<1> QED
  BY <1>1, <1>3, <1>5, EndedStays DEF Retired

\* Nothing noted but a lost answer says that a laptop did not hear it had to retire.
LEMMA NotedGrows ==
    ASSUME TypeOK, NEW more,
           \/ Past("slipped", more) \/ Past("mistaken", more)
           \/ Past("late", more) \/ Past("closing", more)
    PROVE  HistoryGrows /\ history'.unanswered = history.unanswered
<1>1. CASE Past("slipped", more)
  BY <1>1 DEF Past, HistoryGrows, TypeOK
<1>2. CASE Past("mistaken", more)
  <2>1. history'.mistaken = history.mistaken \cup more
    BY <1>2 DEF Past, TypeOK
  <2>2. /\ history'.late = history.late /\ history'.closing = history.closing
        /\ history'.unanswered = history.unanswered
    BY <1>2 DEF Past, TypeOK
  <2> QED
    BY <2>1, <2>2 DEF HistoryGrows
<1>3. CASE Past("late", more)
  <2>1. history'.late = history.late \cup more
    BY <1>3 DEF Past, TypeOK
  <2>2. /\ history'.mistaken = history.mistaken /\ history'.closing = history.closing
        /\ history'.unanswered = history.unanswered
    BY <1>3 DEF Past, TypeOK
  <2> QED
    BY <2>1, <2>2 DEF HistoryGrows
<1>4. CASE Past("closing", more)
  <2>1. history'.closing = history.closing \cup more
    BY <1>4 DEF Past, TypeOK
  <2>2. /\ history'.mistaken = history.mistaken /\ history'.late = history.late
        /\ history'.unanswered = history.unanswered
    BY <1>4 DEF Past, TypeOK
  <2> QED
    BY <2>1, <2>2 DEF HistoryGrows
<1> QED
  BY <1>1, <1>2, <1>3, <1>4

LEMMA EndedProceeds ==
    ASSUME HInv, EndedKnown, NEW h \in Handlers, Proceed(h)
    PROVE  EndedKnown'
<1>1. TypeOK
  BY DEF HInv
<1>2. CASE UNCHANGED <<laptop, history>>
  BY <1>2, EndedAnyway DEF HistoryGrows, Retired
<1>3. CASE Write(h) \/ EndDelegation(h)
  <2>1. UNCHANGED laptop /\ (UNCHANGED history \/ \E more : \/ Past("slipped", more)
                                                         \/ Past("mistaken", more))
    BY <1>3 DEF Write, EndDelegation, Slipped
  <2>2. HistoryGrows /\ history'.unanswered = history.unanswered
    <3>1. CASE UNCHANGED history
      BY <3>1 DEF HistoryGrows
    <3>2. ASSUME NEW more, Past("slipped", more) \/ Past("mistaken", more)
          PROVE  HistoryGrows /\ history'.unanswered = history.unanswered
      BY <1>1, <3>2, NotedGrows
    <3> QED
      BY <2>1, <3>1, <3>2
  <2> QED
    BY <2>1, <2>2, EndedAnyway DEF Retired
<1>4. CASE Copy(h)
  <2>1. PICK more : Past("mistaken", more)
    BY <1>4 DEF Copy
  <2>2. HistoryGrows /\ history'.unanswered = history.unanswered
    BY <1>1, <2>1, NotedGrows
  <2>3. \A s \in Snapshots : Retired(s)' => Retired(s)
    BY <1>1, <1>4 DEF Copy, Retired, TypeOK
  <2> QED
    BY <2>2, <2>3, EndedAnyway
<1>5. CASE BecomeOfflinePrimary(h) \/ SetGeneration(h) \/ Seal(h)
  <2>1. HistoryGrows /\ history'.unanswered = history.unanswered
    BY <1>5 DEF BecomeOfflinePrimary, SetGeneration, Seal, HistoryGrows
  <2>2. \A s \in Snapshots : Retired(s)' => Retired(s)
    <3>1. CASE BecomeOfflinePrimary(h)
      BY <1>1, <3>1 DEF BecomeOfflinePrimary, Retired, TypeOK
    <3>2. CASE SetGeneration(h)
      BY <1>1, <3>2 DEF SetGeneration, Retired, TypeOK
    <3>3. CASE Seal(h)
      BY <1>1, <3>3 DEF Seal, Retired, TypeOK
    <3> QED
      BY <1>5, <3>1, <3>2, <3>3
  <2> QED
    BY <2>1, <2>2, EndedAnyway
<1>6. CASE Retire(h)
  <2>1. HistoryGrows /\ history'.unanswered = history.unanswered
    BY <1>6 DEF Retire, HistoryGrows
  <2>2. Now(h).snapshot \in history.closing
    <3>1. ~Idle(h) /\ Now(h).do = "retire"
      BY <1>6, DoingIs DEF Retire
    <3>2. Now(h) \in Steps(h)
      BY <1>1, <3>1, HeadIs
    <3> QED
      BY <3>1, <3>2 DEF HInv, StepsKnown, StepKnown
  <2>3. \A s \in Snapshots : Retired(s)' => Retired(s) \/ s = Now(h).snapshot
    BY <1>1, <1>6 DEF Retire, Retired, TypeOK
  <2> QED
    BY <2>1, <2>2, <2>3, EndedStays
<1>7. \/ UNCHANGED <<laptop, history>>
      \/ Write(h) \/ EndDelegation(h) \/ Copy(h) \/ BecomeOfflinePrimary(h)
      \/ SetGeneration(h) \/ Seal(h) \/ Retire(h)
  BY DEF Proceed, Export, ReadSnapshot, Emergency, Abandon, Save, Receive, Merge,
         CommitResolution, Recheck, Settle, Flush, Deliver, Mark
<1> QED
  BY <1>2, <1>3, <1>4, <1>5, <1>6, <1>7

LEMMA EndedRequests ==
    ASSUME HInv, EndedKnown, NEW h \in Handlers, Request(h)
    PROVE  EndedKnown'
<1>1. TypeOK
  BY DEF HInv
<1>2. CASE UNCHANGED <<laptop, history>>
  BY <1>2, EndedAnyway DEF HistoryGrows, Retired
<1>3. ASSUME NEW s \in Snapshots, Import(h, s)
      PROVE  EndedKnown'
  <2>1. \A t \in Snapshots : Retired(t)' => Retired(t)
    BY <1>1, <1>3 DEF Import, Retired, TypeOK
  <2>2. HistoryGrows /\ history'.unanswered = history.unanswered
    BY <1>3 DEF Import, HistoryGrows
  <2> QED
    BY <2>1, <2>2, EndedAnyway
<1>4. ASSUME NEW s \in Snapshots, NEW final \in BOOLEAN, NEW push \in BOOLEAN,
             Build(h, s, final, push)
      PROVE  EndedKnown'
  <2>1. UNCHANGED laptop /\ \E more : Past("closing", more)
    BY <1>4 DEF Build
  <2>2. HistoryGrows /\ history'.unanswered = history.unanswered
    BY <1>1, <2>1, NotedGrows
  <2> QED
    BY <2>1, <2>2, EndedAnyway DEF Retired
<1>5. \/ UNCHANGED <<laptop, history>>
      \/ \E s \in Snapshots : Import(h, s)
      \/ \E s \in Snapshots : \E final, push \in BOOLEAN : Build(h, s, final, push)
  BY DEF Request, PassGuard, Delegate, Release, ReleaseForce, MailHousekeeping, ImportFile,
         Resolve
<1> QED
  BY <1>2, <1>3, <1>4, <1>5

LEMMA EndedNext ==
    ASSUME HInv, EndedKnown, [Next]_ovars
    PROVE  EndedKnown'
<1>1. TypeOK
  BY DEF HInv
<1>2. CASE UNCHANGED <<laptop, history>>
  BY <1>2, EndedAnyway DEF HistoryGrows, Retired
<1>3. ASSUME NEW h \in Handlers, LoseRequest(h) \/ LoseAnswer(h) \/ Restart(h)
      PROVE  EndedKnown'
  BY <1>3, EndedByFault DEF LoseRequest, LoseAnswer, Restart
<1>4. ASSUME NEW e \in Entries, WebhookTopUp(e)
      PROVE  EndedKnown'
  <2>1. UNCHANGED laptop /\ \E more : Past("slipped", more)
    BY <1>4 DEF WebhookTopUp, Slipped
  <2>2. HistoryGrows /\ history'.unanswered = history.unanswered
    BY <1>1, <2>1, NotedGrows
  <2> QED
    BY <2>1, <2>2, EndedAnyway DEF Retired
<1>5. ASSUME NEW s \in Snapshots,
             \/ \E w \in Writes : LaptopWrite(s, w)
             \/ \E m \in Mails : LaptopMail(s, m)
      PROVE  EndedKnown'
  <2>1. \E more : Past("late", more)
    BY <1>5 DEF LaptopWrite, LaptopMail, Late
  <2>2. HistoryGrows /\ history'.unanswered = history.unanswered
    BY <1>1, <2>1, NotedGrows
  <2>3. \A t \in Snapshots : Retired(t)' => Retired(t)
    <3>1. ASSUME NEW w \in Writes, LaptopWrite(s, w)
          PROVE  \A t \in Snapshots : laptop'[t].role = laptop[t].role
      BY <1>1, <3>1 DEF LaptopWrite, TypeOK
    <3>2. ASSUME NEW m \in Mails, LaptopMail(s, m)
          PROVE  \A t \in Snapshots : laptop'[t].role = laptop[t].role
      BY <1>1, <3>2 DEF LaptopMail, TypeOK
    <3> QED
      BY <1>5, <3>1, <3>2 DEF Retired
  <2> QED
    BY <2>2, <2>3, EndedAnyway
<1>6. \A h \in Handlers : ExportFails(h) \/ DeliverFails(h) => UNCHANGED <<laptop, history>>
  BY DEF ExportFails, DeliverFails
<1>7. CancelOnline \/ UNCHANGED ovars => UNCHANGED <<laptop, history>>
  BY DEF CancelOnline, ovars
<1> QED
  BY <1>2, <1>3, <1>4, <1>5, <1>6, <1>7, EndedProceeds, EndedRequests DEF Next

\* What is written on a laptop, is written while it works.
LEMMA ClosedIsEnded ==
    ASSUME HInv, EndedKnown, NEW s \in Snapshots, laptop[s].role # "none",
           ~DelegatedAs(s), "forced" \notin log[s], s \notin history.mistaken
    PROVE  /\ s \in history.closing
           /\ laptop[s].role = "retired" \/ s \in history.unanswered \/ AboutToRetire(s)
<1>1. log[s] # {} /\ ~Untouched(s)
  BY DEF HInv, Handed, Untouched
<1>2. Closed(s)
  BY <1>1 DEF HInv, RetiringKnown
<1>3. CASE Retired(s) \/ s \in history.unanswered
  BY <1>3 DEF EndedKnown, Retired
<1>4. ASSUME NEW h \in Handlers, Retiring(h, s)
      PROVE  s \in history.closing /\ AboutToRetire(s)
  <2>1. PICK x \in Steps(h) : x.do = "retire" /\ x.snapshot = s
    BY <1>4 DEF Retiring
  <2>2. s \in history.closing
    BY <2>1 DEF HInv, StepsKnown, StepKnown
  <2>3. AboutToRetire(s)
    BY <2>1 DEF AboutToRetire, Running
  <2> QED
    BY <2>2, <2>3
<1> QED
  BY <1>2, <1>3, <1>4 DEF Closed

LEMMA EndedInit == Init => EndedKnown
BY DEF Init, EndedKnown, Retired

\* Nobody books, checks in or mails on a laptop beside the server, except after an emergency
\* release or a mistaken request, or after its final return was made, from when on nothing
\* keeps it from being written to, but when it is retired or about to be, or never heard
\* that it had to (POST return-push, return-export).
THEOREM OneWriterCorrect == Spec => OneWriter
<1>1. Spec => [](HInv /\ EndedKnown)
  <2>1. HInv /\ EndedKnown /\ HInv' /\ [Next]_ovars => EndedKnown'
    BY EndedNext
  <2> QED
    BY <2>1, HandoverInvariant, EndedInit, PTL DEF Spec
<1>2. HInv /\ EndedKnown /\ [Next]_ovars
        => [\A s \in Snapshots : Worked(s) =>
              \/ DelegatedAs(s) \/ "forced" \in log[s] \/ s \in history.mistaken
              \/ /\ s \in history.closing
                 /\ \/ laptop[s].role = "retired" \/ s \in history.unanswered
                    \/ AboutToRetire(s)]_ovars
  BY ClosedIsEnded DEF Worked
<1> QED
  BY <1>1, <1>2, PTL DEF OneWriter, Spec

-----------------------------------------------------------------------------
(* OfflineSync implements Handover: every statement of a handler is a step of the       *)
(* hand-over as it is meant, or nothing that Handover can see.                          *)

LEMMA ViewIs ==
    UNCHANGED <<Current, Gone, Copies, Returned, Counted, UnderReview>>
      => UNCHANGED Meant!hvars
BY DEF Meant!hvars

\* The role, what was delegated, and the ledgers are all there is to see.
LEMMA ViewStays ==
    ASSUME UNCHANGED <<authority, log, conflicts>>, Returned' = Returned,
           online'.ledger = online.ledger, history'.slipped = history.slipped,
           \A s \in Snapshots : laptop'[s].books.ledger = laptop[s].books.ledger
    PROVE  UNCHANGED Meant!hvars
<1>1. Current' = Current /\ Gone' = Gone /\ Counted' = Counted
  BY DEF Current, Gone, Delegated, Counted
<1>2. Copies' = Copies
  BY DEF Copies
<1>3. UnderReview' = UnderReview
  BY DEF UnderReview, AccountConflicts
<1> QED
  BY <1>1, <1>2, <1>3, ViewIs

LEMMA QuietView ==
    ASSUME UNCHANGED <<authority, log, online, merges, conflicts, laptop, history>>
    PROVE  UNCHANGED Meant!hvars
BY ViewStays DEF Returned

\* A booking has an id that is not in any ledger, nor put up for review.
LEMMA UnbookedIsUnseen ==
    ASSUME HInv, NEW e \in Entries, Unbooked(e)
    PROVE  /\ e \notin online.ledger /\ e \notin history.slipped
           /\ \A s \in Snapshots : e \notin laptop[s].books.ledger
           /\ \A c \in conflicts : e \notin c.books.ledger
<1>1. e \notin online.ledger /\ \A s \in Snapshots : e \notin laptop[s].books.ledger
  BY DEF Unbooked
<1>2. \A c \in conflicts : c.books.ledger \subseteq laptop[c.snapshot].books.ledger
                           /\ c.snapshot \in Snapshots
  BY DEF HInv, TypeOK, ConflictsKnown, Conflict
<1> QED
  BY <1>1, <1>2 DEF HInv, Handed

-----------------------------------------------------------------------------
(* Steps of Handover *)

LEMMA BooksOnline ==
    ASSUME HInv, UNCHANGED <<authority, log, merges, conflicts, laptop>>,
           NEW w \in Writes, w = CheckIn \/ Unbooked(w),
           online' = Booked(online, w), Slipped(w)
    PROVE  [Meant!HandoverNext]_(Meant!hvars)
<1>1. TypeOK
  BY DEF HInv
<1>2. online'.ledger = online.ledger \cup ({w} \ {CheckIn})
  BY <1>1, BookedIs DEF TypeOK
<1>3. history'.slipped = history.slipped \cup (IF Delegated THEN {w} \ {CheckIn} ELSE {})
  BY <1>1, SlippedIs
<1>4. Returned' = Returned
  BY DEF Returned
<1>5. CASE w = CheckIn
  <2>1. online'.ledger = online.ledger /\ history'.slipped = history.slipped
    BY <1>2, <1>3, <1>5
  <2> QED
    BY <1>4, <2>1, ViewStays
<1>6. CASE w # CheckIn
  <2>1. w \in Entries
    BY <1>6 DEF Writes
  <2>2. /\ w \notin online.ledger /\ w \notin history.slipped
        /\ \A s \in Snapshots : w \notin laptop[s].books.ledger
        /\ \A c \in conflicts : w \notin c.books.ledger
    BY <1>6, <2>1, UnbookedIsUnseen
  <2>3. Current' = Current /\ Gone' = Gone
    BY DEF Current, Gone, Delegated
  <2>4. Copies' = Copies
    BY <1>3, <2>2 DEF Copies
  <2>5. UnderReview' = UnderReview
    <3>1. \A c \in conflicts : c.books.ledger \ history'.slipped
                                 = c.books.ledger \ history.slipped
      BY <1>3, <2>2
    <3> QED
      BY <3>1 DEF UnderReview, AccountConflicts
  <2>6. CASE Delegated
    <3>1. Counted' = Counted
      BY <1>2, <1>3, <1>6, <2>2, <2>6 DEF Counted
    <3> QED
      BY <1>4, <2>3, <2>4, <2>5, <3>1, ViewIs
  <2>7. CASE ~Delegated
    <3>1. Counted' = Counted \cup {w} /\ Current = Online
      BY <1>2, <1>3, <1>6, <2>2, <2>7 DEF Counted, Current
    <3>2. Meant!Book(w)
      BY <1>4, <2>3, <2>4, <2>5, <3>1 DEF Meant!Book
    <3> QED
      BY <2>1, <3>2 DEF Meant!HandoverNext
  <2> QED
    BY <2>6, <2>7
<1> QED
  BY <1>5, <1>6

\* What is written on a laptop, or copied to it, is a Copy.
LEMMA BooksOnLaptop ==
    ASSUME UNCHANGED <<authority, log, online, merges, conflicts>>,
           history'.slipped = history.slipped, NEW s \in Snapshots,
           NEW E \in SUBSET Entries,
           laptop'[s].books.ledger = laptop[s].books.ledger \cup E,
           \A t \in Snapshots \ {s} : laptop'[t].books.ledger = laptop[t].books.ledger
    PROVE  Meant!HandoverNext
<1>1. Current' = Current /\ Gone' = Gone /\ Counted' = Counted /\ Returned' = Returned
      /\ UnderReview' = UnderReview
  BY DEF Current, Gone, Delegated, Counted, Returned, UnderReview, AccountConflicts
<1>2. PICK F \in SUBSET Entries : F = E \ history.slipped
  OBVIOUS
<1>3. Copies' = [Copies EXCEPT ![s] = Copies[s] \cup F]
  BY <1>2 DEF Copies
<1>4. Meant!Copy(s, F)
  BY <1>1, <1>3 DEF Meant!Copy
<1> QED
  BY <1>4 DEF Meant!HandoverNext

-----------------------------------------------------------------------------
(* What books *)

LEMMA WriteView ==
    ASSUME HInv, NEW h \in Handlers, Write(h)
    PROVE  [Meant!HandoverNext]_(Meant!hvars)
<1>1. TypeOK /\ ~Idle(h) /\ Now(h).do = "write"
  BY DoingIs DEF HInv, Write
<1>2. PICK x \in Step : x = Now(h) /\ x \in Steps(h)
  BY <1>1, HeadIs
<1>3. PICK w \in Writes : w = x.what
  BY <1>1, <1>2, KindsOfSteps
<1>4. w = CheckIn \/ Unbooked(w)
  BY <1>1, <1>2, <1>3 DEF HInv, WritesApart
<1>5. online' = Booked(online, w) /\ Slipped(w)
      /\ UNCHANGED <<authority, log, merges, conflicts, laptop>>
  BY <1>2, <1>3 DEF Write
<1> QED
  BY <1>4, <1>5, BooksOnline

LEMMA WebhookTopUpView ==
    ASSUME HInv, NEW e \in Entries, WebhookTopUp(e)
    PROVE  [Meant!HandoverNext]_(Meant!hvars)
<1>1. e \in Writes /\ e # CheckIn
  BY IdsAssumption DEF Writes
<1>2. Unbooked(e)
  BY <1>1, NewIsUnused DEF WebhookTopUp
<1>3. online' = Booked(online, e) /\ Slipped(e)
      /\ UNCHANGED <<authority, log, merges, conflicts, laptop>>
  BY DEF WebhookTopUp
<1> QED
  BY <1>1, <1>2, <1>3, BooksOnline

LEMMA LaptopWriteView ==
    ASSUME HInv, NEW s \in Snapshots, NEW w \in Writes, LaptopWrite(s, w)
    PROVE  [Meant!HandoverNext]_(Meant!hvars)
<1>1. TypeOK /\ UNCHANGED <<authority, log, online, merges, conflicts>>
      /\ history'.slipped = history.slipped
  BY DEF HInv, LaptopWrite, Late, Past, TypeOK
<1>2. laptop[s].books \in Books
  BY <1>1 DEF TypeOK
<1>3. PICK b : b = Booked(laptop[s].books, w)
  OBVIOUS
<1>4. b.ledger = laptop[s].books.ledger \cup ({w} \ {CheckIn})
  BY <1>2, <1>3, BookedIs
<1>5. laptop' = [laptop EXCEPT ![s].books = b]
  BY <1>3 DEF LaptopWrite
<1>6. /\ laptop'[s].books.ledger = laptop[s].books.ledger \cup ({w} \ {CheckIn})
      /\ \A t \in Snapshots \ {s} : laptop'[t].books.ledger = laptop[t].books.ledger
  BY <1>1, <1>4, <1>5 DEF TypeOK
<1>7. {w} \ {CheckIn} \in SUBSET Entries
  BY DEF Writes
<1> QED
  BY <1>1, <1>6, <1>7, BooksOnLaptop

LEMMA CopyView ==
    ASSUME HInv, NEW h \in Handlers, Copy(h)
    PROVE  [Meant!HandoverNext]_(Meant!hvars)
<1>1. TypeOK /\ ~Idle(h) /\ Now(h).do = "copy"
  BY DoingIs DEF HInv, Copy
<1>2. PICK x \in Step : x = Now(h)
  BY <1>1, HeadIs
<1>3. PICK s \in Snapshots : s = x.snapshot
  BY <1>1, <1>2, KindsOfSteps
<1>4. UNCHANGED <<authority, log, online, merges, conflicts>>
      /\ history'.slipped = history.slipped
  BY <1>1 DEF Copy, Past, TypeOK
<1>5. CASE laptop[s].role # "none"
  <2>1. laptop' = laptop
    BY <1>2, <1>3, <1>5 DEF Copy
  <2> QED
    BY <1>4, <2>1, ViewStays DEF Returned
<1>6. CASE laptop[s].role = "none"
  <2>1. PICK l : l = [role |-> "file", handed |-> x.generation, generation |-> 0,
                      books |-> [x.books EXCEPT !.ledger = online.ledger], mails |-> {}]
    OBVIOUS
  <2>2. laptop' = [laptop EXCEPT ![s] = l]
    BY <1>2, <1>3, <1>6, <2>1 DEF Copy
  <2>3. x.books \in Books /\ online.ledger \in SUBSET Entries
    BY <1>1, <1>2, KindsOfSteps DEF TypeOK, Books
  <2>4. l.books.ledger = online.ledger
    BY <2>1, <2>3 DEF Books
  <2>5. laptop[s].books.ledger = {}
    BY <1>6 DEF HInv, Handed, NothingYet
  <2>6. /\ laptop'[s].books.ledger = laptop[s].books.ledger \cup online.ledger
        /\ \A t \in Snapshots \ {s} : laptop'[t].books.ledger = laptop[t].books.ledger
    BY <1>1, <2>2, <2>4, <2>5 DEF TypeOK
  <2> QED
    BY <1>4, <2>3, <2>6, BooksOnLaptop
<1> QED
  BY <1>5, <1>6

-----------------------------------------------------------------------------
(* What moves the delegation *)

LEMMA DelegateView ==
    ASSUME HInv, NEW h \in Handlers, NEW s \in Snapshots, Delegate(h, s)
    PROVE  [Meant!HandoverNext]_(Meant!hvars)
<1>1. TypeOK /\ ~Delegated /\ log[s] = {}
      /\ UNCHANGED <<online, merges, conflicts, laptop, history>>
  BY DEF HInv, Delegate, Fresh
<1>2. authority'.role = "delegated" /\ authority'.snapshot = s
      /\ log' = [log EXCEPT ![s] = {"delegated"}]
  BY DEF Delegate
<1>3. Current = Online /\ Current' = s
  BY <1>1, <1>2 DEF Current, Delegated
<1>4. Gone = {t \in Snapshots : log[t] # {}} /\ s \notin Gone
  BY <1>1, <1>3, IdsAssumption DEF Gone
<1>5. \A t \in Snapshots \ {s} : log'[t] = log[t]
  BY <1>1, <1>2 DEF TypeOK
<1>6. Gone' = Gone
  BY <1>3, <1>4, <1>5 DEF Gone
<1>7. UNCHANGED <<Copies, Returned, Counted, UnderReview>>
  BY <1>1 DEF Copies, Returned, Counted, UnderReview, AccountConflicts
<1>8. Meant!HandOver(s)
  BY <1>3, <1>4, <1>6, <1>7 DEF Meant!HandOver
<1> QED
  BY <1>8 DEF Meant!HandoverNext

LEMMA EndDelegationView ==
    ASSUME HInv, NEW h \in Handlers, EndDelegation(h)
    PROVE  [Meant!HandoverNext]_(Meant!hvars)
<1>1. TypeOK /\ ~Idle(h) /\ Now(h).do = "release"
      /\ UNCHANGED <<online, merges, conflicts, laptop>>
  BY DoingIs DEF HInv, EndDelegation
<1>2. PICK x \in Step : x = Now(h) /\ StepKnown(x)
  BY <1>1, HeadIs DEF HInv, StepsKnown
<1>3. CASE ~(Delegated /\ x.snapshot # NoSnapshot)
  <2>1. UNCHANGED <<authority, log, history>>
    BY <1>2, <1>3 DEF EndDelegation
  <2> QED
    BY <1>1, <2>1, QuietView
<1>4. CASE Delegated /\ x.snapshot # NoSnapshot
  <2>1. x.snapshot \in Snapshots /\ x.result \in {"returned", "forced"}
    BY <1>1, <1>2, <1>4, KindsOfSteps DEF MaybeSnapshot
  <2>2. PICK s \in Snapshots : s = x.snapshot
    BY <2>1
  <2>3. log[s] # {}
    BY <1>1, <1>2, <2>2 DEF StepKnown
  <2>4. authority' = Released /\ log' = [log EXCEPT ![s] = @ \cup {x.result}]
        /\ history'.slipped = history.slipped
    BY <1>1, <1>2, <1>4, <2>2 DEF EndDelegation, Past, TypeOK
  <2>5. PICK d \in Snapshots : d = authority.snapshot
    BY <1>1, <1>4, IdsAssumption DEF TypeOK, Delegated, MaybeSnapshot
  <2>6. Current = d /\ d # Online /\ log[d] # {}
    BY <1>4, <2>5, IdsAssumption DEF Current, HInv, Handed
  <2>7. Current' = Online
    BY <2>4 DEF Current, Delegated, Released
  <2>8. \A t \in Snapshots : (log'[t] # {}) = (log[t] # {})
    BY <1>1, <2>3, <2>4 DEF TypeOK
  <2>9. Gone' = Gone \cup {Current}
    BY <2>6, <2>7, <2>8, IdsAssumption DEF Gone
  <2>10. UNCHANGED <<Copies, Returned, Counted, UnderReview>>
    BY <1>1, <2>4 DEF Copies, Returned, Counted, UnderReview, AccountConflicts
  <2>11. Meant!End
    BY <2>6, <2>7, <2>9, <2>10 DEF Meant!End
  <2> QED
    BY <2>11 DEF Meant!HandoverNext
<1> QED
  BY <1>3, <1>4

-----------------------------------------------------------------------------
(* What comes home *)

\* Adopting adds nothing but what an admin was asked about.
LEMMA CommitResolutionView ==
    ASSUME HInv, NEW h \in Handlers, CommitResolution(h)
    PROVE  [Meant!HandoverNext]_(Meant!hvars)
<1>1. TypeOK /\ ~Idle(h) /\ Now(h).do = "commit"
      /\ UNCHANGED <<authority, log, merges, laptop, history>>
  BY DoingIs DEF HInv, CommitResolution
<1>2. PICK x \in Step : x = Now(h) /\ StepKnown(x)
  BY <1>1, HeadIs DEF HInv, StepsKnown
<1>3. PICK c \in Conflict : c = x.conflict
  BY <1>1, <1>2, KindsOfSteps
<1>4. PICK d \in conflicts : d.entity = c.entity /\ d.books = c.books
  BY <1>1, <1>2, <1>3 DEF StepKnown
<1>5. PICK r : r = x.resolution
  OBVIOUS
<1>6. PICK n : n = [c EXCEPT !.resolution = r]
  OBVIOUS
<1>7. n.entity = c.entity /\ n.books = c.books
  BY <1>6 DEF Conflict
<1>8. conflicts' = (conflicts \ {c}) \cup {n} /\ online' = Adopted(c, r)
  BY <1>2, <1>3, <1>5, <1>6 DEF CommitResolution
<1>9. UNCHANGED <<Current, Gone, Copies, Returned>>
  BY <1>1 DEF Current, Gone, Delegated, Copies, Returned
<1>10. UnderReview' = UnderReview
  <2> DEFINE asked(k) == k.books.ledger \ history.slipped
  <2>1. \A k \in AccountConflicts : \E i \in AccountConflicts' : i.books = k.books
    BY <1>7, <1>8 DEF AccountConflicts
  <2>2. \A k \in AccountConflicts' : \E i \in AccountConflicts : i.books = k.books
    <3> SUFFICES ASSUME NEW k \in conflicts', k.entity = "tavern_account"
                 PROVE  \E i \in AccountConflicts : i.books = k.books
      BY DEF AccountConflicts
    <3>1. CASE k \in conflicts
      BY <3>1 DEF AccountConflicts
    <3>2. CASE k = n
      BY <1>4, <1>7, <3>2 DEF AccountConflicts
    <3> QED
      BY <1>8, <3>1, <3>2
  <2>3. UnderReview = UNION {asked(k) : k \in AccountConflicts}
        /\ UnderReview' = UNION {asked(k) : k \in AccountConflicts'}
    BY <1>1 DEF UnderReview
  <2>4. \A k, i : k.books = i.books => asked(k) = asked(i)
    OBVIOUS
  <2> HIDE DEF asked
  <2> QED
    BY <2>1, <2>2, <2>3, <2>4
<1>11. CASE r # "online" /\ c.entity = "tavern_account"
  <2>1. PICK E : E = c.books.ledger \ history.slipped
    OBVIOUS
  <2>2. online'.ledger = online.ledger \cup c.books.ledger
    BY <1>1, <1>8, <1>11 DEF Adopted, TypeOK, Books
  <2>3. Counted' = Counted \cup E
    BY <1>1, <2>1, <2>2 DEF Counted
  <2>4. E \subseteq UnderReview
    <3>1. d \in AccountConflicts
      BY <1>4, <1>11 DEF AccountConflicts
    <3> QED
      BY <1>4, <2>1, <3>1 DEF UnderReview
  <2>5. E \in SUBSET Entries
    BY <1>3, <2>1 DEF Conflict, Books
  <2>6. Meant!Adopt(E)
    BY <1>9, <1>10, <2>3, <2>4 DEF Meant!Adopt
  <2> QED
    BY <2>5, <2>6 DEF Meant!HandoverNext
<1>12. CASE ~(r # "online" /\ c.entity = "tavern_account")
  <2>1. online'.ledger = online.ledger
    BY <1>1, <1>3, <1>8, <1>12 DEF Adopted, TypeOK, Books, Conflict
  <2>2. Counted' = Counted
    BY <1>1, <2>1 DEF Counted
  <2> QED
    BY <1>9, <1>10, <2>2, ViewIs
<1> QED
  BY <1>11, <1>12

\* What the conflicts about a package put up for review.
Disputed(p) ==
    IF \E c \in Found(p) : c.entity = "tavern_account"
    THEN p.books.ledger \ history.slipped ELSE {}

LEMMA FoundReview ==
    ASSUME NEW p \in Package, conflicts' = conflicts \cup Found(p),
           history'.slipped = history.slipped
    PROVE  UnderReview' = UnderReview \cup Disputed(p)
<1>1. \A c \in Found(p) : c.books = p.books
  BY FoundIs DEF About
<1>2. AccountConflicts' = AccountConflicts \cup {c \in Found(p) : c.entity = "tavern_account"}
  BY DEF AccountConflicts
<1>3. CASE \E c \in Found(p) : c.entity = "tavern_account"
  BY <1>1, <1>2, <1>3 DEF UnderReview, Disputed
<1>4. CASE ~(\E c \in Found(p) : c.entity = "tavern_account")
  <2>1. AccountConflicts' = AccountConflicts
    BY <1>2, <1>4
  <2> QED
    BY <1>4, <2>1 DEF UnderReview, Disputed
<1> QED
  BY <1>3, <1>4

LEMMA TakenOverView ==
    ASSUME HInv, NEW h \in Handlers, NEW rest, NEW p \in Package, PackageKnown(p),
           MergeReturnPackage(h, p, rest),
           Applied(p) = {}, Acceptable(p), ~HeldBack(p), UNCHANGED <<laptop, history>>
    PROVE  Meant!HandoverNext
<1>1. TypeOK
  BY DEF HInv
<1>2. PICK s \in Snapshots : s = p.snapshot
  BY DEF Package
<1>3. PICK m \in merges' :
        /\ merges' = merges \cup {m}
        /\ m.snapshot = s /\ m.generation = p.generation
        /\ (m.mode = "forced") = ~Normal(p)
  <2>1. PICK mode : mode = IF ~Normal(p) THEN "forced"
                           ELSE IF p.final THEN "final" ELSE "interim"
    OBVIOUS
  <2>2. PICK queued : queued = (Normal(p) /\ \E i \in p.mails : outbox[i].state = "none")
    OBVIOUS
  <2>3. PICK m : m = [snapshot |-> p.snapshot, generation |-> p.generation, mode |-> mode,
                      pending |-> mode = "final" /\ Found(p) # {}, queued |-> queued]
    OBVIOUS
  <2>4. merges' = merges \cup {m}
    BY <2>1, <2>2, <2>3 DEF MergeReturnPackage
  <2>5. m.snapshot = s /\ m.generation = p.generation /\ m.mode = mode
    BY <1>2, <2>3
  <2> QED
    BY <2>1, <2>4, <2>5
<1>4. /\ conflicts' = conflicts \cup Found(p)
      /\ online' = IF Normal(p) THEN Applying(p) ELSE online
      /\ authority'.role = authority.role /\ authority'.snapshot = authority.snapshot
      /\ \A t \in Snapshots : (log'[t] # {}) = (log[t] # {})
  <2>1. conflicts' = conflicts \cup Found(p)
        /\ online' = IF Normal(p) THEN Applying(p) ELSE online
    BY DEF MergeReturnPackage
  <2>2. authority'.role = authority.role /\ authority'.snapshot = authority.snapshot
    BY <1>1 DEF MergeReturnPackage, TypeOK
  <2>3. log' = log \/ log' = [log EXCEPT ![s] = @ \cup {"interim"}]
    BY <1>2 DEF MergeReturnPackage
  <2>4. log[s] # {}
    BY <1>2 DEF PackageKnown, Works, HInv, Handed
  <2>5. \A t \in Snapshots : (log'[t] # {}) = (log[t] # {})
    <3>1. log \in [Snapshots -> SUBSET {"delegated", "interim", "returned", "forced"}]
      BY <1>1 DEF TypeOK
    <3>2. PICK l : l = log[s] \cup {"interim"}
      OBVIOUS
    <3> QED
      BY <2>3, <2>4, <3>1, <3>2
  <2> QED
    BY <2>1, <2>2, <2>5
<1>5. log[s] # {} /\ p.books.ledger \subseteq laptop[s].books.ledger
      /\ p.books.ledger \in SUBSET Entries /\ p.generation \in Nat
  BY <1>2 DEF PackageKnown, Works, HInv, Handed, Package, Books
<1>6. Current' = Current /\ Gone' = Gone /\ Copies' = Copies
  BY <1>4 DEF Current, Gone, Delegated, Copies
<1>7. PICK A \in SUBSET Entries : A = Disputed(p)
  BY <1>5 DEF Disputed
<1>8. UnderReview' = UnderReview \cup A /\ A \subseteq Copies[s]
  BY <1>4, <1>5, <1>7, FoundReview DEF Disputed, Copies
<1>9. CASE Normal(p)
  <2>1. Delegated /\ authority.snapshot = s /\ Current = s /\ s # Online
        /\ p.generation >= authority.generation
    BY <1>2, <1>9, IdsAssumption DEF Normal, DelegatedAs, Current, Acceptable
  <2>2. PICK E : E = IF Balanced(p) THEN p.books.ledger \ history.slipped ELSE {}
    OBVIOUS
  <2>3. E \in SUBSET Entries /\ E \subseteq Copies[s]
    BY <1>5, <2>2 DEF Copies
  <2>4. Counted' = Counted \cup E
    BY <1>1, <1>4, <1>9, <2>2 DEF Counted, Applying
  <2>5. Returned' = Returned \cup {<<s, p.generation>>}
    <3>1. {n \in merges' : n.mode # "forced"}
            = {n \in merges : n.mode # "forced"} \cup {m}
      BY <1>3, <1>9
    <3> QED
      BY <1>3, <3>1 DEF Returned
  <2>6. \A r \in Returned : r[1] = Current => r[2] < p.generation
    <3> SUFFICES ASSUME NEW n \in merges, n.mode # "forced", n.snapshot = s
                 PROVE  n.generation < p.generation
      BY <2>1 DEF Returned
    <3>1. n.generation \in Nat /\ authority.generation \in Nat
      BY <1>1 DEF TypeOK
    <3>2. n.generation < authority.generation
      BY <2>1 DEF HInv, MergesKnown, DelegatedAs
    <3> QED
      BY <1>5, <2>1, <3>1, <3>2
  <2>7. Meant!TakeOver(p.generation, E, A)
    BY <1>6, <1>8, <2>1, <2>3, <2>4, <2>5, <2>6 DEF Meant!TakeOver
  <2>8. <<s, p.generation>> \in Returned' /\ <<s, p.generation>>[2] = p.generation
    BY <2>5
  <2>9. \E return \in Returned' : \E entries \in SUBSET Entries : \E asked \in SUBSET Entries :
          Meant!TakeOver(return[2], entries, asked)
    BY <1>7, <2>3, <2>7, <2>8
  <2> QED
    BY <2>9 DEF Meant!HandoverNext
<1>10. CASE ~Normal(p)
  <2>1. s # Current
    BY <1>2, <1>10, IdsAssumption DEF Normal, DelegatedAs, Current
  <2>2. s \in Gone
    BY <1>5, <2>1 DEF Gone
  <2>3. Returned' = Returned
    <3>1. {n \in merges' : n.mode # "forced"} = {n \in merges : n.mode # "forced"}
      BY <1>3, <1>10
    <3> QED
      BY <3>1 DEF Returned
  <2>4. Counted' = Counted
    BY <1>4, <1>10 DEF Counted
  <2>5. Meant!AskAbout(s, A)
    BY <1>6, <1>8, <2>2, <2>3, <2>4 DEF Meant!AskAbout
  <2> QED
    BY <1>7, <2>5 DEF Meant!HandoverNext
<1> QED
  BY <1>9, <1>10

LEMMA MergeReturnPackageView ==
    ASSUME HInv, NEW h \in Handlers, NEW rest, NEW p \in Package, PackageKnown(p),
           MergeReturnPackage(h, p, rest), UNCHANGED <<laptop, history>>
    PROVE  [Meant!HandoverNext]_(Meant!hvars)
<1>1. \/ UNCHANGED <<authority, log, online, merges, conflicts, outbox>>
      \/ /\ conflicts' = conflicts \cup {NewConflict(p, "clock_skew", "package")}
         /\ UNCHANGED <<authority, log, online, merges, outbox>>
      \/ Applied(p) = {} /\ Acceptable(p) /\ ~HeldBack(p)
  BY DEF MergeReturnPackage
<1>2. CASE UNCHANGED <<authority, log, online, merges, conflicts, outbox>>
  BY <1>2, QuietView
<1>3. CASE /\ conflicts' = conflicts \cup {NewConflict(p, "clock_skew", "package")}
           /\ UNCHANGED <<authority, log, online, merges, outbox>>
  <2>1. AccountConflicts' = AccountConflicts
    BY <1>3, NewConflictIs DEF AccountConflicts
  <2>2. UnderReview' = UnderReview
    BY <2>1 DEF UnderReview
  <2>3. UNCHANGED <<Current, Gone, Copies, Returned, Counted>>
    BY <1>3 DEF Current, Gone, Delegated, Copies, Returned, Counted
  <2> QED
    BY <2>2, <2>3, ViewIs
<1>4. CASE Applied(p) = {} /\ Acceptable(p) /\ ~HeldBack(p)
  BY <1>4, TakenOverView
<1> QED
  BY <1>1, <1>2, <1>3, <1>4

LEMMA MergeView ==
    ASSUME HInv, NEW h \in Handlers, Merge(h)
    PROVE  [Meant!HandoverNext]_(Meant!hvars)
<1>1. TypeOK /\ ~Idle(h) /\ Now(h).do = "merge"
  BY DoingIs DEF HInv, Merge
<1>2. PICK x \in Step : x = Now(h) /\ StepKnown(x)
  BY <1>1, HeadIs DEF HInv, StepsKnown
<1>3. PICK p \in Package : p = x.package
  BY <1>1, <1>2, KindsOfSteps
<1>4. PackageKnown(p)
  BY <1>1, <1>2, <1>3 DEF StepKnown
<1>5. PICK rest : rest = Tail(job[h])
  OBVIOUS
<1>6. MergeReturnPackage(h, p, rest) /\ UNCHANGED <<laptop, history>>
  BY <1>2, <1>3, <1>5 DEF Merge
<1> QED
  BY <1>4, <1>6, MergeReturnPackageView

LEMMA ImportFileView ==
    ASSUME HInv, NEW h \in Handlers, NEW p \in files, ImportFile(h, p)
    PROVE  [Meant!HandoverNext]_(Meant!hvars)
<1>1. p \in Package /\ PackageKnown(p)
  BY DEF HInv, TypeOK, FilesKnown
<1>2. MergeReturnPackage(h, p, <<>>) /\ UNCHANGED <<laptop, history>>
  BY DEF ImportFile
<1> QED
  BY <1>1, <1>2, MergeReturnPackageView

-----------------------------------------------------------------------------
(* What Handover does not see *)

LEMMA LaptopQuietView ==
    ASSUME HInv, NEW h \in Handlers,
           (\E s \in Snapshots : Import(h, s)) \/ BecomeOfflinePrimary(h)
             \/ SetGeneration(h) \/ Seal(h) \/ Retire(h)
    PROVE  UNCHANGED Meant!hvars
<1>1. laptop \in [Snapshots ->
          [role : {"none", "file", "loaded", "offline_primary", "retired"},
           handed : Nat, generation : Nat, books : Books, mails : SUBSET Mails]]
  BY DEF HInv, TypeOK
<1>2. UNCHANGED <<authority, log, online, merges, conflicts, history>>
  BY DEF Import, BecomeOfflinePrimary, SetGeneration, Seal, Retire
<1>3. PICK s :
        \/ laptop' = laptop
        \/ \E r : laptop' = [laptop EXCEPT ![s].role = r]
        \/ \E n : laptop' = [laptop EXCEPT ![s].generation = n]
  BY DEF Import, BecomeOfflinePrimary, SetGeneration, Seal, Retire
<1>4. \A t \in Snapshots : laptop'[t].books = laptop[t].books
  BY <1>1, <1>3
<1> QED
  BY <1>2, <1>4, ViewStays DEF Returned

LEMMA LaptopMailView ==
    ASSUME HInv, NEW s \in Snapshots, NEW m \in Mails, LaptopMail(s, m)
    PROVE  UNCHANGED Meant!hvars
<1>1. laptop \in [Snapshots ->
          [role : {"none", "file", "loaded", "offline_primary", "retired"},
           handed : Nat, generation : Nat, books : Books, mails : SUBSET Mails]]
  BY DEF HInv, TypeOK
<1>2. UNCHANGED <<authority, log, online, merges, conflicts>>
      /\ history'.slipped = history.slipped
  BY DEF LaptopMail, Late, Past, HInv, TypeOK
<1>3. PICK M : laptop' = [laptop EXCEPT ![s].mails = M]
  BY DEF LaptopMail
<1>4. \A t \in Snapshots : laptop'[t].books = laptop[t].books
  BY <1>1, <1>3
<1> QED
  BY <1>2, <1>4, ViewStays DEF Returned

LEMMA PendingView ==
    ASSUME HInv, NEW h \in Handlers, Abandon(h) \/ Settle(h)
    PROVE  UNCHANGED Meant!hvars
<1>1. UNCHANGED <<authority, log, online, conflicts, laptop, history>>
  BY DEF Abandon, Settle
<1>2. PICK f : merges' = {[m EXCEPT !.pending = f[m]] : m \in merges}
  <2>1. CASE Abandon(h)
    <3>1. PICK f : f = [m \in merges |-> m.pending /\ m.snapshot # Now(h).snapshot]
      OBVIOUS
    <3>2. merges' = {[m EXCEPT !.pending = f[m]] : m \in merges}
      BY <2>1, <3>1 DEF Abandon
    <3> QED
      BY <3>2
  <2>2. CASE Settle(h)
    <3>1. PICK f : f = [m \in merges |-> m.pending /\ ~(/\ m.snapshot = Now(h).snapshot
                                                         /\ m.generation = Now(h).generation)]
      OBVIOUS
    <3>2. merges' = {[m EXCEPT !.pending = f[m]] : m \in merges}
      BY <2>2, <3>1 DEF Settle
    <3> QED
      BY <3>2
  <2> QED
    BY <2>1, <2>2
<1>3. \A m \in merges : /\ [m EXCEPT !.pending = f[m]].snapshot = m.snapshot
                        /\ [m EXCEPT !.pending = f[m]].generation = m.generation
                        /\ [m EXCEPT !.pending = f[m]].mode = m.mode
  BY DEF HInv, TypeOK
<1>4. /\ \A n \in merges' : \E m \in merges :
           n.snapshot = m.snapshot /\ n.generation = m.generation /\ n.mode = m.mode
      /\ \A m \in merges : \E n \in merges' :
           n.snapshot = m.snapshot /\ n.generation = m.generation /\ n.mode = m.mode
  BY <1>2, <1>3
<1>5. Returned' = Returned
  BY <1>4 DEF Returned
<1> QED
  BY <1>1, <1>5, ViewStays

LEMMA JobQuietView ==
    ASSUME NEW h \in Handlers,
           \/ \E w \in Writes : PassGuard(h, w)
           \/ Release(h) \/ ReleaseForce(h) \/ MailHousekeeping(h)
           \/ \E c \in conflicts, r \in {"offline", "merged", "online"} : Resolve(h, c, r)
           \/ Export(h) \/ ReadSnapshot(h) \/ Emergency(h) \/ Receive(h) \/ Recheck(h)
           \/ Save(h) \/ Flush(h) \/ Deliver(h) \/ Mark(h)
           \/ ExportFails(h) \/ DeliverFails(h)
    PROVE  UNCHANGED Meant!hvars
<1>1. UNCHANGED <<authority, log, online, merges, conflicts, laptop, history>>
  BY DEF PassGuard, Release, ReleaseForce, MailHousekeeping, Resolve, Export, ReadSnapshot,
     Emergency, Receive, Recheck, Save, Flush, Deliver, Mark, ExportFails, DeliverFails
<1> QED
  BY <1>1, QuietView

\* Building a package, and losing one, is only remembered.
LEMMA RememberedView ==
    ASSUME HInv, NEW h \in Handlers,
           \/ \E s \in Snapshots, final, push \in BOOLEAN : Build(h, s, final, push)
           \/ LoseRequest(h) \/ LoseAnswer(h) \/ Restart(h)
    PROVE  UNCHANGED Meant!hvars
<1>1. UNCHANGED <<authority, log, online, merges, conflicts, laptop>>
  BY DEF Build, LoseRequest, LoseAnswer, Restart
<1>2. (\E more : Past("closing", more)) \/ (\E more : Past("unanswered", more))
  BY DEF Build, LoseRequest, LoseAnswer, Restart, Unanswered
<1>3. history'.slipped = history.slipped
  BY <1>2 DEF Past, HInv, TypeOK
<1> QED
  BY <1>1, <1>3, ViewStays DEF Returned

LEMMA CancelOnlineView ==
    ASSUME HInv, CancelOnline
    PROVE  UNCHANGED Meant!hvars
<1>1. UNCHANGED <<authority, log, merges, conflicts, laptop, history>>
      /\ online'.ledger = online.ledger
  BY DEF CancelOnline, HInv, TypeOK, Books
<1> QED
  BY <1>1, ViewStays DEF Returned

-----------------------------------------------------------------------------
(* The refinement *)

LEMMA MeantInit ==
    ASSUME Init
    PROVE  Meant!HandoverInit
<1>1. ~Delegated /\ Current = Online
  BY DEF Init, Delegated, Current
<1>2. Gone = {} /\ Returned = {} /\ UnderReview = {}
  BY DEF Init, Gone, Returned, UnderReview, AccountConflicts
<1>3. \A s \in Snapshots : laptop[s].books.ledger = {}
  BY DEF Init, NothingYet
<1>4. Copies = [s \in Snapshots |-> {}] /\ Counted = {}
  BY <1>3 DEF Init, Copies, Counted, NothingYet
<1> QED
  BY <1>1, <1>2, <1>4 DEF Meant!HandoverInit

LEMMA MeantProceed ==
    ASSUME HInv, NEW h \in Handlers, Proceed(h)
    PROVE  [Meant!HandoverNext]_(Meant!hvars)
BY WriteView, CopyView, EndDelegationView, PendingView, LaptopQuietView, JobQuietView,
   MergeView, CommitResolutionView DEF Proceed

LEMMA MeantRequest ==
    ASSUME HInv, NEW h \in Handlers, Request(h)
    PROVE  [Meant!HandoverNext]_(Meant!hvars)
<1>1. ASSUME NEW w \in Writes, PassGuard(h, w)
      PROVE  UNCHANGED Meant!hvars
  BY <1>1, JobQuietView
<1>2. ASSUME NEW s \in Snapshots, Delegate(h, s)
      PROVE  [Meant!HandoverNext]_(Meant!hvars)
  BY <1>2, DelegateView
<1>3. ASSUME NEW s \in Snapshots, Import(h, s)
      PROVE  UNCHANGED Meant!hvars
  BY <1>3, LaptopQuietView
<1>4. ASSUME NEW s \in Snapshots, NEW final \in BOOLEAN, NEW push \in BOOLEAN,
             Build(h, s, final, push)
      PROVE  UNCHANGED Meant!hvars
  BY <1>4, RememberedView
<1>5. ASSUME Release(h) \/ ReleaseForce(h) \/ MailHousekeeping(h)
      PROVE  UNCHANGED Meant!hvars
  BY <1>5, JobQuietView
<1>6. ASSUME NEW p \in files, ImportFile(h, p)
      PROVE  [Meant!HandoverNext]_(Meant!hvars)
  BY <1>6, ImportFileView
<1>7. ASSUME NEW c \in conflicts, NEW r \in {"offline", "merged", "online"}, Resolve(h, c, r)
      PROVE  UNCHANGED Meant!hvars
  BY <1>7, JobQuietView
<1> QED
  BY <1>1, <1>2, <1>3, <1>4, <1>5, <1>6, <1>7 DEF Request

LEMMA MeantNext ==
    ASSUME HInv, [Next]_ovars
    PROVE  [Meant!HandoverNext]_(Meant!hvars)
<1>1. ASSUME NEW h \in Handlers, Proceed(h) \/ Request(h)
      PROVE  [Meant!HandoverNext]_(Meant!hvars)
  BY <1>1, MeantProceed, MeantRequest
<1>2. ASSUME NEW h \in Handlers,
             \/ ExportFails(h) \/ DeliverFails(h) \/ LoseRequest(h) \/ LoseAnswer(h)
             \/ Restart(h)
      PROVE  UNCHANGED Meant!hvars
  BY <1>2, JobQuietView, RememberedView
<1>3. ASSUME NEW e \in Entries, WebhookTopUp(e)
      PROVE  [Meant!HandoverNext]_(Meant!hvars)
  BY <1>3, WebhookTopUpView
<1>4. ASSUME CancelOnline
      PROVE  UNCHANGED Meant!hvars
  BY <1>4, CancelOnlineView
<1>5. ASSUME NEW s \in Snapshots, NEW w \in Writes, LaptopWrite(s, w)
      PROVE  [Meant!HandoverNext]_(Meant!hvars)
  BY <1>5, LaptopWriteView
<1>6. ASSUME NEW s \in Snapshots, NEW m \in Mails, LaptopMail(s, m)
      PROVE  UNCHANGED Meant!hvars
  BY <1>6, LaptopMailView
<1>7. ASSUME UNCHANGED ovars
      PROVE  UNCHANGED Meant!hvars
  BY <1>7, QuietView DEF ovars
<1> QED
  BY <1>1, <1>2, <1>3, <1>4, <1>5, <1>6, <1>7 DEF Next

\* The hand-over over packages, files and pushes is the hand-over as it is meant: one holder
\* at a time, each return of a delegation newer than the one before, and nothing enters the
\* books but bookings of the holder, what it returned and what an admin reviewed
\* (offlineMerge, instanceAuthority).
THEOREM HandoverImplemented == Spec => ImplementsHandover
<1>1. Init => Meant!HandoverInit
  BY MeantInit
<1>2. HInv /\ [Next]_ovars => [Meant!HandoverNext]_(Meant!hvars)
  BY MeantNext
<1> QED
  BY <1>1, <1>2, HandoverInvariant, PTL DEF Spec, ImplementsHandover, Meant!HandoverSpec
=============================================================================
