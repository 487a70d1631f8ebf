------------------------------ MODULE PeopleProofs ------------------------------
(* Theorems about People, for all sets of members, guests, newcomers,        *)
(* invitations, codes and handlers, and for every set of scenarios.          *)
EXTENDS People, FiniteSetTheorems, SequenceTheorems, TLAPS

-----------------------------------------------------------------------------
(* What a handler still has to do *)

\* Steps that come after others in a request; the rest of a list is made of them.
Followers == {"openSession", "link", "endSessions", "off", "on", "group"}
SoundStep ==
    {s \in Step :
        /\ s.do # "invite" => s.user \in Users
        /\ s.do = "link" => s.address \in Users
        /\ s.do \in {"move", "person", "claim", "accept", "redeem", "playGroup", "signUp",
                     "group"} => s.other \in Users
        /\ s.do \in {"move", "accept", "redeem", "playGroup"} => s.user # s.other
        /\ s.do = "activate" => s.item \in Invitations
        /\ s.do = "redeem" => s.item \in Codes}
\* A reset that sets the password is followed by the end of the sessions.
SoundJob(j) ==
    /\ \A i \in DOMAIN j : i > 1 => j[i].do \in Followers
    /\ j # <<>> /\ Head(j).do = "setPassword" =>
         /\ Tail(j) # <<>> /\ Head(Tail(j)).do = "endSessions"
         /\ Head(Tail(j)).user = Head(j).user
JobsSound == job \in [Handlers -> Seq(SoundStep)] /\ \A h \in Handlers : SoundJob(job[h])

Typed ==
    /\ users \in [Users -> Row]
    /\ sessions \subseteq [user : Users, password : Nat, late : BOOLEAN]
    /\ invitations \in
         [Invitations -> [state : {"none", "sent"}, for : MaybeUser, by : MaybeUser,
                          address : MaybeUser, redeemed : BOOLEAN,
                          cancelled : BOOLEAN, made : SUBSET Users]]
    /\ invites \subseteq [parent : Users, child : MaybeUser, address : MaybeUser]
    /\ codes \in [Codes -> [manager : MaybeUser, max : Nat, used : Nat]]
    /\ history \in Excuses
    /\ requests \in 0..MaxRequests /\ faults \in 0..MaxFaults
    /\ ops \in Scenarios
Unique ==
    \A u, v \in Users :
      u # v => /\ users[u].address = users[v].address => users[u].address = NoUser
               /\ users[u].logins \cap users[v].logins = {}

\* The row that the next step of a request is going to make.
New(step) ==
    IF step.do \in {"insert", "appear", "signUp"} THEN {step.user}
    ELSE IF step.do = "person" THEN {step.other}
    ELSE IF step.do = "activate" /\ invitations[step.item].for = NoUser THEN {step.user}
    ELSE {}
NewOf(h) == IF job[h] = <<>> THEN {} ELSE New(Now(h))
\* It is free until then, and no other request makes it.
NewAreFree ==
    \A h \in Handlers :
      /\ \A n \in NewOf(h) : users[n].kind = "free"
      /\ \A g \in Handlers : g # h => NewOf(g) \cap NewOf(h) = {}

\* Who is being merged exists, and is merged by one request only; and what would be lost
\* has come meanwhile.
MovesFit ==
    \A h \in Handlers : Doing(h, "move") =>
      LET keep == Now(h).user
          drop == Now(h).other
      IN  /\ Exists(keep) /\ Exists(drop)
          /\ ~FindConflicts(keep, drop) \/ drop \in history.disturbed
          /\ \A g \in Handlers :
               Doing(g, "move") /\ g # h => {keep, drop} \cap {Now(g).user, Now(g).other} = {}
PlacesFit == \A u \in Users : users[u].place = "none" => ~users[u].paid

\* The foreign keys.
KeysFit ==
    /\ \A u \in Users : \A x \in {users[u].parent, users[u].manager} : x # NoUser => Exists(x)
    /\ \A c \in Codes : codes[c].manager # NoUser => Exists(codes[c].manager)
    /\ \A s \in sessions : Exists(s.user)

\* One request at a time redeems a code, and it still counts for one.
RedeemsFit ==
    \A h \in Handlers : Doing(h, "redeem") =>
      /\ codes[Now(h).item].used < codes[Now(h).item].max
      /\ \A g \in Handlers : Doing(g, "redeem") /\ g # h => Now(g).item # Now(h).item

Made(i) == invitations[i].made
InvitationsFit ==
    /\ \A i \in Invitations :
         /\ ~invitations[i].redeemed => Made(i) = {}
         /\ Made(i) = {} \/ \E u \in Users : Made(i) = {u}
    /\ \A h \in Handlers : Doing(h, "activate") => invitations[Now(h).item].state = "sent"

Ending(u) == \E h \in Handlers : Doing(h, "endSessions") /\ Now(h).user = u
SessionsFit ==
    \A s \in sessions :
        \/ s.password = users[s.user].password /\ users[s.user].active
        \/ s.late \/ s.user \in history.interrupted \/ Ending(s.user)

PInv ==
    /\ Typed /\ JobsSound /\ Unique /\ NewAreFree /\ MovesFit /\ PlacesFit /\ KeysFit
    /\ RedeemsFit /\ InvitationsFit /\ SessionsFit /\ GroupsAreFlat /\ CodesAreLimited
    /\ MergeLosesNothing

-----------------------------------------------------------------------------
(* Jobs *)

LEMMA FreshIs ==
    ASSUME NEW id, NEW ids, Fresh(id, ids)
    PROVE  id \in ids
BY DEF Fresh

LEMMA ConstantsFit ==
    /\ NoUser \notin Users /\ MaxRequests \in Nat /\ MaxFaults \in Nat
    /\ Members \cap Guests = {} /\ Newcomers \cap (Members \cup Guests) = {}
BY PeopleAssumption, LimitsAssumption

LEMMA EmptyJob == <<>> \in Seq(SoundStep) /\ SoundJob(<<>>)
BY DEF SoundJob

\* A request of one statement, and of two or three.
LEMMA OneStep ==
    ASSUME NEW s \in SoundStep, s.do # "setPassword"
    PROVE  /\ <<s>> \in Seq(SoundStep) /\ SoundJob(<<s>>)
           /\ <<s>> # <<>> /\ Head(<<s>>) = s
BY DEF SoundJob
LEMMA TwoSteps ==
    ASSUME NEW s \in SoundStep, NEW t \in SoundStep, t.do \in Followers,
           s.do = "setPassword" => t.do = "endSessions" /\ t.user = s.user
    PROVE  /\ <<s, t>> \in Seq(SoundStep) /\ SoundJob(<<s, t>>)
           /\ <<s, t>> # <<>> /\ Head(<<s, t>>) = s
<1>1. Head(<<s, t>>) = s /\ Tail(<<s, t>>) = <<t>> /\ Head(<<t>>) = t /\ <<t>> # <<>>
  OBVIOUS
<1> QED
  BY <1>1 DEF SoundJob
LEMMA ThreeSteps ==
    ASSUME NEW r \in SoundStep, NEW s \in SoundStep, NEW t \in SoundStep,
           r.do # "setPassword", s.do \in Followers, t.do \in Followers
    PROVE  /\ <<r, s, t>> \in Seq(SoundStep) /\ SoundJob(<<r, s, t>>)
           /\ <<r, s, t>> # <<>> /\ Head(<<r, s, t>>) = r
BY DEF SoundJob

\* What is left after a statement.
LEMMA TailIs ==
    ASSUME NEW j \in Seq(SoundStep), SoundJob(j), j # <<>>
    PROVE  /\ Head(j) \in SoundStep /\ Head(j) = j[1] /\ 1 \in DOMAIN j
           /\ Tail(j) \in Seq(SoundStep) /\ SoundJob(Tail(j))
           /\ Tail(j) # <<>> => Head(Tail(j)).do \in Followers
           /\ Len(j) \in Nat /\ Len(Tail(j)) = Len(j) - 1
<1>1. /\ Head(j) \in SoundStep /\ Head(j) = j[1] /\ 1 \in DOMAIN j
      /\ Tail(j) \in Seq(SoundStep) /\ Len(j) \in Nat /\ Len(Tail(j)) = Len(j) - 1
  OBVIOUS
<1>2. \A i \in DOMAIN Tail(j) : i + 1 \in DOMAIN j /\ i + 1 > 1 /\ Tail(j)[i] = j[i + 1]
  OBVIOUS
<1>3. \A i \in DOMAIN Tail(j) : Tail(j)[i].do \in Followers
  BY <1>2 DEF SoundJob
<1>4. Tail(j) # <<>> => Head(Tail(j)) = Tail(j)[1] /\ 1 \in DOMAIN Tail(j)
  BY <1>1
<1>5. Tail(j) # <<>> => Head(Tail(j)).do \in Followers
  BY <1>3, <1>4
<1>6. SoundJob(Tail(j))
  BY <1>3, <1>5 DEF SoundJob, Followers
<1> QED
  BY <1>1, <1>5, <1>6
LEMMA Onward ==
    ASSUME NEW j \in Seq(SoundStep), SoundJob(j), j # <<>>,
           NEW s \in SoundStep, s.do # "setPassword"
    PROVE  /\ <<s>> \o Tail(j) \in Seq(SoundStep) /\ SoundJob(<<s>> \o Tail(j))
           /\ <<s>> \o Tail(j) # <<>> /\ Head(<<s>> \o Tail(j)) = s
           /\ <<>> \o Tail(j) = Tail(j)
<1>1. Tail(j) \in Seq(SoundStep) /\ \A i \in DOMAIN Tail(j) : Tail(j)[i].do \in Followers
  <2>1. \A i \in DOMAIN Tail(j) : i + 1 \in DOMAIN j /\ i + 1 > 1 /\ Tail(j)[i] = j[i + 1]
    OBVIOUS
  <2> QED
    BY <2>1 DEF SoundJob
<1>2. /\ <<s>> \o Tail(j) \in Seq(SoundStep) /\ <<s>> \o Tail(j) # <<>>
      /\ Head(<<s>> \o Tail(j)) = s /\ <<>> \o Tail(j) = Tail(j)
  BY <1>1
<1>3. \A i \in DOMAIN (<<s>> \o Tail(j)) :
         i > 1 => i - 1 \in DOMAIN Tail(j) /\ (<<s>> \o Tail(j))[i] = Tail(j)[i - 1]
  BY <1>1
<1> QED
  BY <1>1, <1>2, <1>3 DEF SoundJob

LEMMA NowRuns ==
    ASSUME JobsSound, NEW h \in Handlers, job[h] # <<>>
    PROVE  Now(h) \in SoundStep /\ Now(h) \in Steps(h) /\ Now(h) \in Running
<1>1. Now(h) \in SoundStep /\ Now(h) = job[h][1] /\ 1 \in DOMAIN job[h]
  BY TailIs DEF JobsSound, Now
<1> QED
  BY <1>1 DEF Steps, Running

\* What a step of one request does to the jobs.
LEMMA JobChanges ==
    ASSUME JobsSound, NEW h \in Handlers, NEW j \in Seq(SoundStep), SoundJob(j),
           job' = [job EXCEPT ![h] = j]
    PROVE  JobsSound' /\ job'[h] = j /\ \A g \in Handlers \ {h} : job'[g] = job[g]
<1>1. job'[h] = j /\ \A g \in Handlers \ {h} : job'[g] = job[g]
  BY DEF JobsSound
<1>2. job' \in [Handlers -> Seq(SoundStep)]
  BY DEF JobsSound
<1>3. \A g \in Handlers : SoundJob(job'[g])
  BY <1>1 DEF JobsSound
<1>4. JobsSound'
  BY <1>2, <1>3 DEF JobsSound, SoundJob, Followers, SoundStep
<1> QED
  BY <1>1, <1>4
LEMMA StartIs ==
    ASSUME Typed, JobsSound, NEW h, NEW j \in Seq(SoundStep), SoundJob(j), Start(h, j)
    PROVE  /\ h \in Handlers /\ job[h] = <<>>
           /\ JobsSound' /\ job'[h] = j /\ \A g \in Handlers \ {h} : job'[g] = job[g]
           /\ requests' \in 0..MaxRequests /\ faults' \in 0..MaxFaults /\ ops' \in Scenarios
<1>1. h \in {g \in Handlers : Idle(g)}
  BY FreshIs DEF Start
<1>2. JobsSound' /\ job'[h] = j /\ \A g \in Handlers \ {h} : job'[g] = job[g]
  BY <1>1, JobChanges DEF Start
<1>3. requests' \in 0..MaxRequests /\ faults' \in 0..MaxFaults /\ ops' \in Scenarios
  BY ConstantsFit DEF Start, Request, Typed
<1> QED
  BY <1>1, <1>2, <1>3 DEF Idle
LEMMA OnceIs ==
    ASSUME Typed, JobsSound, Once
    PROVE  /\ JobsSound' /\ job' = job
           /\ requests' \in 0..MaxRequests /\ faults' \in 0..MaxFaults /\ ops' \in Scenarios
<1>1. requests' \in 0..MaxRequests /\ faults' \in 0..MaxFaults /\ ops' \in Scenarios
  BY ConstantsFit DEF Once, Request, Typed
<1>2. JobsSound'
  BY DEF Once, JobsSound, SoundJob, Followers, SoundStep
<1> QED
  BY <1>1, <1>2 DEF Once
\* The end of a statement; the next one is none of the first ones of a request.
LEMMA ThenIs ==
    ASSUME Typed, JobsSound, NEW h \in Handlers, job[h] # <<>>, Then(h, <<>>)
    PROVE  /\ JobsSound' /\ \A g \in Handlers \ {h} : job'[g] = job[g]
           /\ job'[h] = Tail(job[h])
           /\ job'[h] # <<>> => Head(job'[h]).do \in Followers
           /\ requests' = requests /\ faults' = faults /\ ops' = ops
<1>1. /\ Tail(job[h]) \in Seq(SoundStep) /\ SoundJob(Tail(job[h]))
      /\ Tail(job[h]) # <<>> => Head(Tail(job[h])).do \in Followers
  BY TailIs DEF JobsSound
<1>2. job' = [job EXCEPT ![h] = Tail(job[h])]
  BY <1>1 DEF Then
<1> QED
  BY <1>1, <1>2, JobChanges DEF Then
LEMMA ThenOneIs ==
    ASSUME Typed, JobsSound, NEW h \in Handlers, job[h] # <<>>,
           NEW s \in SoundStep, s.do # "setPassword", Then(h, <<s>>)
    PROVE  /\ JobsSound' /\ \A g \in Handlers \ {h} : job'[g] = job[g]
           /\ job'[h] # <<>> /\ Head(job'[h]) = s
           /\ requests' = requests /\ faults' = faults /\ ops' = ops
<1>1. /\ <<s>> \o Tail(job[h]) \in Seq(SoundStep) /\ SoundJob(<<s>> \o Tail(job[h]))
      /\ <<s>> \o Tail(job[h]) # <<>> /\ Head(<<s>> \o Tail(job[h])) = s
  BY Onward DEF JobsSound
<1>2. job' = [job EXCEPT ![h] = <<s>> \o Tail(job[h])]
  BY DEF Then
<1> QED
  BY <1>1, <1>2, JobChanges DEF Then
LEMMA RefuseIs ==
    ASSUME Typed, JobsSound, NEW h \in Handlers, job[h] # <<>>, Refuse(h)
    PROVE  /\ JobsSound' /\ \A g \in Handlers \ {h} : job'[g] = job[g]
           /\ job'[h] # <<>> => Head(job'[h]).do \in Followers
           /\ requests' = requests /\ faults' = faults /\ ops' = ops
<1>1. /\ Tail(job[h]) \in Seq(SoundStep) /\ SoundJob(Tail(job[h]))
      /\ Tail(job[h]) # <<>> => Head(Tail(job[h])).do \in Followers
  BY TailIs DEF JobsSound
<1>2. PICK j \in {Tail(job[h]), <<>>} : job' = [job EXCEPT ![h] = j]
  BY DEF Refuse
<1>3. j \in Seq(SoundStep) /\ SoundJob(j) /\ (j # <<>> => Head(j).do \in Followers)
  BY <1>1, <1>2, EmptyJob
<1>4. JobsSound' /\ job'[h] = j /\ \A g \in Handlers \ {h} : job'[g] = job[g]
  BY <1>2, <1>3, JobChanges
<1> QED
  BY <1>3, <1>4 DEF Refuse
LEMMA RestartIs ==
    ASSUME Typed, JobsSound, NEW h \in Handlers, Restart(h)
    PROVE  /\ JobsSound' /\ job'[h] = <<>>
           /\ \A g \in Handlers \ {h} : job'[g] = job[g]
           /\ requests' = requests /\ faults' \in 0..MaxFaults /\ ops' = ops
<1>1. JobsSound' /\ job'[h] = <<>> /\ \A g \in Handlers \ {h} : job'[g] = job[g]
  BY EmptyJob, JobChanges DEF Restart
<1>2. faults' \in 0..MaxFaults
  BY ConstantsFit DEF Restart, Typed
<1> QED
  BY <1>1, <1>2 DEF Restart

-----------------------------------------------------------------------------
(* What a step leaves as it was *)

Acting == {"insert", "appear", "signUp", "person", "activate", "move", "redeem"}
\* The jobs go on as before, except those in S, which have no first statement before them.
Calm(S) ==
    /\ \A g \in Handlers \ S : job'[g] = job[g]
    /\ \A g \in Handlers \cap S : job'[g] # <<>> => Head(job'[g]).do \notin Acting
HistoryGrows ==
    /\ history.interrupted \subseteq history'.interrupted
    /\ history.overtaken \subseteq history'.overtaken
    /\ history.merged \subseteq history'.merged
    /\ history.below \subseteq history'.below
    /\ history.disturbed \subseteq history'.disturbed
SameNames ==
    \A u \in Users : users'[u].address = users[u].address /\ users'[u].logins = users[u].logins
SameKinds == \A u \in Users : users'[u].kind = users[u].kind
SamePlaces ==
    \A u \in Users : users'[u].place = users[u].place /\ users'[u].paid = users[u].paid
SameGroups ==
    \A u \in Users : /\ users'[u].parent = users[u].parent
                     /\ users'[u].manager = users[u].manager
                     /\ users'[u].named = users[u].named
SameSignIn ==
    \A u \in Users : users'[u].password = users[u].password /\ users'[u].active = users[u].active
SameInvitations ==
    \A i \in Invitations :
      /\ invitations'[i].state = invitations[i].state /\ invitations'[i].for = invitations[i].for
      /\ invitations'[i].redeemed = invitations[i].redeemed
      /\ invitations'[i].made = invitations[i].made
SameOwners == \A c \in Codes : codes'[c].manager = codes[c].manager
SameCounts ==
    \A c \in Codes : /\ codes'[c].used = codes[c].used /\ codes'[c].max = codes[c].max
                     /\ history'.joined[c] = history.joined[c]
Endings ==
    \A h \in Handlers : Doing(h, "endSessions") =>
        Doing(h, "endSessions")' /\ Now(h)'.user = Now(h).user

LEMMA UniqueStays == Unique /\ SameNames => Unique'
BY DEF Unique, SameNames

\* A statement that is to come, before and after.
LEMMA HeadStays ==
    ASSUME NEW S, Calm(S), NEW h \in Handlers, NEW what \in Acting, Doing(h, what)'
    PROVE  h \notin S /\ Doing(h, what) /\ job'[h] = job[h] /\ Now(h)' = Now(h)
<1>1. h \notin S
  BY DEF Calm, Doing
<1> QED
  BY <1>1 DEF Calm, Doing, Now
LEMMA NewIs ==
    ASSUME NEW S, Calm(S), JobsSound, InvitationsFit, NEW g \in Handlers,
           \A i \in Invitations : invitations[i].state = "sent" =>
               ((invitations'[i].for = NoUser) <=> (invitations[i].for = NoUser))
    PROVE  /\ g \in S => NewOf(g)' = {}
           /\ g \notin S => NewOf(g)' = NewOf(g)
<1>1. CASE g \in S
  BY <1>1 DEF Calm, NewOf, New, Now, Acting
<1>2. CASE g \notin S /\ job[g] # <<>>
  <2>1. job'[g] = job[g] /\ Now(g)' = Now(g) /\ Now(g) \in SoundStep
    BY <1>2, NowRuns DEF Calm, Now
  <2>2. CASE Now(g).do = "activate"
    <3>1. Now(g).item \in Invitations /\ invitations[Now(g).item].state = "sent"
      BY <1>2, <2>1, <2>2 DEF SoundStep, InvitationsFit, Doing, Now
    <3> QED
      BY <1>2, <2>1, <2>2, <3>1 DEF NewOf, New
  <2>3. CASE Now(g).do # "activate"
    BY <1>2, <2>1, <2>3 DEF NewOf, New
  <2> QED
    BY <2>2, <2>3
<1>3. CASE g \notin S /\ job[g] = <<>>
  BY <1>3 DEF Calm, NewOf
<1> QED
  BY <1>1, <1>2, <1>3
LEMMA NewStays ==
    ASSUME NEW S, Calm(S), JobsSound, InvitationsFit, NewAreFree,
           \A i \in Invitations : invitations[i].state = "sent" =>
               ((invitations'[i].for = NoUser) <=> (invitations[i].for = NoUser)),
           \A g \in Handlers \ S : \A n \in NewOf(g) : users'[n].kind = "free"
    PROVE  NewAreFree'
<1>1. \A g \in Handlers : g \in S => NewOf(g)' = {}
  BY NewIs
<1>2. \A g \in Handlers : g \notin S => NewOf(g)' = NewOf(g)
  BY NewIs
<1>3. ASSUME NEW h \in Handlers PROVE \A n \in NewOf(h)' : users'[n].kind = "free"
  BY <1>1, <1>2
<1>4. ASSUME NEW h \in Handlers, NEW g \in Handlers, g # h
      PROVE NewOf(g)' \cap NewOf(h)' = {}
  BY <1>1, <1>2, <1>4 DEF NewAreFree
<1> QED
  BY <1>3, <1>4 DEF NewAreFree
\* The rows that are to be made are no users yet, and users.
LEMMA NewTyped ==
    ASSUME JobsSound, NewAreFree, NEW g \in Handlers
    PROVE  NewOf(g) \subseteq Users /\ \A n \in NewOf(g) : users[n].kind = "free"
<1>1. CASE job[g] = <<>>
  BY <1>1 DEF NewOf
<1>2. CASE job[g] # <<>>
  BY <1>2, NowRuns DEF NewOf, New, SoundStep, NewAreFree
<1> QED
  BY <1>1, <1>2

\* A merge that is to come.
Moving(h, keep, drop) == Doing(h, "move") /\ Now(h).user = keep /\ Now(h).other = drop
Real(row) == row.kind \in {"guest", "account"}
Conflict(k, d) ==
    k.place # "none" /\ d.place # "none" /\ (d.place = "open" \/ d.paid)
LEMMA MovingIs ==
    ASSUME JobsSound, MovesFit, NEW h \in Handlers, NEW keep, NEW drop, Moving(h, keep, drop)
    PROVE  /\ keep \in Users /\ drop \in Users /\ keep # drop
           /\ Real(users[keep]) /\ Real(users[drop])
           /\ ~Conflict(users[keep], users[drop]) \/ drop \in history.disturbed
<1>1. Now(h) \in SoundStep /\ Now(h).do = "move"
  BY NowRuns DEF Moving, Doing, Now
<1>2. keep \in Users /\ drop \in Users /\ keep # drop
  BY <1>1 DEF SoundStep, Moving
<1> QED
  BY <1>2 DEF MovesFit, Moving, Real, Conflict, Exists, FindConflicts
LEMMA MovesStay ==
    ASSUME NEW S, Calm(S), JobsSound, MovesFit, history.disturbed \subseteq history'.disturbed,
           \A h \in Handlers \ S : \A keep, drop \in Users : Moving(h, keep, drop) =>
             /\ Real(users'[keep]) /\ Real(users'[drop])
             /\ Conflict(users'[keep], users'[drop]) =>
                  Conflict(users[keep], users[drop]) \/ drop \in history'.disturbed
    PROVE  MovesFit'
<1>1. \A h \in Handlers : Doing(h, "move")' =>
        h \notin S /\ Doing(h, "move") /\ Now(h)' = Now(h)
  BY HeadStays DEF Acting
<1> SUFFICES ASSUME NEW h \in Handlers, Doing(h, "move")'
             PROVE  /\ Exists(Now(h).user)' /\ Exists(Now(h).other)'
                    /\ ~FindConflicts(Now(h).user, Now(h).other)'
                         \/ (Now(h).other \in history.disturbed)'
                    /\ \A g \in Handlers : Doing(g, "move")' /\ g # h =>
                         ({Now(h).user, Now(h).other} \cap {Now(g).user, Now(g).other})' = {}
  BY DEF MovesFit
<1> DEFINE keep == Now(h).user
           drop == Now(h).other
<1>2. h \notin S /\ Doing(h, "move") /\ Now(h)' = Now(h)
  BY <1>1
<1>3. Moving(h, keep, drop)
  BY <1>2 DEF Moving
<1>4. /\ keep \in Users /\ drop \in Users
      /\ ~Conflict(users[keep], users[drop]) \/ drop \in history.disturbed
  BY <1>3, MovingIs
<1>5. /\ Real(users'[keep]) /\ Real(users'[drop])
      /\ Conflict(users'[keep], users'[drop]) =>
           Conflict(users[keep], users[drop]) \/ drop \in history'.disturbed
  BY <1>2, <1>3, <1>4
<1>6. Exists(Now(h).user)' /\ Exists(Now(h).other)'
  BY <1>2, <1>4, <1>5 DEF Exists, Real
<1>7. ~FindConflicts(Now(h).user, Now(h).other)' \/ (Now(h).other \in history.disturbed)'
  BY <1>2, <1>4, <1>5 DEF FindConflicts, Conflict
<1>8. \A g \in Handlers : Doing(g, "move")' /\ g # h =>
         ({Now(h).user, Now(h).other} \cap {Now(g).user, Now(g).other})' = {}
  BY <1>1, <1>2 DEF MovesFit
<1> QED
  BY <1>6, <1>7, <1>8

LEMMA PlacesStay == PlacesFit /\ SamePlaces => PlacesFit'
BY DEF PlacesFit, SamePlaces
LEMMA KeysStay ==
    ASSUME Typed, KeysFit, SameKinds, SameGroups, SameOwners, sessions' \subseteq sessions
    PROVE  KeysFit'
<1>1. \A u \in Users : Exists(u)' = Exists(u)
  BY DEF SameKinds, Exists
<1>2. \A u \in Users : users[u].parent \in MaybeUser /\ users[u].manager \in MaybeUser
  BY DEF Typed, Row
<1>3. \A c \in Codes : codes[c].manager \in MaybeUser
  BY DEF Typed
<1>4. \A s \in sessions : s.user \in Users
  BY DEF Typed
<1> QED
  BY <1>1, <1>2, <1>3, <1>4 DEF KeysFit, SameGroups, SameOwners, MaybeUser
LEMMA RedeemsStay ==
    ASSUME NEW S, Calm(S), JobsSound, RedeemsFit, SameCounts
    PROVE  RedeemsFit'
<1>1. \A h \in Handlers : Doing(h, "redeem")' =>
        h \notin S /\ Doing(h, "redeem") /\ Now(h)' = Now(h)
  BY HeadStays DEF Acting
<1>2. \A h \in Handlers : Doing(h, "redeem") => Now(h).item \in Codes
  BY NowRuns DEF Doing, Now, SoundStep
<1> QED
  BY <1>1, <1>2 DEF RedeemsFit, SameCounts
LEMMA InvitationsStay ==
    ASSUME NEW S, Calm(S), JobsSound, InvitationsFit, SameInvitations
    PROVE  InvitationsFit'
<1>1. \A h \in Handlers : Doing(h, "activate")' =>
        h \notin S /\ Doing(h, "activate") /\ Now(h)' = Now(h)
  BY HeadStays DEF Acting
<1>2. \A h \in Handlers : Doing(h, "activate") => Now(h).item \in Invitations
  BY NowRuns DEF Doing, Now, SoundStep
<1> QED
  BY <1>1, <1>2 DEF InvitationsFit, SameInvitations, Made
LEMMA SessionsStay ==
    ASSUME Typed, SessionsFit, SameSignIn, sessions' \subseteq sessions, Endings,
           history.interrupted \subseteq history'.interrupted
    PROVE  SessionsFit'
<1>1. \A u \in Users : Ending(u) => Ending(u)'
  BY DEF Ending, Endings
<1>2. \A s \in sessions : s.user \in Users
  BY DEF Typed
<1> QED
  BY <1>1, <1>2 DEF SessionsFit, SameSignIn
LEMMA FlatStays ==
    GroupsAreFlat /\ SameGroups /\ SameOwners /\ HistoryGrows => GroupsAreFlat'
BY DEF GroupsAreFlat, SameGroups, SameOwners, HistoryGrows
LEMMA CodesStay == CodesAreLimited /\ SameCounts => CodesAreLimited'
BY DEF CodesAreLimited, SameCounts
LEMMA MergeStays ==
    MergeLosesNothing /\ history'.lost = history.lost /\ HistoryGrows => MergeLosesNothing'
BY DEF MergeLosesNothing, HistoryGrows

\* All of it: whatever is the same as before keeps what depends on it.
LEMMA Carries ==
    ASSUME PInv, NEW S, Calm(S), HistoryGrows
    PROVE  /\ SameNames => Unique'
           /\ SameKinds /\ SameInvitations => NewAreFree'
           /\ SameKinds /\ SamePlaces => MovesFit'
           /\ SamePlaces => PlacesFit'
           /\ SameKinds /\ SameGroups /\ SameOwners /\ sessions' \subseteq sessions => KeysFit'
           /\ SameCounts => RedeemsFit' /\ CodesAreLimited'
           /\ SameInvitations => InvitationsFit'
           /\ SameSignIn /\ sessions' \subseteq sessions /\ Endings => SessionsFit'
           /\ SameGroups /\ SameOwners => GroupsAreFlat'
           /\ history'.lost = history.lost => MergeLosesNothing'
<1>1. SameNames => Unique'
  BY UniqueStays DEF PInv
<1>2. ASSUME SameKinds, SameInvitations PROVE NewAreFree'
  <2>1. \A g \in Handlers : \A n \in NewOf(g) : users'[n].kind = "free"
    BY <1>2, NewTyped DEF PInv, SameKinds
  <2> QED
    BY <1>2, <2>1, NewStays DEF PInv, SameInvitations
<1>3. ASSUME SameKinds, SamePlaces PROVE MovesFit'
  <2>1. \A u \in Users : /\ Real(users'[u]) <=> Real(users[u])
                         /\ users'[u].place = users[u].place /\ users'[u].paid = users[u].paid
    BY <1>3 DEF Real, SameKinds, SamePlaces
  <2>2. \A h \in Handlers : \A keep, drop \in Users : Moving(h, keep, drop) =>
          Real(users[keep]) /\ Real(users[drop])
    BY MovingIs DEF PInv
  <2>3. \A h \in Handlers \ S : \A keep, drop \in Users : Moving(h, keep, drop) =>
             /\ Real(users'[keep]) /\ Real(users'[drop])
             /\ Conflict(users'[keep], users'[drop]) =>
                  Conflict(users[keep], users[drop]) \/ drop \in history'.disturbed
    BY <2>1, <2>2 DEF Conflict
  <2> QED
    BY <2>3, MovesStay DEF PInv, HistoryGrows
<1>4. SamePlaces => PlacesFit'
  BY PlacesStay DEF PInv
<1>5. SameKinds /\ SameGroups /\ SameOwners /\ sessions' \subseteq sessions => KeysFit'
  BY KeysStay DEF PInv
<1>6. SameCounts => RedeemsFit' /\ CodesAreLimited'
  BY RedeemsStay, CodesStay DEF PInv
<1>7. SameInvitations => InvitationsFit'
  BY InvitationsStay DEF PInv
<1>8. SameSignIn /\ sessions' \subseteq sessions /\ Endings => SessionsFit'
  BY SessionsStay DEF PInv, HistoryGrows
<1>9. SameGroups /\ SameOwners => GroupsAreFlat'
  BY FlatStays DEF PInv
<1>10. history'.lost = history.lost => MergeLosesNothing'
  BY MergeStays DEF PInv
<1> QED
  BY <1>1, <1>2, <1>3, <1>4, <1>5, <1>6, <1>7, <1>8, <1>9, <1>10

-----------------------------------------------------------------------------
(* Requests that start *)

Still == UNCHANGED <<users, sessions, invitations, invites, codes, history>>
LEMMA StillIs ==
    ASSUME Still
    PROVE  /\ SameNames /\ SameKinds /\ SamePlaces /\ SameGroups /\ SameSignIn
           /\ SameInvitations /\ SameOwners /\ SameCounts /\ HistoryGrows
           /\ sessions' \subseteq sessions /\ history'.lost = history.lost
BY DEF Still, SameNames, SameKinds, SamePlaces, SameGroups, SameSignIn, SameInvitations,
       SameOwners, SameCounts, HistoryGrows
LEMMA TypedStill ==
    ASSUME Typed, Still, requests' \in 0..MaxRequests, faults' \in 0..MaxFaults,
           ops' \in Scenarios
    PROVE  Typed'
BY DEF Still, Typed
LEMMA EndingsStay ==
    ASSUME NEW h, \A g \in Handlers \ {h} : job'[g] = job[g], ~Doing(h, "endSessions")
    PROVE  Endings
BY DEF Endings, Doing, Now

\* Nothing but the jobs changes, and none of the first statements comes to them.
LEMMA CalmKeeps ==
    ASSUME PInv, NEW S, Calm(S), Endings, Typed', JobsSound', Still
    PROVE  PInv'
<1>1. /\ SameNames /\ SameKinds /\ SamePlaces /\ SameGroups /\ SameSignIn
      /\ SameInvitations /\ SameOwners /\ SameCounts /\ HistoryGrows
      /\ sessions' \subseteq sessions /\ history'.lost = history.lost
  BY StillIs
<1> QED
  BY <1>1, Carries DEF PInv

\* What has to be so when a request comes to its first statement.
Ready(s) ==
    /\ s.do \in {"insert", "appear", "signUp"} =>
         users[s.user].kind = "free" /\ \A g \in Handlers : s.user \notin NewOf(g)
    /\ s.do = "person" =>
         users[s.other].kind = "free" /\ \A g \in Handlers : s.other \notin NewOf(g)
    /\ s.do = "activate" =>
         /\ invitations'[s.item].state = "sent"
         /\ invitations'[s.item].for = NoUser =>
              users[s.user].kind = "free" /\ \A g \in Handlers : s.user \notin NewOf(g)
    /\ s.do = "move" =>
         /\ Exists(s.user) /\ Exists(s.other) /\ ~FindConflicts(s.user, s.other)
         /\ Unlocked(s.user) /\ Unlocked(s.other)
    /\ s.do = "redeem" => codes[s.item].used < codes[s.item].max /\ CodeUnlocked(s.item)
LEMMA UnlockedIs ==
    ASSUME JobsSound, NEW u, Unlocked(u), NEW h \in Handlers, Doing(h, "move")
    PROVE  u \notin {Now(h).user, Now(h).other}
BY NowRuns DEF Unlocked, Doing, Now
LEMMA CodeUnlockedIs ==
    ASSUME JobsSound, NEW c, CodeUnlocked(c), NEW h \in Handlers, Doing(h, "redeem")
    PROVE  Now(h).item # c
BY NowRuns DEF CodeUnlocked, Doing, Now
LEMMA NextRowIs ==
    ASSUME Typed, JobsSound, NEW n, NextRow(n)
    PROVE  n \in Newcomers /\ n \in Users /\ users[n].kind = "free"
           /\ \A g \in Handlers : n \notin NewOf(g)
<1>1. /\ n \in Newcomers /\ users[n].kind = "free"
      /\ \A step \in Running : n \notin {step.user, step.other}
  BY FreshIs DEF NextRow
<1>2. \A g \in Handlers : n \notin NewOf(g)
  BY <1>1, NowRuns DEF NewOf, New
<1> QED
  BY <1>1, <1>2 DEF Users

\* An invitation may be made at the same time.
OnlyInvitations ==
    /\ UNCHANGED <<users, sessions, invites, codes, history>>
    /\ invitations' \in
         [Invitations -> [state : {"none", "sent"}, for : MaybeUser, by : MaybeUser,
                          address : MaybeUser, redeemed : BOOLEAN,
                          cancelled : BOOLEAN, made : SUBSET Users]]
    /\ \A i \in Invitations :
         /\ invitations[i].state = "sent" =>
              invitations'[i].state = "sent" /\ invitations'[i].for = invitations[i].for
         /\ \/ /\ invitations'[i].redeemed = invitations[i].redeemed
               /\ invitations'[i].made = invitations[i].made
            \/ invitations'[i].made = {}
LEMMA InvitationStartKeeps ==
    ASSUME PInv, NEW h, NEW j \in Seq(SoundStep), SoundJob(j), Start(h, j), OnlyInvitations,
           j # <<>> => Ready(Head(j))
    PROVE  PInv'
<1>1. /\ h \in Handlers /\ job[h] = <<>>
      /\ JobsSound' /\ job'[h] = j /\ \A g \in Handlers \ {h} : job'[g] = job[g]
      /\ requests' \in 0..MaxRequests /\ faults' \in 0..MaxFaults /\ ops' \in Scenarios
  BY StartIs DEF PInv
<1>2. Typed'
  BY <1>1 DEF PInv, Typed, OnlyInvitations
<1>3. Endings
  <2>1. ~Doing(h, "endSessions")
    BY <1>1 DEF Doing
  <2> QED
    BY <1>1, <2>1, EndingsStay
<1>4. /\ SameNames /\ SameKinds /\ SamePlaces /\ SameGroups /\ SameSignIn
      /\ SameOwners /\ SameCounts /\ HistoryGrows
      /\ sessions' \subseteq sessions /\ history'.lost = history.lost
  BY DEF OnlyInvitations, SameNames, SameKinds, SamePlaces, SameGroups, SameSignIn,
         SameOwners, SameCounts, HistoryGrows
<1> DEFINE s == Head(j)
<1>5. j # <<>> => s \in SoundStep /\ Now(h)' = s /\ job'[h] # <<>> /\ Ready(s)
  BY <1>1, TailIs DEF Now
<1>6. \A what : Doing(h, what)' <=> j # <<>> /\ s.do = what
  BY <1>1 DEF Doing
<1>7. \A g \in Handlers \ {h} :
        Now(g)' = Now(g) /\ \A what : Doing(g, what)' <=> Doing(g, what)
  BY <1>1 DEF Doing, Now
<1> HIDE DEF s
<1>8. users' = users /\ codes' = codes /\ history' = history /\ sessions' = sessions
  BY DEF OnlyInvitations
<1>9. \A g \in Handlers : Doing(g, "activate") =>
        /\ Now(g).item \in Invitations /\ invitations[Now(g).item].state = "sent"
        /\ invitations'[Now(g).item].state = "sent"
        /\ invitations'[Now(g).item].for = invitations[Now(g).item].for
  BY NowRuns DEF PInv, InvitationsFit, SoundStep, OnlyInvitations, Doing, Now
<1>10. Unique' /\ PlacesFit' /\ KeysFit' /\ SessionsFit' /\ GroupsAreFlat'
       /\ CodesAreLimited' /\ MergeLosesNothing'
  <2>1. Unique' /\ PlacesFit' /\ GroupsAreFlat' /\ CodesAreLimited' /\ MergeLosesNothing'
    BY <1>4, UniqueStays, PlacesStay, FlatStays, CodesStay, MergeStays DEF PInv
  <2>2. KeysFit'
    BY <1>4, KeysStay DEF PInv
  <2>3. SessionsFit'
    BY <1>3, <1>4, SessionsStay DEF PInv, HistoryGrows
  <2> QED
    BY <2>1, <2>2, <2>3
<1>11. NewAreFree'
  <2>1. ASSUME NEW g \in Handlers \ {h} PROVE NewOf(g)' = NewOf(g)
    <3>1. job'[g] = job[g] /\ Now(g)' = Now(g)
      BY <1>1, <1>7
    <3>2. CASE Doing(g, "activate")
      BY <1>9, <3>1, <3>2 DEF NewOf, New, Doing, Now
    <3>3. CASE ~Doing(g, "activate")
      BY <3>1, <3>3 DEF NewOf, New, Doing, Now
    <3> QED
      BY <3>2, <3>3
  <2>2. \A n \in NewOf(h)' : users[n].kind = "free" /\ \A g \in Handlers : n \notin NewOf(g)
    BY ZenonT(60), <1>1, <1>5 DEF NewOf, New, Ready
  <2> QED
    BY <1>8, <2>1, <2>2 DEF PInv, NewAreFree
<1>12. MovesFit'
  <2>1. ASSUME NEW k \in Handlers, Doing(k, "move")'
        PROVE  /\ Exists(Now(k).user)' /\ Exists(Now(k).other)'
               /\ ~FindConflicts(Now(k).user, Now(k).other)'
                    \/ (Now(k).other \in history.disturbed)'
    <3>1. CASE k = h
      BY <1>5, <1>6, <1>8, <2>1, <3>1 DEF Ready, Exists, FindConflicts
    <3>2. CASE k # h
      BY <1>7, <1>8, <2>1, <3>2 DEF PInv, MovesFit, Exists, FindConflicts
    <3> QED
      BY <3>1, <3>2
  <2>2. j # <<>> /\ s.do = "move" => \A g \in Handlers : Doing(g, "move") =>
          {s.user, s.other} \cap {Now(g).user, Now(g).other} = {}
    BY <1>5, UnlockedIs DEF Ready, PInv
  <2>3. \A k, g \in Handlers : Doing(k, "move")' /\ Doing(g, "move")' /\ g # k =>
          ({Now(k).user, Now(k).other} \cap {Now(g).user, Now(g).other})' = {}
    BY <1>5, <1>6, <1>7, <2>2 DEF PInv, MovesFit
  <2> QED
    BY <2>1, <2>3 DEF MovesFit
<1>13. RedeemsFit'
  <2>1. j # <<>> /\ s.do = "redeem" =>
          /\ codes[s.item].used < codes[s.item].max
          /\ \A g \in Handlers : Doing(g, "redeem") => Now(g).item # s.item
    BY <1>5, CodeUnlockedIs DEF Ready, PInv
  <2>2. \A k \in Handlers : Doing(k, "redeem")' =>
           codes'[Now(k)'.item].used < codes'[Now(k)'.item].max
    BY <1>5, <1>6, <1>7, <1>8, <2>1 DEF PInv, RedeemsFit
  <2>3. \A k, g \in Handlers : Doing(k, "redeem")' /\ Doing(g, "redeem")' /\ g # k =>
           Now(g)'.item # Now(k)'.item
    BY <1>5, <1>6, <1>7, <2>1 DEF PInv, RedeemsFit
  <2> QED
    BY <2>2, <2>3 DEF RedeemsFit
<1>14. InvitationsFit'
  <2>1. \A i \in Invitations : /\ ~invitations'[i].redeemed => Made(i)' = {}
                               /\ Made(i)' = {} \/ \E u \in Users : Made(i)' = {u}
    BY DEF PInv, InvitationsFit, OnlyInvitations, Made
  <2>2. ASSUME NEW k \in Handlers, Doing(k, "activate")'
        PROVE  invitations'[Now(k)'.item].state = "sent"
    BY <1>5, <1>6, <1>7, <1>9, <2>2 DEF Ready
  <2> QED
    BY <2>1, <2>2 DEF InvitationsFit
<1> QED
  BY <1>1, <1>2, <1>10, <1>11, <1>12, <1>13, <1>14 DEF PInv

LEMMA StartKeeps ==
    ASSUME PInv, NEW h, NEW j \in Seq(SoundStep), SoundJob(j), Start(h, j), Still,
           j # <<>> => Ready(Head(j))
    PROVE  PInv'
<1>1. OnlyInvitations
  BY DEF Still, OnlyInvitations, PInv, Typed
<1> QED
  BY <1>1, InvitationStartKeeps

LEMMA RowIs ==
    ASSUME Typed, NEW u \in Users
    PROVE  /\ users[u] \in Row /\ users[u].password \in Nat /\ users[u].files \in Nat
           /\ users[u].kind \in {"free", "guest", "account", "deleted"}
           /\ users[u].address \in MaybeUser /\ users[u].parent \in MaybeUser
           /\ users[u].manager \in MaybeUser /\ users[u].logins \subseteq Users
BY DEF Typed, Row

LEMMA LoginKeeps == ASSUME PInv, NEW h, NEW u \in Users, Login(h, u) PROVE PInv'
<1> DEFINE s == [Do("openSession", u) EXCEPT !.password = users[u].password]
<1>1. s \in SoundStep /\ s.do = "openSession"
  BY RowIs DEF PInv, SoundStep, Step, Do, MaybeUser
<1>2. Start(h, <<s>>) /\ Still
  BY DEF Login, Still
<1> HIDE DEF s
<1> QED
  BY <1>1, <1>2, OneStep, StartKeeps DEF Ready

LEMMA OAuthKeeps == ASSUME PInv, NEW h, NEW x \in Users, OAuthLogin(h, x) PROVE PInv'
<1> DEFINE enter(u) == [Do("openSession", u) EXCEPT !.password = users[u].password]
           link(u) == [Do("link", u) EXCEPT !.address = x]
           appear(n) == [Do("appear", n) EXCEPT !.address = x]
<1>1. ASSUME NEW u \in Users
      PROVE  /\ enter(u) \in SoundStep /\ enter(u).do = "openSession"
             /\ link(u) \in SoundStep /\ link(u).do = "link"
             /\ appear(u) \in SoundStep /\ appear(u).do = "appear" /\ appear(u).user = u
  BY RowIs DEF PInv, SoundStep, Step, Do, MaybeUser
<1>2. /\ Still
      /\ \/ \E u \in Users : Start(h, <<enter(u)>>)
         \/ \E u \in Users : Start(h, <<link(u), enter(u)>>)
         \/ \E n \in Newcomers : NextRow(n) /\ Start(h, <<appear(n), link(n), enter(n)>>)
  BY DEF OAuthLogin, Still
<1> HIDE DEF enter, link, appear
<1>3. ASSUME NEW u \in Users, Start(h, <<enter(u)>>) PROVE PInv'
  BY <1>1, <1>2, <1>3, OneStep, StartKeeps DEF Ready
<1>4. ASSUME NEW u \in Users, Start(h, <<link(u), enter(u)>>) PROVE PInv'
  BY <1>1, <1>2, <1>4, TwoSteps, StartKeeps DEF Ready, Followers
<1>5. ASSUME NEW n \in Newcomers, NextRow(n), Start(h, <<appear(n), link(n), enter(n)>>)
      PROVE PInv'
  <2>1. n \in Users /\ users[n].kind = "free" /\ \A g \in Handlers : n \notin NewOf(g)
    BY <1>5, NextRowIs DEF PInv
  <2>2. Ready(appear(n))
    BY <1>1, <2>1 DEF Ready
  <2> QED
    BY ZenonT(60), <1>1, <1>2, <1>5, <2>1, <2>2, ThreeSteps, StartKeeps DEF Followers
<1> QED
  BY <1>2, <1>3, <1>4, <1>5

LEMMA RegisterKeeps ==
    ASSUME PInv, NEW h, NEW n \in Users, NEW a \in Users, Register(h, n, a) PROVE PInv'
<1> DEFINE s == [Do("insert", n) EXCEPT !.address = a]
<1>1. s \in SoundStep /\ s.do = "insert" /\ s.user = n
  BY DEF SoundStep, Step, Do, MaybeUser
<1>2. Start(h, <<s>>) /\ Still /\ NextRow(n)
  BY DEF Register, Still
<1> HIDE DEF s
<1>3. Ready(s)
  BY <1>1, <1>2, NextRowIs DEF Ready, PInv
<1> QED
  BY <1>1, <1>2, <1>3, OneStep, StartKeeps

LEMMA ResetKeeps == ASSUME PInv, NEW h, NEW u \in Users, ResetPassword(h, u) PROVE PInv'
<1> DEFINE s == Do("setPassword", u)
           t == Do("endSessions", u)
<1>1. /\ s \in SoundStep /\ s.do = "setPassword" /\ s.user = u
      /\ t \in SoundStep /\ t.do = "endSessions" /\ t.user = u
  BY DEF SoundStep, Step, Do, MaybeUser
<1>2. Start(h, <<s, t>>) /\ Still
  BY DEF ResetPassword, ResetSteps, Still
<1> HIDE DEF s, t
<1> QED
  BY <1>1, <1>2, TwoSteps, StartKeeps DEF Ready, Followers

LEMMA ChangeEmailKeeps ==
    ASSUME PInv, NEW h, NEW u \in Users, NEW a \in Users, ChangeEmail(h, u, a) PROVE PInv'
<1> DEFINE s == [Do("setAddress", u) EXCEPT !.address = a]
<1>1. s \in SoundStep /\ s.do = "setAddress"
  BY DEF SoundStep, Step, Do, MaybeUser
<1>2. Start(h, <<s>>) /\ Still
  BY DEF ChangeEmail, Still
<1> HIDE DEF s
<1> QED
  BY <1>1, <1>2, OneStep, StartKeeps DEF Ready

LEMMA BulkKeeps ==
    ASSUME PInv, NEW h, NEW u \in Users, NEW v \in Users, Bulk(h, u, v) PROVE PInv'
<1> DEFINE off(x) == Do("off", x)
           on(x) == Do("on", x)
           group(x, m) == [Do("group", x) EXCEPT !.other = m]
<1>1. ASSUME NEW x \in Users
      PROVE  /\ off(x) \in SoundStep /\ off(x).do = "off"
             /\ on(x) \in SoundStep /\ on(x).do = "on"
             /\ \A m \in Users : group(x, m) \in SoundStep /\ group(x, m).do = "group"
  BY DEF SoundStep, Step, Do, MaybeUser
<1>2. /\ Still
      /\ \/ Start(h, <<off(u), off(v)>>) \/ Start(h, <<on(u), on(v)>>)
         \/ \E m \in Users : Start(h, <<group(u, m), group(v, m)>>)
  BY DEF Bulk, Still
<1> HIDE DEF off, on, group
<1>3. CASE Start(h, <<off(u), off(v)>>)
  BY <1>1, <1>2, <1>3, TwoSteps, StartKeeps DEF Ready, Followers
<1>4. CASE Start(h, <<on(u), on(v)>>)
  BY <1>1, <1>2, <1>4, TwoSteps, StartKeeps DEF Ready, Followers
<1>5. ASSUME NEW m \in Users, Start(h, <<group(u, m), group(v, m)>>) PROVE PInv'
  BY <1>1, <1>2, <1>5, TwoSteps, StartKeeps DEF Ready, Followers
<1> QED
  BY <1>2, <1>3, <1>4, <1>5

LEMMA DeleteKeeps == ASSUME PInv, NEW h, NEW u \in Users, Delete(h, u) PROVE PInv'
<1> DEFINE s == Do("delete", u)
<1>1. s \in SoundStep /\ s.do = "delete"
  BY DEF SoundStep, Step, Do, MaybeUser
<1>2. Start(h, <<s>>) /\ Still
  BY DEF Delete, Still
<1> HIDE DEF s
<1> QED
  BY <1>1, <1>2, OneStep, StartKeeps DEF Ready

LEMMA MergeKeeps ==
    ASSUME PInv, NEW h, NEW keep \in Users, NEW drop \in Users, Merge(h, keep, drop)
    PROVE  PInv'
<1> DEFINE s == [Do("move", keep) EXCEPT !.other = drop]
<1>1. keep # drop
  BY DEF Merge
<1>2. s \in SoundStep /\ s.do = "move" /\ s.user = keep /\ s.other = drop
  BY <1>1 DEF SoundStep, Step, Do, MaybeUser
<1>3. Start(h, <<s>>) /\ Still
  BY DEF Merge, Still
<1> HIDE DEF s
<1>4. Ready(s)
  BY <1>2 DEF Ready, Merge
<1> QED
  BY <1>2, <1>3, <1>4, OneStep, StartKeeps

LEMMA UploadKeeps == ASSUME PInv, NEW h, NEW u \in Users, UploadFile(h, u) PROVE PInv'
<1> DEFINE s == Do("storeFile", u)
<1>1. s \in SoundStep /\ s.do = "storeFile"
  BY DEF SoundStep, Step, Do, MaybeUser
<1>2. Start(h, <<s>>) /\ Still
  BY DEF UploadFile, Still
<1> HIDE DEF s
<1> QED
  BY <1>1, <1>2, OneStep, StartKeeps DEF Ready

LEMMA ImportKeeps == ASSUME PInv, NEW h, NEW a \in Users, Import(h, a) PROVE PInv'
<1> DEFINE s == [Do("invite", NoUser) EXCEPT !.address = a]
<1>1. s \in SoundStep /\ s.do = "invite"
  BY DEF SoundStep, Step, Do, MaybeUser
<1>2. (Start(h, <<s>>) \/ Start(h, <<>>)) /\ Still
  BY DEF Import, Still
<1> HIDE DEF s
<1> QED
  BY <1>1, <1>2, OneStep, EmptyJob, StartKeeps DEF Ready

LEMMA OpenIs ==
    ASSUME Typed, NEW i \in Invitations, Open(i)
    PROVE  /\ invitations[i].state = "sent" /\ invitations[i].for \in MaybeUser
           /\ invitations[i].address \in MaybeUser
BY DEF Open, Typed
LEMMA RedeemKeeps ==
    ASSUME PInv, NEW h, NEW i \in Invitations, NEW u \in Users, NEW a \in Users,
           Redeem(h, i, u, a)
    PROVE  PInv'
<1> DEFINE s == [Do("activate", u) EXCEPT !.item = i, !.address = a, !.password = 1]
           t == [Do("openSession", u) EXCEPT !.password = 1]
<1>1. /\ s \in SoundStep /\ s.do = "activate" /\ s.item = i /\ s.user = u
      /\ t \in SoundStep /\ t.do = "openSession"
  BY DEF SoundStep, Step, Do, MaybeUser
<1>2. Start(h, <<s, t>>) /\ Still /\ Open(i) /\ (invitations[i].for = u \/ NextRow(u))
  BY DEF Redeem, Still
<1> HIDE DEF s, t
<1>3. Ready(s)
  BY <1>1, <1>2, OpenIs, NextRowIs, ConstantsFit DEF Ready, PInv, Still
<1> QED
  BY <1>1, <1>2, <1>3, TwoSteps, StartKeeps DEF Followers
LEMMA ActivateDirectlyKeeps ==
    ASSUME PInv, NEW h, NEW i \in Invitations, NEW u \in Users, ActivateDirectly(h, i, u)
    PROVE  PInv'
<1> DEFINE s == [Do("activate", u) EXCEPT !.item = i, !.address = invitations[i].address]
<1>1. Start(h, <<s>>) /\ Still /\ Open(i) /\ (invitations[i].for = u \/ NextRow(u))
  BY DEF ActivateDirectly, Still
<1>2. invitations[i].address \in MaybeUser
  BY <1>1, OpenIs DEF PInv
<1>3. s \in SoundStep /\ s.do = "activate" /\ s.item = i /\ s.user = u
  BY <1>2 DEF SoundStep, Step, Do, MaybeUser
<1> HIDE DEF s
<1>4. Ready(s)
  BY <1>1, <1>3, OpenIs, NextRowIs, ConstantsFit DEF Ready, PInv, Still
<1> QED
  BY <1>1, <1>3, <1>4, OneStep, StartKeeps

LEMMA AskKeeps ==
    ASSUME PInv, NEW h, NEW u \in Users, NEW v \in Users, NEW max \in 1..2,
           \/ AskName(h, u) \/ AskCode(h, u, max) \/ AskPerson(h, u, v) \/ AskClaim(h, u, v)
    PROVE  PInv'
<1> DEFINE name == Do("name", u)
           code == [Do("code", u) EXCEPT !.password = max]
           person == [Do("person", u) EXCEPT !.other = v]
           claim == [Do("claim", u) EXCEPT !.other = v]
<1>1. /\ name \in SoundStep /\ name.do = "name"
      /\ code \in SoundStep /\ code.do = "code"
      /\ person \in SoundStep /\ person.do = "person" /\ person.other = v
      /\ claim \in SoundStep /\ claim.do = "claim"
  BY DEF SoundStep, Step, Do, MaybeUser
<1>2. /\ Still
      /\ \/ Start(h, <<name>>) \/ Start(h, <<code>>) \/ Start(h, <<claim>>)
         \/ NextRow(v) /\ Start(h, <<person>>)
  BY DEF AskName, AskCode, AskPerson, AskClaim, Ask, Still
<1> HIDE DEF name, code, person, claim
<1>3. CASE Start(h, <<name>>)
  BY <1>1, <1>2, <1>3, OneStep, StartKeeps DEF Ready
<1>4. CASE Start(h, <<code>>)
  BY <1>1, <1>2, <1>4, OneStep, StartKeeps DEF Ready
<1>5. CASE Start(h, <<claim>>)
  BY <1>1, <1>2, <1>5, OneStep, StartKeeps DEF Ready
<1>6. CASE NextRow(v) /\ Start(h, <<person>>)
  <2>1. Ready(person)
    BY <1>1, <1>6, NextRowIs DEF Ready, PInv
  <2> QED
    BY <1>1, <1>2, <1>6, <2>1, OneStep, StartKeeps
<1> QED
  BY <1>2, <1>3, <1>4, <1>5, <1>6

LEMMA RedeemJoinCodeKeeps ==
    ASSUME PInv, NEW h, NEW u \in Users, NEW c \in Codes, RedeemJoinCode(h, u, c)
    PROVE  PInv'
<1> DEFINE m == codes[c].manager
           s == [Do("redeem", u) EXCEPT !.other = m, !.item = c]
<1>1. /\ Start(h, <<s>>) /\ Still /\ CodeUnlocked(c) /\ codes[c].used < codes[c].max
      /\ m # NoUser /\ m # u
  BY DEF RedeemJoinCode, CanJoin, CodeFree, Still
<1>2. m \in Users
  BY <1>1 DEF PInv, Typed, MaybeUser
<1> HIDE DEF m
<1>3. s \in SoundStep /\ s.do = "redeem" /\ s.item = c
  BY <1>1, <1>2 DEF SoundStep, Step, Do, MaybeUser
<1> HIDE DEF s
<1>4. Ready(s)
  BY <1>1, <1>3 DEF Ready
<1> QED
  BY <1>1, <1>3, <1>4, OneStep, StartKeeps

LEMMA SetPlayGroupKeeps ==
    ASSUME PInv, NEW h, NEW u \in Users, NEW v \in Users, SetPlayGroup(h, u, v) PROVE PInv'
<1> DEFINE s == [Do("playGroup", u) EXCEPT !.other = v]
<1>1. Start(h, <<s>>) /\ Still /\ u # v
  BY DEF SetPlayGroup, MayPutInto, Still
<1>2. s \in SoundStep /\ s.do = "playGroup"
  BY <1>1 DEF SoundStep, Step, Do, MaybeUser
<1> HIDE DEF s
<1> QED
  BY <1>1, <1>2, OneStep, StartKeeps DEF Ready

LEMMA SignUpKeeps ==
    ASSUME PInv, NEW h, NEW v \in invites, NEW n \in Users, SignUp(h, v, n) PROVE PInv'
<1> DEFINE s == [Do("signUp", n) EXCEPT !.other = v.parent, !.address = v.address]
           t == [Do("openSession", n) EXCEPT !.password = 1]
<1>1. v.parent \in Users /\ v.address \in MaybeUser
  BY DEF PInv, Typed
<1>2. /\ s \in SoundStep /\ s.do = "signUp" /\ s.user = n
      /\ t \in SoundStep /\ t.do = "openSession"
  BY <1>1 DEF SoundStep, Step, Do, MaybeUser
<1>3. Start(h, <<s, t>>) /\ Still /\ NextRow(n)
  BY DEF SignUp, Still
<1> HIDE DEF s, t
<1>4. Ready(s)
  BY <1>2, <1>3, NextRowIs DEF Ready, PInv
<1> QED
  BY <1>2, <1>3, <1>4, TwoSteps, StartKeeps DEF Followers

-----------------------------------------------------------------------------
(* Requests of one statement *)

Counters == requests' \in 0..MaxRequests /\ faults' \in 0..MaxFaults /\ ops' \in Scenarios
LEMMA OnceCalm ==
    ASSUME PInv, Once
    PROVE  Calm({}) /\ JobsSound' /\ Endings /\ Counters /\ job' = job
<1>1. /\ JobsSound' /\ job' = job
      /\ requests' \in 0..MaxRequests /\ faults' \in 0..MaxFaults /\ ops' \in Scenarios
  BY OnceIs DEF PInv
<1> QED
  BY <1>1 DEF Calm, Endings, Doing, Now, Counters
LEMMA ThenCalm ==
    ASSUME PInv, NEW h \in Handlers, job[h] # <<>>, ~Doing(h, "endSessions"),
           Then(h, <<>>) \/ Refuse(h)
    PROVE  Calm({h}) /\ JobsSound' /\ Endings /\ Counters
<1>1. Typed /\ JobsSound
  BY DEF PInv
<1>2. /\ JobsSound' /\ \A g \in Handlers \ {h} : job'[g] = job[g]
      /\ job'[h] # <<>> => Head(job'[h]).do \in Followers
      /\ requests' = requests /\ faults' = faults /\ ops' = ops
  BY <1>1, ThenIs, RefuseIs
<1>3. Calm({h})
  BY <1>2 DEF Calm, Followers, Acting
<1>4. Endings
  BY <1>2, EndingsStay
<1> QED
  BY <1>1, <1>2, <1>3, <1>4 DEF Counters, Typed
LEMMA ThenOneCalm ==
    ASSUME PInv, NEW h \in Handlers, job[h] # <<>>, ~Doing(h, "endSessions"),
           NEW s \in SoundStep, s.do \notin Acting, s.do # "setPassword", Then(h, <<s>>)
    PROVE  Calm({h}) /\ JobsSound' /\ Endings /\ Counters
<1>1. Typed /\ JobsSound
  BY DEF PInv
<1>2. /\ JobsSound' /\ \A g \in Handlers \ {h} : job'[g] = job[g]
      /\ job'[h] # <<>> => Head(job'[h]) = s
      /\ requests' = requests /\ faults' = faults /\ ops' = ops
  BY <1>1, ThenOneIs
<1>3. Calm({h})
  BY <1>2 DEF Calm
<1>4. Endings
  BY <1>2, EndingsStay
<1> QED
  BY <1>1, <1>2, <1>3, <1>4 DEF Counters, Typed
LEMMA StartCalm ==
    ASSUME PInv, NEW h, NEW j \in Seq(SoundStep), SoundJob(j), Start(h, j),
           j # <<>> => Head(j).do \notin Acting
    PROVE  Calm({h}) /\ JobsSound' /\ Endings /\ Counters
<1>1. Typed /\ JobsSound
  BY DEF PInv
<1>2. /\ h \in Handlers /\ job[h] = <<>>
      /\ JobsSound' /\ \A g \in Handlers \ {h} : job'[g] = job[g]
      /\ job'[h] = j
      /\ requests' \in 0..MaxRequests /\ faults' \in 0..MaxFaults /\ ops' \in Scenarios
  BY <1>1, StartIs
<1>3. Calm({h})
  BY <1>2 DEF Calm
<1>4. ~Doing(h, "endSessions")
  BY <1>2 DEF Doing
<1>5. Endings
  BY <1>2, <1>4, EndingsStay
<1> QED
  BY <1>2, <1>3, <1>5 DEF Counters

\* The parts that only depend on what is still.
LEMMA UsersStill ==
    ASSUME users' = users
    PROVE  SameNames /\ SameKinds /\ SamePlaces /\ SameGroups /\ SameSignIn
BY DEF SameNames, SameKinds, SamePlaces, SameGroups, SameSignIn
LEMMA HistoryStill ==
    ASSUME history' = history
    PROVE  HistoryGrows /\ history'.lost = history.lost
BY DEF HistoryGrows
LEMMA OthersStill ==
    /\ invitations' = invitations => SameInvitations
    /\ codes' = codes => SameOwners /\ (history' = history => SameCounts)
BY DEF SameInvitations, SameOwners, SameCounts

\* Only the list of open group invitations changes, or who is logged in no more.
LEMMA InvitesKeep ==
    ASSUME PInv, NEW S, Calm(S), JobsSound', Endings, Counters,
           UNCHANGED <<users, invitations, codes, history>>, sessions' \subseteq sessions,
           invites' \subseteq [parent : Users, child : MaybeUser, address : MaybeUser]
    PROVE  PInv'
<1>1. /\ SameNames /\ SameKinds /\ SamePlaces /\ SameGroups /\ SameSignIn
      /\ SameInvitations /\ SameOwners /\ SameCounts /\ HistoryGrows
      /\ history'.lost = history.lost
  BY UsersStill, HistoryStill, OthersStill
<1>2. Typed'
  BY DEF PInv, Typed, Counters
<1> QED
  BY <1>1, <1>2, Carries DEF PInv

LEMMA LogoutKeeps == ASSUME PInv, NEW s \in sessions, Logout(s) PROVE PInv'
<1>1. Calm({}) /\ JobsSound' /\ Endings /\ Counters
  BY OnceCalm DEF Logout
<1>2. /\ UNCHANGED <<users, invitations, codes, history>> /\ sessions' \subseteq sessions
      /\ invites' \subseteq [parent : Users, child : MaybeUser, address : MaybeUser]
  BY DEF Logout, PInv, Typed
<1> QED
  BY <1>1, <1>2, InvitesKeep

LEMMA InvitingKeeps ==
    ASSUME PInv, NEW u \in Users, NEW v \in Users,
           \/ InviteById(u, v) \/ InviteNewPerson(u, v)
           \/ \E w \in invites : RemoveInvite(w)
    PROVE  PInv'
<1>1. Calm({}) /\ JobsSound' /\ Endings /\ Counters
  BY OnceCalm DEF InviteById, InviteNewPerson, RemoveInvite
<1>2. /\ UNCHANGED <<users, invitations, codes, history>> /\ sessions' \subseteq sessions
      /\ invites' \subseteq [parent : Users, child : MaybeUser, address : MaybeUser]
  BY DEF InviteById, InviteNewPerson, RemoveInvite, PInv, Typed, MaybeUser
<1> QED
  BY <1>1, <1>2, InvitesKeep

LEMMA AcceptInvitationKeeps ==
    ASSUME PInv, NEW h, NEW v \in invites, AcceptInvitation(h, v) PROVE PInv'
<1>1. v.parent \in Users /\ v.child \in MaybeUser /\ v.child # NoUser
  BY DEF PInv, Typed, AcceptInvitation
<1>2. v.child \in Users
  BY <1>1 DEF MaybeUser
<1>3. CASE /\ CanJoin(v.parent, v.child) /\ UNCHANGED invites
           /\ Start(h, <<[Do("accept", v.child) EXCEPT !.other = v.parent]>>)
  <2> DEFINE s == [Do("accept", v.child) EXCEPT !.other = v.parent]
  <2>1. v.parent # v.child
    BY <1>3 DEF CanJoin
  <2>2. s \in SoundStep /\ s.do = "accept"
    BY <1>1, <1>2, <2>1 DEF SoundStep, Step, Do, MaybeUser
  <2>3. Start(h, <<s>>) /\ Still
    BY <1>3 DEF AcceptInvitation, Still
  <2> HIDE DEF s
  <2> QED
    BY <2>2, <2>3, OneStep, StartKeeps DEF Ready
<1>4. CASE Start(h, <<>>) /\ invites' = invites \ {v}
  <2>1. Calm({h}) /\ JobsSound' /\ Endings /\ Counters
    BY <1>4, EmptyJob, StartCalm
  <2>2. /\ UNCHANGED <<users, invitations, codes, history>> /\ sessions' \subseteq sessions
        /\ invites' \subseteq [parent : Users, child : MaybeUser, address : MaybeUser]
    BY <1>4 DEF AcceptInvitation, PInv, Typed
  <2> QED
    BY <2>1, <2>2, InvitesKeep
<1> QED
  BY <1>3, <1>4 DEF AcceptInvitation

\* A row of users changes in what no other part depends on.
LEMMA RowKeeps ==
    ASSUME PInv, NEW S, Calm(S), JobsSound', Endings, Counters,
           UNCHANGED <<sessions, invitations, invites, codes>>, history' \in Excuses,
           HistoryGrows, history'.lost = history.lost, history'.joined = history.joined,
           users' \in [Users -> Row], SameKinds
    PROVE  /\ SameNames /\ SameSignIn /\ SameGroups /\ MovesFit' /\ PlacesFit' => PInv'
           /\ SameNames /\ SameGroups /\ SamePlaces /\ SessionsFit' => PInv'
           /\ SameSignIn /\ SameGroups /\ SamePlaces /\ Unique' => PInv'
           /\ SameNames /\ SameSignIn /\ SamePlaces /\ KeysFit' /\ GroupsAreFlat' => PInv'
<1>1. SameInvitations /\ SameOwners /\ SameCounts /\ sessions' \subseteq sessions
  BY DEF SameInvitations, SameOwners, SameCounts
<1>2. Typed'
  BY DEF PInv, Typed, Counters
<1> QED
  BY <1>1, <1>2, Carries DEF PInv

\* One row is replaced by another.
LEMMA RowChanges ==
    ASSUME Typed, NEW u \in Users, NEW r \in Row, users' = [users EXCEPT ![u] = r]
    PROVE  /\ users' \in [Users -> Row] /\ users'[u] = r
           /\ \A v \in Users \ {u} : users'[v] = users[v]
           /\ r.kind = users[u].kind => SameKinds
           /\ r.address = users[u].address /\ r.logins = users[u].logins => SameNames
           /\ r.place = users[u].place /\ r.paid = users[u].paid => SamePlaces
           /\ r.password = users[u].password /\ r.active = users[u].active => SameSignIn
           /\ /\ r.parent = users[u].parent /\ r.manager = users[u].manager
              /\ r.named = users[u].named
              => SameGroups
<1>1. /\ users' \in [Users -> Row] /\ users'[u] = r
      /\ \A v \in Users \ {u} : users'[v] = users[v]
  BY DEF Typed
<1> QED
  BY <1>1 DEF SameKinds, SameNames, SamePlaces, SameSignIn, SameGroups


\* A change of a row that has nothing to do with groups, places or passwords.
LEMMA MinorKeeps ==
    ASSUME PInv, NEW S, Calm(S), JobsSound', Endings, Counters,
           UNCHANGED <<sessions, invitations, invites, codes, history>>,
           NEW u \in Users, NEW r \in Row, users' = [users EXCEPT ![u] = r],
           r.kind = users[u].kind, r.password = users[u].password,
           users[u].active => r.active, r.place = users[u].place, r.paid = users[u].paid,
           r.parent = users[u].parent, r.manager = users[u].manager, r.named = users[u].named,
           (r.address = users[u].address /\ r.logins = users[u].logins) \/ Unique'
    PROVE  PInv'
<1>1. /\ users' \in [Users -> Row] /\ users'[u] = r /\ SameKinds /\ SamePlaces /\ SameGroups
      /\ \A v \in Users \ {u} : users'[v] = users[v]
      /\ SameNames \/ Unique'
  BY RowChanges DEF PInv
<1>2. HistoryGrows /\ history' \in Excuses
  BY HistoryStill DEF PInv, Typed
<1>3. Unique' /\ MovesFit' /\ PlacesFit'
  BY <1>1, <1>2, Carries
<1>4. SessionsFit'
  <2>1. \A v \in Users : Ending(v) => Ending(v)'
    BY DEF Ending, Endings
  <2>2. \A s \in sessions : s.user \in Users
    BY DEF PInv, Typed
  <2> QED
    BY <1>1, <2>1, <2>2 DEF PInv, SessionsFit
<1>5. Typed'
  BY <1>1 DEF PInv, Typed, Counters
<1>6. SameInvitations /\ SameOwners /\ SameCounts /\ sessions' \subseteq sessions
  BY OthersStill
<1> QED
  BY <1>1, <1>2, <1>3, <1>4, <1>5, <1>6, Carries DEF PInv

LEMMA VerifyKeeps == ASSUME PInv, NEW u \in Users, Verify(u) \/ Reactivate(u) PROVE PInv'
<1>1. Calm({}) /\ JobsSound' /\ Endings /\ Counters
  BY OnceCalm DEF Verify, Reactivate
<1>2. UNCHANGED <<sessions, invitations, invites, codes, history>> /\ Typed
  BY DEF Verify, Reactivate, PInv
<1>3. CASE Verify(u)
  <2> DEFINE r == [users[u] EXCEPT !.verified = TRUE]
  <2>1. users' = [users EXCEPT ![u] = r] /\ r \in Row
    BY <1>2, <1>3, RowIs DEF Verify, Row
  <2>2. /\ r.kind = users[u].kind /\ r.address = users[u].address
        /\ r.logins = users[u].logins /\ r.place = users[u].place /\ r.paid = users[u].paid
        /\ r.password = users[u].password /\ r.active = users[u].active
        /\ r.parent = users[u].parent /\ r.manager = users[u].manager
        /\ r.named = users[u].named
    BY <1>2, RowIs DEF Row
  <2> HIDE DEF r
  <2> QED
    BY <1>1, <1>2, <2>1, <2>2, MinorKeeps
<1>4. CASE Reactivate(u)
  <2> DEFINE r == [users[u] EXCEPT !.active = TRUE]
  <2>1. users' = [users EXCEPT ![u] = r] /\ r \in Row
    BY <1>2, <1>4, RowIs DEF Reactivate, Row
  <2>2. /\ r.kind = users[u].kind /\ r.address = users[u].address
        /\ r.logins = users[u].logins /\ r.place = users[u].place /\ r.paid = users[u].paid
        /\ r.password = users[u].password /\ r.active
        /\ r.parent = users[u].parent /\ r.manager = users[u].manager
        /\ r.named = users[u].named
    BY <1>2, RowIs DEF Row
  <2> HIDE DEF r
  <2> QED
    BY <1>1, <1>2, <2>1, <2>2, MinorKeeps
<1> QED
  BY <1>3, <1>4

LEMMA FilesKeep == ASSUME PInv, NEW u \in Users, SetPortrait(u) \/ DeleteFile(u) PROVE PInv'
<1>1. Calm({}) /\ JobsSound' /\ Endings /\ Counters
  BY OnceCalm DEF SetPortrait, DeleteFile
<1>2. UNCHANGED <<sessions, invitations, invites, codes, history>> /\ Typed
  BY DEF SetPortrait, DeleteFile, PInv
<1>3. PICK files \in Nat, portrait \in BOOLEAN :
        users' = [users EXCEPT ![u] = [users[u] EXCEPT !.files = files, !.portrait = portrait]]
  <2>1. users[u].files \in Nat /\ users[u].portrait \in BOOLEAN /\ users[u] \in Row
    BY <1>2, RowIs DEF Row
  <2>2. CASE SetPortrait(u)
    <3>1. PICK chosen \in BOOLEAN : users' = [users EXCEPT ![u].portrait = chosen]
      BY <2>2 DEF SetPortrait
    <3>2. [users[u] EXCEPT !.portrait = chosen]
            = [users[u] EXCEPT !.files = users[u].files, !.portrait = chosen]
      BY <2>1 DEF Row
    <3> QED
      BY <2>1, <3>1, <3>2
  <2>3. CASE DeleteFile(u)
    <3>1. PICK chosen \in BOOLEAN :
            users' = [users EXCEPT ![u].files = @ - 1, ![u].portrait = chosen]
      BY <2>1, <2>3 DEF DeleteFile
    <3>2. users[u].files - 1 \in Nat
      BY <2>1, <2>3 DEF DeleteFile
    <3>3. users' = [users EXCEPT ![u] = [users[u] EXCEPT !.files = users[u].files - 1,
                                                         !.portrait = chosen]]
      BY <1>2, <3>1 DEF Typed
    <3> QED
      BY <3>2, <3>3
  <2> QED
    BY <2>2, <2>3
<1> DEFINE r == [users[u] EXCEPT !.files = files, !.portrait = portrait]
<1>4. users' = [users EXCEPT ![u] = r]
  BY <1>3
<1>5. /\ r \in Row
      /\ r.kind = users[u].kind /\ r.address = users[u].address
      /\ r.logins = users[u].logins /\ r.place = users[u].place /\ r.paid = users[u].paid
      /\ r.password = users[u].password /\ r.active = users[u].active
      /\ r.parent = users[u].parent /\ r.manager = users[u].manager
      /\ r.named = users[u].named
  <2>1. users[u] \in Row
    BY <1>2, RowIs
  <2> QED
    BY <2>1 DEF Row
<1> HIDE DEF r
<1> QED
  BY <1>1, <1>2, <1>4, <1>5, MinorKeeps

\* A registration changes; somebody who is being merged gets none, and pays none or comes
\* back with one only as somebody disturbed.
Owes(row) == row.place = "open" \/ row.paid
LEMMA PlaceKeeps ==
    ASSUME PInv, NEW S, Calm(S), JobsSound', Endings, Counters,
           UNCHANGED <<sessions, invitations, invites, codes>>,
           NEW more \in SUBSET Users, Past("disturbed", more),
           NEW u \in Users, NEW r, r = [users[u] EXCEPT !.place = r.place, !.paid = r.paid],
           r \in Row, users' = [users EXCEPT ![u] = r], r.place = "none" => ~r.paid,
           \/ \A h \in Handlers : Doing(h, "move") => u \notin {Now(h).user, Now(h).other}
           \/ /\ r.place = "none" <=> users[u].place = "none"
              /\ Owes(r) => Owes(users[u]) \/ u \in more
    PROVE  PInv'
<1>1. Typed /\ users[u] \in Row
  BY RowIs DEF PInv
<1>2. /\ r.kind = users[u].kind /\ r.address = users[u].address
      /\ r.logins = users[u].logins /\ r.password = users[u].password
      /\ r.active = users[u].active /\ r.parent = users[u].parent
      /\ r.manager = users[u].manager /\ r.named = users[u].named
  BY <1>1 DEF Row
<1>3. /\ users' \in [Users -> Row] /\ users'[u] = r
      /\ \A v \in Users \ {u} : users'[v] = users[v]
      /\ SameKinds /\ SameNames /\ SameSignIn /\ SameGroups
  BY <1>1, <1>2, RowChanges
<1>4. /\ history' \in Excuses /\ HistoryGrows /\ more \subseteq history'.disturbed
      /\ history'.lost = history.lost /\ history'.joined = history.joined
  <2>1. history \in Excuses
    BY <1>1 DEF Typed
  <2>2. history' = [history EXCEPT !.disturbed = @ \cup more]
    BY DEF Past
  <2> QED
    BY <2>1, <2>2 DEF Excuses, HistoryGrows
<1>5. PlacesFit'
  BY <1>3 DEF PInv, PlacesFit
<1>6. MovesFit'
  <2>1. ASSUME NEW h \in Handlers, NEW keep \in Users, NEW drop \in Users,
               Moving(h, keep, drop)
        PROVE  /\ Real(users'[keep]) /\ Real(users'[drop])
               /\ Conflict(users'[keep], users'[drop]) =>
                    Conflict(users[keep], users[drop]) \/ drop \in history'.disturbed
    <3>1. Real(users[keep]) /\ Real(users[drop]) /\ keep # drop
      BY <2>1, MovingIs DEF PInv
    <3>2. CASE u \notin {keep, drop}
      BY <1>3, <3>1, <3>2
    <3>3. CASE u \in {keep, drop}
      <4>1. /\ r.place = "none" <=> users[u].place = "none"
            /\ Owes(r) => Owes(users[u]) \/ u \in more
        BY <2>1, <3>3 DEF Moving
      <4>2. users[drop].place # "none" \/ users'[drop].place = "none"
        BY <1>3, <4>1
      <4> QED
        BY <1>2, <1>3, <1>4, <3>1, <3>3, <4>1, <4>2 DEF Conflict, Owes, Real
    <3> QED
      BY <3>2, <3>3
  <2> QED
    BY <1>4, <2>1, MovesStay DEF PInv, HistoryGrows
<1> QED
  BY <1>1, <1>3, <1>4, <1>5, <1>6, RowKeeps

LEMMA PlacesKeep ==
    ASSUME PInv, NEW u \in Users, TakePlace(u) \/ Withdraw(u) \/ Reinstate(u) \/ Pay(u)
    PROVE  PInv'
<1>1. Calm({}) /\ JobsSound' /\ Endings /\ Counters
  BY OnceCalm DEF TakePlace, Withdraw, Reinstate, Pay, Place
<1>2. /\ UNCHANGED <<sessions, invitations, invites, codes>> /\ Typed /\ JobsSound
      /\ users[u].place = "none" => ~users[u].paid
  BY DEF TakePlace, Withdraw, Reinstate, Pay, PInv, PlacesFit
<1>3. users[u] \in Row /\ history \in Excuses
  BY <1>2, RowIs DEF Typed
<1>4. Unlocked(u) =>
        \A h \in Handlers : Doing(h, "move") => u \notin {Now(h).user, Now(h).other}
  BY <1>2, UnlockedIs
<1>5. ASSUME history' = history PROVE Past("disturbed", {})
  BY <1>3, <1>5 DEF Past, Excuses
<1>6. CASE TakePlace(u)
  <2> DEFINE r == [users[u] EXCEPT !.place = "open"]
  <2>1. /\ users' = [users EXCEPT ![u] = r] /\ r \in Row /\ r.place = "open"
        /\ r = [users[u] EXCEPT !.place = r.place, !.paid = r.paid]
    BY <1>3, <1>6 DEF TakePlace, Row
  <2>2. Unlocked(u) /\ history' = history
    BY <1>6 DEF TakePlace
  <2> HIDE DEF r
  <2> QED
    BY <1>1, <1>2, <1>4, <1>5, <2>1, <2>2, PlaceKeeps
<1>7. CASE Withdraw(u)
  <2> DEFINE r == [users[u] EXCEPT !.place = "cancelled"]
  <2>1. /\ users' = [users EXCEPT ![u] = r] /\ r \in Row /\ r.place = "cancelled"
        /\ r = [users[u] EXCEPT !.place = r.place, !.paid = r.paid]
        /\ r.paid = users[u].paid /\ users[u].place = "open"
    BY <1>3, <1>7 DEF Withdraw, Row
  <2>2. history' = history
    BY <1>7 DEF Withdraw
  <2> HIDE DEF r
  <2> QED
    BY <1>1, <1>2, <1>5, <2>1, <2>2, PlaceKeeps DEF Owes
<1>8. CASE Reinstate(u)
  <2> DEFINE r == [users[u] EXCEPT !.place = "open"]
             more == When(~Unlocked(u), {u})
  <2>1. /\ users' = [users EXCEPT ![u] = r] /\ r \in Row /\ r.place = "open"
        /\ r = [users[u] EXCEPT !.place = r.place, !.paid = r.paid]
        /\ users[u].place = "cancelled"
    BY <1>3, <1>8 DEF Reinstate, Row
  <2>2. /\ Past("disturbed", more) /\ more \in SUBSET Users
        /\ Unlocked(u) \/ u \in more
    BY <1>8 DEF Reinstate, Disturb, When
  <2> HIDE DEF r, more
  <2> QED
    BY <1>1, <1>2, <1>4, <2>1, <2>2, PlaceKeeps
<1>9. CASE Pay(u)
  <2> DEFINE r == [users[u] EXCEPT !.paid = TRUE]
             more == When(~Unlocked(u), {u})
  <2>1. /\ users' = [users EXCEPT ![u] = r] /\ r \in Row /\ r.place = users[u].place
        /\ r = [users[u] EXCEPT !.place = r.place, !.paid = r.paid]
        /\ users[u].place # "none"
    BY <1>3, <1>9 DEF Pay, Row
  <2>2. /\ Past("disturbed", more) /\ more \in SUBSET Users
        /\ Unlocked(u) \/ u \in more
    BY <1>9 DEF Pay, Disturb, When
  <2> HIDE DEF r, more
  <2> QED
    BY <1>1, <1>2, <1>4, <2>1, <2>2, PlaceKeeps
<1> QED
  BY <1>6, <1>7, <1>8, <1>9

\* Groups only lose members, people and codes.
LEMMA SmallerGroups ==
    ASSUME PInv, HistoryGrows, sessions' \subseteq sessions, SameKinds,
           \A v \in Users : /\ users'[v].parent \in {users[v].parent, NoUser}
                            /\ users'[v].manager \in {users[v].manager, NoUser}
                            /\ users'[v].named => users[v].named,
           \A c \in Codes : codes'[c].manager \in {codes[c].manager, NoUser}
    PROVE  KeysFit' /\ GroupsAreFlat'
<1>1. \A u \in Users : Exists(u) => Exists(u)'
  BY DEF SameKinds, Exists
<1>2. /\ \A u \in Users : \A x \in {users'[u].parent, users'[u].manager} :
           x = NoUser \/ x \in {users[u].parent, users[u].manager}
      /\ \A u \in Users : users[u].parent \in MaybeUser /\ users[u].manager \in MaybeUser
      /\ \A c \in Codes : codes[c].manager \in MaybeUser
      /\ \A s \in sessions : s.user \in Users
  BY RowIs DEF PInv, Typed
<1>3. KeysFit'
  BY <1>1, <1>2 DEF PInv, KeysFit, MaybeUser
<1>4. GroupsAreFlat'
  BY ConstantsFit DEF PInv, GroupsAreFlat, HistoryGrows
<1> QED
  BY <1>3, <1>4

LEMMA LeavingKeeps ==
    ASSUME PInv, NEW u \in Users, Leave(u) \/ ReleasePerson(u) PROVE PInv'
<1>1. Calm({}) /\ JobsSound' /\ Endings /\ Counters
  BY OnceCalm DEF Leave, ReleasePerson
<1>2. UNCHANGED <<sessions, invitations, invites, codes>> /\ history' = history /\ Typed
      /\ users[u] \in Row /\ history \in Excuses
  BY RowIs DEF Leave, ReleasePerson, PInv, Typed
<1>3. PICK r \in {[users[u] EXCEPT !.parent = NoUser], [users[u] EXCEPT !.manager = NoUser]} :
        users' = [users EXCEPT ![u] = r]
  BY DEF Leave, ReleasePerson
<1>4. /\ r \in Row /\ r.kind = users[u].kind /\ r.address = users[u].address
      /\ r.logins = users[u].logins /\ r.place = users[u].place /\ r.paid = users[u].paid
      /\ r.password = users[u].password /\ r.active = users[u].active
      /\ r.parent \in {users[u].parent, NoUser} /\ r.manager \in {users[u].manager, NoUser}
      /\ r.named = users[u].named
  BY <1>2 DEF Row, MaybeUser
<1>5. /\ users' \in [Users -> Row] /\ users'[u] = r /\ SameKinds /\ SameNames /\ SameSignIn
      /\ SamePlaces /\ \A v \in Users \ {u} : users'[v] = users[v]
  BY <1>2, <1>3, <1>4, RowChanges
<1>6. HistoryGrows
  BY <1>2, HistoryStill
<1>7. KeysFit' /\ GroupsAreFlat'
  BY <1>2, <1>4, <1>5, <1>6, SmallerGroups
<1> QED
  BY <1>1, <1>2, <1>5, <1>6, <1>7, RowKeeps

LEMMA DeleteJoinCodeKeeps == ASSUME PInv, NEW c \in Codes, DeleteJoinCode(c) PROVE PInv'
<1>1. Calm({}) /\ JobsSound' /\ Endings /\ Counters
  BY OnceCalm DEF DeleteJoinCode
<1>2. /\ UNCHANGED <<users, sessions, invitations, invites, history>> /\ Typed
      /\ codes' = [codes EXCEPT ![c].manager = NoUser]
      /\ codes \in [Codes -> [manager : MaybeUser, max : Nat, used : Nat]]
  BY DEF DeleteJoinCode, PInv, Typed
<1>3. /\ codes' \in [Codes -> [manager : MaybeUser, max : Nat, used : Nat]]
      /\ \A d \in Codes : /\ codes'[d].manager \in {codes[d].manager, NoUser}
                          /\ codes'[d].max = codes[d].max /\ codes'[d].used = codes[d].used
  BY <1>2 DEF MaybeUser
<1>4. /\ SameNames /\ SameKinds /\ SamePlaces /\ SameGroups /\ SameSignIn
      /\ SameInvitations /\ HistoryGrows /\ history'.lost = history.lost
      /\ sessions' \subseteq sessions
  BY <1>2, UsersStill, HistoryStill, OthersStill
<1>5. SameCounts
  BY <1>2, <1>3 DEF SameCounts
<1>6. KeysFit' /\ GroupsAreFlat'
  BY <1>2, <1>3, <1>4, SmallerGroups
<1>7. Typed'
  BY <1>1, <1>2, <1>3 DEF Typed, Counters
<1> QED
  BY <1>1, <1>4, <1>5, <1>6, <1>7, Carries DEF PInv

LEMMA InvitationIs ==
    ASSUME NEW for \in MaybeUser, NEW by \in MaybeUser, NEW a \in MaybeUser
    PROVE  /\ Invitation(for, by, a) \in
                [state : {"none", "sent"}, for : MaybeUser, by : MaybeUser,
                 address : MaybeUser, redeemed : BOOLEAN,
                 cancelled : BOOLEAN, made : SUBSET Users]
           /\ Invitation(for, by, a).state = "sent" /\ Invitation(for, by, a).made = {}
           /\ Invitation(for, by, a).for = for /\ ~Invitation(for, by, a).redeemed
BY DEF Invitation
LEMMA NewInvitationIs ==
    ASSUME Typed, NEW i, NewInvitation(i), NEW for \in MaybeUser, NEW by \in MaybeUser,
           NEW a \in MaybeUser, UNCHANGED <<users, sessions, invites, codes, history>>,
           invitations' = [invitations EXCEPT ![i] = Invitation(for, by, a)]
    PROVE  /\ i \in Invitations /\ invitations[i].state = "none" /\ OnlyInvitations
           /\ invitations'[i].state = "sent" /\ invitations'[i].for = for
<1>1. i \in Invitations /\ invitations[i].state = "none"
  BY FreshIs DEF NewInvitation
<1> DEFINE new == Invitation(for, by, a)
<1>2. /\ new \in [state : {"none", "sent"}, for : MaybeUser, by : MaybeUser,
                  address : MaybeUser, redeemed : BOOLEAN,
                  cancelled : BOOLEAN, made : SUBSET Users]
      /\ new.state = "sent" /\ new.made = {} /\ new.for = for
  BY InvitationIs
<1>3. invitations' = [invitations EXCEPT ![i] = new]
  OBVIOUS
<1> HIDE DEF new
<1>4. invitations \in
         [Invitations -> [state : {"none", "sent"}, for : MaybeUser, by : MaybeUser,
                          address : MaybeUser, redeemed : BOOLEAN,
                          cancelled : BOOLEAN, made : SUBSET Users]]
  BY DEF Typed
<1>5. /\ invitations'[i] = new
      /\ \A k \in Invitations \ {i} : invitations'[k] = invitations[k]
      /\ invitations' \in
         [Invitations -> [state : {"none", "sent"}, for : MaybeUser, by : MaybeUser,
                          address : MaybeUser, redeemed : BOOLEAN,
                          cancelled : BOOLEAN, made : SUBSET Users]]
  BY <1>1, <1>2, <1>3, <1>4
<1> QED
  BY <1>1, <1>2, <1>5 DEF OnlyInvitations

LEMMA InviteKeeps ==
    ASSUME PInv, NEW h, NEW i \in Invitations, NEW a \in MaybeUser, Invite(h, i, a)
    PROVE  PInv'
<1>1. /\ NewInvitation(i) /\ UNCHANGED <<users, sessions, invites, codes, history>>
      /\ invitations' = [invitations EXCEPT ![i] = Invitation(NoUser, NoUser, a)]
      /\ NoUser \in MaybeUser /\ Typed /\ JobsSound
  BY DEF Invite, MaybeUser, PInv
<1>2. OnlyInvitations /\ invitations'[i].state = "sent"
  BY <1>1, NewInvitationIs
<1>3. CASE Start(h, <<>>)
  BY <1>2, <1>3, EmptyJob, InvitationStartKeeps
<1>4. ASSUME NEW n \in Newcomers, NextRow(n),
             Start(h, <<[Do("activate", n) EXCEPT !.item = i]>>)
      PROVE  PInv'
  <2> DEFINE s == [Do("activate", n) EXCEPT !.item = i]
  <2>1. n \in Users /\ users[n].kind = "free" /\ \A g \in Handlers : n \notin NewOf(g)
    BY <1>1, <1>4, NextRowIs
  <2>2. s \in SoundStep /\ s.do = "activate" /\ s.item = i /\ s.user = n
    BY <2>1 DEF SoundStep, Step, Do, MaybeUser
  <2>3. Start(h, <<s>>)
    BY <1>4
  <2> HIDE DEF s
  <2>4. Ready(s)
    BY <1>2, <2>1, <2>2 DEF Ready
  <2> QED
    BY <1>2, <2>2, <2>3, <2>4, OneStep, InvitationStartKeeps
<1> QED
  BY <1>3, <1>4 DEF Invite

LEMMA ConvertKeeps ==
    ASSUME PInv, NEW h, NEW i \in Invitations, NEW g \in Users, NEW by \in MaybeUser,
           Convert(h, i, g, by)
    PROVE  PInv'
<1>1. /\ NewInvitation(i) /\ UNCHANGED <<users, sessions, invites, codes, history>>
      /\ invitations' = [invitations EXCEPT ![i] = Invitation(g, by, users[g].address)]
      /\ g \in MaybeUser /\ Typed /\ Start(h, <<>>)
  BY DEF Convert, MaybeUser, PInv
<1>2. users[g].address \in MaybeUser
  BY <1>1, RowIs
<1>3. OnlyInvitations
  BY <1>1, <1>2, NewInvitationIs
<1> QED
  BY <1>1, <1>3, EmptyJob, InvitationStartKeeps

\* Invitations are made or cancelled, and the jobs go on.
LEMMA InvitationsKeep ==
    ASSUME PInv, NEW S, Calm(S), JobsSound', Endings, Counters, OnlyInvitations
    PROVE  PInv'
<1>1. /\ SameNames /\ SameKinds /\ SamePlaces /\ SameGroups /\ SameSignIn
      /\ SameOwners /\ SameCounts /\ HistoryGrows /\ history'.lost = history.lost
      /\ sessions' \subseteq sessions
  BY UsersStill, HistoryStill, OthersStill DEF OnlyInvitations
<1>2. Typed'
  BY DEF PInv, Typed, OnlyInvitations, Counters
<1>3. NewAreFree'
  <2>1. \A g \in Handlers \ S : \A n \in NewOf(g) : users'[n].kind = "free"
    BY NewTyped DEF PInv, OnlyInvitations
  <2> QED
    BY <2>1, NewStays DEF PInv, OnlyInvitations
<1>4. InvitationsFit'
  <2>1. \A h \in Handlers : Doing(h, "activate")' =>
          h \notin S /\ Doing(h, "activate") /\ Now(h)' = Now(h)
    BY HeadStays DEF Acting
  <2>2. \A h \in Handlers : Doing(h, "activate") => Now(h).item \in Invitations
    BY NowRuns DEF Doing, Now, SoundStep, PInv
  <2>3. \A i \in Invitations : /\ ~invitations'[i].redeemed => Made(i)' = {}
                               /\ Made(i)' = {} \/ \E u \in Users : Made(i)' = {u}
    BY DEF PInv, InvitationsFit, OnlyInvitations, Made
  <2>4. \A h \in Handlers : Doing(h, "activate")' => invitations'[Now(h)'.item].state = "sent"
    BY <2>1, <2>2 DEF PInv, InvitationsFit, OnlyInvitations
  <2> QED
    BY <2>3, <2>4 DEF InvitationsFit
<1> QED
  BY <1>1, <1>2, <1>3, <1>4, Carries DEF PInv

LEMMA CancelInvitationKeeps ==
    ASSUME PInv, NEW i \in Invitations, CancelInvitation(i) PROVE PInv'
<1>1. Calm({}) /\ JobsSound' /\ Endings /\ Counters
  BY OnceCalm DEF CancelInvitation
<1>2. OnlyInvitations
  <2>1. /\ UNCHANGED <<users, sessions, invites, codes, history>>
        /\ invitations' = [invitations EXCEPT ![i].cancelled = TRUE]
        /\ invitations \in
             [Invitations -> [state : {"none", "sent"}, for : MaybeUser, by : MaybeUser,
                              address : MaybeUser, redeemed : BOOLEAN,
                              cancelled : BOOLEAN, made : SUBSET Users]]
    BY DEF CancelInvitation, PInv, Typed
  <2> QED
    BY <2>1 DEF OnlyInvitations
<1> QED
  BY <1>1, <1>2, InvitationsKeep

LEMMA InsertInvitationKeeps ==
    ASSUME PInv, NEW h \in Handlers, InsertInvitation(h) PROVE PInv'
<1>1. /\ job[h] # <<>> /\ Now(h).do = "invite" /\ ~Doing(h, "endSessions")
      /\ Then(h, <<>>) /\ Typed /\ JobsSound
      /\ UNCHANGED <<users, sessions, invites, codes, history>>
  BY DEF InsertInvitation, Doing, Now, PInv
<1>2. Calm({h}) /\ JobsSound' /\ Endings /\ Counters
  BY <1>1, ThenCalm
<1>3. Now(h).address \in MaybeUser /\ NoUser \in MaybeUser
  BY <1>1, NowRuns DEF SoundStep, Step, MaybeUser
<1>4. OnlyInvitations
  BY <1>1, <1>3, NewInvitationIs DEF InsertInvitation
<1> QED
  BY <1>2, <1>4, InvitationsKeep

-----------------------------------------------------------------------------
(* Passwords and sessions *)

\* A statement, what its step is like, and that another one follows calmly.
LEMMA HeadIs ==
    ASSUME PInv, NEW h \in Handlers, NEW what, Doing(h, what)
    PROVE  /\ job[h] # <<>> /\ Now(h) \in SoundStep /\ Now(h).do = what
           /\ what # "endSessions" => ~Doing(h, "endSessions")
           /\ what # "invite" => Now(h).user \in Users
           /\ Now(h).password \in Nat /\ Now(h).address \in MaybeUser
BY NowRuns DEF PInv, Doing, Now, SoundStep, Step
LEMMA SignInKeeps ==
    ASSUME PInv, NEW S, Calm(S), JobsSound', Counters,
           UNCHANGED <<invitations, invites, codes, history>>,
           NEW u \in Users, NEW r,
           r = [users[u] EXCEPT !.active = r.active, !.verified = r.verified,
                                !.password = r.password],
           r \in Row, users' = [users EXCEPT ![u] = r],
           \A v \in Users \ {u} : Ending(v) => Ending(v)',
           sessions' = sessions \ SessionsOf(u) \/ (sessions' = sessions /\ Ending(u)')
    PROVE  PInv'
<1>1. Typed /\ users[u] \in Row
  BY RowIs DEF PInv
<1>2. /\ r.kind = users[u].kind /\ r.address = users[u].address
      /\ r.logins = users[u].logins /\ r.place = users[u].place
      /\ r.paid = users[u].paid /\ r.parent = users[u].parent
      /\ r.manager = users[u].manager /\ r.named = users[u].named
  BY <1>1 DEF Row
<1>3. /\ users' \in [Users -> Row] /\ users'[u] = r
      /\ \A v \in Users \ {u} : users'[v] = users[v]
      /\ SameKinds /\ SameNames /\ SamePlaces /\ SameGroups
  BY <1>1, <1>2, RowChanges
<1>4. SameInvitations /\ SameOwners /\ SameCounts /\ HistoryGrows
      /\ history'.lost = history.lost
  BY HistoryStill, OthersStill
<1>5. sessions' \subseteq sessions /\ \A s \in sessions' : s.user = u => Ending(u)'
  BY DEF SessionsOf
<1>6. SessionsFit'
  <2>1. \A s \in sessions : s.user \in Users
    BY <1>1 DEF Typed
  <2> QED
    BY <1>3, <1>5, <2>1 DEF PInv, SessionsFit
<1>7. Typed'
  BY <1>1, <1>3, <1>5 DEF Typed, Counters
<1> QED
  BY <1>3, <1>4, <1>5, <1>6, <1>7, Carries DEF PInv

LEMMA EndingsAre ==
    ASSUME Endings
    PROVE  \A v : Ending(v) => Ending(v)'
BY DEF Ending, Endings

LEMMA OutIs ==
    ASSUME Typed, NEW u \in Users, users' = [users EXCEPT ![u].active = FALSE]
    PROVE  \E r \in Row :
             /\ users' = [users EXCEPT ![u] = r]
             /\ r = [users[u] EXCEPT !.active = r.active, !.verified = r.verified,
                                     !.password = r.password]
<1> DEFINE r == [users[u] EXCEPT !.active = FALSE]
<1>1. users[u] \in Row
  BY RowIs
<1>2. r \in Row /\ r = [users[u] EXCEPT !.active = r.active, !.verified = r.verified,
                                        !.password = r.password]
  BY <1>1 DEF Row
<1> QED
  BY <1>2
LEMMA CancelStepIs ==
    ASSUME NEW u \in Users
    PROVE  Do("cancelPlace", u) \in SoundStep /\ Do("cancelPlace", u).do = "cancelPlace"
BY DEF SoundStep, Step, Do, MaybeUser

LEMMA DeactivateKeeps == ASSUME PInv, NEW h, NEW u \in Users, Deactivate(h, u) PROVE PInv'
<1>1. /\ UNCHANGED <<invitations, invites, codes, history>> /\ Typed
      /\ users' = [users EXCEPT ![u].active = FALSE]
      /\ sessions' = sessions \ SessionsOf(u)
      /\ Start(h, <<Do("cancelPlace", u)>>) \/ Start(h, <<>>)
  BY DEF Deactivate, PInv
<1>2. Calm({h}) /\ JobsSound' /\ Endings /\ Counters
  <2>1. CASE Start(h, <<>>)
    BY <2>1, EmptyJob, StartCalm
  <2>2. CASE Start(h, <<Do("cancelPlace", u)>>)
    BY <2>2, CancelStepIs, OneStep, StartCalm DEF Acting
  <2> QED
    BY <1>1, <2>1, <2>2
<1>3. PICK r \in Row :
        /\ users' = [users EXCEPT ![u] = r]
        /\ r = [users[u] EXCEPT !.active = r.active, !.verified = r.verified,
                                !.password = r.password]
  BY <1>1, OutIs
<1> QED
  BY <1>1, <1>2, <1>3, EndingsAre, SignInKeeps

LEMMA BulkDeactivateKeeps == ASSUME PInv, NEW h \in Handlers, BulkDeactivate(h) PROVE PInv'
<1> DEFINE u == Now(h).user
<1>1. /\ job[h] # <<>> /\ u \in Users /\ ~Doing(h, "endSessions") /\ Typed
      /\ UNCHANGED <<invitations, invites, codes, history>>
  BY HeadIs DEF BulkDeactivate, PInv
<1>2. CASE Refuse(h) /\ UNCHANGED <<users, sessions>>
  BY <1>1, <1>2, ThenCalm, TypedStill, CalmKeeps DEF Still, Counters, PInv
<1>3. CASE /\ users' = [users EXCEPT ![u].active = FALSE]
           /\ sessions' = sessions \ SessionsOf(u)
           /\ Then(h, <<Do("cancelPlace", u)>>) \/ Then(h, <<>>)
  <2>1. Calm({h}) /\ JobsSound' /\ Endings /\ Counters
    BY <1>1, <1>3, CancelStepIs, ThenCalm, ThenOneCalm DEF Acting
  <2>2. PICK r \in Row :
          /\ users' = [users EXCEPT ![u] = r]
          /\ r = [users[u] EXCEPT !.active = r.active, !.verified = r.verified,
                                  !.password = r.password]
    BY <1>1, <1>3, OutIs
  <2> QED
    BY <1>1, <1>3, <2>1, <2>2, EndingsAre, SignInKeeps
<1> QED
  BY <1>2, <1>3 DEF BulkDeactivate

LEMMA BulkReactivateKeeps == ASSUME PInv, NEW h \in Handlers, BulkReactivate(h) PROVE PInv'
<1> DEFINE u == Now(h).user
<1>1. /\ job[h] # <<>> /\ u \in Users /\ ~Doing(h, "endSessions") /\ Typed
      /\ UNCHANGED <<sessions, invitations, invites, codes, history>> /\ Then(h, <<>>)
  BY HeadIs DEF BulkReactivate, PInv
<1>2. Calm({h}) /\ JobsSound' /\ Endings /\ Counters
  BY <1>1, ThenCalm
<1>3. CASE users' = users
  BY <1>1, <1>2, <1>3, TypedStill, CalmKeeps DEF Still, Counters, PInv
<1>4. CASE users' = [users EXCEPT ![u].active = TRUE]
  <2> DEFINE r == [users[u] EXCEPT !.active = TRUE]
  <2>1. users[u] \in Row
    BY <1>1, RowIs
  <2>2. /\ users' = [users EXCEPT ![u] = r] /\ r \in Row
        /\ r.kind = users[u].kind /\ r.address = users[u].address
        /\ r.logins = users[u].logins /\ r.place = users[u].place /\ r.paid = users[u].paid
        /\ r.password = users[u].password /\ r.active
        /\ r.parent = users[u].parent /\ r.manager = users[u].manager
        /\ r.named = users[u].named
    BY <1>4, <2>1 DEF Row
  <2> HIDE DEF r
  <2> QED
    BY <1>1, <1>2, <2>2, MinorKeeps
<1> QED
  BY <1>3, <1>4 DEF BulkReactivate

LEMMA EndSessionsKeeps == ASSUME PInv, NEW h \in Handlers, EndSessions(h) PROVE PInv'
<1> DEFINE u == Now(h).user
<1>1. /\ job[h] # <<>> /\ u \in Users /\ Typed /\ JobsSound
      /\ UNCHANGED <<users, invitations, invites, codes, history>> /\ Then(h, <<>>)
      /\ sessions' = sessions \ SessionsOf(u)
  BY HeadIs DEF EndSessions, PInv
<1>2. /\ JobsSound' /\ \A g \in Handlers \ {h} : job'[g] = job[g]
      /\ job'[h] # <<>> => Head(job'[h]).do \in Followers
      /\ requests' = requests /\ faults' = faults /\ ops' = ops
  BY <1>1, ThenIs
<1>3. Calm({h})
  BY <1>2 DEF Calm, Followers, Acting
<1>4. Counters
  BY <1>1, <1>2 DEF Counters, Typed
<1>5. \A v \in Users \ {u} : Ending(v) => Ending(v)'
  BY <1>2 DEF Ending, Doing, Now
<1>6. users[u] \in Row /\ users \in [Users -> Row]
  BY <1>1, RowIs DEF Typed
<1>7. /\ users' = [users EXCEPT ![u] = users[u]]
      /\ users[u] = [users[u] EXCEPT !.active = users[u].active,
                       !.verified = users[u].verified, !.password = users[u].password]
  BY <1>1, <1>6 DEF Row
<1> HIDE DEF u
<1> QED
  BY <1>1, <1>2, <1>3, <1>4, <1>5, <1>6, <1>7, SignInKeeps

LEMMA SetPasswordKeeps == ASSUME PInv, NEW h \in Handlers, SetPassword(h) PROVE PInv'
<1> PICK u \in Users : u = Now(h).user
  BY HeadIs DEF SetPassword
<1>1. /\ job[h] # <<>> /\ ~Doing(h, "endSessions") /\ Typed /\ JobsSound
      /\ UNCHANGED <<sessions, invitations, invites, codes, history>> /\ Then(h, <<>>)
      /\ Now(h).do = "setPassword"
  BY HeadIs DEF SetPassword, PInv
<1>2. Calm({h}) /\ JobsSound' /\ Endings /\ Counters
  BY <1>1, ThenCalm
<1>3. CASE users' = users
  BY <1>1, <1>2, <1>3, TypedStill, CalmKeeps DEF Still, Counters, PInv
<1>4. CASE users' = [users EXCEPT ![u].password = @ + 1, ![u].verified = TRUE]
  <2> DEFINE r == [users[u] EXCEPT !.password = @ + 1, !.verified = TRUE]
  <2>1. users[u] \in Row /\ users[u].password \in Nat /\ users \in [Users -> Row]
    BY <1>1, RowIs DEF Typed
  <2>2. users' = [users EXCEPT ![u] = r]
    BY <1>1, <1>4, <2>1
  <2>3. r \in Row /\ r = [users[u] EXCEPT !.active = r.active, !.verified = r.verified,
                                          !.password = r.password]
    <3>1. users[u].password + 1 \in Nat
      BY <2>1
    <3>2. r = [users[u] EXCEPT !.password = users[u].password + 1, !.verified = TRUE]
      BY <2>1
    <3> QED
      BY <2>1, <3>1, <3>2 DEF Row
  <2>4. Ending(u)'
    <3>1. /\ Tail(job[h]) # <<>> /\ Head(Tail(job[h])).do = "endSessions"
          /\ Head(Tail(job[h])).user = u
      BY <1>1 DEF JobsSound, SoundJob, Now
    <3>2. job'[h] = Tail(job[h])
      BY <1>1, ThenIs
    <3>3. job'[h] # <<>> /\ Head(job'[h]).do = "endSessions" /\ Head(job'[h]).user = u
      BY <3>1, <3>2
    <3> QED
      BY <3>3 DEF Ending, Doing, Now
  <2> HIDE DEF r
  <2> QED
    BY <1>1, <1>2, <2>2, <2>3, <2>4, EndingsAre, SignInKeeps
<1> QED
  BY <1>3, <1>4 DEF SetPassword

LEMMA OpenSessionKeeps == ASSUME PInv, NEW h \in Handlers, OpenSession(h) PROVE PInv'
<1> DEFINE u == Now(h).user
<1>1. /\ job[h] # <<>> /\ u \in Users /\ ~Doing(h, "endSessions") /\ Typed
      /\ UNCHANGED <<users, invitations, invites, codes, history>>
      /\ Now(h).password \in Nat
  BY HeadIs DEF OpenSession, PInv
<1>2. Calm({h}) /\ JobsSound' /\ Endings /\ Counters
  BY <1>1, ThenCalm DEF OpenSession
<1>3. CASE UNCHANGED sessions
  BY <1>1, <1>2, <1>3, TypedStill, CalmKeeps DEF Still, Counters, PInv
<1>4. CASE ~UNCHANGED sessions
  <2> DEFINE s == [user |-> u, password |-> Now(h).password,
                   late |-> Now(h).password # users[u].password \/ ~users[u].active]
  <2>1. Exists(u) /\ sessions' = sessions \cup {s}
    BY <1>4 DEF OpenSession
  <2>2. /\ s \in [user : Users, password : Nat, late : BOOLEAN] /\ s.user = u
        /\ s.late \/ (s.password = users[u].password /\ users[u].active)
    BY <1>1
  <2> HIDE DEF s
  <2>3. /\ SameNames /\ SameKinds /\ SamePlaces /\ SameGroups /\ SameSignIn
        /\ SameInvitations /\ SameOwners /\ SameCounts /\ HistoryGrows
        /\ history'.lost = history.lost
    BY <1>1, UsersStill, HistoryStill, OthersStill
  <2>4. KeysFit'
    BY <1>1, <2>1, <2>2 DEF PInv, KeysFit, Exists
  <2>5. \A v : Ending(v) => Ending(v)'
    BY <1>2, EndingsAre
  <2>6. SessionsFit'
    BY <1>1, <2>1, <2>2, <2>5 DEF PInv, SessionsFit
  <2>7. Typed'
    BY <1>1, <1>2, <2>1, <2>2 DEF Typed, Counters
  <2> QED
    BY <1>2, <2>3, <2>4, <2>6, <2>7, Carries DEF PInv
<1> QED
  BY <1>3, <1>4

LEMMA BulkPlayGroupKeeps == ASSUME PInv, NEW h \in Handlers, BulkPlayGroup(h) PROVE PInv'
<1> DEFINE s == [Do("playGroup", Now(h).user) EXCEPT !.other = Now(h).other]
<1>1. /\ job[h] # <<>> /\ ~Doing(h, "endSessions") /\ Typed /\ Still
      /\ Now(h) \in SoundStep /\ Now(h).do = "group" /\ Now(h).user \in Users
  BY HeadIs DEF BulkPlayGroup, PInv, Still
<1>2. CASE Refuse(h)
  BY <1>1, <1>2, ThenCalm, TypedStill, CalmKeeps DEF Counters, PInv
<1>3. CASE MayPutInto(Now(h).user, Now(h).other) /\ Then(h, <<s>>)
  <2>1. Now(h).user # Now(h).other /\ Now(h).other \in Users
    BY <1>1, <1>3 DEF MayPutInto, SoundStep
  <2>2. s \in SoundStep /\ s.do = "playGroup"
    BY <1>1, <2>1 DEF SoundStep, Step, Do, MaybeUser
  <2> HIDE DEF s
  <2>3. Calm({h}) /\ JobsSound' /\ Endings /\ Counters
    BY <1>1, <1>3, <2>2, ThenOneCalm DEF Acting
  <2> QED
    BY <1>1, <2>3, TypedStill, CalmKeeps DEF Counters, PInv
<1> QED
  BY <1>2, <1>3 DEF BulkPlayGroup

-----------------------------------------------------------------------------
(* Statements about one row *)

LEMMA SetAddressKeeps == ASSUME PInv, NEW h \in Handlers, SetAddress(h) PROVE PInv'
<1> DEFINE u == Now(h).user
           a == Now(h).address
           r == [users[u] EXCEPT !.address = a, !.verified = TRUE]
<1>1. /\ job[h] # <<>> /\ u \in Users /\ ~Doing(h, "endSessions") /\ Typed
      /\ UNCHANGED <<sessions, invitations, invites, codes, history>> /\ a \in MaybeUser
  BY HeadIs DEF SetAddress, PInv
<1>2. Calm({h}) /\ JobsSound' /\ Endings /\ Counters
  BY <1>1, ThenCalm DEF SetAddress
<1>3. CASE users' = users
  BY <1>1, <1>2, <1>3, TypedStill, CalmKeeps DEF Still, Counters, PInv
<1>4. CASE Unused(a) /\ users' = [users EXCEPT ![u].address = a, ![u].verified = TRUE]
  <2>1. users[u] \in Row /\ users \in [Users -> Row]
    BY <1>1, RowIs DEF Typed
  <2>2. /\ users' = [users EXCEPT ![u] = r] /\ r \in Row
        /\ r.kind = users[u].kind /\ r.address = a
        /\ r.logins = users[u].logins /\ r.place = users[u].place /\ r.paid = users[u].paid
        /\ r.password = users[u].password /\ r.active = users[u].active
        /\ r.parent = users[u].parent /\ r.manager = users[u].manager
        /\ r.named = users[u].named
    BY <1>1, <1>4, <2>1 DEF Row
  <2> HIDE DEF r
  <2>3. users'[u] = r /\ \A v \in Users \ {u} : users'[v] = users[v]
    BY <1>1, <2>1, <2>2
  <2>4. Unique'
    <3>1. \A v \in Users \ {u} : /\ users'[v].address = users[v].address
                                /\ users'[v].logins = users[v].logins
      BY <2>3
    <3>2. users'[u].address = a /\ users'[u].logins = users[u].logins
      BY <2>2, <2>3
    <3>3. a = NoUser \/ \A v \in Users : users[v].address # a
      BY <1>4 DEF Unused
    <3> HIDE DEF u, a
    <3> QED
      BY <1>1, <3>1, <3>2, <3>3 DEF PInv, Unique
  <2> QED
    BY <1>1, <1>2, <2>2, <2>4, MinorKeeps
<1> QED
  BY <1>3, <1>4 DEF SetAddress

LEMMA LinkKeeps == ASSUME PInv, NEW h \in Handlers, Link(h) PROVE PInv'
<1> DEFINE u == Now(h).user
           x == Now(h).address
           r == [users[u] EXCEPT !.logins = @ \cup {x}]
<1>1. /\ job[h] # <<>> /\ u \in Users /\ ~Doing(h, "endSessions") /\ Typed
      /\ UNCHANGED <<sessions, invitations, invites, codes, history>> /\ x \in Users
  BY HeadIs DEF Link, PInv, SoundStep
<1>2. Calm({h}) /\ JobsSound' /\ Endings /\ Counters
  BY <1>1, ThenCalm DEF Link
<1>3. CASE users' = users
  BY <1>1, <1>2, <1>3, TypedStill, CalmKeeps DEF Still, Counters, PInv
<1>4. CASE Unlinked(x) /\ users' = [users EXCEPT ![u].logins = @ \cup {x}]
  <2>1. users[u] \in Row /\ users \in [Users -> Row] /\ users[u].logins \subseteq Users
    BY <1>1, RowIs DEF Typed
  <2>2. users' = [users EXCEPT ![u] = r]
    BY <1>4, <2>1
  <2>3. /\ r \in Row
        /\ r.kind = users[u].kind /\ r.address = users[u].address
        /\ r.logins = users[u].logins \cup {x}
        /\ r.place = users[u].place /\ r.paid = users[u].paid
        /\ r.password = users[u].password /\ r.active = users[u].active
        /\ r.parent = users[u].parent /\ r.manager = users[u].manager
        /\ r.named = users[u].named
    BY <1>1, <2>1 DEF Row
  <2> HIDE DEF r
  <2>4. users'[u] = r /\ \A v \in Users \ {u} : users'[v] = users[v]
    BY <1>1, <2>1, <2>2
  <2>5. Unique'
    BY <1>1, <1>4, <2>3, <2>4 DEF PInv, Unique, Unlinked
  <2> QED
    BY <1>1, <1>2, <2>2, <2>3, <2>5, MinorKeeps
<1> QED
  BY <1>3, <1>4 DEF Link

LEMMA InsertFileKeeps == ASSUME PInv, NEW h \in Handlers, InsertFile(h) PROVE PInv'
<1> DEFINE u == Now(h).user
           r == [users[u] EXCEPT !.files = @ + 1]
<1>1. /\ job[h] # <<>> /\ u \in Users /\ ~Doing(h, "endSessions") /\ Typed
      /\ UNCHANGED <<sessions, invitations, invites, codes, history>>
  BY HeadIs DEF InsertFile, PInv
<1>2. Calm({h}) /\ JobsSound' /\ Endings /\ Counters
  BY <1>1, ThenCalm DEF InsertFile
<1>3. CASE users' = users
  BY <1>1, <1>2, <1>3, TypedStill, CalmKeeps DEF Still, Counters, PInv
<1>4. CASE users' = [users EXCEPT ![u].files = @ + 1]
  <2>1. users[u] \in Row /\ users[u].files \in Nat
    BY <1>1, RowIs
  <2>2. /\ users' = [users EXCEPT ![u] = r] /\ r \in Row
        /\ r.kind = users[u].kind /\ r.address = users[u].address
        /\ r.logins = users[u].logins /\ r.place = users[u].place /\ r.paid = users[u].paid
        /\ r.password = users[u].password /\ r.active = users[u].active
        /\ r.parent = users[u].parent /\ r.manager = users[u].manager
        /\ r.named = users[u].named
    BY <1>4, <2>1 DEF Row
  <2> HIDE DEF r
  <2> QED
    BY <1>1, <1>2, <2>2, MinorKeeps
<1> QED
  BY <1>3, <1>4 DEF InsertFile

LEMMA CancelPlaceKeeps == ASSUME PInv, NEW h \in Handlers, CancelPlace(h) PROVE PInv'
<1> DEFINE u == Now(h).user
           r == [users[u] EXCEPT !.place = "cancelled"]
<1>1. /\ job[h] # <<>> /\ u \in Users /\ ~Doing(h, "endSessions") /\ Typed
      /\ UNCHANGED <<sessions, invitations, invites, codes>> /\ history' = history
      /\ Then(h, <<>>)
  BY HeadIs DEF CancelPlace, PInv
<1>2. Calm({h}) /\ JobsSound' /\ Endings /\ Counters
  BY <1>1, ThenCalm
<1>3. CASE users' = users
  BY <1>1, <1>2, <1>3, TypedStill, CalmKeeps DEF Still, Counters, PInv
<1>4. CASE users[u].place = "open" /\ users' = [users EXCEPT ![u].place = "cancelled"]
  <2>1. users[u] \in Row /\ history \in Excuses
    BY <1>1, RowIs DEF Typed
  <2>2. /\ users' = [users EXCEPT ![u] = r] /\ r \in Row /\ r.place = "cancelled"
        /\ r = [users[u] EXCEPT !.place = r.place, !.paid = r.paid]
        /\ r.paid = users[u].paid
    BY <1>4, <2>1 DEF Row
  <2>3. Past("disturbed", {})
    BY <1>1, <2>1 DEF Past, Excuses
  <2> HIDE DEF r, u
  <2> QED
    BY <1>1, <1>2, <1>4, <2>2, <2>3, PlaceKeeps DEF Owes
<1> QED
  BY <1>3, <1>4 DEF CancelPlace

-----------------------------------------------------------------------------
(* Groups that get something *)

LEMMA PastIs ==
    ASSUME history \in Excuses, NEW ok, NEW who \in SUBSET Users, Overtaken(ok, who)
    PROVE  /\ history' \in Excuses /\ HistoryGrows /\ history'.lost = history.lost
           /\ history'.joined = history.joined
           /\ ok \/ who \subseteq history'.overtaken
<1>1. history' = [history EXCEPT !.overtaken = @ \cup When(~ok, who)]
  BY DEF Overtaken, Past
<1>2. When(~ok, who) \in SUBSET Users
  BY DEF When
<1> QED
  BY <1>1, <1>2 DEF Excuses, HistoryGrows, When
\* A row gets a group, a person or a name; u gets it and may have it, or was overtaken.
LEMMA GroupRowKeeps ==
    ASSUME PInv, NEW S, Calm(S), JobsSound', Endings, Counters,
           UNCHANGED <<sessions, invitations, invites, codes>>,
           history' \in Excuses, HistoryGrows, history'.lost = history.lost,
           history'.joined = history.joined,
           NEW v \in Users, NEW r \in Row, users' = [users EXCEPT ![v] = r],
           r = [users[v] EXCEPT !.manager = r.manager, !.named = r.named],
           NEW u \in Users, r.manager \in {users[v].manager, u}, Exists(u),
           r.named => users[v].named \/ u = v,
           u \in history'.overtaken \/ users[u].parent = NoUser
    PROVE  PInv'
<1>1. users[v] \in Row /\ Typed
  BY RowIs DEF PInv
<1>2. /\ r.kind = users[v].kind /\ r.address = users[v].address
      /\ r.logins = users[v].logins /\ r.place = users[v].place /\ r.paid = users[v].paid
      /\ r.password = users[v].password /\ r.active = users[v].active
      /\ r.parent = users[v].parent
  BY <1>1 DEF Row
<1>3. /\ users' \in [Users -> Row] /\ users'[v] = r /\ SameKinds /\ SameNames /\ SameSignIn
      /\ SamePlaces /\ \A w \in Users \ {v} : users'[w] = users[w]
  BY <1>1, <1>2, RowChanges
<1>4. KeysFit'
  <2>1. \A w : Exists(w) <=> Exists(w)'
    BY <1>3 DEF SameKinds, Exists
  <2>2. \A w \in Users : \A x \in {users'[w].parent, users'[w].manager} :
          x = u \/ x \in {users[w].parent, users[w].manager}
    BY <1>2, <1>3
  <2> QED
    BY <2>1, <2>2 DEF PInv, KeysFit
<1>5. GroupsAreFlat'
  <2> SUFFICES ASSUME NEW w \in Users,
                      w \notin history'.merged \cup history'.below \cup history'.overtaken,
                      users'[w].parent # NoUser
               PROVE  /\ ~users'[w].named
                      /\ \A x \in Users : w \notin {users'[x].parent, users'[x].manager}
                      /\ \A c \in Codes : codes'[c].manager # w
    BY DEF GroupsAreFlat
  <2>1. users'[w].parent = users[w].parent /\ w # u
    BY <1>2, <1>3
  <2>2. w \notin history.merged \cup history.below \cup history.overtaken
    BY DEF HistoryGrows
  <2>3. /\ ~users[w].named
        /\ \A x \in Users : w \notin {users[x].parent, users[x].manager}
        /\ \A c \in Codes : codes[c].manager # w
    BY <2>1, <2>2 DEF PInv, GroupsAreFlat
  <2> QED
    BY <1>2, <1>3, <2>1, <2>3
<1> QED
  BY <1>3, <1>4, <1>5, RowKeeps

\* An attempt that failed: only that it was overtaken is known.
LEMMA PastKeeps ==
    ASSUME PInv, NEW S, Calm(S), JobsSound', Endings, Counters,
           UNCHANGED <<users, sessions, invitations, invites, codes>>,
           history' \in Excuses, HistoryGrows, history'.lost = history.lost,
           history'.joined = history.joined
    PROVE  PInv'
<1>1. users' \in [Users -> Row]
  BY DEF PInv, Typed
<1> QED
  BY <1>1, UsersStill, Carries, RowKeeps DEF PInv

LEMMA SetGroupNameKeeps == ASSUME PInv, NEW h \in Handlers, SetGroupName(h) PROVE PInv'
<1> DEFINE u == Now(h).user
<1>1. /\ job[h] # <<>> /\ u \in Users /\ ~Doing(h, "endSessions") /\ Typed /\ Then(h, <<>>)
      /\ UNCHANGED <<sessions, invitations, invites, codes>> /\ Overtaken(MayManage(u), {u})
  BY HeadIs DEF SetGroupName, PInv
<1>2. Calm({h}) /\ JobsSound' /\ Endings /\ Counters
  BY <1>1, ThenCalm
<1>3. /\ history' \in Excuses /\ HistoryGrows /\ history'.lost = history.lost
      /\ history'.joined = history.joined
      /\ u \in history'.overtaken \/ users[u].parent = NoUser
  BY <1>1, PastIs DEF Typed, MayManage
<1>4. users[u] \in Row /\ users \in [Users -> Row]
  BY <1>1, RowIs DEF Typed
<1>5. CASE users' = users
  BY <1>1, <1>2, <1>3, <1>5, PastKeeps
<1>6. ASSUME NEW named \in BOOLEAN, Exists(u), users' = [users EXCEPT ![u].named = named]
      PROVE  PInv'
  <2> DEFINE r == [users[u] EXCEPT !.named = named]
  <2>1. /\ users' = [users EXCEPT ![u] = r] /\ r \in Row /\ r.manager = users[u].manager
        /\ r = [users[u] EXCEPT !.manager = r.manager, !.named = r.named]
    BY <1>4, <1>6 DEF Row
  <2> HIDE DEF r, u
  <2> QED
    BY <1>1, <1>2, <1>3, <1>6, <2>1, GroupRowKeeps
<1> QED
  BY <1>5, <1>6 DEF SetGroupName

LEMMA ClaimPersonKeeps == ASSUME PInv, NEW h \in Handlers, ClaimPerson(h) PROVE PInv'
<1> DEFINE u == Now(h).user
           g == Now(h).other
           r == [users[g] EXCEPT !.manager = u]
<1>1. /\ job[h] # <<>> /\ u \in Users /\ ~Doing(h, "endSessions") /\ Typed /\ g \in Users
      /\ UNCHANGED <<sessions, invitations, invites, codes>> /\ Overtaken(MayManage(u), {u})
  BY HeadIs DEF ClaimPerson, PInv, SoundStep
<1>2. Calm({h}) /\ JobsSound' /\ Endings /\ Counters
  BY <1>1, ThenCalm DEF ClaimPerson
<1>3. /\ history' \in Excuses /\ HistoryGrows /\ history'.lost = history.lost
      /\ history'.joined = history.joined
      /\ u \in history'.overtaken \/ users[u].parent = NoUser
  BY <1>1, PastIs DEF Typed, MayManage
<1>4. CASE users' = users
  BY <1>1, <1>2, <1>3, <1>4, PastKeeps
<1>5. CASE Exists(u) /\ users' = [users EXCEPT ![g].manager = u]
  <2>1. users[g] \in Row
    BY <1>1, RowIs
  <2>2. /\ users' = [users EXCEPT ![g] = r] /\ r \in Row /\ r.manager = u
        /\ r = [users[g] EXCEPT !.manager = r.manager, !.named = r.named]
        /\ r.named = users[g].named
    BY <1>1, <1>5, <2>1 DEF Row, MaybeUser
  <2> HIDE DEF r, u, g
  <2> QED
    BY ZenonT(60), <1>1, <1>2, <1>3, <1>5, <2>2, GroupRowKeeps
<1> QED
  BY <1>4, <1>5 DEF ClaimPerson

LEMMA CreateJoinCodeKeeps == ASSUME PInv, NEW h \in Handlers, CreateJoinCode(h) PROVE PInv'
<1> DEFINE u == Now(h).user
<1>1. /\ job[h] # <<>> /\ u \in Users /\ ~Doing(h, "endSessions") /\ Typed
      /\ UNCHANGED <<users, sessions, invitations, invites>> /\ Overtaken(MayManage(u), {u})
      /\ Now(h).password \in Nat
  BY HeadIs DEF CreateJoinCode, PInv
<1>2. Calm({h}) /\ JobsSound' /\ Endings /\ Counters
  BY <1>1, ThenCalm DEF CreateJoinCode
<1>3. /\ history' \in Excuses /\ HistoryGrows /\ history'.lost = history.lost
      /\ history'.joined = history.joined
      /\ u \in history'.overtaken \/ users[u].parent = NoUser
  BY <1>1, PastIs DEF Typed, MayManage
<1>4. CASE codes' = codes
  BY <1>1, <1>2, <1>3, <1>4, PastKeeps
<1>5. CASE codes' # codes
  <2> DEFINE new == [manager |-> u, used |-> 0, max |-> Now(h).password]
  <2>1. PICK c \in Codes : /\ Fresh(c, {d \in Codes : codes[d].max = 0})
                           /\ Exists(u) /\ codes' = [codes EXCEPT ![c] = new]
    BY <1>5 DEF CreateJoinCode
  <2>2. c \in Codes /\ codes[c].max = 0
    BY <2>1, FreshIs
  <2>3. /\ new \in [manager : MaybeUser, max : Nat, used : Nat]
        /\ new.manager = u /\ new.used = 0 /\ new.max \in Nat
    BY <1>1 DEF MaybeUser
  <2> HIDE DEF new
  <2>4. codes \in [Codes -> [manager : MaybeUser, max : Nat, used : Nat]]
    BY <1>1 DEF Typed
  <2>5. /\ codes'[c] = new /\ \A d \in Codes \ {c} : codes'[d] = codes[d]
        /\ codes' \in [Codes -> [manager : MaybeUser, max : Nat, used : Nat]]
    BY <2>1, <2>2, <2>3, <2>4
  <2>6. codes[c].used = 0 /\ history.joined[c] = 0
    <3>1. history.joined[c] = codes[c].used /\ codes[c].used <= codes[c].max
      BY <2>2 DEF PInv, CodesAreLimited
    <3>2. codes[c].used \in Nat
      BY <2>2, <2>4
    <3> QED
      BY <2>2, <3>1, <3>2
  <2>7. CodesAreLimited'
    BY <1>3, <2>3, <2>5, <2>6 DEF PInv, CodesAreLimited
  <2>8. RedeemsFit'
    <3>1. \A k \in Handlers : Doing(k, "redeem")' =>
            k \notin {h} /\ Doing(k, "redeem") /\ Now(k)' = Now(k)
      BY <1>2, HeadStays DEF Acting
    <3>2. \A k \in Handlers : Doing(k, "redeem") => Now(k).item \in Codes \ {c}
      <4>1. \A k \in Handlers : Doing(k, "redeem") =>
              Now(k).item \in Codes /\ codes[Now(k).item].used < codes[Now(k).item].max
        BY HeadIs DEF SoundStep, PInv, RedeemsFit
      <4> QED
        BY <2>2, <2>6, <4>1
    <3> QED
      BY <2>5, <3>1, <3>2 DEF PInv, RedeemsFit
  <2>9. KeysFit'
    BY <1>1, <2>1, <2>3, <2>5 DEF PInv, KeysFit, Exists
  <2>10. GroupsAreFlat'
    <3> SUFFICES ASSUME NEW w \in Users,
                      w \notin history'.merged \cup history'.below \cup history'.overtaken,
                      users[w].parent # NoUser
                 PROVE  /\ ~users[w].named
                        /\ \A x \in Users : w \notin {users[x].parent, users[x].manager}
                        /\ \A d \in Codes : codes'[d].manager # w
      BY <1>1 DEF GroupsAreFlat
    <3>1. w # u
      BY <1>3
    <3>2. w \notin history.merged \cup history.below \cup history.overtaken
      BY <1>3 DEF HistoryGrows
    <3> QED
      BY <2>3, <2>5, <3>1, <3>2 DEF PInv, GroupsAreFlat
  <2>11. Typed'
    BY <1>1, <1>2, <1>3, <2>5 DEF Typed, Counters
  <2>12. /\ SameNames /\ SameKinds /\ SamePlaces /\ SameGroups /\ SameSignIn
         /\ SameInvitations /\ sessions' \subseteq sessions
    BY <1>1, UsersStill, OthersStill
  <2> QED
    BY <1>2, <1>3, <2>7, <2>8, <2>9, <2>10, <2>11, <2>12, Carries DEF PInv
<1> QED
  BY <1>4, <1>5

-----------------------------------------------------------------------------
(* Joining a group *)

LEMMA JoiningKeeps ==
    ASSUME PInv, HistoryGrows, NEW u \in Users, NEW parent \in Users, u # parent,
           Exists(parent), users' = [users EXCEPT ![u].parent = parent], SameOwners,
           sessions' = sessions,
           {u, parent} \subseteq history'.overtaken \/ (TopLevel(parent) /\ ~Leads(u))
    PROVE  /\ users' \in [Users -> Row] /\ SameKinds /\ SameNames /\ SamePlaces /\ SameSignIn
           /\ KeysFit' /\ GroupsAreFlat'
<1> DEFINE r == [users[u] EXCEPT !.parent = parent]
<1>1. users[u] \in Row /\ Typed
  BY RowIs DEF PInv
<1>2. /\ users' = [users EXCEPT ![u] = r] /\ r \in Row /\ r.parent = parent
      /\ r.kind = users[u].kind /\ r.address = users[u].address
      /\ r.logins = users[u].logins /\ r.place = users[u].place /\ r.paid = users[u].paid
      /\ r.password = users[u].password /\ r.active = users[u].active
      /\ r.manager = users[u].manager /\ r.named = users[u].named
  BY <1>1 DEF Row, MaybeUser
<1> HIDE DEF r
<1>3. /\ users' \in [Users -> Row] /\ users'[u] = r /\ SameKinds /\ SameNames /\ SameSignIn
      /\ SamePlaces /\ \A v \in Users \ {u} : users'[v] = users[v]
  BY <1>1, <1>2, RowChanges
<1>4. KeysFit'
  <2>1. \A v : Exists(v) <=> Exists(v)'
    BY <1>3 DEF SameKinds, Exists
  <2>2. \A v \in Users : \A x \in {users'[v].parent, users'[v].manager} :
          x = parent \/ x \in {users[v].parent, users[v].manager}
    BY <1>2, <1>3
  <2> QED
    BY <2>1, <2>2 DEF PInv, KeysFit, SameOwners
<1>5. GroupsAreFlat'
  <2> SUFFICES ASSUME NEW w \in Users,
                      w \notin history'.merged \cup history'.below \cup history'.overtaken,
                      users'[w].parent # NoUser
               PROVE  /\ ~users'[w].named
                      /\ \A x \in Users : w \notin {users'[x].parent, users'[x].manager}
                      /\ \A c \in Codes : codes'[c].manager # w
    BY DEF GroupsAreFlat
  <2>1. w \notin history.merged \cup history.below \cup history.overtaken
    BY DEF HistoryGrows
  <2>2. CASE w = u
    <3>1. ~Leads(u)
      BY <2>2
    <3> QED
      BY <1>2, <1>3, <2>2, <3>1 DEF Leads, SameOwners
  <2>3. CASE w # u
    <3>1. w # parent
      BY <1>3, <2>3 DEF TopLevel
    <3>2. /\ ~users[w].named
          /\ \A x \in Users : w \notin {users[x].parent, users[x].manager}
          /\ \A c \in Codes : codes[c].manager # w
      BY <1>3, <2>1, <2>3 DEF PInv, GroupsAreFlat
    <3> QED
      BY <1>2, <1>3, <2>3, <3>1, <3>2 DEF SameOwners
  <2> QED
    BY <2>2, <2>3
<1> QED
  BY <1>3, <1>4, <1>5

LEMMA JoinGroupKeeps == ASSUME PInv, NEW h \in Handlers, JoinGroup(h) PROVE PInv'
<1> DEFINE u == Now(h).user
           parent == Now(h).other
<1>1. /\ job[h] # <<>> /\ u \in Users /\ ~Doing(h, "endSessions") /\ Typed
      /\ parent \in Users /\ u # parent
      /\ UNCHANGED <<sessions, invitations, codes>>
  BY HeadIs DEF JoinGroup, PInv, SoundStep
<1>2. Calm({h}) /\ JobsSound' /\ Endings /\ Counters
  BY <1>1, ThenCalm DEF JoinGroup
<1>3. /\ users' \in [Users -> Row] /\ SameKinds /\ SameNames /\ SamePlaces /\ SameSignIn
      /\ KeysFit' /\ GroupsAreFlat'
      /\ history' \in Excuses /\ HistoryGrows /\ history'.lost = history.lost
      /\ history'.joined = history.joined /\ invites' \subseteq invites
  <2>1. CASE UNCHANGED <<users, history>> /\ invites' \subseteq invites
    <3>1. KeysFit' /\ GroupsAreFlat'
      BY <1>1, <1>2, <2>1, UsersStill, HistoryStill, OthersStill, Carries
    <3> QED
      BY <1>1, <2>1, <3>1, UsersStill, HistoryStill DEF Typed
  <2>2. CASE /\ Exists(parent) /\ Overtaken(TopLevel(parent) /\ ~Leads(u), {u, parent})
             /\ invites' \subseteq invites
             /\ users' = users \/ users' = [users EXCEPT ![u].parent = parent]
    <3>1. /\ history' \in Excuses /\ HistoryGrows /\ history'.lost = history.lost
          /\ history'.joined = history.joined
          /\ {u, parent} \subseteq history'.overtaken \/ (TopLevel(parent) /\ ~Leads(u))
      <4>1. {u, parent} \in SUBSET Users /\ history \in Excuses
        BY <1>1 DEF Typed
      <4> HIDE DEF u, parent
      <4> QED
        BY <2>2, <4>1, PastIs
    <3>2. CASE users' = users
      <4>1. KeysFit' /\ GroupsAreFlat'
        BY <1>1, <1>2, <3>1, <3>2, UsersStill, OthersStill, Carries
      <4> QED
        BY <1>1, <2>2, <3>1, <3>2, <4>1, UsersStill DEF Typed
    <3>3. CASE users' = [users EXCEPT ![u].parent = parent]
      <4>1. SameOwners
        BY <1>1, OthersStill
      <4> HIDE DEF u, parent
      <4> QED
        BY <1>1, <2>2, <3>1, <3>3, <4>1, JoiningKeeps
    <3> QED
      BY <2>2, <3>2, <3>3
  <2> QED
    BY <2>1, <2>2 DEF JoinGroup
<1>4. SameInvitations /\ SameOwners /\ SameCounts /\ sessions' \subseteq sessions
  BY <1>1, <1>3 DEF SameInvitations, SameOwners, SameCounts
<1>5. Typed'
  BY <1>1, <1>2, <1>3 DEF Typed, Counters
<1> QED
  BY <1>2, <1>3, <1>4, <1>5, Carries DEF PInv

LEMMA JoinByCodeKeeps == ASSUME PInv, NEW h \in Handlers, JoinByCode(h) PROVE PInv'
<1> DEFINE u == Now(h).user
           parent == Now(h).other
           c == Now(h).item
           more == When(~TopLevel(parent) \/ Leads(u), {u, parent})
<1>1. /\ job[h] # <<>> /\ u \in Users /\ ~Doing(h, "endSessions") /\ Typed
      /\ parent \in Users /\ u # parent /\ c \in Codes /\ codes[c].used < codes[c].max
      /\ UNCHANGED <<sessions, invitations>> /\ Doing(h, "redeem")
  BY HeadIs DEF JoinByCode, PInv, SoundStep, RedeemsFit
<1>2. Calm({h}) /\ JobsSound' /\ Endings /\ Counters
  BY <1>1, ThenCalm DEF JoinByCode
<1>3. CASE UNCHANGED <<users, codes, invites, history>>
  BY <1>1, <1>2, <1>3, TypedStill, CalmKeeps DEF Still, Counters, PInv
<1>4. CASE /\ Exists(parent) /\ users' = [users EXCEPT ![u].parent = parent]
           /\ codes' = [codes EXCEPT ![c].used = @ + 1]
           /\ invites' = invites \ InvitesTo(u)
           /\ history' = [history EXCEPT !.joined[c] = @ + 1, !.overtaken = @ \cup more]
  <2>1. /\ codes \in [Codes -> [manager : MaybeUser, max : Nat, used : Nat]]
        /\ codes[c].used \in Nat /\ codes[c].max \in Nat /\ history \in Excuses
        /\ history.joined \in [Codes -> Nat]
    BY <1>1 DEF Typed, Excuses
  <2>2. /\ codes' \in [Codes -> [manager : MaybeUser, max : Nat, used : Nat]]
        /\ \A d \in Codes : /\ codes'[d].manager = codes[d].manager
                            /\ codes'[d].max = codes[d].max
                            /\ d = c => codes'[d].used = codes[d].used + 1
                            /\ d # c => codes'[d].used = codes[d].used
    <3>1. codes' = [codes EXCEPT ![c] = [codes[c] EXCEPT !.used = codes[c].used + 1]]
      BY <1>4, <2>1
    <3>2. [codes[c] EXCEPT !.used = codes[c].used + 1]
             \in [manager : MaybeUser, max : Nat, used : Nat]
      BY SMTT(30), <1>1, <2>1
    <3>3. /\ codes' \in [Codes -> [manager : MaybeUser, max : Nat, used : Nat]]
          /\ \A d \in Codes \ {c} : codes'[d] = codes[d]
          /\ codes'[c] = [codes[c] EXCEPT !.used = codes[c].used + 1]
      BY <1>1, <2>1, <3>1, <3>2
    <3> QED
      BY ZenonT(60), <1>1, <2>1, <3>3
  <2>3. more \subseteq Users /\ (more = {u, parent} \/ (TopLevel(parent) /\ ~Leads(u)))
    BY <1>1 DEF When
  <2> HIDE DEF more
  <2>4. /\ history' \in Excuses /\ HistoryGrows /\ history'.lost = history.lost
        /\ more \subseteq history'.overtaken
        /\ \A d \in Codes : /\ d = c => history'.joined[d] = history.joined[d] + 1
                            /\ d # c => history'.joined[d] = history.joined[d]
    <3>1. /\ history'.joined = [history.joined EXCEPT ![c] = @ + 1]
          /\ history'.overtaken = history.overtaken \cup more
          /\ history'.interrupted = history.interrupted /\ history'.merged = history.merged
          /\ history'.below = history.below /\ history'.disturbed = history.disturbed
          /\ history'.lost = history.lost
          /\ history' = [interrupted |-> history'.interrupted, merged |-> history'.merged,
                         overtaken |-> history'.overtaken, below |-> history'.below,
                         disturbed |-> history'.disturbed, lost |-> history'.lost,
                         joined |-> history'.joined]
      BY <1>4, <2>1 DEF Excuses
    <3>2. history'.joined \in [Codes -> Nat]
      BY <1>1, <2>1, <3>1
    <3>3. history' \in Excuses
      BY <2>1, <2>3, <3>1, <3>2 DEF Excuses
    <3> QED
      BY <1>1, <2>1, <3>1, <3>3 DEF HistoryGrows
  <2>5. SameOwners /\ SameInvitations
    BY <1>1, <2>2, OthersStill DEF SameOwners
  <2>6. /\ users' \in [Users -> Row] /\ SameKinds /\ SameNames /\ SamePlaces /\ SameSignIn
        /\ KeysFit' /\ GroupsAreFlat'
    <3>1. {u, parent} \subseteq history'.overtaken \/ (TopLevel(parent) /\ ~Leads(u))
      BY <2>3, <2>4
    <3> HIDE DEF u, parent
    <3> QED
      BY <1>1, <1>4, <2>4, <2>5, <3>1, JoiningKeeps
  <2>7. CodesAreLimited'
    <3>1. \A d \in Codes : history.joined[d] = codes[d].used /\ codes[d].used <= codes[d].max
      BY DEF PInv, CodesAreLimited
    <3>2. codes[c].used + 1 <= codes[c].max
      BY <1>1, <2>1
    <3> QED
      BY <2>2, <2>4, <3>1, <3>2 DEF CodesAreLimited
  <2>8. RedeemsFit'
    <3>1. \A k \in Handlers : Doing(k, "redeem")' =>
            k \notin {h} /\ Doing(k, "redeem") /\ Now(k)' = Now(k)
      BY <1>2, HeadStays DEF Acting
    <3>2. \A k \in Handlers : Doing(k, "redeem") => Now(k).item \in Codes
      BY HeadIs DEF SoundStep
    <3>3. \A k \in Handlers \ {h} : Doing(k, "redeem") => Now(k).item # c
      BY <1>1 DEF PInv, RedeemsFit
    <3> QED
      BY <2>2, <3>1, <3>2, <3>3 DEF PInv, RedeemsFit
  <2>9. Typed'
    BY <1>1, <1>2, <1>4, <2>2, <2>4, <2>6 DEF Typed, Counters
  <2>10. sessions' \subseteq sessions
    BY <1>1
  <2> QED
    BY <1>2, <2>4, <2>5, <2>6, <2>7, <2>8, <2>9, <2>10, Carries DEF PInv
<1> QED
  BY <1>3, <1>4 DEF JoinByCode

-----------------------------------------------------------------------------
(* New rows *)

LEMMA NewRowKeeps ==
    ASSUME PInv, NEW h \in Handlers, Calm({h}), JobsSound', Endings, Counters,
           UNCHANGED <<sessions, invitations, codes>>, invites' \subseteq invites,
           history' \in Excuses, HistoryGrows, history'.lost = history.lost,
           history'.joined = history.joined,
           NEW n, n \in NewOf(h), NEW r \in Row, users' = [users EXCEPT ![n] = r],
           Real(r), Unused(r.address), r.logins = {}, r.place = "none", ~r.paid, ~r.named,
           \A x \in {r.parent, r.manager} :
               x = NoUser \/ (/\ Exists(x)
                              /\ \/ x \in history'.overtaken \cup history'.below
                                 \/ users[x].parent = NoUser)
    PROVE  PInv'
<1>1. n \in Users /\ users[n].kind = "free" /\ ~Exists(n) /\ Typed
  BY NewTyped DEF PInv, Exists
<1>2. users \in [Users -> Row]
  BY <1>1 DEF Typed
<1>3. /\ users' \in [Users -> Row] /\ users'[n] = r
      /\ \A v \in Users \ {n} : users'[v] = users[v]
  BY <1>1, <1>2
<1>4. Typed'
  BY <1>1, <1>3 DEF Typed, Counters
<1>5. Unique'
  BY <1>1, <1>3 DEF PInv, Unique, Unused
<1>6. SameInvitations /\ SameOwners /\ SameCounts /\ sessions' \subseteq sessions
  BY DEF SameInvitations, SameOwners, SameCounts
<1>7. NewAreFree'
  <2>1. \A g \in Handlers \ {h} : \A m \in NewOf(g) : users'[m].kind = "free"
    <3>1. \A g \in Handlers \ {h} : n \notin NewOf(g)
      BY DEF PInv, NewAreFree
    <3> QED
      BY <1>3, <3>1, NewTyped DEF PInv
  <2> QED
    BY <2>1, NewStays DEF PInv
<1>8. MovesFit'
  <2>1. \A g \in Handlers : \A keep, drop \in Users : Moving(g, keep, drop) =>
          keep # n /\ drop # n /\ Real(users[keep]) /\ Real(users[drop])
    BY <1>1, MovingIs DEF PInv, Real
  <2> QED
    BY <1>3, <2>1, MovesStay DEF PInv, HistoryGrows
<1>9. PlacesFit'
  BY <1>3 DEF PInv, PlacesFit
<1>10. \A v : Exists(v) => Exists(v)' /\ v # n
  BY <1>1, <1>3 DEF Exists
<1>11. KeysFit'
  BY <1>3, <1>10 DEF PInv, KeysFit
<1>12. SessionsFit'
  <2>1. \A v : Ending(v) => Ending(v)'
    BY EndingsAre
  <2>2. \A s \in sessions : s.user \in Users \ {n}
    BY <1>1, <1>10 DEF PInv, KeysFit, Typed
  <2> QED
    BY <1>3, <2>1, <2>2 DEF PInv, SessionsFit, HistoryGrows
<1>13. GroupsAreFlat'
  <2> SUFFICES ASSUME NEW w \in Users,
                      w \notin history'.merged \cup history'.below \cup history'.overtaken,
                      users'[w].parent # NoUser
               PROVE  /\ ~users'[w].named
                      /\ \A x \in Users : w \notin {users'[x].parent, users'[x].manager}
                      /\ \A c \in Codes : codes'[c].manager # w
    BY DEF GroupsAreFlat
  <2>1. CASE w = n
    <3>1. \A x \in Users \ {n} : n \notin {users[x].parent, users[x].manager}
      BY <1>1, ConstantsFit DEF PInv, KeysFit
    <3>2. n \notin {r.parent, r.manager}
      BY <1>1, ConstantsFit
    <3>3. \A c \in Codes : codes[c].manager # n
      BY <1>1, ConstantsFit DEF PInv, KeysFit
    <3> QED
      BY <1>3, <2>1, <3>1, <3>2, <3>3
  <2>2. CASE w # n
    <3>1. w \notin history.merged \cup history.below \cup history.overtaken
      BY DEF HistoryGrows
    <3>2. users[w].parent # NoUser
      BY <1>3, <2>2
    <3>3. /\ ~users[w].named
          /\ \A x \in Users : w \notin {users[x].parent, users[x].manager}
          /\ \A c \in Codes : codes[c].manager # w
      BY <3>1, <3>2 DEF PInv, GroupsAreFlat
    <3>4. w \notin {r.parent, r.manager}
      BY <3>2, ConstantsFit
    <3> QED
      BY <1>3, <2>2, <3>3, <3>4
  <2> QED
    BY <2>1, <2>2
<1> QED
  BY <1>4, <1>5, <1>6, <1>7, <1>8, <1>9, <1>11, <1>12, <1>13, Carries DEF PInv

LEMMA InsertAccountKeeps ==
    ASSUME PInv, NEW h \in Handlers, InsertAccount(h) \/ Appear(h) PROVE PInv'
<1> DEFINE n == Now(h).user
           a == Now(h).address
<1>1. /\ job[h] # <<>> /\ ~Doing(h, "endSessions") /\ Typed
      /\ UNCHANGED <<sessions, invitations, invites, codes, history>> /\ a \in MaybeUser
      /\ n \in NewOf(h)
  BY HeadIs DEF InsertAccount, Appear, PInv, NewOf, New
<1>2. Calm({h}) /\ JobsSound' /\ Endings /\ Counters
  BY <1>1, ThenCalm DEF InsertAccount, Appear
<1>3. CASE users' = users
  BY <1>1, <1>2, <1>3, TypedStill, CalmKeeps DEF Still, Counters, PInv
<1>4. ASSUME Unused(a), NEW password \in {0, 1}, NEW verified \in BOOLEAN,
             users' = [users EXCEPT ![n] = [Account(a, password) EXCEPT !.verified = verified]]
      PROVE  PInv'
  <2> DEFINE r == [Account(a, password) EXCEPT !.verified = verified]
  <2>1. NoUser \in MaybeUser /\ password \in Nat
    BY DEF MaybeUser
  <2>2. users' = [users EXCEPT ![n] = r]
    BY <1>4
  <2>3. /\ r.kind = "account" /\ r.address = a /\ r.logins = {} /\ r.place = "none"
        /\ ~r.paid /\ ~r.named /\ r.parent = NoUser /\ r.manager = NoUser
    BY DEF Account
  <2>4. r \in Row /\ Real(r)
    BY <1>1, <2>1, <2>3 DEF Account, Row, Real
  <2> HIDE DEF r, n, a
  <2>5. history' \in Excuses /\ HistoryGrows
    BY <1>1, HistoryStill DEF Typed
  <2> QED
    BY <1>1, <1>2, <1>4, <2>2, <2>3, <2>4, <2>5, NewRowKeeps
<1> QED
  BY <1>3, <1>4 DEF InsertAccount, Appear

LEMMA InsertMemberKeeps == ASSUME PInv, NEW h \in Handlers, InsertMember(h) PROVE PInv'
<1> DEFINE n == Now(h).user
           a == Now(h).address
           parent == Now(h).other
           more == When(users[parent].parent # NoUser, {parent})
           r == [Account(a, 1) EXCEPT !.parent = parent, !.memberOnly = TRUE]
<1>1. /\ job[h] # <<>> /\ ~Doing(h, "endSessions") /\ Typed
      /\ UNCHANGED <<sessions, invitations, codes>> /\ a \in MaybeUser
      /\ n \in NewOf(h) /\ parent \in Users
  BY HeadIs DEF InsertMember, PInv, NewOf, New, SoundStep
<1>2. Calm({h}) /\ JobsSound' /\ Endings /\ Counters
  BY <1>1, ThenCalm DEF InsertMember
<1>3. CASE UNCHANGED <<users, invites, history>>
  BY <1>1, <1>2, <1>3, TypedStill, CalmKeeps DEF Still, Counters, PInv
<1>4. CASE /\ Unused(a) /\ Exists(parent) /\ users' = [users EXCEPT ![n] = r]
           /\ invites' \subseteq invites /\ Past("below", more)
  <2>1. NoUser \in MaybeUser /\ parent \in MaybeUser
    BY <1>1 DEF MaybeUser
  <2>2. /\ r.kind = "account" /\ r.address = a /\ r.logins = {} /\ r.place = "none"
        /\ ~r.paid /\ ~r.named /\ r.parent = parent /\ r.manager = NoUser
    BY DEF Account
  <2>4. r \in Row /\ Real(r)
    BY <1>1, <2>1, <2>2 DEF Account, Row, Real
  <2>3. more \subseteq Users /\ (users[parent].parent = NoUser \/ parent \in more)
    BY <1>1 DEF When
  <2> HIDE DEF r, n, a, parent, more
  <2>5. /\ history' \in Excuses /\ HistoryGrows /\ history'.lost = history.lost
        /\ history'.joined = history.joined /\ more \subseteq history'.below
    <3>1. history \in Excuses
      BY <1>1 DEF Typed
    <3>2. history' = [history EXCEPT !.below = @ \cup more]
      BY <1>4 DEF Past
    <3> QED
      BY <2>3, <3>1, <3>2 DEF Excuses, HistoryGrows
  <2> QED
    BY <1>1, <1>2, <1>4, <2>2, <2>3, <2>4, <2>5, NewRowKeeps
<1> QED
  BY <1>3, <1>4 DEF InsertMember

LEMMA CreateManagedPersonKeeps ==
    ASSUME PInv, NEW h \in Handlers, CreateManagedPerson(h) PROVE PInv'
<1> DEFINE n == Now(h).other
           u == Now(h).user
           r == [Guest(NoUser) EXCEPT !.manager = u]
<1>1. /\ job[h] # <<>> /\ ~Doing(h, "endSessions") /\ Typed
      /\ UNCHANGED <<sessions, invitations, invites, codes>>
      /\ n \in NewOf(h) /\ u \in Users /\ Overtaken(MayManage(u), {u})
  BY HeadIs DEF CreateManagedPerson, PInv, NewOf, New
<1>2. Calm({h}) /\ JobsSound' /\ Endings /\ Counters
  BY <1>1, ThenCalm DEF CreateManagedPerson
<1>3. /\ history' \in Excuses /\ HistoryGrows /\ history'.lost = history.lost
      /\ history'.joined = history.joined
      /\ u \in history'.overtaken \/ users[u].parent = NoUser
  BY <1>1, PastIs DEF Typed, MayManage
<1>4. CASE users' = users
  BY <1>1, <1>2, <1>3, <1>4, PastKeeps
<1>5. CASE Exists(u) /\ users' = [users EXCEPT ![n] = r]
  <2>1. NoUser \in MaybeUser /\ u \in MaybeUser /\ Unused(NoUser)
    BY <1>1 DEF MaybeUser, Unused
  <2>2. /\ r.kind = "guest" /\ r.address = NoUser /\ r.logins = {} /\ r.place = "none"
        /\ ~r.paid /\ ~r.named /\ r.parent = NoUser /\ r.manager = u
    BY DEF Account, Guest
  <2>3. r \in Row /\ Real(r)
    BY <1>1, <2>1, <2>2 DEF Account, Guest, Row, Real
  <2> HIDE DEF r, n, u
  <2> QED
    BY <1>1, <1>2, <1>3, <1>5, <2>1, <2>2, <2>3, NewRowKeeps
<1> QED
  BY <1>4, <1>5 DEF CreateManagedPerson

-----------------------------------------------------------------------------
(* Restarts *)

LEMMA RestartKeeps == ASSUME PInv, NEW h \in Handlers, Restart(h) PROVE PInv'
<1> DEFINE more == {step.user : step \in {s \in Steps(h) : s.do = "endSessions"}}
<1>1. Typed /\ JobsSound /\ job[h] # <<>>
  BY DEF PInv, Restart, Idle
<1>2. /\ JobsSound' /\ job'[h] = <<>>
      /\ \A g \in Handlers \ {h} : job'[g] = job[g]
      /\ requests' = requests /\ faults' \in 0..MaxFaults /\ ops' = ops
      /\ UNCHANGED <<users, sessions, invitations, invites, codes>>
  BY <1>1, RestartIs DEF Restart
<1>3. Calm({h}) /\ Counters
  <2>1. Calm({h})
    <3>1. \A g \in Handlers \cap {h} : job'[g] = <<>>
      BY <1>2
    <3> QED
      BY <1>2, <3>1 DEF Calm
  <2> QED
    BY <1>1, <1>2, <2>1 DEF Counters, Typed
<1>4. more \subseteq Users
  <2>1. \A i \in DOMAIN job[h] : job[h][i] \in SoundStep
    BY <1>1 DEF JobsSound
  <2> QED
    BY <2>1 DEF Steps, SoundStep
<1>5. \A v : Ending(v) => v \in more \/ Ending(v)'
  <2> SUFFICES ASSUME NEW v, NEW g \in Handlers, Doing(g, "endSessions"), Now(g).user = v
               PROVE  v \in more \/ Ending(v)'
    BY DEF Ending
  <2>1. CASE g = h
    BY <1>1, <2>1, NowRuns DEF Doing, Now
  <2>2. CASE g # h
    BY <1>2, <2>2 DEF Ending, Doing, Now
  <2> QED
    BY <2>1, <2>2
<1>6. history' = [history EXCEPT !.interrupted = @ \cup more]
  BY DEF Restart, Past
<1> HIDE DEF more
<1>7. /\ history' \in Excuses /\ HistoryGrows /\ history'.lost = history.lost
      /\ history'.joined = history.joined /\ more \subseteq history'.interrupted
  <2>1. history \in Excuses
    BY <1>1 DEF Typed
  <2> QED
    BY <1>4, <1>6, <2>1 DEF Excuses, HistoryGrows
<1>8. SessionsFit'
  BY <1>2, <1>5, <1>7 DEF PInv, SessionsFit, HistoryGrows
<1>9. users' \in [Users -> Row] /\ SameKinds /\ SameNames /\ SameGroups /\ SamePlaces
      /\ SameSignIn /\ SameInvitations /\ SameOwners /\ SameCounts
      /\ sessions' \subseteq sessions
  BY <1>1, <1>2, <1>7, UsersStill, OthersStill DEF Typed, SameCounts
<1>10. Typed'
  BY <1>1, <1>2, <1>3, <1>7 DEF Typed, Counters
<1> QED
  BY <1>2, <1>3, <1>7, <1>8, <1>9, <1>10, Carries DEF PInv

-----------------------------------------------------------------------------
(* Rows that go *)

LEMMA DetachedIs ==
    ASSUME NEW row \in Row, NEW u
    PROVE  /\ Detached(row, u) \in Row
           /\ Detached(row, u).kind = row.kind /\ Detached(row, u).address = row.address
           /\ Detached(row, u).logins = row.logins /\ Detached(row, u).place = row.place
           /\ Detached(row, u).paid = row.paid /\ Detached(row, u).named = row.named
           /\ Detached(row, u).password = row.password
           /\ Detached(row, u).active = row.active
           /\ Detached(row, u).parent = NotSelf(row.parent, u)
           /\ Detached(row, u).manager = NotSelf(row.manager, u)
<1>1. NotSelf(row.parent, u) \in MaybeUser /\ NotSelf(row.manager, u) \in MaybeUser
  BY DEF Row, NotSelf, MaybeUser
<1>2. Detached(row, u) = [row EXCEPT !.parent = NotSelf(row.parent, u),
                                     !.manager = NotSelf(row.manager, u)]
  BY DEF Detached, NotSelf, Row
<1> QED
  BY <1>1, <1>2 DEF Row
LEMMA ErasedIs ==
    ASSUME NEW rows \in [Users -> Row], NEW u \in Users, users' = Erased(rows, u)
    PROVE  /\ users' \in [Users -> Row]
           /\ users'[u].kind = "deleted" /\ users'[u].address = NoUser
           /\ users'[u].logins = {} /\ users'[u].place = "none"
           /\ ~users'[u].paid /\ ~users'[u].named
           /\ users'[u].parent = NoUser /\ users'[u].manager = NoUser
           /\ \A v \in Users \ {u} :
                /\ users'[v].kind = rows[v].kind /\ users'[v].address = rows[v].address
                /\ users'[v].logins = rows[v].logins /\ users'[v].place = rows[v].place
                /\ users'[v].paid = rows[v].paid /\ users'[v].named = rows[v].named
                /\ users'[v].password = rows[v].password
                /\ users'[v].active = rows[v].active
                /\ users'[v].parent = NotSelf(rows[v].parent, u)
                /\ users'[v].manager = NotSelf(rows[v].manager, u)
<1> DEFINE gone == [Guest(NoUser) EXCEPT !.kind = "deleted"]
<1>1. /\ gone \in Row /\ gone.kind = "deleted" /\ gone.address = NoUser /\ gone.logins = {}
      /\ gone.place = "none" /\ ~gone.paid /\ ~gone.named /\ gone.parent = NoUser
      /\ gone.manager = NoUser
  BY DEF Guest, Account, Row, MaybeUser
<1>2. users' = [v \in Users |-> IF v = u THEN gone ELSE Detached(rows[v], u)]
  BY DEF Erased
<1> HIDE DEF gone
<1>3. ASSUME NEW v \in Users \ {u}
      PROVE  /\ Detached(rows[v], u) \in Row
             /\ users'[v] = Detached(rows[v], u) /\ rows[v] \in Row
  <2>1. rows[v] \in Row
    OBVIOUS
  <2> QED
    BY <1>2, <2>1, DetachedIs
<1>4. users' \in [Users -> Row] /\ users'[u] = gone
  BY <1>1, <1>2, <1>3
<1> QED
  BY <1>1, <1>3, <1>4, DetachedIs

\* Groups only lose members, people and codes.
LEMMA FlatShrinks ==
    ASSUME PInv, HistoryGrows,
           \A v \in Users : /\ users'[v].parent \in {users[v].parent, NoUser}
                            /\ users'[v].manager \in {users[v].manager, NoUser}
                            /\ users'[v].named => users[v].named,
           \A c \in Codes : codes'[c].manager \in {codes[c].manager, NoUser}
    PROVE  GroupsAreFlat'
BY ConstantsFit DEF PInv, GroupsAreFlat, HistoryGrows

LEMMA CodesOfIs ==
    ASSUME Typed, NEW u, NEW owner \in MaybeUser, codes' = WithCodesOf(u, owner)
    PROVE  /\ codes' \in [Codes -> [manager : MaybeUser, max : Nat, used : Nat]]
           /\ \A c \in Codes :
                /\ codes'[c].max = codes[c].max /\ codes'[c].used = codes[c].used
                /\ codes[c].manager = u => codes'[c].manager = owner
                /\ codes[c].manager # u => codes'[c].manager = codes[c].manager
<1>1. codes \in [Codes -> [manager : MaybeUser, max : Nat, used : Nat]]
  BY DEF Typed
<1>2. \A c \in Codes : codes'[c] = IF codes[c].manager = u
                                   THEN [codes[c] EXCEPT !.manager = owner] ELSE codes[c]
  BY DEF WithCodesOf
<1>3. codes' = [c \in Codes |-> codes'[c]]
  BY DEF WithCodesOf
<1>4. \A c \in Codes : codes'[c] \in [manager : MaybeUser, max : Nat, used : Nat]
  BY <1>1, <1>2
<1> QED
  BY <1>1, <1>2, <1>3, <1>4

LEMMA DeleteRowKeeps == ASSUME PInv, NEW h \in Handlers, DeleteRow(h) PROVE PInv'
<1> PICK u \in Users : u = Now(h).user
  BY HeadIs DEF DeleteRow
<1>1. /\ job[h] # <<>> /\ ~Doing(h, "endSessions") /\ Typed /\ JobsSound
      /\ UNCHANGED <<invitations, history>> /\ Unlocked(u)
  BY HeadIs DEF DeleteRow, PInv
<1>2. Calm({h}) /\ JobsSound' /\ Endings /\ Counters
  BY <1>1, ThenCalm DEF DeleteRow
<1>3. CASE UNCHANGED <<users, sessions, invites, codes>>
  BY <1>1, <1>2, <1>3, TypedStill, CalmKeeps DEF Still, Counters, PInv
<1>4. CASE /\ Exists(u) /\ users' = Erased(users, u)
           /\ sessions' = sessions \ SessionsOf(u) /\ invites' \subseteq invites
           /\ codes' = WithCodesOf(u, NoUser)
  <2>1. users \in [Users -> Row] /\ NoUser \in MaybeUser /\ u # NoUser
    BY <1>1, ConstantsFit DEF Typed, MaybeUser
  <2>2. /\ users' \in [Users -> Row]
        /\ users'[u].kind = "deleted" /\ users'[u].address = NoUser
        /\ users'[u].logins = {} /\ users'[u].place = "none"
        /\ ~users'[u].paid /\ ~users'[u].named
        /\ users'[u].parent = NoUser /\ users'[u].manager = NoUser
    BY <1>4, <2>1, ErasedIs
  <2>3. \A v \in Users \ {u} :
          /\ users'[v].kind = users[v].kind /\ users'[v].address = users[v].address
          /\ users'[v].logins = users[v].logins /\ users'[v].place = users[v].place
          /\ users'[v].paid = users[v].paid /\ users'[v].named = users[v].named
          /\ users'[v].password = users[v].password /\ users'[v].active = users[v].active
          /\ users'[v].parent = NotSelf(users[v].parent, u)
          /\ users'[v].manager = NotSelf(users[v].manager, u)
    BY <1>4, <2>1, ErasedIs
  <2>4. /\ codes' \in [Codes -> [manager : MaybeUser, max : Nat, used : Nat]]
        /\ \A c \in Codes :
             /\ codes'[c].max = codes[c].max /\ codes'[c].used = codes[c].used
             /\ codes[c].manager = u => codes'[c].manager = NoUser
             /\ codes[c].manager # u => codes'[c].manager = codes[c].manager
    BY <1>1, <1>4, <2>1, CodesOfIs
  <2>5. /\ sessions' \subseteq sessions /\ \A s \in sessions' : s.user \in Users \ {u}
    BY <1>1, <1>4 DEF SessionsOf, Typed
  <2>6. SameInvitations /\ SameCounts /\ HistoryGrows /\ history'.lost = history.lost
    BY <1>1, <2>4, OthersStill, HistoryStill DEF SameCounts
  <2>7. Typed'
    BY <1>1, <1>2, <1>4, <2>2, <2>4, <2>5 DEF Typed, Counters
  <2>8. Unique'
    BY <2>2, <2>3 DEF PInv, Unique
  <2>9. NewAreFree'
    <3>1. \A g \in Handlers : \A n \in NewOf(g) : n \in Users \ {u} /\ users[n].kind = "free"
      BY <1>4, NewTyped DEF PInv, Exists
    <3>2. \A g \in Handlers \ {h} : \A n \in NewOf(g) : users'[n].kind = "free"
      BY <2>3, <3>1
    <3> QED
      BY <1>1, <1>2, <3>2, NewStays DEF PInv
  <2>10. MovesFit'
    <3>1. \A g \in Handlers : \A keep, drop \in Users : Moving(g, keep, drop) =>
            u \notin {keep, drop} /\ Real(users[keep]) /\ Real(users[drop])
      BY <1>1, MovingIs, UnlockedIs DEF PInv, Moving
    <3> QED
      BY <1>2, <2>3, <2>6, <3>1, MovesStay DEF PInv, HistoryGrows, Real, Conflict
  <2>11. PlacesFit'
    BY <2>2, <2>3 DEF PInv, PlacesFit
  <2>12. KeysFit'
    <3>1. \A v : v # u /\ Exists(v) => Exists(v)'
      BY <2>3 DEF Exists
    <3>2. \A v \in Users : \A x \in {users'[v].parent, users'[v].manager} :
             x # NoUser => x # u /\ x \in {users[v].parent, users[v].manager}
      BY <2>2, <2>3 DEF NotSelf
    <3>3. \A v \in Users : \A x \in {users'[v].parent, users'[v].manager} :
             x # NoUser => Exists(x)'
      BY <3>1, <3>2 DEF PInv, KeysFit
    <3>4. (\A c \in Codes : codes[c].manager # NoUser => Exists(codes[c].manager))'
      BY <2>4, <3>1 DEF PInv, KeysFit
    <3>5. \A s \in sessions' : Exists(s.user)'
      BY <2>5, <3>1 DEF PInv, KeysFit
    <3> QED
      BY <3>3, <3>4, <3>5 DEF KeysFit
  <2>13. SessionsFit'
    <3>1. \A v : Ending(v) => Ending(v)'
      BY <1>2, EndingsAre
    <3> QED
      BY <1>1, <2>3, <2>5, <3>1 DEF PInv, SessionsFit
  <2>14. GroupsAreFlat'
    <3>1. \A v \in Users : /\ users'[v].parent \in {users[v].parent, NoUser}
                           /\ users'[v].manager \in {users[v].manager, NoUser}
                           /\ users'[v].named => users[v].named
      BY <2>2, <2>3 DEF NotSelf
    <3>2. \A c \in Codes : codes'[c].manager \in {codes[c].manager, NoUser}
      BY <2>4
    <3> QED
      BY <2>6, <3>1, <3>2, FlatShrinks
  <2> QED
    BY <1>2, <2>6, <2>7, <2>8, <2>9, <2>10, <2>11, <2>12, <2>13, <2>14, Carries DEF PInv
<1> QED
  BY <1>3, <1>4 DEF DeleteRow

-----------------------------------------------------------------------------
(* Invitations that are redeemed *)

LEMMA ActivateKeeps == ASSUME PInv, NEW h \in Handlers, Activate(h) PROVE PInv'
<1> PICK u \in Users : u = Now(h).user
  BY HeadIs DEF Activate
<1> DEFINE i == Now(h).item
           a == Now(h).address
           password == Now(h).password
           guest == invitations[i].for # NoUser
           mine == IF guest /\ users[u].address # NoUser THEN users[u].address ELSE a
           row == IF guest THEN [users[u] EXCEPT !.kind = "account", !.verified = TRUE,
                                   !.password = password, !.manager = NoUser,
                                   !.address = mine]
                  ELSE Account(a, password)
<1>1. /\ job[h] # <<>> /\ ~Doing(h, "endSessions") /\ Typed /\ JobsSound
      /\ UNCHANGED <<invites, codes, history>> /\ Unlocked(u)
      /\ i \in Invitations /\ a \in MaybeUser /\ password \in Nat
      /\ ~guest => u \in NewOf(h)
  BY HeadIs DEF Activate, PInv, SoundStep, NewOf, New
<1>2. Calm({h}) /\ JobsSound' /\ Endings /\ Counters
  BY <1>1, ThenCalm DEF Activate
<1>3. CASE UNCHANGED <<users, sessions, invitations>>
  BY <1>1, <1>2, <1>3, TypedStill, CalmKeeps DEF Still, Counters, PInv
<1>4. CASE /\ guest => users[u].kind = "guest"
           /\ mine = users[u].address \/ Unused(mine)
           /\ ~invitations[i].redeemed
           /\ users' = [users EXCEPT ![u] = row]
           /\ sessions' = {IF s.user = u THEN [s EXCEPT !.password = password] ELSE s :
                             s \in sessions}
           /\ invitations' = [invitations EXCEPT ![i].redeemed = TRUE,
                                                 ![i].made = @ \cup {u}]
  <2>1. /\ users \in [Users -> Row] /\ users[u] \in Row /\ users[u].address \in MaybeUser
        /\ NoUser \in MaybeUser
    BY <1>1, RowIs DEF Typed, MaybeUser
  <2>2. ~guest => users[u].kind = "free" /\ ~Exists(u)
    BY <1>1, NewTyped DEF PInv, Exists
  <2>3. /\ row \in Row /\ row.kind = "account" /\ row.address = mine
        /\ row.logins \subseteq users[u].logins /\ (row.place = "none" => ~row.paid)
        /\ row.password = password /\ row.parent \in {users[u].parent, NoUser}
        /\ row.manager = NoUser /\ (row.named => users[u].named)
        /\ guest => row.active = users[u].active
    <3>1. CASE guest
      <4>1. mine \in MaybeUser
        BY <1>1, <2>1
      <4>2. row = [users[u] EXCEPT !.kind = "account", !.verified = TRUE,
                     !.password = password, !.manager = NoUser, !.address = mine]
        BY <3>1
      <4> HIDE DEF mine, guest
      <4>3. /\ row \in Row /\ row.kind = "account" /\ row.address = mine
            /\ row.logins = users[u].logins /\ row.place = users[u].place
            /\ row.paid = users[u].paid /\ row.password = password
            /\ row.parent = users[u].parent /\ row.manager = NoUser
            /\ row.named = users[u].named /\ row.active = users[u].active
        BY ZenonT(60), <1>1, <2>1, <4>1, <4>2 DEF Row
      <4> QED
        BY <4>3 DEF PInv, PlacesFit
    <3>2. CASE ~guest
      <4>1. row = Account(a, password) /\ mine = a
        BY <3>2
      <4> HIDE DEF row, mine, guest
      <4>2. /\ row.kind = "account" /\ row.address = a /\ row.logins = {}
            /\ row.place = "none" /\ ~row.paid /\ row.password = password
            /\ row.parent = NoUser /\ row.manager = NoUser /\ ~row.named
        BY <4>1 DEF Account
      <4>3. row \in Row
        BY <1>1, <2>1, <4>1 DEF Account, Row
      <4> QED
        BY <3>2, <4>1, <4>2, <4>3
    <3> QED
      BY <3>1, <3>2
  <2>4. mine = users[u].address \/ Unused(mine)
    BY <1>4
  <2>5. \A s \in sessions : s.user = u => guest
    BY <2>2 DEF PInv, KeysFit
  <2>6. /\ \A t \in sessions' : \E s \in sessions :
             /\ t.user = s.user /\ t.late = s.late
             /\ s.user = u => t.password = password
             /\ s.user # u => t = s
        /\ sessions' \subseteq [user : Users, password : Nat, late : BOOLEAN]
    <3>1. sessions \subseteq [user : Users, password : Nat, late : BOOLEAN]
      BY <1>1 DEF Typed
    <3>2. \A t \in sessions' : \E s \in sessions :
             t = IF s.user = u THEN [s EXCEPT !.password = password] ELSE s
      BY <1>4
    <3> HIDE DEF password
    <3> QED
      BY <1>1, <3>1, <3>2
  <2>7. /\ guest => users[u].kind = "guest"
        /\ ~invitations[i].redeemed /\ users' = [users EXCEPT ![u] = row]
        /\ invitations' = [invitations EXCEPT ![i].redeemed = TRUE,
                                              ![i].made = @ \cup {u}]
    BY <1>4
  <2> HIDE DEF row, mine, guest, password
  <2>8. /\ users' \in [Users -> Row] /\ users'[u] = row
        /\ \A v \in Users \ {u} : users'[v] = users[v]
    BY <2>1, <2>3, <2>7
  <2>9. /\ invitations' \in
             [Invitations -> [state : {"none", "sent"}, for : MaybeUser, by : MaybeUser,
                              address : MaybeUser, redeemed : BOOLEAN,
                              cancelled : BOOLEAN, made : SUBSET Users]]
        /\ \A k \in Invitations :
             /\ invitations'[k].state = invitations[k].state
             /\ invitations'[k].for = invitations[k].for
             /\ k = i => /\ invitations'[k].redeemed
                         /\ invitations'[k].made = invitations[k].made \cup {u}
             /\ k # i => /\ invitations'[k].redeemed = invitations[k].redeemed
                         /\ invitations'[k].made = invitations[k].made
    <3> DEFINE I == [state : {"none", "sent"}, for : MaybeUser, by : MaybeUser,
                     address : MaybeUser, redeemed : BOOLEAN,
                     cancelled : BOOLEAN, made : SUBSET Users]
               new == [invitations[i] EXCEPT !.redeemed = TRUE, !.made = @ \cup {u}]
    <3>1. invitations \in [Invitations -> I] /\ invitations[i] \in I
      BY <1>1 DEF Typed
    <3>2. invitations' = [invitations EXCEPT ![i] = new]
      BY <1>1, <2>7, <3>1
    <3>3. /\ new \in I /\ new.state = invitations[i].state
          /\ new.for = invitations[i].for /\ new.redeemed
          /\ new.made = invitations[i].made \cup {u}
      BY <3>1
    <3> HIDE DEF I, new
    <3>4. /\ invitations' \in [Invitations -> I] /\ invitations'[i] = new
          /\ \A k \in Invitations \ {i} : invitations'[k] = invitations[k]
      BY <1>1, <3>1, <3>2, <3>3
    <3>5. invitations' \in
             [Invitations -> [state : {"none", "sent"}, for : MaybeUser, by : MaybeUser,
                              address : MaybeUser, redeemed : BOOLEAN,
                              cancelled : BOOLEAN, made : SUBSET Users]]
      BY <3>4 DEF I
    <3> QED
      BY <3>3, <3>4, <3>5
  <2>10. SameOwners /\ SameCounts /\ HistoryGrows /\ history'.lost = history.lost
    BY <1>1, OthersStill, HistoryStill
  <2>11. Typed'
    BY <1>1, <1>2, <2>6, <2>8, <2>9 DEF Typed, Counters
  <2>12. Unique'
    BY <2>3, <2>4, <2>8 DEF PInv, Unique, Unused
  <2>13. NewAreFree'
    <3>1. \A g \in Handlers \ {h} : u \notin NewOf(g)
      <4>1. CASE guest
        BY <2>7, <4>1, NewTyped DEF PInv
      <4>2. CASE ~guest
        BY <1>1, <4>2 DEF PInv, NewAreFree
      <4> QED
        BY <4>1, <4>2
    <3>2. \A g \in Handlers \ {h} : \A n \in NewOf(g) : users'[n].kind = "free"
      BY <2>8, <3>1, NewTyped DEF PInv
    <3> QED
      BY <1>2, <2>9, <3>2, NewStays DEF PInv
  <2>14. MovesFit'
    <3>1. \A g \in Handlers : \A keep, drop \in Users : Moving(g, keep, drop) =>
            u \notin {keep, drop} /\ Real(users[keep]) /\ Real(users[drop])
      BY <1>1, MovingIs, UnlockedIs DEF PInv, Moving
    <3> QED
      BY <1>2, <2>8, <2>10, <3>1, MovesStay DEF PInv, HistoryGrows
  <2>15. PlacesFit'
    BY <2>3, <2>8 DEF PInv, PlacesFit
  <2>16. KeysFit'
    <3>1. \A v : Exists(v) => Exists(v)'
      BY <2>3, <2>8 DEF Exists
    <3>2. \A v \in Users : \A x \in {users'[v].parent, users'[v].manager} :
             x # NoUser => x \in {users[v].parent, users[v].manager}
      BY <2>3, <2>8
    <3>3. (\A c \in Codes : codes[c].manager # NoUser => Exists(codes[c].manager))'
      BY <2>10, <3>1 DEF PInv, KeysFit, SameOwners
    <3>4. \A s \in sessions' : Exists(s.user)'
      BY <2>6, <3>1 DEF PInv, KeysFit
    <3> QED
      BY <3>1, <3>2, <3>3, <3>4 DEF PInv, KeysFit
  <2>17. InvitationsFit'
    <3>1. \A k \in Handlers : Doing(k, "activate")' =>
            k \notin {h} /\ Doing(k, "activate") /\ Now(k)' = Now(k)
      BY <1>2, HeadStays DEF Acting
    <3>2. \A k \in Handlers : Doing(k, "activate") => Now(k).item \in Invitations
      BY HeadIs DEF SoundStep
    <3>3. \A k \in Handlers : Doing(k, "activate")' =>
            invitations'[Now(k)'.item].state = "sent"
      BY <2>9, <3>1, <3>2 DEF PInv, InvitationsFit
    <3>4. invitations[i].made = {}
      BY <1>1, <2>7 DEF PInv, InvitationsFit, Made
    <3>5. \A k \in Invitations : /\ ~invitations'[k].redeemed => Made(k)' = {}
                                 /\ Made(k)' = {} \/ \E v \in Users : Made(k)' = {v}
      BY <2>9, <3>4 DEF PInv, InvitationsFit, Made
    <3> QED
      BY <3>3, <3>5 DEF InvitationsFit
  <2>18. SessionsFit'
    <3>1. \A v : Ending(v) => Ending(v)'
      BY <1>2, EndingsAre
    <3> SUFFICES ASSUME NEW t \in sessions'
                 PROVE  \/ t.password = users'[t.user].password /\ users'[t.user].active
                        \/ t.late \/ t.user \in history'.interrupted \/ Ending(t.user)'
      BY DEF SessionsFit
    <3>2. PICK s \in sessions : /\ t.user = s.user /\ t.late = s.late
                                /\ s.user = u => t.password = password
                                /\ s.user # u => t = s
      BY <2>6
    <3>3. \/ s.password = users[s.user].password /\ users[s.user].active
          \/ s.late \/ s.user \in history.interrupted \/ Ending(s.user)
      BY DEF PInv, SessionsFit
    <3>4. s.user \in Users
      BY <1>1 DEF Typed
    <3>5. CASE s.user = u
      BY <1>1, <2>3, <2>5, <2>8, <3>1, <3>2, <3>3, <3>5
    <3>6. CASE s.user # u
      BY <1>1, <2>8, <3>1, <3>2, <3>3, <3>4, <3>6
    <3> QED
      BY <3>5, <3>6
  <2>19. GroupsAreFlat'
    <3>1. \A v \in Users : /\ users'[v].parent \in {users[v].parent, NoUser}
                           /\ users'[v].manager \in {users[v].manager, NoUser}
                           /\ users'[v].named => users[v].named
      BY <2>3, <2>8
    <3>2. \A c \in Codes : codes'[c].manager \in {codes[c].manager, NoUser}
      BY <2>10 DEF SameOwners
    <3> QED
      BY <2>10, <3>1, <3>2, FlatShrinks
  <2> QED
    BY <1>2, <2>10, <2>11, <2>12, <2>13, <2>14, <2>15, <2>16, <2>17, <2>18, <2>19, Carries
    DEF PInv
<1> QED
  BY <1>3, <1>4 DEF Activate, MarkRedeemed

-----------------------------------------------------------------------------
(* Merging *)

LEMMA PointedIs ==
    ASSUME NEW row \in Row, NEW keep \in Users, NEW drop \in Users
    PROVE  /\ Pointed(row, keep, drop) \in Row
           /\ Pointed(row, keep, drop).kind = row.kind
           /\ Pointed(row, keep, drop).address = row.address
           /\ Pointed(row, keep, drop).logins = row.logins
           /\ Pointed(row, keep, drop).place = row.place
           /\ Pointed(row, keep, drop).paid = row.paid
           /\ Pointed(row, keep, drop).named = row.named
           /\ Pointed(row, keep, drop).password = row.password
           /\ Pointed(row, keep, drop).active = row.active
           /\ Pointed(row, keep, drop).files = row.files
           /\ Pointed(row, keep, drop).portrait = row.portrait
           /\ Pointed(row, keep, drop).parent = Renamed(row.parent, keep, drop)
           /\ Pointed(row, keep, drop).manager = Renamed(row.manager, keep, drop)
<1>1. /\ Renamed(row.parent, keep, drop) \in MaybeUser
      /\ Renamed(row.manager, keep, drop) \in MaybeUser
  BY DEF Row, Renamed, MaybeUser
<1>2. Pointed(row, keep, drop) = [row EXCEPT !.parent = Renamed(row.parent, keep, drop),
                                               !.manager = Renamed(row.manager, keep, drop)]
  BY DEF Pointed, Row
<1> QED
  BY <1>1, <1>2 DEF Row
LEMMA TakenIs ==
    ASSUME NEW row \in Row, NEW other \in Row, NEW keep \in Users
    PROVE  /\ TakenOver(row, keep, other) \in Row
           /\ TakenOver(row, keep, other).kind = row.kind
           /\ TakenOver(row, keep, other).address = row.address
           /\ TakenOver(row, keep, other).logins = row.logins \cup other.logins
           /\ \/ /\ TakenOver(row, keep, other).place = row.place
                 /\ TakenOver(row, keep, other).paid = row.paid
              \/ /\ TakenOver(row, keep, other).place = other.place
                 /\ TakenOver(row, keep, other).paid = other.paid
           /\ TakenOver(row, keep, other).named = row.named
           /\ TakenOver(row, keep, other).password = row.password
           /\ TakenOver(row, keep, other).active = row.active
           /\ TakenOver(row, keep, other).parent \in {row.parent, NoUser}
           /\ TakenOver(row, keep, other).manager \in {row.manager, NoUser}
<1> DEFINE takes == row.place = "none"
           filesMove == ~(row.portrait /\ other.portrait)
           place == IF takes THEN other.place ELSE row.place
           paid == IF takes THEN other.paid ELSE row.paid
           files == IF filesMove THEN row.files + other.files ELSE row.files
           portrait == row.portrait \/ other.portrait
           parent == NotSelf(row.parent, keep)
           manager == NotSelf(row.manager, keep)
           logins == row.logins \cup other.logins
<1>1. /\ place \in {"none", "open", "cancelled"} /\ paid \in BOOLEAN /\ files \in Nat
      /\ portrait \in BOOLEAN /\ logins \subseteq Users
      /\ \/ place = row.place /\ paid = row.paid
         \/ place = other.place /\ paid = other.paid
  BY DEF Row
<1>2. parent \in {row.parent, NoUser} /\ manager \in {row.manager, NoUser}
  BY DEF NotSelf
<1>3. parent \in MaybeUser /\ manager \in MaybeUser
  BY <1>2 DEF Row, MaybeUser
<1>4. TakenOver(row, keep, other) =
         [row EXCEPT !.parent = parent, !.manager = manager, !.place = place,
                     !.paid = paid, !.files = files, !.portrait = portrait,
                     !.logins = logins]
  BY DEF TakenOver, Row
<1>5. logins = row.logins \cup other.logins
  OBVIOUS
<1> DEFINE first == [row EXCEPT !.parent = parent, !.manager = manager, !.place = place,
                              !.paid = paid]
<1> HIDE DEF takes, filesMove, place, paid, files, portrait, parent, manager, logins
<1>7. /\ first \in Row
      /\ first.kind = row.kind /\ first.address = row.address
      /\ first.place = place /\ first.paid = paid /\ first.named = row.named
      /\ first.password = row.password /\ first.active = row.active
      /\ first.parent = parent /\ first.manager = manager
  BY <1>1, <1>3 DEF Row
<1>8. TakenOver(row, keep, other) =
         [first EXCEPT !.files = files, !.portrait = portrait, !.logins = logins]
  BY <1>4
<1> HIDE DEF first
<1>9. /\ TakenOver(row, keep, other) \in Row
      /\ TakenOver(row, keep, other).kind = row.kind
      /\ TakenOver(row, keep, other).address = row.address
      /\ TakenOver(row, keep, other).logins = logins
      /\ TakenOver(row, keep, other).place = place
      /\ TakenOver(row, keep, other).paid = paid
      /\ TakenOver(row, keep, other).named = row.named
      /\ TakenOver(row, keep, other).password = row.password
      /\ TakenOver(row, keep, other).active = row.active
      /\ TakenOver(row, keep, other).parent = parent
      /\ TakenOver(row, keep, other).manager = manager
  BY ZenonT(60), <1>1, <1>7, <1>8 DEF Row
<1> QED
  BY <1>1, <1>2, <1>5, <1>9

\* The rows after a merge.
LEMMA MergedRows ==
    ASSUME PInv, NEW h \in Handlers, MoveAll(h), NEW keep, NEW drop, Moving(h, keep, drop)
    PROVE  /\ users' \in [Users -> Row]
           /\ users'[drop].kind = "deleted" /\ users'[drop].address = NoUser
           /\ users'[drop].logins = {} /\ users'[drop].place = "none"
           /\ ~users'[drop].paid /\ ~users'[drop].named
           /\ users'[drop].parent = NoUser /\ users'[drop].manager = NoUser
           /\ \A v \in Users \ {drop} :
                /\ users'[v].kind = users[v].kind /\ users'[v].address = users[v].address
                /\ users'[v].named = users[v].named
                /\ users'[v].password = users[v].password
                /\ users'[v].active = users[v].active
                /\ users'[v].parent \in {Renamed(users[v].parent, keep, drop), NoUser}
                /\ users'[v].manager \in {Renamed(users[v].manager, keep, drop), NoUser}
                /\ v # keep => /\ users'[v].logins = users[v].logins
                               /\ users'[v].place = users[v].place
                               /\ users'[v].paid = users[v].paid
           /\ users'[keep].logins = users[keep].logins \cup users[drop].logins
           /\ \/ /\ users'[keep].place = users[keep].place
                 /\ users'[keep].paid = users[keep].paid
              \/ /\ users'[keep].place = users[drop].place
                 /\ users'[keep].paid = users[drop].paid
<1>1. Typed /\ JobsSound
  BY DEF PInv
<1>2. keep \in Users /\ drop \in Users /\ keep # drop
  BY MovingIs DEF PInv
<1>3. users \in [Users -> Row] /\ users[keep] \in Row /\ users[drop] \in Row
  BY <1>1, <1>2, RowIs DEF Typed
<1> DEFINE pointed == [v \in Users |-> Pointed(users[v], keep, drop)]
           taken == TakenOver(pointed[keep], keep, users[drop])
           kept == [pointed EXCEPT ![keep] = taken]
<1>4. users' = Erased(kept, drop)
  BY DEF MoveAll, Moving
<1>5. ASSUME NEW v \in Users
      PROVE  pointed[v] = Pointed(users[v], keep, drop) /\ users[v] \in Row
  BY <1>3
<1>6. ASSUME NEW v \in Users
      PROVE
        /\ pointed[v] \in Row
        /\ pointed[v].kind = users[v].kind /\ pointed[v].address = users[v].address
        /\ pointed[v].logins = users[v].logins /\ pointed[v].place = users[v].place
        /\ pointed[v].paid = users[v].paid /\ pointed[v].named = users[v].named
        /\ pointed[v].password = users[v].password /\ pointed[v].active = users[v].active
        /\ pointed[v].parent = Renamed(users[v].parent, keep, drop)
        /\ pointed[v].manager = Renamed(users[v].manager, keep, drop)
  <2> DEFINE row == users[v]
  <2>1. row \in Row /\ pointed[v] = Pointed(row, keep, drop)
    BY <1>5
  <2> HIDE DEF row, pointed
  <2>2. /\ pointed[v] \in Row
        /\ pointed[v].kind = row.kind /\ pointed[v].address = row.address
        /\ pointed[v].logins = row.logins /\ pointed[v].place = row.place
        /\ pointed[v].paid = row.paid /\ pointed[v].named = row.named
        /\ pointed[v].password = row.password /\ pointed[v].active = row.active
        /\ pointed[v].parent = Renamed(row.parent, keep, drop)
        /\ pointed[v].manager = Renamed(row.manager, keep, drop)
    BY <1>2, <2>1, PointedIs
  <2> QED
    BY <2>2 DEF row
<1>7. pointed \in [Users -> Row] /\ kept = [pointed EXCEPT ![keep] = taken]
  BY <1>6
<1> HIDE DEF pointed, kept
<1>8. pointed[keep] \in Row
  BY <1>2, <1>6
<1>9. /\ taken \in Row
      /\ taken.kind = pointed[keep].kind /\ taken.address = pointed[keep].address
      /\ taken.logins = pointed[keep].logins \cup users[drop].logins
      /\ \/ taken.place = pointed[keep].place /\ taken.paid = pointed[keep].paid
         \/ taken.place = users[drop].place /\ taken.paid = users[drop].paid
      /\ taken.named = pointed[keep].named
      /\ taken.password = pointed[keep].password /\ taken.active = pointed[keep].active
      /\ taken.parent \in {pointed[keep].parent, NoUser}
      /\ taken.manager \in {pointed[keep].manager, NoUser}
  <2> DEFINE row == pointed[keep]
             other == users[drop]
  <2>1. row \in Row /\ other \in Row /\ taken = TakenOver(row, keep, other)
    BY <1>3, <1>8
  <2> HIDE DEF row, other, taken
  <2>2. /\ TakenOver(row, keep, other) \in Row
       
        /\ TakenOver(row, keep, other).kind = row.kind
        /\ TakenOver(row, keep, other).address = row.address
        /\ TakenOver(row, keep, other).logins = row.logins \cup other.logins
        /\ \/ /\ TakenOver(row, keep, other).place = row.place
              /\ TakenOver(row, keep, other).paid = row.paid
           \/ /\ TakenOver(row, keep, other).place = other.place
              /\ TakenOver(row, keep, other).paid = other.paid
        /\ TakenOver(row, keep, other).named = row.named
       
        /\ TakenOver(row, keep, other).password = row.password
        /\ TakenOver(row, keep, other).active = row.active
        /\ TakenOver(row, keep, other).parent \in {row.parent, NoUser}
        /\ TakenOver(row, keep, other).manager \in {row.manager, NoUser}
    BY <1>2, <2>1, TakenIs
  <2> QED
    BY <2>1, <2>2 DEF row, other
<1> HIDE DEF taken
<1>10. /\ kept \in [Users -> Row] /\ kept[keep] = taken
       /\ \A v \in Users \ {keep} : kept[v] = pointed[v]
  BY <1>2, <1>7, <1>9
<1>11. /\ users' \in [Users -> Row]
       /\ users'[drop].kind = "deleted" /\ users'[drop].address = NoUser
       /\ users'[drop].logins = {} /\ users'[drop].place = "none"
       /\ ~users'[drop].paid /\ ~users'[drop].named
       /\ users'[drop].parent = NoUser /\ users'[drop].manager = NoUser
       /\ \A v \in Users \ {drop} :
            /\ users'[v].kind = kept[v].kind /\ users'[v].address = kept[v].address
            /\ users'[v].logins = kept[v].logins /\ users'[v].place = kept[v].place
            /\ users'[v].paid = kept[v].paid /\ users'[v].named = kept[v].named
            /\ users'[v].password = kept[v].password
            /\ users'[v].active = kept[v].active
            /\ users'[v].parent = NotSelf(kept[v].parent, drop)
            /\ users'[v].manager = NotSelf(kept[v].manager, drop)
  BY <1>2, <1>4, <1>10, ErasedIs
<1>12. \A x, y : NotSelf(x, y) \in {x, NoUser}
  BY DEF NotSelf
<1>13. \A v \in Users \ {drop} :
         /\ users'[v].kind = users[v].kind /\ users'[v].address = users[v].address
         /\ users'[v].named = users[v].named
         /\ users'[v].password = users[v].password
         /\ users'[v].active = users[v].active
         /\ users'[v].parent \in {Renamed(users[v].parent, keep, drop), NoUser}
         /\ users'[v].manager \in {Renamed(users[v].manager, keep, drop), NoUser}
         /\ v # keep => /\ users'[v].logins = users[v].logins
                        /\ users'[v].place = users[v].place
                        /\ users'[v].paid = users[v].paid
  <2> TAKE v \in Users \ {drop}
  <2>1. CASE v = keep
    BY <1>2, <1>6, <1>9, <1>10, <1>11, <1>12, <2>1
  <2>2. CASE v # keep
    BY <1>6, <1>10, <1>11, <1>12, <2>2
  <2> QED
    BY <2>1, <2>2
<1>14. /\ users'[keep].logins = users[keep].logins \cup users[drop].logins
       /\ users'[keep].place = taken.place /\ users'[keep].paid = taken.paid
       /\ pointed[keep].place = users[keep].place /\ pointed[keep].paid = users[keep].paid
  BY <1>2, <1>6, <1>9, <1>10, <1>11
<1> QED
  BY <1>9, <1>11, <1>13, <1>14

LEMMA RepointedIs ==
    ASSUME NEW keep \in Users, NEW drop \in Users,
           NEW rows \in SUBSET [parent : Users, child : MaybeUser, address : MaybeUser]
    PROVE  Repointed(rows, keep, drop)
             \subseteq [parent : Users, child : MaybeUser, address : MaybeUser]
<1> DEFINE R == [parent : Users, child : MaybeUser, address : MaybeUser]
           moved == {[v EXCEPT !.parent = Renamed(@, keep, drop)] : v \in rows}
           parents == IF Cardinality(moved) = Cardinality(rows) THEN moved ELSE rows
           both == {[v EXCEPT !.child = Renamed(@, keep, drop)] : v \in parents}
<1>1. moved \subseteq R
  <2>1. ASSUME NEW v \in rows PROVE [v EXCEPT !.parent = Renamed(@, keep, drop)] \in R
    BY DEF Renamed
  <2> QED
    BY <2>1
<1>2. parents \subseteq R
  BY <1>1
<1>3. both \subseteq R
  <2>1. ASSUME NEW v \in parents PROVE [v EXCEPT !.child = Renamed(@, keep, drop)] \in R
    <3>1. v \in R
      BY <1>2
    <3> HIDE DEF parents
    <3> QED
      BY <3>1 DEF Renamed, MaybeUser
  <2> QED
    BY <2>1
<1>4. Repointed(rows, keep, drop) \in {both, parents}
  BY DEF Repointed
<1> QED
  BY <1>2, <1>3, <1>4

LEMMA MoveAllKeeps == ASSUME PInv, NEW h \in Handlers, MoveAll(h) PROVE PInv'
<1> PICK keep, drop : Moving(h, keep, drop)
  BY DEF MoveAll, Moving
<1>1. /\ job[h] # <<>> /\ ~Doing(h, "endSessions") /\ Typed /\ JobsSound
      /\ Doing(h, "move") /\ Then(h, <<>>) /\ Now(h).user = keep /\ Now(h).other = drop
  <2>1. Then(h, <<>>)
    BY DEF MoveAll
  <2> QED
    BY <2>1, HeadIs DEF PInv, Moving
<1>2. Calm({h}) /\ JobsSound' /\ Endings /\ Counters
  BY <1>1, ThenCalm
<1>3. /\ keep \in Users /\ drop \in Users /\ keep # drop
      /\ Real(users[keep]) /\ Real(users[drop])
      /\ ~Conflict(users[keep], users[drop]) \/ drop \in history.disturbed
  BY MovingIs DEF PInv
<1>4. NoUser \in MaybeUser /\ keep \in MaybeUser /\ keep # NoUser /\ drop # NoUser
  BY <1>3, ConstantsFit DEF MaybeUser
<1>5. users \in [Users -> Row] /\ history \in Excuses
  BY <1>1 DEF Typed
<1>6. /\ users' \in [Users -> Row]
      /\ users'[drop].kind = "deleted" /\ users'[drop].address = NoUser
      /\ users'[drop].logins = {} /\ users'[drop].place = "none"
      /\ ~users'[drop].paid /\ ~users'[drop].named
      /\ users'[drop].parent = NoUser /\ users'[drop].manager = NoUser
  BY MergedRows
<1>7. \A v \in Users \ {drop} :
        /\ users'[v].kind = users[v].kind /\ users'[v].address = users[v].address
        /\ users'[v].named = users[v].named
        /\ users'[v].password = users[v].password
        /\ users'[v].active = users[v].active
        /\ users'[v].parent \in {Renamed(users[v].parent, keep, drop), NoUser}
        /\ users'[v].manager \in {Renamed(users[v].manager, keep, drop), NoUser}
        /\ v # keep => /\ users'[v].logins = users[v].logins
                       /\ users'[v].place = users[v].place
                       /\ users'[v].paid = users[v].paid
  BY MergedRows
<1>8. /\ users'[keep].logins = users[keep].logins \cup users[drop].logins
      /\ \/ users'[keep].place = users[keep].place /\ users'[keep].paid = users[keep].paid
         \/ users'[keep].place = users[drop].place /\ users'[keep].paid = users[drop].paid
  BY MergedRows
<1>9. /\ codes' \in [Codes -> [manager : MaybeUser, max : Nat, used : Nat]]
      /\ \A c \in Codes :
           /\ codes'[c].max = codes[c].max /\ codes'[c].used = codes[c].used
           /\ codes[c].manager = drop => codes'[c].manager = keep
           /\ codes[c].manager # drop => codes'[c].manager = codes[c].manager
  BY ZenonT(60), <1>1, <1>4, CodesOfIs DEF MoveAll
<1>10. /\ sessions' \subseteq sessions /\ \A s \in sessions' : s.user \in Users \ {drop}
  BY <1>1 DEF MoveAll, SessionsOf, Typed
<1>11. /\ invitations' \in
             [Invitations -> [state : {"none", "sent"}, for : MaybeUser, by : MaybeUser,
                              address : MaybeUser, redeemed : BOOLEAN,
                              cancelled : BOOLEAN, made : SUBSET Users]]
       /\ \A i \in Invitations :
            /\ invitations'[i].state = invitations[i].state
            /\ (invitations'[i].for = NoUser) <=> (invitations[i].for = NoUser)
            /\ invitations'[i].redeemed = invitations[i].redeemed
            /\ invitations'[i].made = invitations[i].made
  <2> DEFINE I == [state : {"none", "sent"}, for : MaybeUser, by : MaybeUser,
                   address : MaybeUser, redeemed : BOOLEAN,
                   cancelled : BOOLEAN, made : SUBSET Users]
             new(v) == [v EXCEPT !.for = Renamed(@, keep, drop),
                                 !.by = Renamed(@, keep, drop)]
  <2>1. invitations \in [Invitations -> I]
    BY <1>1 DEF Typed
  <2>2. invitations' = [i \in Invitations |-> new(invitations[i])]
    BY <1>1 DEF MoveAll
  <2>3. ASSUME NEW v \in I
        PROVE  /\ new(v) \in I /\ new(v).state = v.state /\ new(v).redeemed = v.redeemed
               /\ new(v).made = v.made /\ (new(v).for = NoUser <=> v.for = NoUser)
    <3>1. /\ Renamed(v.for, keep, drop) \in MaybeUser
          /\ Renamed(v.by, keep, drop) \in MaybeUser
          /\ Renamed(v.for, keep, drop) = NoUser <=> v.for = NoUser
      BY <1>4 DEF Renamed
    <3> QED
      BY <3>1
  <2>4. ASSUME NEW i \in Invitations
        PROVE  invitations'[i] = new(invitations[i]) /\ invitations[i] \in I
    BY <2>1, <2>2
  <2> HIDE DEF I, new
  <2>5. invitations' \in [Invitations -> I]
    BY <2>2, <2>3, <2>4
  <2>6. invitations' \in
             [Invitations -> [state : {"none", "sent"}, for : MaybeUser, by : MaybeUser,
                              address : MaybeUser, redeemed : BOOLEAN,
                              cancelled : BOOLEAN, made : SUBSET Users]]
    BY <2>5 DEF I
  <2> QED
    BY <2>3, <2>4, <2>6
<1>12. invites' \subseteq [parent : Users, child : MaybeUser, address : MaybeUser]
  <2>1. invites \in SUBSET [parent : Users, child : MaybeUser, address : MaybeUser]
    BY <1>1 DEF Typed
  <2>2. invites' \subseteq Repointed(invites, keep, drop)
    BY <1>1 DEF MoveAll
  <2> QED
    BY <1>3, <2>1, <2>2, RepointedIs
<1>13. /\ history' \in Excuses /\ HistoryGrows /\ keep \in history'.merged
       /\ history'.joined = history.joined /\ MergeLosesNothing'
  <2> DEFINE more == When(/\ users[keep].place # "none"
                          /\ users[drop].place = "open" \/ users[drop].paid, {drop})
  <2>1. history' = [history EXCEPT !.merged = @ \cup {keep}, !.lost = @ \cup more]
    BY <1>1 DEF MoveAll
  <2>2. more \subseteq Users /\ more \subseteq history.disturbed
    <3>1. users[drop].paid => users[drop].place # "none"
      BY <1>3 DEF PInv, PlacesFit
    <3> QED
      BY <1>3, <3>1 DEF When, Conflict
  <2> HIDE DEF more
  <2> QED
    BY <1>3, <1>5, <2>1, <2>2 DEF Excuses, HistoryGrows, PInv, MergeLosesNothing
<1>14. SameCounts
  BY <1>9, <1>13 DEF SameCounts
<1>15. Typed'
  BY <1>1, <1>2, <1>6, <1>9, <1>10, <1>11, <1>12, <1>13 DEF Typed, Counters
<1>16. Unique'
  <2>1. \A v \in Users \ {drop} : users'[v].address = users[v].address
    BY <1>7
  <2>2. \A v \in Users \ {drop, keep} : users'[v].logins = users[v].logins
    BY <1>7
  <2>3. \A v, w \in Users :
           v # w /\ users'[v].address = users'[w].address => users'[v].address = NoUser
    BY <1>6, <2>1 DEF PInv, Unique
  <2>4. \A v, w \in Users : v # w => users'[v].logins \cap users'[w].logins = {}
    BY <1>3, <1>6, <1>8, <2>2 DEF PInv, Unique
  <2> QED
    BY <2>3, <2>4 DEF Unique
<1>17. NewAreFree'
  <2>1. \A g \in Handlers : \A n \in NewOf(g) : n \in Users \ {drop} /\ users[n].kind = "free"
    BY <1>3, NewTyped DEF PInv, Real
  <2>2. \A g \in Handlers \ {h} : \A n \in NewOf(g) : users'[n].kind = "free"
    BY <1>7, <2>1
  <2> QED
    BY <1>2, <1>11, <2>2, NewStays DEF PInv
<1>18. MovesFit'
  <2>1. ASSUME NEW g \in Handlers \ {h}, NEW k \in Users, NEW d \in Users, Moving(g, k, d)
        PROVE  {k, d} \cap {keep, drop} = {} /\ Real(users[k]) /\ Real(users[d])
    BY <1>1, <2>1, MovingIs DEF PInv, MovesFit, Moving
  <2>2. ASSUME NEW g \in Handlers \ {h}, NEW k \in Users, NEW d \in Users, Moving(g, k, d)
        PROVE  /\ Real(users'[k]) /\ Real(users'[d])
               /\ Conflict(users'[k], users'[d]) => Conflict(users[k], users[d])
    <3>1. {k, d} \cap {keep, drop} = {} /\ Real(users[k]) /\ Real(users[d])
      BY <2>1, <2>2
    <3>2. \A v \in {k, d} : /\ users'[v].kind = users[v].kind
                           /\ users'[v].place = users[v].place
                           /\ users'[v].paid = users[v].paid
      BY <1>7, <3>1
    <3> QED
      BY <3>1, <3>2 DEF Real, Conflict
  <2> QED
    BY <1>2, <1>13, <2>2, MovesStay DEF PInv, HistoryGrows
<1>19. PlacesFit'
  BY <1>3, <1>6, <1>7, <1>8 DEF PInv, PlacesFit
<1>20. KeysFit'
  <2>1. \A v : v # drop /\ Exists(v) => Exists(v)'
    BY <1>7 DEF Exists
  <2>2. Exists(keep)'
    BY <1>3, <2>1 DEF Exists, Real
  <2>3. \A v \in Users : \A x \in {users'[v].parent, users'[v].manager} :
          x # NoUser => x = keep \/ (x # drop /\ x \in {users[v].parent, users[v].manager})
    BY <1>6, <1>7 DEF Renamed
  <2>4. \A v \in Users : \A x \in {users'[v].parent, users'[v].manager} :
          x # NoUser => Exists(x)'
    BY <2>1, <2>2, <2>3 DEF PInv, KeysFit
  <2>5. (\A c \in Codes : codes[c].manager # NoUser => Exists(codes[c].manager))'
    BY <1>9, <2>1, <2>2 DEF PInv, KeysFit
  <2>6. \A s \in sessions' : Exists(s.user)'
    BY <1>10, <2>1 DEF PInv, KeysFit
  <2> QED
    BY <2>4, <2>5, <2>6 DEF KeysFit
<1>21. InvitationsFit'
  <2>1. \A k \in Handlers : Doing(k, "activate")' =>
          k \notin {h} /\ Doing(k, "activate") /\ Now(k)' = Now(k)
    BY <1>2, HeadStays DEF Acting
  <2>2. \A k \in Handlers : Doing(k, "activate") => Now(k).item \in Invitations
    BY HeadIs DEF SoundStep
  <2>3. \A k \in Handlers : Doing(k, "activate")' =>
          invitations'[Now(k)'.item].state = "sent"
    BY <1>11, <2>1, <2>2 DEF PInv, InvitationsFit
  <2>4. \A k \in Invitations : /\ ~invitations'[k].redeemed => Made(k)' = {}
                               /\ Made(k)' = {} \/ \E v \in Users : Made(k)' = {v}
    BY <1>11 DEF PInv, InvitationsFit, Made
  <2> QED
    BY <2>3, <2>4 DEF InvitationsFit
<1>22. SessionsFit'
  <2>1. \A v : Ending(v) => Ending(v)'
    BY <1>2, EndingsAre
  <2> QED
    BY <1>7, <1>10, <1>13, <2>1 DEF PInv, SessionsFit, HistoryGrows
<1>23. GroupsAreFlat'
  <2> SUFFICES ASSUME NEW w \in Users,
                      w \notin history'.merged \cup history'.below \cup history'.overtaken,
                      users'[w].parent # NoUser
               PROVE  /\ ~users'[w].named
                      /\ \A x \in Users : w \notin {users'[x].parent, users'[x].manager}
                      /\ \A c \in Codes : codes'[c].manager # w
    BY DEF GroupsAreFlat
  <2>1. w # drop /\ w # keep
    BY <1>6, <1>13
  <2>2. w # NoUser /\ users[w].parent # NoUser
    <3>1. users'[w].parent = Renamed(users[w].parent, keep, drop)
      BY <1>7, <2>1
    <3> QED
      BY <1>4, <3>1, ConstantsFit DEF Renamed
  <2>3. w \notin history.merged \cup history.below \cup history.overtaken
    BY <1>13 DEF HistoryGrows
  <2>4. /\ ~users[w].named
        /\ \A x \in Users : w \notin {users[x].parent, users[x].manager}
        /\ \A c \in Codes : codes[c].manager # w
    BY <2>2, <2>3 DEF PInv, GroupsAreFlat
  <2>5. \A x \in Users : w \notin {users'[x].parent, users'[x].manager}
    BY <1>6, <1>7, <2>1, <2>2, <2>4 DEF Renamed
  <2>6. \A c \in Codes : codes'[c].manager # w
    BY <1>9, <2>1, <2>4
  <2> QED
    BY <1>7, <2>1, <2>4, <2>5, <2>6
<1> QED
  BY <1>2, <1>13, <1>14, <1>15, <1>16, <1>17, <1>18, <1>19, <1>20, <1>21, <1>22, <1>23,
     Carries
  DEF PInv

-----------------------------------------------------------------------------
(* The theorems *)

LEMMA StutterKeeps == ASSUME PInv, UNCHANGED pvars PROVE PInv'
<1>1. /\ UNCHANGED <<users, sessions, invitations, invites, codes>>
      /\ history' = history /\ job' = job
      /\ requests' = requests /\ faults' = faults /\ ops' = ops
  BY DEF pvars
<1>2. Typed /\ JobsSound
  BY DEF PInv
<1>3. Calm({}) /\ JobsSound' /\ Endings /\ Counters
  BY <1>1, <1>2 DEF Calm, JobsSound, Endings, Counters, Typed, Doing, Now
<1>4. history' \in Excuses /\ HistoryGrows
  BY <1>1, <1>2 DEF Typed, HistoryGrows
<1> QED
  BY <1>1, <1>3, <1>4, PastKeeps

LEMMA AccountIs ==
    ASSUME NEW a \in MaybeUser, NEW password \in Nat
    PROVE  /\ Account(a, password) \in Row /\ Account(a, password).address = a
           /\ Account(a, password).logins = {} /\ Account(a, password).parent = NoUser
           /\ Account(a, password).manager = NoUser /\ ~Account(a, password).paid
           /\ Account(a, password).place = "none"
BY DEF Account, Row, MaybeUser
LEMMA GuestIs ==
    ASSUME NEW a \in MaybeUser
    PROVE  /\ Guest(a) \in Row /\ Guest(a).address = a
           /\ Guest(a).logins = {} /\ Guest(a).parent = NoUser
           /\ Guest(a).manager = NoUser /\ ~Guest(a).paid /\ Guest(a).place = "none"
<1> DEFINE r == Account(a, 0)
<1>1. /\ r \in Row /\ r.address = a /\ r.logins = {} /\ r.parent = NoUser
      /\ r.manager = NoUser /\ ~r.paid /\ r.place = "none"
  BY AccountIs
<1>2. Guest(a) = [r EXCEPT !.kind = "guest", !.verified = FALSE]
  BY DEF Guest
<1> HIDE DEF r
<1> QED
  BY <1>1, <1>2 DEF Row
LEMMA InitFits == Init => PInv
<1> SUFFICES ASSUME Init PROVE PInv
  OBVIOUS
<1> DEFINE P == IF "place" \in ops THEN Places ELSE {<<"none", FALSE>>}
<1>1. PICK place \in [Members -> P] :
        users = [u \in Users |->
            IF u \in Members
            THEN [Account(u, 1) EXCEPT !.place = place[u][1], !.paid = place[u][2],
                                       !.files = IF "files" \in ops THEN 2 ELSE 0]
            ELSE IF u \in Guests THEN Guest(u)
            ELSE [Guest(NoUser) EXCEPT !.kind = "free"]]
  BY DEF Init
<1>2. \A u \in Members : /\ place[u][1] \in {"none", "open", "cancelled"}
                         /\ place[u][2] \in BOOLEAN
                         /\ place[u][1] = "none" => ~place[u][2]
  <2>1. ASSUME NEW x \in Places
        PROVE  /\ x[1] \in {"none", "open", "cancelled"} /\ x[2] \in BOOLEAN
               /\ x[1] = "none" => ~x[2]
    <3>1. \A a, b : <<a, b>>[1] = a /\ <<a, b>>[2] = b
      OBVIOUS
    <3>2. PICK a \in {"none", "open", "cancelled"}, b \in BOOLEAN :
            x = <<a, b>> /\ (a = "none" => ~b)
      BY DEF Places
    <3>3. x[1] = a /\ x[2] = b
      BY <3>1, <3>2
    <3> QED
      BY <3>2, <3>3
  <2>2. P \subseteq Places
    BY DEF Places
  <2>3. \A u \in Members : place[u] \in P
    OBVIOUS
  <2> QED
    BY <2>1, <2>2, <2>3
<1>3. ASSUME NEW u \in Users
      PROVE  /\ users[u] \in Row /\ users[u].address \in {u, NoUser}
             /\ users[u].logins = {} /\ users[u].parent = NoUser
             /\ users[u].manager = NoUser
             /\ users[u].place = "none" => ~users[u].paid
  <2>1. CASE u \in Members
    <3> DEFINE pl == place[u][1]
               pd == place[u][2]
               fs == IF "files" \in ops THEN 2 ELSE 0
    <3>1. /\ pl \in {"none", "open", "cancelled"} /\ pd \in BOOLEAN /\ fs \in Nat
          /\ pl = "none" => ~pd
      BY <1>2, <2>1
    <3>2. users[u] = [Account(u, 1) EXCEPT !.place = pl, !.paid = pd, !.files = fs]
      BY <1>1, <2>1
    <3>3. u \in MaybeUser /\ 1 \in Nat
      BY DEF MaybeUser
    <3> DEFINE r == Account(u, 1)
    <3>5. /\ r \in Row /\ r.address = u /\ r.logins = {} /\ r.parent = NoUser
          /\ r.manager = NoUser /\ users[u] = [r EXCEPT !.place = pl, !.paid = pd, !.files = fs]
      BY <3>2, <3>3, AccountIs
    <3> HIDE DEF pl, pd, fs, r
    <3>4. /\ users[u] \in Row /\ users[u].address = u /\ users[u].place = pl
          /\ users[u].paid = pd /\ users[u].logins = {} /\ users[u].parent = NoUser
          /\ users[u].manager = NoUser
      BY <3>1, <3>5 DEF Row
    <3> QED
      BY <3>1, <3>4
  <2>2. CASE u \notin Members /\ u \in Guests
    <3>1. users[u] = Guest(u)
      BY <1>1, <2>2
    <3> QED
      BY <3>1, GuestIs DEF MaybeUser
  <2>3. CASE u \notin Members /\ u \notin Guests
    <3>1. users[u] = [Guest(NoUser) EXCEPT !.kind = "free"]
      BY <1>1, <2>3
    <3> QED
      BY <3>1, GuestIs DEF MaybeUser, Row
  <2> QED
    BY <2>1, <2>2, <2>3
<1>4. \A h \in Handlers : job[h] = <<>>
  BY DEF Init
<1>5. \A h \in Handlers : \A what : ~Doing(h, what)
  BY <1>4 DEF Doing, Idle
<1>6. /\ sessions = {} /\ invites = {}
      /\ \A c \in Codes : codes[c] = [manager |-> NoUser, max |-> 0, used |-> 0]
      /\ history = [interrupted |-> {}, overtaken |-> {}, merged |-> {}, below |-> {},
                    disturbed |-> {}, lost |-> {}, joined |-> [c \in Codes |-> 0]]
  BY DEF Init
<1>7. Typed
  <2>1. users \in [Users -> Row]
    BY <1>1, <1>3
  <2>2. invitations \in
         [Invitations -> [state : {"none", "sent"}, for : MaybeUser, by : MaybeUser,
                          address : MaybeUser, redeemed : BOOLEAN,
                          cancelled : BOOLEAN, made : SUBSET Users]]
    BY DEF Init, Invitation, MaybeUser
  <2>3. codes \in [Codes -> [manager : MaybeUser, max : Nat, used : Nat]]
    BY DEF Init, MaybeUser
  <2>4. history \in Excuses
    BY <1>6 DEF Excuses
  <2>5. requests \in 0..MaxRequests /\ faults \in 0..MaxFaults /\ ops \in Scenarios
    <3>1. requests = 0 /\ faults = 0 /\ ops \in Scenarios
      BY DEF Init
    <3> QED
      BY <3>1, ConstantsFit
  <2> QED
    BY <1>6, <2>1, <2>2, <2>3, <2>4, <2>5 DEF Typed
<1>8. JobsSound
  <2>1. job \in [Handlers -> Seq(SoundStep)]
    BY EmptyJob DEF Init
  <2> QED
    BY <1>4, <2>1, EmptyJob DEF JobsSound
<1>9. Unique
  BY <1>3, ConstantsFit DEF Unique
<1>10. NewAreFree /\ RedeemsFit /\ MovesFit
  BY <1>4, <1>5 DEF NewAreFree, NewOf, RedeemsFit, MovesFit
<1>11. PlacesFit /\ KeysFit
  BY <1>3, <1>6 DEF PlacesFit, KeysFit
<1>12. InvitationsFit
  <2>1. \A i \in Invitations : invitations[i].made = {}
    BY DEF Init, Invitation
  <2> QED
    BY <1>5, <2>1 DEF InvitationsFit, Made
<1>13. SessionsFit
  BY <1>6 DEF SessionsFit
<1>14. GroupsAreFlat /\ CodesAreLimited /\ MergeLosesNothing
  BY <1>3, <1>6 DEF GroupsAreFlat, CodesAreLimited, MergeLosesNothing
<1> QED
  BY <1>7, <1>8, <1>9, <1>10, <1>11, <1>12, <1>13, <1>14 DEF PInv

LEMMA NextKeeps == PInv /\ [Next]_pvars => PInv'
<1> SUFFICES ASSUME PInv, [Next]_pvars PROVE PInv'
  OBVIOUS
<1>1. CASE UNCHANGED pvars
  BY <1>1, StutterKeeps
<1>2. ASSUME NEW h \in Handlers, Proceed(h) PROVE PInv'
  BY <1>2, OpenSessionKeeps, InsertAccountKeeps, SetPasswordKeeps, EndSessionsKeeps,
     SetAddressKeeps, InsertFileKeeps, CancelPlaceKeeps, LinkKeeps, InsertInvitationKeeps,
     BulkDeactivateKeeps, BulkReactivateKeeps, BulkPlayGroupKeeps, DeleteRowKeeps,
     MoveAllKeeps, ActivateKeeps, SetGroupNameKeeps, CreateJoinCodeKeeps,
     CreateManagedPersonKeeps, ClaimPersonKeeps, JoinGroupKeeps, JoinByCodeKeeps,
     InsertMemberKeeps
  DEF Proceed
<1>3. ASSUME NEW h \in Handlers, Accounts(h) PROVE PInv'
  <2> PICK u \in Users :
        \/ Login(h, u) \/ OAuthLogin(h, u) \/ ResetPassword(h, u) \/ Verify(u)
        \/ Deactivate(h, u) \/ Reactivate(u) \/ Delete(h, u)
        \/ \E v \in Users : Register(h, u, v) \/ ChangeEmail(h, u, v)
                           \/ Merge(h, u, v) \/ Bulk(h, u, v)
        \/ TakePlace(u) \/ Withdraw(u) \/ Reinstate(u) \/ Pay(u)
        \/ UploadFile(h, u) \/ SetPortrait(u) \/ DeleteFile(u)
    BY <1>3 DEF Accounts
  <2>1. CASE Login(h, u) \/ OAuthLogin(h, u) \/ ResetPassword(h, u) \/ Verify(u)
    BY <2>1, LoginKeeps, OAuthKeeps, ResetKeeps, VerifyKeeps
  <2>2. CASE Deactivate(h, u) \/ Reactivate(u) \/ Delete(h, u)
    BY <2>2, DeactivateKeeps, VerifyKeeps, DeleteKeeps
  <2>3. ASSUME NEW v \in Users,
               Register(h, u, v) \/ ChangeEmail(h, u, v) \/ Merge(h, u, v) \/ Bulk(h, u, v)
        PROVE  PInv'
    BY <2>3, RegisterKeeps, ChangeEmailKeeps, MergeKeeps, BulkKeeps
  <2>4. CASE TakePlace(u) \/ Withdraw(u) \/ Reinstate(u) \/ Pay(u)
    BY <2>4, PlacesKeep
  <2>5. CASE UploadFile(h, u) \/ SetPortrait(u) \/ DeleteFile(u)
    BY <2>5, UploadKeeps, FilesKeep
  <2> QED
    BY <2>1, <2>2, <2>3, <2>4, <2>5
<1>4. ASSUME NEW h \in Handlers, Inviting(h) PROVE PInv'
  <2> PICK i \in Invitations :
        \/ \E a \in MaybeUser : Invite(h, i, a)
        \/ \E g \in Users, by \in MaybeUser : Convert(h, i, g, by)
        \/ CancelInvitation(i)
        \/ \E a \in Users : Import(h, a)
        \/ \E u, a \in Users : Redeem(h, i, u, a) \/ ActivateDirectly(h, i, u)
    BY <1>4 DEF Inviting
  <2>1. ASSUME NEW a \in MaybeUser, Invite(h, i, a) PROVE PInv'
    BY <2>1, InviteKeeps
  <2>2. ASSUME NEW g \in Users, NEW by \in MaybeUser, Convert(h, i, g, by) PROVE PInv'
    BY <2>2, ConvertKeeps
  <2>3. CASE CancelInvitation(i)
    BY <2>3, CancelInvitationKeeps
  <2>4. ASSUME NEW a \in Users, Import(h, a) PROVE PInv'
    BY <2>4, ImportKeeps
  <2>5. ASSUME NEW u \in Users, NEW a \in Users,
               Redeem(h, i, u, a) \/ ActivateDirectly(h, i, u)
        PROVE  PInv'
    BY <2>5, RedeemKeeps, ActivateDirectlyKeeps
  <2> QED
    BY <2>1, <2>2, <2>3, <2>4, <2>5
<1>5. ASSUME NEW h \in Handlers, Grouping(h) PROVE PInv'
  <2>1. ASSUME NEW u \in Users, AskName(h, u) \/ Leave(u) \/ ReleasePerson(u) PROVE PInv'
    <3>1. 1 \in 1..2
      OBVIOUS
    <3> QED
      BY <2>1, <3>1, AskKeeps, LeavingKeeps
  <2>2. ASSUME NEW u \in Users, NEW max \in 1..2, AskCode(h, u, max) PROVE PInv'
    BY <2>2, AskKeeps
  <2>3. ASSUME NEW u \in Users, NEW v \in Users, AskPerson(h, u, v) \/ AskClaim(h, u, v)
        PROVE  PInv'
    <3>1. 1 \in 1..2
      OBVIOUS
    <3> QED
      BY <2>3, <3>1, AskKeeps
  <2>4. ASSUME NEW u \in Users, NEW v \in Users,
               InviteById(u, v) \/ InviteNewPerson(u, v) \/ SetPlayGroup(h, u, v)
        PROVE  PInv'
    BY <2>4, InvitingKeeps, SetPlayGroupKeeps
  <2>5. ASSUME NEW u \in Users, NEW c \in Codes,
               RedeemJoinCode(h, u, c) \/ DeleteJoinCode(c)
        PROVE  PInv'
    BY <2>5, RedeemJoinCodeKeeps, DeleteJoinCodeKeeps
  <2>6. ASSUME NEW v \in invites, AcceptInvitation(h, v) \/ RemoveInvite(v) PROVE PInv'
    <3>1. v.parent \in Users
      BY DEF PInv, Typed
    <3> QED
      BY <2>6, <3>1, AcceptInvitationKeeps, InvitingKeeps
  <2>7. ASSUME NEW v \in invites, NEW n \in Users, SignUp(h, v, n) PROVE PInv'
    BY <2>7, SignUpKeeps
  <2> QED
    BY <1>5, <2>1, <2>2, <2>3, <2>4, <2>5, <2>6, <2>7 DEF Grouping
<1>6. ASSUME NEW h \in Handlers, Restart(h) PROVE PInv'
  BY <1>6, RestartKeeps
<1>7. ASSUME NEW s \in sessions, Logout(s) PROVE PInv'
  BY <1>7, LogoutKeeps
<1> QED
  BY <1>1, <1>2, <1>3, <1>4, <1>5, <1>6, <1>7 DEF Next

\* The invariant behind the others: types, unique addresses and logins, foreign keys; what
\* a request that has read may still count on when it writes (the row it will make is free,
\* the code it redeems counts for one more, whom it merges exists); who is still logged in.
THEOREM PInvariant == Spec => []PInv
<1>1. Init => PInv
  BY InitFits
<1>2. PInv /\ [Next]_pvars => PInv'
  BY NextKeeps
<1> QED
  BY <1>1, <1>2, PTL DEF Spec

\* No two accounts have the same e-mail address or the same provider's account, whatever
\* registers, signs up, changes its address, is imported or merged at the same time.
THEOREM TypeCorrect == Spec => []TypeOK
<1>1. PInv => TypeOK
  <2> SUFFICES ASSUME PInv PROVE TypeOK
    OBVIOUS
  <2>1. Typed /\ JobsSound /\ Unique
    BY DEF PInv
  <2>2. job \in [Handlers -> Seq(Step)]
    <3>1. \A h \in Handlers : job[h] \in Seq(Step)
      <4> TAKE h \in Handlers
      <4>1. job[h] \in Seq(SoundStep)
        BY <2>1 DEF JobsSound
      <4>2. SoundStep \subseteq Step
        BY DEF SoundStep
      <4> QED
        BY <4>1, <4>2
    <3> QED
      BY <2>1, <3>1 DEF JobsSound
  <2> QED
    BY <2>1, <2>2 DEF TypeOK, Typed, Unique
<1> QED
  BY <1>1, PInvariant, PTL

\* Who was logged in before a password was reset or an account deactivated is logged out,
\* except by a login that had read the row before, until the sessions are ended, and if a
\* restart comes before that (password-reset/confirm, deactivateMember, activate).
THEOREM OldPasswordCorrect == Spec => []OldPasswordIsOut
<1>1. PInv => OldPasswordIsOut
  <2> SUFFICES ASSUME PInv, NEW s \in sessions, Ending(s.user)
               PROVE  \E step \in Running : step.do = "endSessions" /\ step.user = s.user
    BY DEF PInv, SessionsFit, OldPasswordIsOut
  <2>1. PICK h \in Handlers : Doing(h, "endSessions") /\ Now(h).user = s.user
    BY DEF Ending
  <2>2. job[h] # <<>> /\ Now(h).do = "endSessions"
    BY <2>1 DEF Doing, Now
  <2>3. Now(h) \in Running
    BY <2>2, NowRuns DEF PInv
  <2> QED
    BY <2>1, <2>2, <2>3
<1> QED
  BY <1>1, PInvariant, PTL

\* Who belongs to a group leads none, except where a merge, a sign-up by mail or a request
\* that came between check and write made it so (groupTree: "groups are flat").
THEOREM GroupsFlatCorrect == Spec => []GroupsAreFlat
<1>1. PInv => GroupsAreFlat
  BY DEF PInv
<1> QED
  BY <1>1, PInvariant, PTL

\* However many redeem a join code at the same time, no more join than it was made for.
THEOREM CodesLimitedCorrect == Spec => []CodesAreLimited
<1>1. PInv => CodesAreLimited
  BY DEF PInv
<1> QED
  BY <1>1, PInvariant, PTL

\* However often an invitation is redeemed or activated, it makes one account at most.
THEOREM InvitedOnceCorrect == Spec => []InvitedOnce
<1>1. PInv => InvitedOnce
  <2> SUFFICES ASSUME PInv, NEW i \in Invitations
               PROVE  Cardinality(invitations[i].made) <= 1
    BY DEF InvitedOnce
  <2>1. Made(i) = {} \/ \E u \in Users : Made(i) = {u}
    BY DEF PInv, InvitationsFit
  <2> QED
    BY <2>1, FS_EmptySet, FS_Singleton DEF Made
<1> QED
  BY <1>1, PInvariant, PTL

\* A merge loses only what came or was paid after its comparison (findConflicts).
THEOREM MergeCorrect == Spec => []MergeLosesNothing
<1>1. PInv => MergeLosesNothing
  BY DEF PInv
<1> QED
  BY <1>1, PInvariant, PTL

=============================================================================
