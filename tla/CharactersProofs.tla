--------------------------- MODULE CharactersProofs ---------------------------
(* Theorems about Characters, for all sets of characters, events, files and     *)
(* handlers, for every quota and for every set of scenarios.                    *)
EXTENDS Characters, FiniteSetTheorems, SequenceTheorems, TLAPS

-----------------------------------------------------------------------------
(* What every reachable state satisfies. *)

SheetWork == {"save", "write", "review"}
PlaceWork == {"book", "role", "link", "deleteChar"}
FileWork == {"upload", "insertFile", "dropRow", "remove", "copy", "point"}
TalkWork == {"say", "show", "mark"}
Arrival == {"upload", "insertFile"}
Handling == {"dropRow", "remove", "copy", "point"}
Lone == SheetWork \cup PlaceWork \cup Arrival

\* A recorded change is one of each field, and changes it.
Single(changes) ==
    /\ \A ch, d \in changes : ch.field = d.field => ch = d
    /\ \A ch \in changes : ch.from # ch.to
\* What Save has worked out.
Written(s) ==
    /\ s.changes = Diff(s.base, s.form)
    /\ s.by = "manager" => \A f \in Fields \ {"group"} : s.form[f] = s.base[f]
    /\ s.char = Account =>
         \A f \in Fields : s.form[f] = IF f \in s.touched THEN s.n ELSE s.base[f]
    /\ ~IsElevated(s.by) => s.form["secret"] = s.base["secret"]
    /\ IsElevated(s.by) /\ "secret" \in s.touched => s.form["secret"] = s.n
\* The statements that requests are made of...
SoundStep ==
    {s \in Step :
        /\ s.do \in SheetWork => s.char \in SheetIds
        /\ s.do \in {"save", "write"} =>
             /\ s.char = Account => s.touched \cap {"secret", "name"} = {}
             /\ s.by = "manager" => s.touched = {"group"}
        /\ s.do = "write" => Written(s)
        /\ s.do = "review" => Single(s.changes)
        /\ s.do \in {"book", "role", "link"} =>
             /\ s.event \in Events /\ s.place.role # "none"
             /\ s.place.char # NoChar => s.place.role \in {"sc", "nsc"}
        /\ s.do = "link" => s.place.role = s.was.role
        /\ s.do \in Arrival \cup {"deleteChar"} => s.char \in Characters
        /\ s.do \in TalkWork => s.event \in Events
        /\ s.do \in {"copy", "point"} => s.to # s.spot.backend}
\* ... and in which order they come in one.
OneKind(q) ==
    \E work \in {SheetWork, PlaceWork, FileWork, TalkWork} :
        \A i \in DOMAIN q : q[i].do \in work
Plan(q) ==
    /\ OneKind(q)
    /\ \A i \in DOMAIN q : q[i].do \in Lone => Len(q) = 1
    /\ \A i \in DOMAIN q : q[i].do = "mark" /\ i > 1 =>
         q[i - 1].do = "show" /\ q[i - 1].event = q[i].event /\ q[i - 1].side = q[i].side
    /\ \A i \in DOMAIN q : q[i].do \in {"dropRow", "point"} =>
         i = 1 /\ Len(q) > 1 /\ q[2].do = "remove" /\ q[2].spot = q[1].spot
    /\ \A i \in DOMAIN q : q[i].do = "remove" =>
         i = 1 \/ (i = 2 /\ q[1].do \in {"dropRow", "point"})
    /\ \A i, j \in DOMAIN q :
         i < j /\ q[i].do \in Handling /\ q[j].do \in Handling
           /\ q[i].spot.file = q[j].spot.file
         => i = 1 /\ j = 2 /\ q[1].do \in {"dropRow", "point"}
JobsSound == job \in [Handlers -> Seq(SoundStep)] /\ \A h \in Handlers : Plan(job[h])
Typed == TypeOK /\ IsFiniteSet(files)

\* The number of a request that is still to write is nowhere but in what it sends.
Before(t, n) ==
    /\ t.do \in {"save", "write"} => t.n # n /\ \A f \in Fields : t.form[f] # n
    /\ t.do = "write" => \A f \in Fields : t.base[f] # n
    /\ t.do = "review" => \A ch \in t.changes : ch.from # n
Unseen(gs, n) ==
    /\ n \notin history.strangers
    /\ \A c \in SheetIds, f \in Fields : sheets[c][f] # n
    /\ \A r \in reviews : \A ch \in r.changes : ch.from # n
    /\ \A g \in gs : \A t \in Steps(g) : Before(t, n)
NumbersFresh ==
    /\ \A h \in Handlers : \A s \in Steps(h) : s.do \in {"save", "write"} =>
         /\ s.n \in 1..requests /\ Unseen(Handlers \ {h}, s.n)
         /\ s.do = "write" => \A f \in Fields : s.base[f] # s.n
    /\ \A n \in Nat : n > requests => Unseen(Handlers, n)
\* The owner has it before them, or will have, that somebody wrote v.
Concerning(changes, f, v) == \E ch \in changes : ch.field = f /\ ch.to = v
ToJudge(c, f, v) ==
    \/ \E r \in reviews : r.char = c /\ Concerning(r.changes, f, v)
    \/ \E s \in Running : s.do = "review" /\ s.char = c /\ Concerning(s.changes, f, v)
Covered(c, f, v) ==
    v \in history.strangers /\ <<c, f, v>> \notin history.accepted => ToJudge(c, f, v)
Undisturbed ==
    (exists \cup {Account}) \ (history.overtaken \cup history.tangled \cup history.interrupted)
\* This holds of what stands on a sheet, and of what a rejection would put back there.
Covers ==
    \A c \in Undisturbed :
        /\ \A f \in Shown : Covered(c, f, sheets[c][f])
        /\ \A r \in reviews : r.char = c => \A ch \in r.changes : Covered(c, ch.field, ch.from)
        /\ \A s \in Running : s.do = "review" /\ s.char = c =>
             \A ch \in s.changes : Covered(c, ch.field, ch.from)
\* A character whose sheet is blank has not been created yet, and nothing is known of it.
Unborn(c) ==
    /\ c \notin exists /\ \A r \in reviews : r.char # c
    /\ \A s \in Running : s.do \in SheetWork => s.char # c
Born ==
    \A c \in Characters \ Given :
        /\ sheets[c]["name"] = 0 => Unborn(c)
        /\ \A r \in reviews : r.char = c =>
             \A ch \in r.changes : ch.field = "name" => ch.from # 0
        /\ \A s \in Running : s.char = c =>
             /\ s.do \in {"save", "write"} => s.form["name"] # 0
             /\ s.do = "write" => s.base["name"] # 0
             /\ s.do = "review" => \A ch \in s.changes : ch.field = "name" => ch.from # 0
SheetInv ==
    /\ \A r \in reviews : Single(r.changes)
    /\ NumbersFresh /\ Covers /\ Born /\ SecretIsStaffs

\* A request that checked that a character is free will find it so, or knows of the race.
StillFree ==
    \A s \in Running :
        /\ s.do \in {"book", "role", "link"} /\ s.place.role = "sc"
        /\ s.place.char \notin history.raced \cup {NoChar}
        => ~BookedElsewhere(s.place.char, s.event)
Warned ==
    \A s \in Running : s.do = "deleteChar" =>
        \A e \in Events : places[e].char = s.char =>
            e \in history.relinked \/ (s.forced /\ e \in s.warned)
LinkInv == StillFree /\ Warned /\ LinksAreSound

\* A thread is marked as read after it was shown.
ShownBefore ==
    \A h \in Handlers : Doing(h, "mark") =>
        \A m \in MessagesOf({Now(h).event}) :
            m.side # Now(h).side => m.shown \/ m.n \in history.late
TalkInv == ShownBefore /\ ReadMeansShown

\* Nobody else is at a file that is still arriving...
Arriving ==
    \A h \in Handlers : \A s \in Steps(h) : s.do \in Arrival =>
        /\ \A f \in files : f.spot.file # s.spot.file
        /\ s.do = "upload" => \A x \in store : x.file # s.spot.file
        /\ s.do = "insertFile" => s.spot \in store
        /\ \A g \in Handlers : \A t \in Steps(g) :
             /\ ~Handles(t, s.spot.file)
             /\ g # h /\ t.do \in Arrival => t.spot.file # s.spot.file
\* ... and there is room for it.
Room ==
    \A s \in Running : s.do \in Arrival /\ s.char \notin history.crowded => HasRoom(s.char)
\* The row that a request read is still as it was, unless two were at it.
RowsStand ==
    \A s \in Running :
        /\ s.do \in {"dropRow", "copy", "point"}
        /\ s.spot.file \notin history.mixed \cup history.left
        => \E f \in files : f.spot = s.spot
\* Where bytes are about to be removed, no row says that they are.
Gone ==
    \A h \in Handlers : Doing(h, "remove") /\ Now(h).spot.file \notin history.mixed =>
        \A f \in files : f.spot # Now(h).spot
Copied ==
    \A h \in Handlers : Doing(h, "point") /\ Now(h).spot.file \notin history.mixed =>
        NewSpot(Now(h)) \in store
\* Who answers for bytes that are stored: a row, or a request that is about to add one
\* or to remove them.
Hers(h, x) ==
    \/ Doing(h, "point") /\ NewSpot(Now(h)) = x
    \/ (Doing(h, "remove") \/ Doing(h, "insertFile")) /\ Now(h).spot = x
Named(x) == (\E f \in files : f.spot = x) \/ \E h \in Handlers : Hers(h, x)
AllNamed == \A x \in store : x.file \notin history.mixed \cup history.left => Named(x)
FileInv == Arriving /\ Room /\ RowsStand /\ Gone /\ Copied /\ AllNamed /\ FilesAreSound

Inv == Typed /\ JobsSound /\ SheetInv /\ LinkInv /\ TalkInv /\ FileInv

-----------------------------------------------------------------------------
(* Statements and jobs *)

LEMMA ConstantsFit ==
    /\ Account \notin Characters /\ NoChar \notin Characters /\ Given \subseteq Characters
    /\ MaxRequests \in Nat /\ MaxBrief \in 0..MaxRequests /\ MaxFaults \in Nat
    /\ Quota \in Nat /\ NoEvent \notin Events
    /\ \A touched \in Edits : touched \subseteq Fields
BY CharactersAssumption
LEMMA SomeFile == (CHOOSE f \in FileIds : TRUE) \in FileIds
BY CharactersAssumption

LEMMA Blanks == NoPlace \in Place /\ Blank \in Sheet /\ 0 \in Values
BY ConstantsFit DEF NoPlace, Place, MaybeChar, Role, Blank, Sheet, Values
LEMMA DoIs ==
    ASSUME NEW what \in SheetWork \cup PlaceWork \cup FileWork \cup TalkWork
    PROVE  /\ Do(what) \in Step /\ Do(what).do = what
           /\ Do(what).char = NoChar /\ Do(what).by = "owner" /\ Do(what).n = 0
           /\ Do(what).spot.file = CHOOSE f \in FileIds : TRUE
<1>1. /\ Do(what).do = what /\ Do(what).char = NoChar /\ Do(what).by = "owner"
      /\ Do(what).n = 0
  BY DEF Do
<1>2. Do(what).spot.file = CHOOSE f \in FileIds : TRUE
  BY DEF Do
<1>3. Do(what).spot \in Spot
  BY SomeFile DEF Do, Spot, Backends
<1>4. /\ Do(what).touched = {} /\ Do(what).changes = {} /\ Do(what).warned = {}
      /\ Do(what).form = Blank /\ Do(what).base = Blank
      /\ Do(what).event = NoEvent /\ Do(what).place = NoPlace /\ Do(what).was = NoPlace
      /\ Do(what).forced = FALSE /\ Do(what).to = "local" /\ Do(what).side = "player"
  BY DEF Do
<1>5. Do(what) \in Step
  <2>1. what \in {"save", "write", "review", "create", "book", "role", "link",
                  "deleteChar", "upload", "insertFile", "dropRow", "remove", "copy",
                  "point", "say", "show", "mark"}
    BY DEF SheetWork, PlaceWork, FileWork, TalkWork
  <2> DEFINE spot == [file |-> CHOOSE f \in FileIds : TRUE, backend |-> "local",
                      key |-> "flat"]
  <2>2. spot \in Spot
    BY <1>3 DEF Do
  <2> HIDE DEF spot
  <2>3. Do(what) = [do |-> what, char |-> NoChar, by |-> "owner", n |-> 0,
                    touched |-> {}, form |-> Blank, base |-> Blank, changes |-> {},
                    event |-> NoEvent, place |-> NoPlace, was |-> NoPlace,
                    warned |-> {}, forced |-> FALSE, spot |-> spot,
                    to |-> "local", side |-> "player"]
    BY DEF Do, spot
  <2> QED
    BY <2>1, <2>2, <2>3, Blanks DEF Step, Backends, Authors
<1> QED
  BY <1>1, <1>2, <1>5

LEMMA StepFields ==
    ASSUME NEW s \in Step
    PROVE  /\ s.do \in SheetWork \cup PlaceWork \cup FileWork \cup TalkWork \cup {"create"}
           /\ s.char \in SheetIds \cup {NoChar} /\ s.by \in Authors
           /\ s.n \in Values /\ s.touched \in SUBSET Fields /\ s.form \in Sheet
           /\ s.base \in Sheet /\ s.changes \in SUBSET Change
           /\ s.event \in Events \cup {NoEvent} /\ s.place \in Place /\ s.was \in Place
           /\ s.warned \in SUBSET Events /\ s.forced \in BOOLEAN /\ s.spot \in Spot
           /\ s.to \in Backends /\ s.side \in {"player", "staff"}
BY DEF Step, SheetWork, PlaceWork, FileWork, TalkWork
LEMMA SoundIsStep == SoundStep \subseteq Step
BY DEF SoundStep

-----------------------------------------------------------------------------
LEMMA EmptyJob == <<>> \in Seq(SoundStep) /\ Plan(<<>>)
BY DEF Plan, OneKind
\* A request of one statement.
LEMMA LoneJob ==
    ASSUME NEW s \in SoundStep, s.do \in Lone
    PROVE  /\ <<s>> \in Seq(SoundStep) /\ Plan(<<s>>) /\ <<s>> # <<>> /\ Head(<<s>>) = s
           /\ DOMAIN <<s>> = {1} /\ <<s>>[1] = s
<1>1. <<s>> \in Seq(SoundStep) /\ <<s>> # <<>> /\ Head(<<s>>) = s /\ Len(<<s>>) = 1
  OBVIOUS
<1>2. DOMAIN <<s>> = {1} /\ <<s>>[1] = s
  OBVIOUS
<1>3. OneKind(<<s>>)
  <2>1. s.do \in SheetWork \/ s.do \in PlaceWork \/ s.do \in FileWork
    BY DEF Lone, SheetWork, PlaceWork, FileWork, Arrival
  <2> QED
    BY <1>2, <2>1 DEF OneKind
<1>4. s.do \notin {"mark", "dropRow", "point", "remove"}
  BY DEF Lone, SheetWork, PlaceWork, Arrival
<1>5. Plan(<<s>>)
  BY <1>1, <1>2, <1>3, <1>4 DEF Plan
<1> QED
  BY <1>1, <1>2, <1>5

\* What is left after a statement.
LEMMA TailIs ==
    ASSUME NEW q \in Seq(SoundStep), Plan(q), q # <<>>
    PROVE  /\ Head(q) \in SoundStep /\ Head(q) = q[1] /\ 1 \in DOMAIN q
           /\ Tail(q) \in Seq(SoundStep) /\ Plan(Tail(q))
           /\ Len(q) \in Nat /\ Len(Tail(q)) = Len(q) - 1 /\ DOMAIN q = 1..Len(q)
           /\ \A i \in DOMAIN Tail(q) : i + 1 \in DOMAIN q /\ Tail(q)[i] = q[i + 1]
           /\ Head(q).do \in Lone => Tail(q) = <<>>
<1>1. /\ Head(q) \in SoundStep /\ Head(q) = q[1] /\ 1 \in DOMAIN q
      /\ Tail(q) \in Seq(SoundStep) /\ Len(q) \in Nat /\ Len(Tail(q)) = Len(q) - 1
      /\ DOMAIN q = 1..Len(q) /\ DOMAIN Tail(q) = 1..Len(Tail(q))
  OBVIOUS
<1>2. \A i \in DOMAIN Tail(q) : i + 1 \in DOMAIN q /\ i + 1 > 1 /\ Tail(q)[i] = q[i + 1]
  OBVIOUS
<1>3. Head(q).do \in Lone => Tail(q) = <<>>
  <2> SUFFICES ASSUME Head(q).do \in Lone PROVE Tail(q) = <<>>
    OBVIOUS
  <2>1. Len(q) = 1
    BY <1>1 DEF Plan
  <2>2. Len(Tail(q)) = 0
    BY <1>1, <2>1
  <2> QED
    BY <1>1, <2>2, EmptySeq
<1>4. OneKind(Tail(q))
  <2>1. PICK work \in {SheetWork, PlaceWork, FileWork, TalkWork} :
            \A i \in DOMAIN q : q[i].do \in work
    BY DEF Plan, OneKind
  <2>2. \A i \in DOMAIN Tail(q) : Tail(q)[i].do \in work
    BY <1>2, <2>1
  <2> QED
    BY <2>1, <2>2 DEF OneKind
<1>5. \A i \in DOMAIN Tail(q) : Tail(q)[i].do \in Lone => Len(Tail(q)) = 1
  <2> SUFFICES ASSUME NEW i \in DOMAIN Tail(q), Tail(q)[i].do \in Lone PROVE FALSE
    OBVIOUS
  <2>1. i + 1 \in DOMAIN q /\ i + 1 > 1 /\ q[i + 1].do \in Lone
    BY <1>2
  <2>2. Len(q) = 1
    BY <2>1 DEF Plan
  <2> QED
    BY <1>1, <2>1, <2>2
<1>6. \A i \in DOMAIN Tail(q) : Tail(q)[i].do = "mark" /\ i > 1 =>
         /\ Tail(q)[i - 1].do = "show" /\ Tail(q)[i - 1].event = Tail(q)[i].event
         /\ Tail(q)[i - 1].side = Tail(q)[i].side
  <2> SUFFICES ASSUME NEW i \in DOMAIN Tail(q), Tail(q)[i].do = "mark", i > 1
               PROVE  /\ Tail(q)[i - 1].do = "show"
                      /\ Tail(q)[i - 1].event = Tail(q)[i].event
                      /\ Tail(q)[i - 1].side = Tail(q)[i].side
    OBVIOUS
  <2>1. i - 1 \in DOMAIN Tail(q) /\ i \in Int
    BY <1>1
  <2>2. Tail(q)[i - 1] = q[(i + 1) - 1] /\ Tail(q)[i] = q[i + 1] /\ i + 1 > 1
        /\ i + 1 \in DOMAIN q
    BY <1>2, <2>1
  <2> QED
    BY <2>2 DEF Plan
<1>7. \A i \in DOMAIN Tail(q) : Tail(q)[i].do \notin {"dropRow", "point"}
  BY <1>1, <1>2 DEF Plan
<1>8. \A i \in DOMAIN Tail(q) : Tail(q)[i].do = "remove" => i = 1
  <2> SUFFICES ASSUME NEW i \in DOMAIN Tail(q), Tail(q)[i].do = "remove" PROVE i = 1
    OBVIOUS
  <2>1. i + 1 \in DOMAIN q /\ i + 1 > 1 /\ q[i + 1].do = "remove" /\ i \in Int
    BY <1>1, <1>2
  <2>2. i + 1 = 1 \/ i + 1 = 2
    BY <2>1 DEF Plan
  <2> QED
    BY <2>1, <2>2
<1>9. \A i, j \in DOMAIN Tail(q) :
         ~(i < j /\ Tail(q)[i].do \in Handling /\ Tail(q)[j].do \in Handling
             /\ Tail(q)[i].spot.file = Tail(q)[j].spot.file)
  <2> SUFFICES ASSUME NEW i \in DOMAIN Tail(q), NEW j \in DOMAIN Tail(q), i < j,
                      Tail(q)[i].do \in Handling, Tail(q)[j].do \in Handling,
                      Tail(q)[i].spot.file = Tail(q)[j].spot.file
               PROVE  FALSE
    OBVIOUS
  <2>1. i + 1 < j + 1 /\ i + 1 > 1 /\ i + 1 \in DOMAIN q /\ j + 1 \in DOMAIN q
        /\ Tail(q)[i] = q[i + 1] /\ Tail(q)[j] = q[j + 1]
    BY <1>1, <1>2
  <2>2. i + 1 = 1
    BY <2>1 DEF Plan
  <2> QED
    BY <2>1, <2>2
<1>10. Plan(Tail(q))
  BY <1>4, <1>5, <1>6, <1>7, <1>8, <1>9 DEF Plan
<1> QED
  BY <1>1, <1>2, <1>3, <1>10
\* What comes after the first of two statements.
LEMMA SecondIs ==
    ASSUME NEW q \in Seq(SoundStep), Plan(q), q # <<>>
    PROVE  /\ Head(q).do \in {"dropRow", "point"} =>
                /\ Tail(q) # <<>> /\ Head(Tail(q)).do = "remove"
                /\ Head(Tail(q)).spot = Head(q).spot
           /\ Tail(q) # <<>> /\ Head(Tail(q)).do = "mark" =>
                /\ Head(q).do = "show" /\ Head(q).event = Head(Tail(q)).event
                /\ Head(q).side = Head(Tail(q)).side
           /\ Tail(q) # <<>> =>
                /\ Head(Tail(q)).do \notin Arrival \cup {"point"}
                /\ Head(Tail(q)).do = "remove" => Head(q).do \in {"dropRow", "point"}
<1>1. /\ Head(q) = q[1] /\ Tail(q) \in Seq(SoundStep) /\ Plan(Tail(q)) /\ Len(q) \in Nat
      /\ 1 \in DOMAIN q /\ Len(Tail(q)) = Len(q) - 1 /\ DOMAIN q = 1..Len(q)
  BY TailIs
<1>2. Tail(q) # <<>> =>
         Head(Tail(q)) = q[2] /\ 2 \in DOMAIN q /\ 2 > 1 /\ 2 - 1 = 1 /\ Len(q) # 1
  <2> SUFFICES ASSUME Tail(q) # <<>>
               PROVE  Head(Tail(q)) = q[2] /\ 2 \in DOMAIN q /\ Len(q) # 1
    OBVIOUS
  <2>1. 1 \in DOMAIN Tail(q) /\ Head(Tail(q)) = Tail(q)[1]
    BY <1>1, TailIs
  <2>2. 1 + 1 \in DOMAIN q /\ Tail(q)[1] = q[1 + 1]
    BY <2>1, TailIs
  <2> QED
    BY <1>1, <2>1, <2>2
<1>3. Head(q).do \in {"dropRow", "point"} =>
         Tail(q) # <<>> /\ Head(Tail(q)).do = "remove" /\ Head(Tail(q)).spot = Head(q).spot
  <2> SUFFICES ASSUME Head(q).do \in {"dropRow", "point"}
               PROVE  /\ Tail(q) # <<>> /\ Head(Tail(q)).do = "remove"
                      /\ Head(Tail(q)).spot = Head(q).spot
    OBVIOUS
  <2>1. Len(q) > 1 /\ q[2].do = "remove" /\ q[2].spot = q[1].spot
    BY <1>1 DEF Plan
  <2>2. Tail(q) # <<>>
    BY <1>1, <2>1
  <2> QED
    BY <1>1, <1>2, <2>1, <2>2
<1>4. Tail(q) # <<>> /\ Head(Tail(q)).do = "mark" =>
         /\ Head(q).do = "show" /\ Head(q).event = Head(Tail(q)).event
         /\ Head(q).side = Head(Tail(q)).side
  <2> SUFFICES ASSUME Tail(q) # <<>>, Head(Tail(q)).do = "mark"
               PROVE  /\ q[1].do = "show" /\ q[1].event = q[2].event
                      /\ q[1].side = q[2].side
    BY <1>1, <1>2
  <2>1. q[2].do = "mark" /\ 2 \in DOMAIN q
    BY <1>2
  <2>2. \A i \in DOMAIN q : q[i].do = "mark" /\ i > 1 =>
           q[i - 1].do = "show" /\ q[i - 1].event = q[i].event /\ q[i - 1].side = q[i].side
    BY DEF Plan
  <2>3. 2 > 1 /\ 2 - 1 = 1
    OBVIOUS
  <2> QED
    BY <2>1, <2>2, <2>3
<1>5. Tail(q) # <<>> => Head(Tail(q)).do \notin Arrival \cup {"point"}
  <2> SUFFICES ASSUME Tail(q) # <<>>, Head(Tail(q)).do \in Arrival \cup {"point"}
               PROVE  FALSE
    OBVIOUS
  <2>1. q[2].do \in Arrival \/ q[2].do = "point"
    BY <1>2
  <2>2. q[2].do \notin Lone
    BY <1>2 DEF Plan
  <2>3. q[2].do # "point"
    BY <1>2 DEF Plan
  <2> QED
    BY <2>1, <2>2, <2>3 DEF Lone
<1>6. Tail(q) # <<>> /\ Head(Tail(q)).do = "remove" => Head(q).do \in {"dropRow", "point"}
  BY <1>1, <1>2 DEF Plan
<1> QED
  BY <1>3, <1>4, <1>5, <1>6

-----------------------------------------------------------------------------
(* What a step does to the jobs *)

Works == {SheetWork, PlaceWork, FileWork, TalkWork}
LEMMA WorksDiffer ==
    /\ \A a, b \in Works : a # b => \A x : ~(x \in a /\ x \in b)
    /\ SheetWork # PlaceWork /\ SheetWork # FileWork /\ SheetWork # TalkWork
    /\ PlaceWork # FileWork /\ PlaceWork # TalkWork /\ FileWork # TalkWork
<1>1. /\ "save" \in SheetWork /\ "save" \notin PlaceWork /\ "save" \notin FileWork
      /\ "save" \notin TalkWork /\ "book" \in PlaceWork /\ "book" \notin FileWork
      /\ "book" \notin TalkWork /\ "copy" \in FileWork /\ "copy" \notin TalkWork
  BY DEF SheetWork, PlaceWork, FileWork, TalkWork
<1>2. \A a, b \in Works : a # b => \A x : ~(x \in a /\ x \in b)
  <2>1. \A x : /\ ~(x \in SheetWork /\ x \in PlaceWork) /\ ~(x \in SheetWork /\ x \in FileWork)
               /\ ~(x \in SheetWork /\ x \in TalkWork) /\ ~(x \in PlaceWork /\ x \in FileWork)
               /\ ~(x \in PlaceWork /\ x \in TalkWork) /\ ~(x \in FileWork /\ x \in TalkWork)
    BY DEF SheetWork, PlaceWork, FileWork, TalkWork
  <2> QED
    BY <2>1 DEF Works
<1> QED
  BY <1>1, <1>2

LEMMA NowIs ==
    ASSUME JobsSound, NEW h \in Handlers, job[h] # <<>>
    PROVE  /\ Now(h) \in SoundStep /\ Now(h) \in Step
           /\ Now(h) \in Steps(h) /\ Now(h) \in Running
           /\ Now(h).do \in Lone => Steps(h) = {Now(h)} /\ Tail(job[h]) = <<>>
           /\ \A work \in Works : Now(h).do \in work => \A s \in Steps(h) : s.do \in work
<1>1. /\ Now(h) \in SoundStep /\ Now(h) = job[h][1] /\ 1 \in DOMAIN job[h]
      /\ Len(job[h]) \in Nat /\ DOMAIN job[h] = 1..Len(job[h])
      /\ Now(h).do \in Lone => Tail(job[h]) = <<>>
  BY TailIs DEF JobsSound, Now
<1>2. Now(h) \in Steps(h) /\ Now(h) \in Running
  BY <1>1 DEF Steps, Running
<1>3. Now(h).do \in Lone => Steps(h) = {Now(h)}
  <2> SUFFICES ASSUME Now(h).do \in Lone PROVE Steps(h) = {Now(h)}
    OBVIOUS
  <2>1. Len(job[h]) = 1
    BY <1>1 DEF JobsSound, Plan
  <2>2. DOMAIN job[h] = {1}
    BY <1>1, <2>1
  <2> QED
    BY <1>1, <2>2 DEF Steps
<1>4. \A work \in Works : Now(h).do \in work => \A s \in Steps(h) : s.do \in work
  <2>1. PICK w \in Works : \A i \in DOMAIN job[h] : job[h][i].do \in w
    BY DEF JobsSound, Plan, OneKind, Works
  <2>2. \A s \in Steps(h) : s.do \in w
    BY <2>1 DEF Steps
  <2>3. Now(h).do \in w
    BY <1>2, <2>2
  <2> QED
    BY <2>1, <2>2, <2>3, WorksDiffer
<1> QED
  BY <1>1, <1>2, <1>3, <1>4, SoundIsStep
LEMMA RunningIs ==
    ASSUME JobsSound
    PROVE  /\ \A h \in Handlers : job[h] \in Seq(SoundStep) /\ Steps(h) \subseteq SoundStep
           /\ Running \subseteq SoundStep
           /\ \A s : s \in Running <=> \E h \in Handlers : s \in Steps(h)
           /\ \A h \in Handlers :
                \A s : s \in Others(h) <=> \E g \in Handlers \ {h} : s \in Steps(g)
<1>1. \A h \in Handlers : job[h] \in Seq(SoundStep) /\ Steps(h) \subseteq SoundStep
  <2> TAKE h \in Handlers
  <2>1. job[h] \in Seq(SoundStep)
    BY DEF JobsSound
  <2>2. \A i \in DOMAIN job[h] : job[h][i] \in SoundStep
    BY <2>1
  <2> QED
    BY <2>1, <2>2 DEF Steps
<1> QED
  BY <1>1 DEF Running, Others

\* A step of one request concerns those of one kind; for the others it changes nothing.
Elsewhere(work) ==
    \A g \in Handlers :
        \/ job'[g] = job[g]
        \/ /\ \A s \in Steps(g) : s.do \notin work
           /\ \A s \in Steps(g)' : s.do \notin work
LEMMA StaysIn ==
    ASSUME JobsSound, NEW h \in Handlers, NEW work \in Works,
           job[h] = <<>> \/ Now(h).do \in work,
           \A s \in Steps(h)' : s.do \in work,
           \A g \in Handlers \ {h} : job'[g] = job[g]
    PROVE  \A other \in Works \ {work} : Elsewhere(other)
<1>1. \A s \in Steps(h) : s.do \in work
  <2>1. CASE job[h] = <<>>
    BY <2>1 DEF Steps
  <2>2. CASE job[h] # <<>>
    BY <2>2, NowIs
  <2> QED
    BY <2>1, <2>2
<1> QED
  BY <1>1, WorksDiffer DEF Elsewhere
LEMMA NothingMoves ==
    ASSUME job' = job
    PROVE  \A work \in Works : Elsewhere(work)
BY DEF Elsewhere

LEMMA JobChanges ==
    ASSUME JobsSound, NEW h \in Handlers, NEW q \in Seq(SoundStep), Plan(q),
           job' = [job EXCEPT ![h] = q]
    PROVE  /\ JobsSound' /\ job'[h] = q /\ \A g \in Handlers \ {h} : job'[g] = job[g]
           /\ Steps(h)' = {q[i] : i \in DOMAIN q}
           /\ \A g \in Handlers \ {h} : Steps(g)' = Steps(g)
<1>1. job'[h] = q /\ \A g \in Handlers \ {h} : job'[g] = job[g]
  BY DEF JobsSound
<1>2. job' \in [Handlers -> Seq(SoundStep)]
  BY DEF JobsSound
<1>3. \A g \in Handlers : Plan(job'[g])
  BY <1>1 DEF JobsSound
<1>4. JobsSound'
  BY <1>2, <1>3 DEF JobsSound
<1>5. /\ Steps(h)' = {q[i] : i \in DOMAIN q}
      /\ \A g \in Handlers \ {h} : Steps(g)' = Steps(g)
  BY <1>1 DEF Steps
<1> QED
  BY <1>1, <1>4, <1>5
LEMMA StartIs ==
    ASSUME Typed, JobsSound, NEW h \in Handlers, NEW q \in Seq(SoundStep), Plan(q),
           Start(h, q)
    PROVE  /\ job[h] = <<>> /\ Steps(h) = {}
           /\ JobsSound' /\ job'[h] = q /\ \A g \in Handlers \ {h} : job'[g] = job[g]
           /\ Steps(h)' = {q[i] : i \in DOMAIN q}
           /\ \A g \in Handlers \ {h} : Steps(g)' = Steps(g)
           /\ requests' = requests + 1 /\ requests' \in 0..MaxRequests
           /\ faults' = faults /\ ops' = ops
<1>1. job[h] = <<>>
  BY DEF Start, Idle
<1>2. job' = [job EXCEPT ![h] = q]
  BY DEF Start
<1>3. requests' = requests + 1 /\ requests' \in 0..MaxRequests
  BY ConstantsFit DEF Start, Request, Typed, TypeOK
<1>4. Steps(h) = {}
  BY <1>1 DEF Steps
<1> QED
  BY <1>1, <1>2, <1>3, <1>4, JobChanges DEF Start
LEMMA OnceIs ==
    ASSUME Typed, JobsSound, Once
    PROVE  /\ JobsSound' /\ job' = job /\ \A h \in Handlers : Steps(h)' = Steps(h)
           /\ requests' = requests + 1 /\ requests' \in 0..MaxRequests
           /\ faults' = faults /\ ops' = ops /\ Running' = Running
<1>1. requests' = requests + 1 /\ requests' \in 0..MaxRequests
  BY ConstantsFit DEF Once, Request, Typed, TypeOK
<1>2. JobsSound' /\ \A h \in Handlers : Steps(h)' = Steps(h)
  BY DEF Once, JobsSound, Steps
<1>3. Running' = Running
  BY <1>2 DEF Running
<1> QED
  BY <1>1, <1>2, <1>3 DEF Once

\* What is left of a request after its first statement.
LEMMA RestIs ==
    ASSUME JobsSound, NEW h \in Handlers, job[h] # <<>>,
           job' = [job EXCEPT ![h] = Tail(job[h])]
    PROVE  /\ JobsSound' /\ job'[h] = Tail(job[h])
           /\ \A g \in Handlers \ {h} : job'[g] = job[g] /\ Steps(g)' = Steps(g)
           /\ Steps(h)' \subseteq Steps(h) /\ Steps(h) \subseteq Steps(h)' \cup {Now(h)}
           /\ Now(h).do \in Lone => job'[h] = <<>> /\ Steps(h)' = {}
<1>1. /\ Tail(job[h]) \in Seq(SoundStep) /\ Plan(Tail(job[h]))
      /\ Len(job[h]) \in Nat /\ Len(Tail(job[h])) = Len(job[h]) - 1
      /\ DOMAIN job[h] = 1..Len(job[h]) /\ Head(job[h]) = job[h][1]
      /\ \A i \in DOMAIN Tail(job[h]) :
           i + 1 \in DOMAIN job[h] /\ Tail(job[h])[i] = job[h][i + 1]
      /\ Now(h).do \in Lone => Tail(job[h]) = <<>>
  BY TailIs DEF JobsSound, Now
<1>2. /\ JobsSound' /\ job'[h] = Tail(job[h])
      /\ \A g \in Handlers \ {h} : job'[g] = job[g] /\ Steps(g)' = Steps(g)
      /\ Steps(h)' = {Tail(job[h])[i] : i \in DOMAIN Tail(job[h])}
  BY <1>1, JobChanges
<1>3. Steps(h)' \subseteq Steps(h)
  BY <1>1, <1>2 DEF Steps
<1>4. Steps(h) \subseteq Steps(h)' \cup {Now(h)}
  <2> SUFFICES ASSUME NEW i \in DOMAIN job[h], i # 1
               PROVE  job[h][i] \in Steps(h)'
    BY <1>1 DEF Steps, Now
  <2>1. DOMAIN Tail(job[h]) = 1..Len(Tail(job[h]))
    BY <1>1
  <2>2. i - 1 \in DOMAIN Tail(job[h]) /\ (i - 1) + 1 = i
    BY <1>1, <2>1
  <2>3. Tail(job[h])[i - 1] = job[h][i]
    BY <1>1, <2>2
  <2> QED
    BY <1>2, <2>2, <2>3
<1>5. Tail(job[h]) = <<>> => Steps(h)' = {}
  BY <1>2
<1> QED
  BY <1>1, <1>2, <1>3, <1>4, <1>5
LEMMA ThenIs ==
    ASSUME JobsSound, NEW h \in Handlers, job[h] # <<>>, Then(h, <<>>)
    PROVE  /\ job' = [job EXCEPT ![h] = Tail(job[h])]
           /\ JobsSound' /\ job'[h] = Tail(job[h])
           /\ \A g \in Handlers \ {h} : job'[g] = job[g] /\ Steps(g)' = Steps(g)
           /\ Steps(h)' \subseteq Steps(h) /\ Steps(h) \subseteq Steps(h)' \cup {Now(h)}
           /\ Now(h).do \in Lone => job'[h] = <<>> /\ Steps(h)' = {}
           /\ requests' = requests /\ faults' = faults /\ ops' = ops
<1>1. Tail(job[h]) \in Seq(SoundStep)
  BY TailIs DEF JobsSound
<1>2. job' = [job EXCEPT ![h] = Tail(job[h])]
  BY <1>1 DEF Then
<1> QED
  BY <1>2, RestIs DEF Then
LEMMA ThenOneIs ==
    ASSUME JobsSound, NEW h \in Handlers, job[h] # <<>>, Now(h).do \in Lone,
           NEW s \in SoundStep, s.do \in Lone, Then(h, <<s>>)
    PROVE  /\ JobsSound' /\ job'[h] = <<s>> /\ job'[h] # <<>> /\ Head(job'[h]) = s
           /\ \A g \in Handlers \ {h} : job'[g] = job[g] /\ Steps(g)' = Steps(g)
           /\ Steps(h) = {Now(h)} /\ Steps(h)' = {s}
           /\ requests' = requests /\ faults' = faults /\ ops' = ops
<1>1. Tail(job[h]) = <<>> /\ Steps(h) = {Now(h)}
  BY NowIs
<1>2. /\ <<s>> \in Seq(SoundStep) /\ Plan(<<s>>) /\ <<s>> # <<>> /\ Head(<<s>>) = s
      /\ {<<s>>[i] : i \in DOMAIN <<s>>} = {s}
  BY LoneJob
<1>3. <<s>> \o <<>> = <<s>>
  BY <1>2, ConcatEmptySeq
<1>4. job' = [job EXCEPT ![h] = <<s>>]
  BY <1>1, <1>3 DEF Then
<1> QED
  BY <1>1, <1>2, <1>4, JobChanges DEF Then
LEMMA EndIs ==
    ASSUME JobsSound, NEW h \in Handlers, job' = [job EXCEPT ![h] = <<>>]
    PROVE  /\ JobsSound' /\ job'[h] = <<>> /\ Steps(h)' = {}
           /\ \A g \in Handlers \ {h} : job'[g] = job[g] /\ Steps(g)' = Steps(g)
<1>1. {<<>>[i] : i \in DOMAIN <<>>} = {}
  OBVIOUS
<1> QED
  BY <1>1, EmptyJob, JobChanges
LEMMA RefuseIs ==
    ASSUME JobsSound, NEW h \in Handlers, Refuse(h)
    PROVE  /\ JobsSound' /\ job'[h] = <<>> /\ Steps(h)' = {}
           /\ \A g \in Handlers \ {h} : job'[g] = job[g] /\ Steps(g)' = Steps(g)
           /\ requests' = requests /\ faults' = faults /\ ops' = ops
BY EndIs DEF Refuse

\* Who runs what after one request went on.
LEMMA OthersStay ==
    ASSUME NEW h \in Handlers, \A g \in Handlers \ {h} : Steps(g)' = Steps(g)
    PROVE  /\ Others(h)' = Others(h)
           /\ \A s : s \in Running <=> s \in Steps(h) \/ s \in Others(h)
           /\ \A s : s \in Running' <=> s \in Steps(h)' \/ s \in Others(h)
<1>1. Others(h)' = Others(h)
  BY DEF Others
<1>2. \A s : s \in Running <=> s \in Steps(h) \/ s \in Others(h)
  BY DEF Running, Others
<1>3. \A s : s \in Running' <=> s \in Steps(h)' \/ s \in Others(h)'
  BY DEF Running, Others
<1> QED
  BY <1>1, <1>2, <1>3

-----------------------------------------------------------------------------
(* What the sheets need is kept by what is done elsewhere. *)

KeepsSheets ==
    /\ UNCHANGED <<exists, sheets, reviews>>
    /\ history'.accepted = history.accepted /\ history'.strangers = history.strangers
    /\ history'.secret = history.secret /\ history'.overtaken = history.overtaken
    /\ history'.tangled = history.tangled /\ history'.interrupted = history.interrupted
    /\ requests \in Nat /\ requests' \in Nat /\ requests <= requests'
LEMMA SheetsElsewhere ==
    ASSUME SheetInv, KeepsSheets, Elsewhere(SheetWork)
    PROVE  SheetInv'
<1>1. \A g \in Handlers : \A s : s.do \in SheetWork => (s \in Steps(g)' <=> s \in Steps(g))
  BY DEF Elsewhere, Steps
<1>2. \A s : s.do \in SheetWork => (s \in Running' <=> s \in Running)
  BY <1>1 DEF Running
<1>3. \A r \in reviews' : Single(r.changes)
  BY DEF SheetInv, KeepsSheets
<1>4. \A gs \in SUBSET Handlers : \A n : Unseen(gs, n) => Unseen(gs, n)'
  <2> SUFFICES ASSUME NEW gs \in SUBSET Handlers, NEW n, Unseen(gs, n) PROVE Unseen(gs, n)'
    OBVIOUS
  <2>1. \A g \in gs : \A t \in Steps(g)' : Before(t, n)
    <3> SUFFICES ASSUME NEW g \in gs, NEW t \in Steps(g)' PROVE Before(t, n)
      OBVIOUS
    <3>1. CASE t.do \in SheetWork
      BY <1>1, <3>1 DEF Unseen
    <3>2. CASE t.do \notin SheetWork
      BY <3>2 DEF Before, SheetWork
    <3> QED
      BY <3>1, <3>2
  <2> QED
    BY <2>1 DEF Unseen, KeepsSheets
<1>5. NumbersFresh'
  <2>1. \A h \in Handlers : \A s \in Steps(h)' : s.do \in {"save", "write"} =>
           /\ s.n \in 1..requests' /\ Unseen(Handlers \ {h}, s.n)'
           /\ s.do = "write" => \A f \in Fields : s.base[f] # s.n
    <3> SUFFICES ASSUME NEW h \in Handlers, NEW s \in Steps(h)', s.do \in {"save", "write"}
                 PROVE  /\ s.n \in 1..requests' /\ Unseen(Handlers \ {h}, s.n)'
                        /\ s.do = "write" => \A f \in Fields : s.base[f] # s.n
      OBVIOUS
    <3>1. s \in Steps(h)
      BY <1>1 DEF SheetWork
    <3>2. /\ s.n \in 1..requests /\ Unseen(Handlers \ {h}, s.n)
          /\ s.do = "write" => \A f \in Fields : s.base[f] # s.n
      BY <3>1 DEF SheetInv, NumbersFresh
    <3> QED
      BY <1>4, <3>2 DEF KeepsSheets
  <2>2. \A n \in Nat : n > requests' => Unseen(Handlers, n)'
    BY <1>4 DEF SheetInv, NumbersFresh, KeepsSheets
  <2> QED
    BY <2>1, <2>2 DEF NumbersFresh
<1>6. \A c, f, v : ToJudge(c, f, v)' <=> ToJudge(c, f, v)
  BY <1>2 DEF ToJudge, KeepsSheets, SheetWork
<1>7. \A c, f, v : Covered(c, f, v)' <=> Covered(c, f, v)
  BY <1>6 DEF Covered, KeepsSheets
<1>8. Covers'
  <2>1. Undisturbed' = Undisturbed
    BY DEF Undisturbed, KeepsSheets
  <2> SUFFICES ASSUME NEW c \in Undisturbed
               PROVE  /\ \A f \in Shown : Covered(c, f, sheets[c][f])
                      /\ \A r \in reviews : r.char = c =>
                           \A ch \in r.changes : Covered(c, ch.field, ch.from)
                      /\ \A s \in Running' : s.do = "review" /\ s.char = c =>
                           \A ch \in s.changes : Covered(c, ch.field, ch.from)
    BY <1>7, <2>1 DEF Covers, KeepsSheets
  <2> QED
    BY <1>2 DEF SheetInv, Covers, SheetWork
<1>9. Born'
  <2> SUFFICES ASSUME NEW c \in Characters \ Given
               PROVE  /\ sheets[c]["name"] = 0 => Unborn(c)'
                      /\ \A r \in reviews : r.char = c =>
                           \A ch \in r.changes : ch.field = "name" => ch.from # 0
                      /\ \A s \in Running' : s.char = c =>
                           /\ s.do \in {"save", "write"} => s.form["name"] # 0
                           /\ s.do = "write" => s.base["name"] # 0
                           /\ s.do = "review" =>
                                \A ch \in s.changes : ch.field = "name" => ch.from # 0
    BY DEF Born, KeepsSheets
  <2>1. Unborn(c) => Unborn(c)'
    BY <1>2 DEF Unborn, KeepsSheets
  <2> QED
    BY <1>2, <2>1 DEF SheetInv, Born, SheetWork
<1>10. SecretIsStaffs'
  BY DEF SheetInv, SecretIsStaffs, KeepsSheets
<1> QED
  BY <1>3, <1>5, <1>8, <1>9, <1>10 DEF SheetInv

-----------------------------------------------------------------------------
(* ... and what the links, the talk and the files need *)

KeepsLinks ==
    /\ places' = places /\ history'.raced = history.raced
    /\ history'.relinked = history.relinked /\ history'.unwarned = history.unwarned
LEMMA LinksElsewhere ==
    ASSUME LinkInv, KeepsLinks, Elsewhere(PlaceWork)
    PROVE  LinkInv'
<1>1. \A s : s.do \in PlaceWork => (s \in Running' <=> s \in Running)
  BY DEF Elsewhere, Steps, Running
<1>2. \A c, e : BookedElsewhere(c, e)' <=> BookedElsewhere(c, e)
  BY DEF BookedElsewhere, KeepsLinks
<1>3. StillFree'
  BY <1>1, <1>2 DEF LinkInv, StillFree, KeepsLinks, PlaceWork
<1>4. Warned'
  BY <1>1 DEF LinkInv, Warned, KeepsLinks, PlaceWork
<1>5. LinksAreSound'
  BY DEF LinkInv, LinksAreSound, KeepsLinks
<1> QED
  BY <1>3, <1>4, <1>5 DEF LinkInv

LEMMA HeadsElsewhere ==
    ASSUME JobsSound, JobsSound', NEW work \in Works, Elsewhere(work), NEW h \in Handlers,
           NEW what \in work
    PROVE  Doing(h, what)' <=> Doing(h, what) /\ job'[h] = job[h]
<1>1. CASE job'[h] = job[h]
  BY <1>1 DEF Doing
<1>2. CASE /\ \A s \in Steps(h) : s.do \notin work
           /\ \A s \in Steps(h)' : s.do \notin work
  <2>1. job[h] # <<>> => Head(job[h]) \in Steps(h)
    BY NowIs DEF Now
  <2>2. job'[h] # <<>> => Head(job'[h]) \in Steps(h)'
    <3> SUFFICES ASSUME job'[h] # <<>> PROVE Head(job'[h]) \in Steps(h)'
      OBVIOUS
    <3>1. job'[h] \in Seq(SoundStep)
      BY DEF JobsSound
    <3>2. Head(job'[h]) = job'[h][1] /\ 1 \in DOMAIN job'[h]
      BY <3>1
    <3> QED
      BY <3>2 DEF Steps
  <2> QED
    BY <1>2, <2>1, <2>2 DEF Doing
<1> QED
  BY <1>1, <1>2 DEF Elsewhere

KeepsTalk == messages' = messages /\ history'.late = history.late
LEMMA TalkElsewhere ==
    ASSUME JobsSound, JobsSound', TalkInv, KeepsTalk, Elsewhere(TalkWork)
    PROVE  TalkInv'
<1>1. \A h \in Handlers : Doing(h, "mark")' => Doing(h, "mark") /\ Now(h)' = Now(h)
  <2>1. TalkWork \in Works /\ "mark" \in TalkWork
    BY DEF Works, TalkWork
  <2> QED
    BY <2>1, HeadsElsewhere DEF Now
<1>2. \A events : MessagesOf(events)' = MessagesOf(events)
  BY DEF MessagesOf, KeepsTalk
<1>3. ShownBefore'
  BY <1>1, <1>2 DEF TalkInv, ShownBefore, KeepsTalk
<1>4. ReadMeansShown'
  BY DEF TalkInv, ReadMeansShown, KeepsTalk
<1> QED
  BY <1>3, <1>4 DEF TalkInv

KeepsFiles ==
    /\ files' = files /\ store' = store /\ history'.mixed = history.mixed
    /\ history'.left = history.left /\ history'.crowded = history.crowded
LEMMA FilesElsewhere ==
    ASSUME JobsSound, JobsSound', FileInv, KeepsFiles, Elsewhere(FileWork)
    PROVE  FileInv'
<1>1. \A h \in Handlers : \A s : s.do \in FileWork => (s \in Steps(h)' <=> s \in Steps(h))
  BY DEF Elsewhere, Steps
<1>2. \A s : s.do \in FileWork => (s \in Running' <=> s \in Running)
  BY <1>1 DEF Running
<1>3. \A h \in Handlers : \A what \in FileWork :
         Doing(h, what)' <=> Doing(h, what) /\ Now(h)' = Now(h)
  <2> TAKE h \in Handlers
  <2> TAKE what \in FileWork
  <2>1. FileWork \in Works
    BY DEF Works
  <2>2. Doing(h, what)' <=> Doing(h, what) /\ job'[h] = job[h]
    BY <2>1, HeadsElsewhere
  <2>3. CASE job'[h] = job[h]
    BY <2>2, <2>3 DEF Now
  <2>4. CASE job'[h] # job[h]
    <3>1. \A s \in Steps(h) : s.do \notin FileWork
      BY <2>4 DEF Elsewhere
    <3>2. ~Doing(h, what)
      BY <3>1, NowIs DEF Doing, Now
    <3> QED
      BY <2>2, <3>2
  <2> QED
    BY <2>3, <2>4
<1>4. Arriving'
  <2> SUFFICES ASSUME NEW h \in Handlers, NEW s \in Steps(h)', s.do \in Arrival
               PROVE  /\ \A f \in files : f.spot.file # s.spot.file
                      /\ s.do = "upload" => \A x \in store : x.file # s.spot.file
                      /\ s.do = "insertFile" => s.spot \in store
                      /\ \A g \in Handlers : \A t \in Steps(g)' :
                           /\ ~Handles(t, s.spot.file)
                           /\ g # h /\ t.do \in Arrival => t.spot.file # s.spot.file
    BY DEF Arriving, KeepsFiles
  <2>1. s \in Steps(h)
    BY <1>1 DEF Arrival, FileWork
  <2>2. /\ \A f \in files : f.spot.file # s.spot.file
        /\ s.do = "upload" => \A x \in store : x.file # s.spot.file
        /\ s.do = "insertFile" => s.spot \in store
        /\ \A g \in Handlers : \A t \in Steps(g) :
             /\ ~Handles(t, s.spot.file)
             /\ g # h /\ t.do \in Arrival => t.spot.file # s.spot.file
    BY <2>1 DEF FileInv, Arriving
  <2>3. \A g \in Handlers : \A t \in Steps(g)' :
           /\ ~Handles(t, s.spot.file)
           /\ g # h /\ t.do \in Arrival => t.spot.file # s.spot.file
    <3> SUFFICES ASSUME NEW g \in Handlers, NEW t \in Steps(g)'
                 PROVE  /\ ~Handles(t, s.spot.file)
                        /\ g # h /\ t.do \in Arrival => t.spot.file # s.spot.file
      OBVIOUS
    <3>1. CASE t.do \in FileWork
      BY <1>1, <2>2, <3>1
    <3>2. CASE t.do \notin FileWork
      BY <3>2 DEF FileWork, Arrival, Handles
    <3> QED
      BY <3>1, <3>2
  <2> QED
    BY <2>2, <2>3
<1>5. Room'
  BY <1>2 DEF FileInv, Room, HasRoom, FilesOf, KeepsFiles, Arrival, FileWork
<1>6. RowsStand'
  BY <1>2 DEF FileInv, RowsStand, KeepsFiles, FileWork
<1>7. Gone'
  BY <1>3 DEF FileInv, Gone, KeepsFiles, FileWork
<1>8. Copied'
  <2> SUFFICES ASSUME NEW h \in Handlers, Doing(h, "point")',
                      Now(h)'.spot.file \notin history'.mixed
               PROVE  NewSpot(Now(h)') \in store
    BY DEF Copied, KeepsFiles, NewSpot
  <2>1. Doing(h, "point") /\ Now(h)' = Now(h)
    BY <1>3 DEF FileWork
  <2> QED
    BY <2>1 DEF FileInv, Copied, KeepsFiles
<1>9. AllNamed'
  <2> SUFFICES ASSUME NEW x \in store, x.file \notin history.mixed \cup history.left
               PROVE  Named(x)'
    BY DEF AllNamed, KeepsFiles
  <2>1. Named(x)
    BY DEF FileInv, AllNamed
  <2>2. CASE \E f \in files : f.spot = x
    BY <2>2 DEF Named, KeepsFiles
  <2>3. CASE \E h \in Handlers : Hers(h, x)
    <3>1. PICK h \in Handlers : Hers(h, x)
      BY <2>3
    <3>2. job'[h] = job[h]
      <4>1. job[h] # <<>> /\ Now(h).do \in FileWork
        BY <3>1 DEF Hers, Doing, Now, FileWork
      <4> QED
        BY <4>1, NowIs DEF Elsewhere
    <3>3. Hers(h, x)'
      BY <3>1, <3>2 DEF Hers, Doing, Now, NewSpot
    <3> QED
      BY <3>3 DEF Named
  <2> QED
    BY <2>1, <2>2, <2>3 DEF Named
<1>10. FilesAreSound'
  <2>1. \A x \in store : x.file \notin history.mixed \cup history.left =>
           \/ \E f \in files : f.spot = x
           \/ \E step \in Running' : step.spot.file = x.file
    <3> SUFFICES ASSUME NEW x \in store, x.file \notin history.mixed \cup history.left,
                        ~ \E f \in files : f.spot = x
                 PROVE  \E step \in Running' : step.spot.file = x.file
      OBVIOUS
    <3>1. PICK h \in Handlers : Hers(h, x)
      BY DEF FileInv, AllNamed, Named
    <3>2. job[h] # <<>> /\ Now(h).do \in FileWork /\ Now(h).spot.file = x.file
      BY <3>1 DEF Hers, Doing, Now, FileWork, NewSpot
    <3>3. Now(h) \in Running
      BY <3>2, NowIs
    <3> QED
      BY <1>2, <3>2, <3>3
  <2>2. FilesOf(NoChar)' = FilesOf(NoChar) /\ \A c : FilesOf(c)' = FilesOf(c)
    BY DEF FilesOf, KeepsFiles
  <2> QED
    BY <2>1, <2>2 DEF FileInv, FilesAreSound, KeepsFiles
<1> QED
  BY <1>4, <1>5, <1>6, <1>7, <1>8, <1>9, <1>10 DEF FileInv

-----------------------------------------------------------------------------
(* The parts of the type invariant *)

SheetTypes ==
    /\ exists \subseteq Characters /\ sheets \in [SheetIds -> Sheet]
    /\ reviews \subseteq [n : Values, char : SheetIds, changes : SUBSET Change]
PlaceTypes ==
    /\ places \in [Events -> Place]
    /\ \A e \in Events : {places[e].char, places[e].nsc} \subseteq exists \cup {NoChar}
    /\ \A e \in Events : places[e].role \in {"none", "other"} => places[e].char = NoChar
FileTypes ==
    /\ files \subseteq [spot : Spot, char : Characters]
    /\ \A f, g \in files : f.spot.file = g.spot.file => f = g
    /\ \A f \in files : f.char \in exists
    /\ store \subseteq Spot /\ backend \in Backends /\ IsFiniteSet(files)
TalkTypes ==
    messages \subseteq [n : Values, event : Events, side : {"player", "staff"},
                        proposal : {"none", "open", "answered"},
                        shown : BOOLEAN, read : BOOLEAN]
Counts == requests \in 0..MaxRequests /\ faults \in 0..MaxFaults /\ ops \in Scenarios
LEMMA TypeParts ==
    ASSUME JobsSound
    PROVE  Typed <=> /\ SheetTypes /\ PlaceTypes /\ FileTypes /\ TalkTypes
                     /\ history \in Excuses /\ Counts
<1>1. job \in [Handlers -> Seq(Step)]
  BY SoundIsStep DEF JobsSound
<1> QED
  BY <1>1 DEF Typed, TypeOK, SheetTypes, PlaceTypes, FileTypes, TalkTypes, Counts
LEMMA TypedNext ==
    ASSUME JobsSound', SheetTypes', PlaceTypes', FileTypes', TalkTypes', history' \in Excuses,
           Counts'
    PROVE  Typed'
<1>1. job' \in [Handlers -> Seq(Step)]
  BY SoundIsStep DEF JobsSound
<1> QED
  BY <1>1 DEF Typed, TypeOK, SheetTypes, PlaceTypes, FileTypes, TalkTypes, Counts

LEMMA SheetTypesStay ==
    ASSUME SheetTypes, UNCHANGED sheetVars
    PROVE  SheetTypes'
BY DEF SheetTypes, sheetVars
LEMMA PlaceTypesStay ==
    ASSUME PlaceTypes, places' = places, exists \subseteq exists'
    PROVE  PlaceTypes'
BY DEF PlaceTypes
LEMMA FileTypesStay ==
    ASSUME FileTypes, UNCHANGED fileVars, exists \subseteq exists'
    PROVE  FileTypes'
BY DEF FileTypes, fileVars
LEMMA TalkTypesStay ==
    ASSUME TalkTypes, messages' = messages
    PROVE  TalkTypes'
BY DEF TalkTypes

LEMMA HistoryIs ==
    ASSUME history \in Excuses
    PROVE  /\ history.accepted \in SUBSET (SheetIds \X Shown \X Values)
           /\ history.strangers \in SUBSET Values /\ history.secret \in [SheetIds -> Values]
           /\ history.overtaken \in SUBSET SheetIds /\ history.tangled \in SUBSET SheetIds
           /\ history.interrupted \in SUBSET SheetIds /\ history.raced \in SUBSET Characters
           /\ history.relinked \in SUBSET Events /\ history.unwarned \in SUBSET Events
           /\ history.left \in SUBSET FileIds /\ history.mixed \in SUBSET FileIds
           /\ history.crowded \in SUBSET Characters /\ history.late \in SUBSET Values
BY DEF Excuses

\* What an action of one kind need not prove again.
LEMMA SheetsOnly ==
    ASSUME Inv, JobsSound', \A other \in Works \ {SheetWork} : Elsewhere(other),
           KeepsLinks, KeepsTalk, KeepsFiles
    PROVE  LinkInv' /\ TalkInv' /\ FileInv'
<1>1. Elsewhere(PlaceWork) /\ Elsewhere(TalkWork) /\ Elsewhere(FileWork)
  BY WorksDiffer DEF Works
<1> QED
  BY <1>1, LinksElsewhere, TalkElsewhere, FilesElsewhere DEF Inv
LEMMA LinksOnly ==
    ASSUME Inv, JobsSound', \A other \in Works \ {PlaceWork} : Elsewhere(other),
           KeepsSheets, KeepsTalk, KeepsFiles
    PROVE  SheetInv' /\ TalkInv' /\ FileInv'
<1>1. Elsewhere(SheetWork) /\ Elsewhere(TalkWork) /\ Elsewhere(FileWork)
  BY WorksDiffer DEF Works
<1> QED
  BY <1>1, SheetsElsewhere, TalkElsewhere, FilesElsewhere DEF Inv
LEMMA TalkOnly ==
    ASSUME Inv, JobsSound', \A other \in Works \ {TalkWork} : Elsewhere(other),
           KeepsSheets, KeepsLinks, KeepsFiles
    PROVE  SheetInv' /\ LinkInv' /\ FileInv'
<1>1. Elsewhere(SheetWork) /\ Elsewhere(PlaceWork) /\ Elsewhere(FileWork)
  BY WorksDiffer DEF Works
<1> QED
  BY <1>1, SheetsElsewhere, LinksElsewhere, FilesElsewhere DEF Inv
LEMMA FilesOnly ==
    ASSUME Inv, JobsSound', \A other \in Works \ {FileWork} : Elsewhere(other),
           KeepsSheets, KeepsLinks, KeepsTalk
    PROVE  SheetInv' /\ LinkInv' /\ TalkInv'
<1>1. Elsewhere(SheetWork) /\ Elsewhere(PlaceWork) /\ Elsewhere(TalkWork)
  BY WorksDiffer DEF Works
<1> QED
  BY <1>1, SheetsElsewhere, LinksElsewhere, TalkElsewhere DEF Inv

-----------------------------------------------------------------------------
(* What a form contains and what is made of it *)

LEMMA FieldsAre ==
    /\ Fields = {"name", "own", "group", "secret"} /\ Shown = {"name", "own", "group"}
    /\ Shown \subseteq Fields /\ "secret" \notin Shown
BY DEF Fields, Shown
LEMMA DiffIs ==
    ASSUME NEW stored \in Sheet, NEW next \in Sheet
    PROVE  /\ Diff(stored, next) \in SUBSET Change /\ Single(Diff(stored, next))
           /\ \A ch \in Diff(stored, next) :
                /\ ch.field \in Shown /\ ch.from = stored[ch.field] /\ ch.to = next[ch.field]
           /\ \A f \in Shown : stored[f] # next[f] =>
                Concerning(Diff(stored, next), f, next[f])
<1>1. \A f \in Shown : stored[f] \in Values /\ next[f] \in Values
  BY FieldsAre DEF Sheet
<1>2. \A ch \in Diff(stored, next) :
         /\ ch \in Change /\ ch.field \in Shown /\ ch.from = stored[ch.field]
         /\ ch.to = next[ch.field] /\ stored[ch.field] # next[ch.field]
         /\ ch = [field |-> ch.field, from |-> stored[ch.field], to |-> next[ch.field]]
  BY <1>1 DEF Diff, Change
<1>3. Single(Diff(stored, next))
  <2>1. \A ch, d \in Diff(stored, next) : ch.field = d.field => ch = d
    BY <1>2
  <2> QED
    BY <1>2, <2>1 DEF Single
<1>4. \A f \in Shown : stored[f] # next[f] => Concerning(Diff(stored, next), f, next[f])
  <2> SUFFICES ASSUME NEW f \in Shown, stored[f] # next[f]
               PROVE  Concerning(Diff(stored, next), f, next[f])
    OBVIOUS
  <2> DEFINE ch == [field |-> f, from |-> stored[f], to |-> next[f]]
  <2>1. ch \in Diff(stored, next)
    BY DEF Diff
  <2>2. ch.field = f /\ ch.to = next[f]
    OBVIOUS
  <2> QED
    BY <2>1, <2>2 DEF Concerning
<1> QED
  BY <1>2, <1>3, <1>4

LEMMA EffectiveIs ==
    ASSUME NEW s \in SoundStep, s.do = "save", NEW stored \in Sheet
    PROVE  LET next == Effective(s, stored)
           IN  /\ next \in Sheet
               /\ \A f \in Fields : next[f] = s.n \/ next[f] = s.form[f] \/ next[f] = stored[f]
               /\ s.by = "manager" => \A f \in Fields \ {"group"} : next[f] = stored[f]
               /\ s.char = Account =>
                    \A f \in Fields : next[f] = IF f \in s.touched THEN s.n ELSE stored[f]
               /\ ~IsElevated(s.by) => next["secret"] = stored["secret"]
               /\ IsElevated(s.by) /\ "secret" \in s.touched => next["secret"] = s.n
<1> DEFINE next == Effective(s, stored)
<1>1. s.n \in Values /\ s.form \in Sheet /\ s.touched \in SUBSET Fields
      /\ s.by \in Authors
  BY SoundIsStep, StepFields
<1>2. /\ s.char = Account => s.touched \cap {"secret", "name"} = {}
      /\ s.by = "manager" => s.touched = {"group"}
  BY DEF SoundStep
<1>3. /\ Filled(s) \in Sheet
      /\ \A f \in Fields : Filled(s)[f] = IF f \in s.touched THEN s.n ELSE s.form[f]
  BY <1>1 DEF Filled, Sheet
<1>4. CASE s.char = Account
  <2>1. next = [f \in Fields |-> IF f \in s.touched THEN s.n ELSE stored[f]]
    BY <1>4 DEF Effective
  <2>2. next \in Sheet
        /\ \A f \in Fields : next[f] = IF f \in s.touched THEN s.n ELSE stored[f]
    BY <1>1, <2>1 DEF Sheet
  <2> HIDE DEF next
  <2>3. ~IsElevated(s.by) => next["secret"] = stored["secret"]
    BY <1>2, <1>4, <2>2, FieldsAre
  <2>4. s.by = "manager" => \A f \in Fields \ {"group"} : next[f] = stored[f]
    BY <1>2, <2>2
  <2>5. IsElevated(s.by) /\ "secret" \in s.touched => next["secret"] = s.n
    BY <1>2, <1>4
  <2> QED
    BY <2>2, <2>3, <2>4, <2>5 DEF next
<1>5. CASE s.char # Account /\ s.by = "manager"
  <2>1. next = [stored EXCEPT !["group"] = Filled(s)["group"]]
    BY <1>5 DEF Effective
  <2>2. next \in Sheet /\ next["group"] = Filled(s)["group"]
        /\ \A f \in Fields \ {"group"} : next[f] = stored[f]
    BY <1>3, <2>1, FieldsAre DEF Sheet
  <2>3. \A f \in Fields : next[f] = s.n \/ next[f] = s.form[f] \/ next[f] = stored[f]
    BY <1>3, <2>2, FieldsAre
  <2>4. next["secret"] = stored["secret"] /\ ~IsElevated(s.by)
    BY <1>5, <2>2, FieldsAre DEF IsElevated
  <2> HIDE DEF next
  <2> QED
    BY <1>5, <2>2, <2>3, <2>4 DEF next
<1>6. CASE s.char # Account /\ s.by # "manager" /\ ~IsElevated(s.by)
  <2>1. next = [Filled(s) EXCEPT !["secret"] = stored["secret"]]
    BY <1>6 DEF Effective
  <2>2. next \in Sheet /\ next["secret"] = stored["secret"]
        /\ \A f \in Fields \ {"secret"} : next[f] = Filled(s)[f]
    BY <1>3, <2>1, FieldsAre DEF Sheet
  <2>3. \A f \in Fields : next[f] = s.n \/ next[f] = s.form[f] \/ next[f] = stored[f]
    BY <1>3, <2>2, FieldsAre
  <2> HIDE DEF next
  <2> QED
    BY <1>6, <2>2, <2>3 DEF next
<1>7. CASE s.char # Account /\ IsElevated(s.by)
  <2>0. s.by # "manager"
    BY <1>7 DEF IsElevated
  <2>1. next = Filled(s)
    BY <1>7, <2>0 DEF Effective
  <2>2. \A f \in Fields : next[f] = s.n \/ next[f] = s.form[f] \/ next[f] = stored[f]
    BY <1>3, <2>1
  <2>3. next["secret"] = IF "secret" \in s.touched THEN s.n ELSE s.form["secret"]
    BY <1>3, <2>1, FieldsAre
  <2>4. next \in Sheet
    BY <1>3, <2>1
  <2> HIDE DEF next
  <2> QED
    BY <1>7, <2>0, <2>2, <2>3, <2>4 DEF next
<1> QED
  BY <1>4, <1>5, <1>6, <1>7

-----------------------------------------------------------------------------
(* Sheets: a form is opened, and its sender's request reads the sheet *)

FormOf(c, by, n, touched, form) ==
    [Do("save") EXCEPT !.char = c, !.by = by, !.n = n, !.touched = touched, !.form = form]
LEMMA FormStep ==
    ASSUME NEW c \in SheetIds, NEW by \in Authors, NEW n \in Values,
           NEW touched \in SUBSET Fields, NEW form \in Sheet,
           c = Account => touched \cap {"secret", "name"} = {},
           by = "manager" => touched = {"group"}
    PROVE  LET s == FormOf(c, by, n, touched, form)
           IN  s \in SoundStep /\ s.do = "save" /\ s.char = c /\ s.n = n /\ s.form = form
<1> DEFINE s == FormOf(c, by, n, touched, form)
<1>1. Do("save") \in Step /\ Do("save").do = "save"
  BY DoIs DEF SheetWork
<1>2. /\ s \in Step /\ s.do = "save" /\ s.char = c /\ s.by = by /\ s.n = n
      /\ s.touched = touched /\ s.form = form
  BY <1>1 DEF Step, FormOf
<1> HIDE DEF s
<1>3. s \in SoundStep
  BY <1>2 DEF SoundStep, SheetWork, PlaceWork, TalkWork, Arrival
<1> QED
  BY <1>2, <1>3 DEF s

LEMMA JudgeSame ==
    ASSUME UNCHANGED <<reviews, history>>,
           \A s : s.do = "review" => (s \in Running' <=> s \in Running)
    PROVE  \A c, f, v : Covered(c, f, v)' <=> Covered(c, f, v)
BY DEF Covered, ToJudge

LEMMA OpenFormKeeps ==
    ASSUME Inv, NEW h \in Handlers, NEW c \in SheetIds,
           NEW by \in Authors, NEW touched \in Edits,
           OpenForm(h, c, by, touched)
    PROVE  Inv'
<1>1. /\ Typed /\ JobsSound /\ SheetInv /\ SheetTypes /\ PlaceTypes /\ FileTypes /\ TalkTypes
      /\ history \in Excuses /\ Counts
  BY TypeParts DEF Inv
<1> PICK n : n = requests + 1
  OBVIOUS
<1> PICK s : s = FormOf(c, by, n, touched, sheets[c])
  OBVIOUS
<1>2. /\ c \in exists \cup {Account} /\ Start(h, <<s>>)
      /\ UNCHANGED <<sheetVars, places, fileVars, messages, history>>
      /\ c = Account => touched \cap {"secret", "name"} = {}
      /\ by = "manager" => touched = {"group"}
  BY DEF OpenForm, FormOf
<1>3. n \in Values /\ n \in Nat /\ requests \in Nat /\ n > requests
  BY <1>1, <1>2, ConstantsFit DEF Start, Request, Counts, Values
<1>4. s \in SoundStep /\ s.do = "save" /\ s.char = c /\ s.n = n /\ s.form = sheets[c]
  <2>1. touched \in SUBSET Fields /\ sheets[c] \in Sheet
    BY <1>1, ConstantsFit DEF SheetTypes
  <2> QED
    BY <1>2, <1>3, <2>1, FormStep
<1>5. <<s>> \in Seq(SoundStep) /\ Plan(<<s>>) /\ {<<s>>[i] : i \in DOMAIN <<s>>} = {s}
  BY <1>4, LoneJob DEF Lone, SheetWork
<1>6. /\ JobsSound' /\ job[h] = <<>> /\ Steps(h) = {} /\ Steps(h)' = {s}
      /\ \A g \in Handlers \ {h} : job'[g] = job[g] /\ Steps(g)' = Steps(g)
      /\ requests' = n /\ requests' \in 0..MaxRequests /\ faults' = faults /\ ops' = ops
  BY <1>1, <1>2, <1>5, StartIs
<1>7. \A t : t \in Running' <=> t \in Running \/ t = s
  BY <1>6 DEF Running
<1>8. \A other \in Works \ {SheetWork} : Elsewhere(other)
  BY <1>1, <1>4, <1>6, StaysIn DEF Works, SheetWork
<1>9. LinkInv' /\ TalkInv' /\ FileInv'
  <2>1. KeepsLinks /\ KeepsTalk /\ KeepsFiles
    BY <1>2 DEF KeepsLinks, KeepsTalk, KeepsFiles, fileVars
  <2> QED
    BY <1>6, <1>8, <2>1, SheetsOnly
<1>10. Typed'
  <2>1. SheetTypes' /\ PlaceTypes' /\ FileTypes' /\ TalkTypes' /\ history' \in Excuses
    BY <1>1, <1>2, SheetTypesStay, PlaceTypesStay, FileTypesStay, TalkTypesStay DEF sheetVars
  <2>2. Counts'
    BY <1>1, <1>6 DEF Counts
  <2> QED
    BY <1>6, <2>1, <2>2, TypedNext
<1>11. NumbersFresh'
  <2>1. \A gs \in SUBSET Handlers : \A m : m # n /\ Unseen(gs, m) => Unseen(gs, m)'
    <3> SUFFICES ASSUME NEW gs \in SUBSET Handlers, NEW m, m # n, Unseen(gs, m)
                 PROVE  Unseen(gs, m)'
      OBVIOUS
    <3>1. Before(s, m)
      BY <1>1, <1>4 DEF Before, Unseen, SheetTypes
    <3>2. \A k \in gs : \A t \in Steps(k)' : Before(t, m)
      BY <1>6, <3>1 DEF Unseen
    <3> QED
      BY <1>2, <3>2 DEF Unseen, sheetVars
  <2>2. Unseen(Handlers \ {h}, n)'
    <3>1. Unseen(Handlers, n)
      BY <1>1, <1>3 DEF SheetInv, NumbersFresh
    <3> QED
      BY <1>2, <1>6, <3>1 DEF Unseen, sheetVars
  <2>3. \A g \in Handlers : \A t \in Steps(g)' : t.do \in {"save", "write"} =>
           /\ t.n \in 1..requests' /\ Unseen(Handlers \ {g}, t.n)'
           /\ t.do = "write" => \A f \in Fields : t.base[f] # t.n
    <3> SUFFICES ASSUME NEW g \in Handlers, NEW t \in Steps(g)', t.do \in {"save", "write"}
                 PROVE  /\ t.n \in 1..requests' /\ Unseen(Handlers \ {g}, t.n)'
                        /\ t.do = "write" => \A f \in Fields : t.base[f] # t.n
      OBVIOUS
    <3>1. CASE g = h
      BY <1>3, <1>4, <1>6, <2>2, <3>1
    <3>2. CASE g # h
      <4>1. t \in Steps(g)
        BY <1>6, <3>2
      <4>2. /\ t.n \in 1..requests /\ Unseen(Handlers \ {g}, t.n)
            /\ t.do = "write" => \A f \in Fields : t.base[f] # t.n
        BY <1>1, <4>1 DEF SheetInv, NumbersFresh
      <4> QED
        BY <1>3, <1>6, <2>1, <4>2
    <3> QED
      BY <3>1, <3>2
  <2>4. \A m \in Nat : m > requests' => Unseen(Handlers, m)'
    BY <1>1, <1>3, <1>6, <2>1 DEF SheetInv, NumbersFresh
  <2> QED
    BY <2>3, <2>4 DEF NumbersFresh
<1>12. Covers'
  <2>1. \A d, f, v : Covered(d, f, v)' <=> Covered(d, f, v)
    BY <1>2, <1>4, <1>7, JudgeSame DEF sheetVars
  <2>2. Undisturbed' = Undisturbed
    BY <1>2 DEF Undisturbed, sheetVars
  <2> SUFFICES ASSUME NEW d \in Undisturbed
               PROVE  /\ \A f \in Shown : Covered(d, f, sheets[d][f])
                      /\ \A r \in reviews : r.char = d =>
                           \A ch \in r.changes : Covered(d, ch.field, ch.from)
                      /\ \A t \in Running' : t.do = "review" /\ t.char = d =>
                           \A ch \in t.changes : Covered(d, ch.field, ch.from)
    BY <1>2, <2>1, <2>2 DEF Covers, sheetVars
  <2> QED
    BY <1>1, <1>4, <1>7 DEF SheetInv, Covers
<1>13. Born'
  <2> SUFFICES ASSUME NEW d \in Characters \ Given
               PROVE  /\ sheets[d]["name"] = 0 => Unborn(d)'
                      /\ \A r \in reviews : r.char = d =>
                           \A ch \in r.changes : ch.field = "name" => ch.from # 0
                      /\ \A t \in Running' : t.char = d =>
                           /\ t.do \in {"save", "write"} => t.form["name"] # 0
                           /\ t.do = "write" => t.base["name"] # 0
                           /\ t.do = "review" =>
                                \A ch \in t.changes : ch.field = "name" => ch.from # 0
    BY <1>2 DEF Born, sheetVars
  <2>1. c = d => sheets[d]["name"] # 0
    BY <1>1, <1>2, ConstantsFit DEF SheetInv, Born, Unborn
  <2>2. sheets[d]["name"] = 0 => Unborn(d)'
    BY <1>1, <1>2, <1>4, <1>7, <2>1 DEF SheetInv, Born, Unborn, sheetVars
  <2> QED
    BY <1>1, <1>4, <1>7, <2>1, <2>2 DEF SheetInv, Born
<1>14. SheetInv'
  BY <1>1, <1>2, <1>11, <1>12, <1>13 DEF SheetInv, SecretIsStaffs, sheetVars
<1> QED
  BY <1>6, <1>9, <1>10, <1>14 DEF Inv

-----------------------------------------------------------------------------
(* A request ends with an error or with the process *)

LEMMA SheetStepsGo ==
    ASSUME JobsSound, SheetInv, NEW h \in Handlers, Steps(h)' = {},
           \A g \in Handlers \ {h} : Steps(g)' = Steps(g),
           UNCHANGED <<sheetVars, requests>>,
           history'.accepted = history.accepted, history'.strangers = history.strangers,
           history'.secret = history.secret, history'.overtaken = history.overtaken,
           history'.tangled = history.tangled,
           history.interrupted \subseteq history'.interrupted,
           \A s \in Steps(h) : s.do = "review" =>
              s.char \notin exists \cup {Account} \/ s.char \in history'.interrupted
    PROVE  SheetInv'
<1>1. \A s : s \in Running' => s \in Running
  BY DEF Running
<1>2. \A s : s \in Running => s \in Running' \/ s \in Steps(h)
  BY DEF Running
<1>3. \A gs \in SUBSET Handlers : \A n : Unseen(gs, n) => Unseen(gs, n)'
  BY DEF Unseen, sheetVars
<1>4. \A g \in Handlers : Steps(g)' \subseteq Steps(g)
  OBVIOUS
<1>5. NumbersFresh'
  <2>1. \A g \in Handlers : \A s \in Steps(g)' : s.do \in {"save", "write"} =>
           /\ s.n \in 1..requests' /\ Unseen(Handlers \ {g}, s.n)'
           /\ s.do = "write" => \A f \in Fields : s.base[f] # s.n
    BY <1>3, <1>4 DEF SheetInv, NumbersFresh
  <2>2. \A n \in Nat : n > requests' => Unseen(Handlers, n)'
    BY <1>3 DEF SheetInv, NumbersFresh
  <2> QED
    BY <2>1, <2>2 DEF NumbersFresh
<1>6. Undisturbed' \subseteq Undisturbed
  BY DEF Undisturbed, sheetVars
<1>7. \A c \in Undisturbed' : \A f, v : Covered(c, f, v) => Covered(c, f, v)'
  <2> SUFFICES ASSUME NEW c \in Undisturbed', NEW f, NEW v, ToJudge(c, f, v)
               PROVE  ToJudge(c, f, v)'
    BY DEF Covered
  <2>1. \A s \in Steps(h) : s.do = "review" => s.char # c
    BY DEF Undisturbed, sheetVars
  <2> QED
    BY <1>2, <2>1 DEF ToJudge, sheetVars
<1>8. Covers'
  <2> SUFFICES ASSUME NEW c \in Undisturbed'
               PROVE  /\ \A f \in Shown : Covered(c, f, sheets[c][f])'
                      /\ \A r \in reviews : r.char = c =>
                           \A ch \in r.changes : Covered(c, ch.field, ch.from)'
                      /\ \A s \in Running' : s.do = "review" /\ s.char = c =>
                           \A ch \in s.changes : Covered(c, ch.field, ch.from)'
    BY DEF Covers, sheetVars
  <2>1. /\ \A f \in Shown : Covered(c, f, sheets[c][f])
        /\ \A r \in reviews : r.char = c =>
             \A ch \in r.changes : Covered(c, ch.field, ch.from)
        /\ \A s \in Running : s.do = "review" /\ s.char = c =>
             \A ch \in s.changes : Covered(c, ch.field, ch.from)
    BY <1>6 DEF SheetInv, Covers
  <2>2. \A f \in Shown : Covered(c, f, sheets[c][f])'
    <3>1. \A f \in Shown : Covered(c, f, sheets[c][f]) => Covered(c, f, sheets[c][f])'
      <4>1. sheets' = sheets
        BY DEF sheetVars
      <4> QED
        BY <1>7, <4>1 DEF Covered, ToJudge
    <3> QED
      BY <2>1, <3>1
  <2> QED
    BY <1>1, <1>7, <2>1, <2>2
<1>9. Born'
  <2> SUFFICES ASSUME NEW c \in Characters \ Given
               PROVE  /\ sheets[c]["name"] = 0 => Unborn(c)'
                      /\ \A r \in reviews : r.char = c =>
                           \A ch \in r.changes : ch.field = "name" => ch.from # 0
                      /\ \A s \in Running' : s.char = c =>
                           /\ s.do \in {"save", "write"} => s.form["name"] # 0
                           /\ s.do = "write" => s.base["name"] # 0
                           /\ s.do = "review" =>
                                \A ch \in s.changes : ch.field = "name" => ch.from # 0
    BY DEF Born, sheetVars
  <2>1. Unborn(c) => Unborn(c)'
    BY <1>1 DEF Unborn, sheetVars
  <2> QED
    BY <1>1, <2>1 DEF SheetInv, Born
<1>10. SecretIsStaffs'
  BY DEF SheetInv, SecretIsStaffs, sheetVars
<1>11. \A r \in reviews' : Single(r.changes)
  BY DEF SheetInv, sheetVars
<1> QED
  BY <1>5, <1>8, <1>9, <1>10, <1>11 DEF SheetInv

\* The request of a form fails: the character is not there any more.
LEMMA SheetRefused ==
    ASSUME Inv, NEW h \in Handlers, job[h] # <<>>, Now(h).do \in SheetWork, Refuse(h),
           Now(h).do = "review" => Now(h).char \notin exists \cup {Account},
           UNCHANGED <<sheetVars, places, fileVars, messages, history>>
    PROVE  Inv'
<1>1. /\ Typed /\ JobsSound /\ SheetInv /\ SheetTypes /\ PlaceTypes /\ FileTypes /\ TalkTypes
      /\ history \in Excuses /\ Counts
  BY TypeParts DEF Inv
<1>2. /\ JobsSound' /\ job'[h] = <<>> /\ Steps(h)' = {}
      /\ \A g \in Handlers \ {h} : job'[g] = job[g] /\ Steps(g)' = Steps(g)
      /\ requests' = requests /\ faults' = faults /\ ops' = ops
  BY <1>1, RefuseIs
<1>3. Steps(h) = {Now(h)}
  BY <1>1, NowIs DEF Lone
<1>4. LinkInv' /\ TalkInv' /\ FileInv'
  <2>1. \A other \in Works \ {SheetWork} : Elsewhere(other)
    BY <1>1, <1>2, StaysIn DEF Works
  <2>2. KeepsLinks /\ KeepsTalk /\ KeepsFiles
    BY DEF KeepsLinks, KeepsTalk, KeepsFiles, fileVars
  <2> QED
    BY <1>2, <2>1, <2>2, SheetsOnly
<1>5. Typed'
  <2>1. SheetTypes' /\ PlaceTypes' /\ FileTypes' /\ TalkTypes' /\ history' \in Excuses
    BY <1>1, SheetTypesStay, PlaceTypesStay, FileTypesStay, TalkTypesStay DEF sheetVars
  <2>2. Counts'
    BY <1>1, <1>2 DEF Counts
  <2> QED
    BY <1>2, <2>1, <2>2, TypedNext
<1>6. SheetInv'
  BY <1>1, <1>2, <1>3, SheetStepsGo
<1> QED
  BY <1>2, <1>4, <1>5, <1>6 DEF Inv

-----------------------------------------------------------------------------
(* Save *)

WriteOf(s, stored) ==
    [s EXCEPT !.do = "write", !.base = stored, !.form = Effective(s, stored),
              !.changes = Diff(stored, Effective(s, stored))]
LEMMA WriteStep ==
    ASSUME NEW s \in SoundStep, s.do = "save", NEW stored \in Sheet
    PROVE  LET t == WriteOf(s, stored)
           IN  /\ t \in SoundStep /\ t.do = "write" /\ t.char = s.char /\ t.n = s.n
               /\ t.base = stored /\ t.form = Effective(s, stored)
<1> DEFINE t == WriteOf(s, stored)
<1> PICK next : next = Effective(s, stored)
  OBVIOUS
<1> PICK changes : changes = Diff(stored, next)
  OBVIOUS
<1>1. next \in Sheet /\ changes \in SUBSET Change
  BY EffectiveIs, DiffIs
<1>2. s \in Step /\ t = [s EXCEPT !.do = "write", !.base = stored, !.form = next,
                                  !.changes = changes]
  BY SoundIsStep DEF WriteOf
<1> HIDE DEF t
<1>3. /\ t.do = "write" /\ t.base = stored /\ t.form = next /\ t.changes = changes
      /\ t.char = s.char /\ t.by = s.by /\ t.n = s.n /\ t.touched = s.touched
      /\ t \in Step
  BY <1>1, <1>2 DEF Step
<1>4. Written(t)
  <2>1. /\ s.by = "manager" => \A f \in Fields \ {"group"} : next[f] = stored[f]
        /\ s.char = Account =>
             \A f \in Fields : next[f] = IF f \in s.touched THEN s.n ELSE stored[f]
        /\ ~IsElevated(s.by) => next["secret"] = stored["secret"]
        /\ IsElevated(s.by) /\ "secret" \in s.touched => next["secret"] = s.n
    BY EffectiveIs
  <2> QED
    BY <1>3, <2>1 DEF Written
<1>5. /\ s.char \in SheetIds
      /\ s.char = Account => s.touched \cap {"secret", "name"} = {}
      /\ s.by = "manager" => s.touched = {"group"}
  BY DEF SoundStep, SheetWork
<1>6. t \in SoundStep
  BY <1>3, <1>4, <1>5 DEF SoundStep, SheetWork, PlaceWork, TalkWork, Arrival
<1> QED
  BY <1>3, <1>6 DEF t

LEMMA SaveKeeps ==
    ASSUME Inv, NEW h \in Handlers, Save(h)
    PROVE  Inv'
<1>1. /\ Typed /\ JobsSound /\ SheetInv /\ SheetTypes /\ PlaceTypes /\ FileTypes /\ TalkTypes
      /\ history \in Excuses /\ Counts
  BY TypeParts DEF Inv
<1> PICK s : s = Now(h)
  OBVIOUS
<1>2. /\ job[h] # <<>> /\ s.do = "save" /\ s.do \in Lone /\ s.do \in SheetWork
      /\ UNCHANGED <<sheetVars, places, fileVars, messages, history>>
  BY DEF Save, Doing, Now, Lone, SheetWork
<1>3. s \in SoundStep /\ Steps(h) = {s} /\ s.char \in SheetIds
  BY <1>1, <1>2, NowIs DEF SoundStep
<1>4. CASE s.char \notin exists \cup {Account}
  <2>1. Refuse(h)
    BY <1>4 DEF Save
  <2> QED
    BY <1>2, <2>1, SheetRefused
<1>5. CASE s.char \in exists \cup {Account}
  <2> PICK stored : stored = sheets[s.char]
    OBVIOUS
  <2> PICK t : t = WriteOf(s, stored)
    OBVIOUS
  <2>1. Then(h, <<t>>)
    BY <1>5 DEF Save, WriteOf
  <2>2. stored \in Sheet
    BY <1>1, <1>3 DEF SheetTypes
  <2>3. /\ t \in SoundStep /\ t.do = "write" /\ t.char = s.char /\ t.n = s.n
        /\ t.base = stored /\ t.form = Effective(s, stored)
    BY <1>2, <1>3, <2>2, WriteStep
  <2>4. \A f \in Fields : t.form[f] = s.n \/ t.form[f] = s.form[f] \/ t.form[f] = stored[f]
    BY <1>2, <1>3, <2>2, <2>3, EffectiveIs
  <2>5. /\ JobsSound' /\ Steps(h)' = {t}
        /\ \A g \in Handlers \ {h} : job'[g] = job[g] /\ Steps(g)' = Steps(g)
        /\ requests' = requests /\ faults' = faults /\ ops' = ops
    BY <1>1, <1>2, <2>1, <2>3, ThenOneIs DEF Lone, SheetWork
  <2>6. LinkInv' /\ TalkInv' /\ FileInv'
    <3>1. \A other \in Works \ {SheetWork} : Elsewhere(other)
      BY <1>1, <1>2, <2>3, <2>5, StaysIn DEF Works, SheetWork
    <3>2. KeepsLinks /\ KeepsTalk /\ KeepsFiles
      BY <1>2 DEF KeepsLinks, KeepsTalk, KeepsFiles, fileVars
    <3> QED
      BY <2>5, <3>1, <3>2, SheetsOnly
  <2>7. Typed'
    <3>1. SheetTypes' /\ PlaceTypes' /\ FileTypes' /\ TalkTypes' /\ history' \in Excuses
      BY <1>1, <1>2, SheetTypesStay, PlaceTypesStay, FileTypesStay, TalkTypesStay
      DEF sheetVars
    <3>2. Counts'
      BY <1>1, <2>5 DEF Counts
    <3> QED
      BY <2>5, <3>1, <3>2, TypedNext
  <2>8. \A x : x.do = "review" => (x \in Running' <=> x \in Running)
    BY <1>2, <1>3, <2>3, <2>5 DEF Running
  <2>9. \A x : x \in Running' => x \in Running \/ x = t
    BY <2>5 DEF Running
  <2>10. s \in Running
    BY <1>3 DEF Running
  <2>11. /\ s.n \in 1..requests /\ Unseen(Handlers \ {h}, s.n)
    BY <1>1, <1>2, <1>3 DEF SheetInv, NumbersFresh
  <2>12. \A gs \in SUBSET Handlers : \A m : Unseen(gs, m) => Unseen(gs, m)'
    <3> SUFFICES ASSUME NEW gs \in SUBSET Handlers, NEW m, Unseen(gs, m)
                 PROVE  Unseen(gs, m)'
      OBVIOUS
    <3>1. CASE h \notin gs
      BY <1>2, <2>5, <3>1 DEF Unseen, sheetVars
    <3>2. CASE h \in gs
      <4>1. Before(s, m)
        BY <1>3, <3>2 DEF Unseen
      <4>2. \A f \in Fields : stored[f] # m
        BY <1>3 DEF Unseen
      <4>3. Before(t, m)
        BY <1>2, <2>3, <2>4, <4>1, <4>2 DEF Before
      <4>4. \A k \in gs : \A x \in Steps(k)' : Before(x, m)
        BY <2>5, <4>3 DEF Unseen
      <4> QED
        BY <1>2, <4>4 DEF Unseen, sheetVars
    <3> QED
      BY <3>1, <3>2
  <2>13. NumbersFresh'
    <3>1. \A g \in Handlers : \A x \in Steps(g)' : x.do \in {"save", "write"} =>
             /\ x.n \in 1..requests' /\ Unseen(Handlers \ {g}, x.n)'
             /\ x.do = "write" => \A f \in Fields : x.base[f] # x.n
      <4> SUFFICES ASSUME NEW g \in Handlers, NEW x \in Steps(g)',
                          x.do \in {"save", "write"}
                   PROVE  /\ x.n \in 1..requests' /\ Unseen(Handlers \ {g}, x.n)'
                          /\ x.do = "write" => \A f \in Fields : x.base[f] # x.n
        OBVIOUS
      <4>1. CASE g = h
        <5>1. x = t
          BY <2>5, <4>1
        <5>2. \A f \in Fields : stored[f] # s.n
          BY <1>3, <2>11 DEF Unseen
        <5> QED
          BY <2>3, <2>5, <2>11, <2>12, <4>1, <5>1, <5>2
      <4>2. CASE g # h
        <5>1. x \in Steps(g)
          BY <2>5, <4>2
        <5>2. /\ x.n \in 1..requests /\ Unseen(Handlers \ {g}, x.n)
              /\ x.do = "write" => \A f \in Fields : x.base[f] # x.n
          BY <1>1, <5>1 DEF SheetInv, NumbersFresh
        <5> QED
          BY <2>5, <2>12, <5>2
      <4> QED
        BY <4>1, <4>2
    <3>2. \A m \in Nat : m > requests' => Unseen(Handlers, m)'
      BY <1>1, <2>5, <2>12 DEF SheetInv, NumbersFresh
    <3> QED
      BY <3>1, <3>2 DEF NumbersFresh
  <2>14. Covers'
    <3>1. \A d, f, v : Covered(d, f, v)' <=> Covered(d, f, v)
      BY <1>2, <2>8, JudgeSame DEF sheetVars
    <3>2. Undisturbed' = Undisturbed
      BY <1>2 DEF Undisturbed, sheetVars
    <3> SUFFICES ASSUME NEW d \in Undisturbed
                 PROVE  /\ \A f \in Shown : Covered(d, f, sheets[d][f])
                        /\ \A r \in reviews : r.char = d =>
                             \A ch \in r.changes : Covered(d, ch.field, ch.from)
                        /\ \A x \in Running' : x.do = "review" /\ x.char = d =>
                             \A ch \in x.changes : Covered(d, ch.field, ch.from)
      BY <1>2, <3>1, <3>2 DEF Covers, sheetVars
    <3> QED
      BY <1>1, <2>8 DEF SheetInv, Covers
  <2>15. Born'
    <3> SUFFICES ASSUME NEW d \in Characters \ Given
                 PROVE  /\ sheets[d]["name"] = 0 => Unborn(d)'
                        /\ \A r \in reviews : r.char = d =>
                             \A ch \in r.changes : ch.field = "name" => ch.from # 0
                        /\ \A x \in Running' : x.char = d =>
                             /\ x.do \in {"save", "write"} => x.form["name"] # 0
                             /\ x.do = "write" => x.base["name"] # 0
                             /\ x.do = "review" =>
                                  \A ch \in x.changes : ch.field = "name" => ch.from # 0
      BY <1>2 DEF Born, sheetVars
    <3>1. s.char = d => sheets[d]["name"] # 0 /\ s.form["name"] # 0
      BY <1>1, <1>2, <2>10 DEF SheetInv, Born, Unborn
    <3>2. s.char = d => stored["name"] # 0 /\ t.form["name"] # 0
      BY <2>4, <2>11, <3>1, FieldsAre
    <3>3. sheets[d]["name"] = 0 => Unborn(d)'
      BY <1>1, <1>2, <2>3, <2>9, <3>1 DEF SheetInv, Born, Unborn, sheetVars
    <3> QED
      BY <1>1, <2>3, <2>9, <3>2, <3>3 DEF SheetInv, Born
  <2>16. SheetInv'
    BY <1>1, <1>2, <2>13, <2>14, <2>15 DEF SheetInv, SecretIsStaffs, sheetVars
  <2> QED
    BY <2>5, <2>6, <2>7, <2>16 DEF Inv
<1> QED
  BY <1>4, <1>5

-----------------------------------------------------------------------------
(* Write *)

ReviewOf(s) == [s EXCEPT !.do = "review"]
LEMMA ReviewStep ==
    ASSUME NEW s \in SoundStep, s.do = "write"
    PROVE  LET t == ReviewOf(s)
           IN  /\ t \in SoundStep /\ t.do = "review" /\ t.char = s.char /\ t.n = s.n
               /\ t.changes = s.changes /\ t.changes = Diff(s.base, s.form)
<1> DEFINE t == ReviewOf(s)
<1>1. s \in Step /\ s.base \in Sheet /\ s.form \in Sheet
  BY SoundIsStep, StepFields
<1>2. t \in Step /\ t.do = "review" /\ t.char = s.char /\ t.n = s.n /\ t.changes = s.changes
  BY <1>1 DEF Step, ReviewOf
<1> HIDE DEF t
<1>3. s.changes = Diff(s.base, s.form) /\ s.char \in SheetIds
  BY DEF SoundStep, Written, SheetWork
<1>4. Single(s.changes)
  BY <1>1, <1>3, DiffIs
<1>5. t \in SoundStep
  BY <1>2, <1>3, <1>4 DEF SoundStep, SheetWork, PlaceWork, TalkWork, Arrival
<1> QED
  BY <1>2, <1>3, <1>5 DEF t

\* What is written, and whether another request was faster.
NextOf(s, now) ==
    [s.form EXCEPT !["name"] = IF s.by = "manager" THEN now["name"] ELSE @]
StaleFor(s, now) ==
    \/ now # s.base
    \/ /\ IsElevated(s.by) /\ s.char # Account /\ "secret" \notin s.touched
       /\ NextOf(s, now)["secret"] # now["secret"]
LEMMA NextIs ==
    ASSUME NEW s \in SoundStep, s.do = "write", NEW now \in Sheet
    PROVE  LET next == NextOf(s, now)
           IN  /\ next \in Sheet
               /\ \A f \in Fields : next[f] = s.form[f] \/ (f = "name" /\ next[f] = now[f])
               /\ ~StaleFor(s, now) => next = s.form
               /\ ~StaleFor(s, now) => next["secret"] =
                    IF IsElevated(s.by) /\ "secret" \in s.touched THEN s.n ELSE now["secret"]
<1>1. /\ s \in Step /\ s.base \in Sheet /\ s.form \in Sheet
      /\ s.by \in Authors
  BY SoundIsStep, StepFields
<1>2. Written(s) /\ (s.char = Account => s.touched \cap {"secret", "name"} = {})
  BY DEF SoundStep
<1>3. PICK next : next = NextOf(s, now)
  OBVIOUS
<1>4. /\ next \in Sheet /\ \A f \in Fields \ {"name"} : next[f] = s.form[f]
      /\ next["name"] = IF s.by = "manager" THEN now["name"] ELSE s.form["name"]
  BY <1>1, <1>3, FieldsAre DEF NextOf, Sheet
<1>5. ~StaleFor(s, now) => now = s.base
  BY DEF StaleFor
<1>6. ~StaleFor(s, now) => next = s.form
  <2> SUFFICES ASSUME ~StaleFor(s, now) PROVE next = s.form
    OBVIOUS
  <2>1. s.by = "manager" => s.form["name"] = s.base["name"]
    BY <1>2, FieldsAre DEF Written
  <2>2. \A f \in Fields : next[f] = s.form[f]
    BY <1>4, <1>5, <2>1
  <2> QED
    BY <1>1, <1>4, <2>2 DEF Sheet
<1>7. ~StaleFor(s, now) => next["secret"] =
         IF IsElevated(s.by) /\ "secret" \in s.touched THEN s.n ELSE now["secret"]
  <2> SUFFICES ASSUME ~StaleFor(s, now)
               PROVE  next["secret"] =
                        IF IsElevated(s.by) /\ "secret" \in s.touched THEN s.n ELSE now["secret"]
    OBVIOUS
  <2>1. CASE IsElevated(s.by) /\ "secret" \in s.touched
    BY <1>2, <1>6, <2>1 DEF Written
  <2>2. CASE IsElevated(s.by) /\ "secret" \notin s.touched /\ s.char # Account
    BY <1>3, <2>2 DEF StaleFor
  <2>3. CASE s.char = Account
    BY <1>2, <1>5, <1>6, <2>3, FieldsAre DEF Written
  <2>4. CASE ~IsElevated(s.by)
    BY <1>2, <1>5, <1>6, <2>4, FieldsAre DEF Written
  <2> QED
    BY <2>1, <2>2, <2>3, <2>4
<1> QED
  BY <1>3, <1>4, <1>6, <1>7

\* The request is done, or it goes on with the review.
WriteGoesOn(h, s) ==
    /\ JobsSound' /\ UNCHANGED <<requests, faults, ops>>
    /\ \A g \in Handlers \ {h} : job'[g] = job[g] /\ Steps(g)' = Steps(g)
    /\ Steps(h)' = IF Judged(s) THEN {ReviewOf(s)} ELSE {}
LEMMA WriteJobs ==
    ASSUME JobsSound, NEW h \in Handlers, job[h] # <<>>, Now(h).do = "write",
           Then(h, IF Judged(Now(h)) THEN <<ReviewOf(Now(h))>> ELSE <<>>)
    PROVE  WriteGoesOn(h, Now(h)) /\ Steps(h) = {Now(h)}
<1>1. /\ Now(h) \in SoundStep /\ Steps(h) = {Now(h)} /\ Now(h).do \in Lone
  BY NowIs DEF Lone, SheetWork
<1>2. CASE Judged(Now(h))
  <2>1. ReviewOf(Now(h)) \in SoundStep /\ ReviewOf(Now(h)).do \in Lone
    BY <1>1, ReviewStep DEF Lone, SheetWork
  <2> QED
    BY <1>1, <1>2, <2>1, ThenOneIs DEF WriteGoesOn
<1>3. CASE ~Judged(Now(h))
  BY <1>1, <1>3, ThenIs DEF WriteGoesOn
<1> QED
  BY <1>1, <1>2, <1>3

Wrote(h, s) ==
    /\ h \in Handlers /\ s \in SoundStep /\ s.do = "write" /\ Steps(h) = {s}
    /\ WriteGoesOn(h, s) /\ s.char \in exists \cup {Account}
    /\ sheets' = [sheets EXCEPT ![s.char] = NextOf(s, sheets[s.char])]
    /\ UNCHANGED <<exists, reviews, places, fileVars, messages>>
    /\ history' \in Excuses
    /\ history'.overtaken =
         history.overtaken \cup When(StaleFor(s, sheets[s.char]), {s.char})
    /\ history'.strangers = history.strangers \cup When(Judged(s), {s.n})
    /\ history'.accepted = history.accepted
         \cup When(Owns(s.by), Sent(s, NextOf(s, sheets[s.char])))
    /\ history'.secret = [history.secret EXCEPT ![s.char] =
         IF IsElevated(s.by) /\ "secret" \in s.touched THEN s.n ELSE @]
    /\ history'.tangled = history.tangled /\ history'.interrupted = history.interrupted
    /\ KeepsLinks /\ KeepsTalk /\ KeepsFiles
LEMMA WriteIs ==
    ASSUME Inv, NEW h \in Handlers, Write(h), Now(h).char \in exists \cup {Account}
    PROVE  Wrote(h, Now(h))
<1>1. JobsSound /\ SheetTypes /\ history \in Excuses
  BY TypeParts DEF Inv
<1> PICK s : s = Now(h)
  OBVIOUS
<1>2. job[h] # <<>> /\ s.do = "write" /\ UNCHANGED <<exists, reviews, places, fileVars, messages>>
  BY DEF Write, Doing, Now
<1>3. s \in SoundStep /\ s \in Step /\ s.char \in SheetIds
  BY <1>1, <1>2, NowIs DEF SoundStep, SheetWork
<1> PICK now : now = sheets[s.char]
  OBVIOUS
<1> PICK next : next = NextOf(s, now)
  OBVIOUS
<1>4. now \in Sheet /\ next \in Sheet
  BY <1>1, <1>2, <1>3, NextIs DEF SheetTypes
<1> PICK stale \in BOOLEAN : stale <=> StaleFor(s, now)
  OBVIOUS
<1>5. /\ sheets' = [sheets EXCEPT ![s.char] = next]
      /\ history' = [history EXCEPT
           !.overtaken = @ \cup When(stale, {s.char}),
           !.strangers = @ \cup When(Judged(s), {s.n}),
           !.accepted = @ \cup When(Owns(s.by), Sent(s, next)),
           !.secret[s.char] = IF IsElevated(s.by) /\ "secret" \in s.touched THEN s.n ELSE @]
      /\ Then(h, IF Judged(s) THEN <<ReviewOf(s)>> ELSE <<>>)
  BY DEF Write, NextOf, StaleFor, ReviewOf, When
<1>6. WriteGoesOn(h, s) /\ Steps(h) = {s}
  BY <1>1, <1>2, <1>5, WriteJobs
<1> PICK over : over = history.overtaken \cup When(stale, {s.char})
  OBVIOUS
<1> PICK strange : strange = history.strangers \cup When(Judged(s), {s.n})
  OBVIOUS
<1> PICK accepted : accepted = history.accepted \cup When(Owns(s.by), Sent(s, next))
  OBVIOUS
<1> PICK secret : secret = [history.secret EXCEPT ![s.char] =
                              IF IsElevated(s.by) /\ "secret" \in s.touched THEN s.n ELSE @]
  OBVIOUS
<1>7. /\ over \in SUBSET SheetIds /\ strange \in SUBSET Values
      /\ accepted \in SUBSET (SheetIds \X Shown \X Values)
      /\ secret \in [SheetIds -> Values]
  <2>1. s.n \in Values
    BY <1>3, StepFields
  <2>2. Sent(s, next) \in SUBSET (SheetIds \X Shown \X Values)
    BY <1>3, <1>4, FieldsAre DEF Sent, Sheet
  <2> QED
    BY <1>1, <1>3, <2>1, <2>2, HistoryIs DEF When
<1>8. history' = [history EXCEPT !.overtaken = over, !.strangers = strange,
                                 !.accepted = accepted, !.secret = secret]
  BY <1>1, <1>5 DEF Excuses
<1>9. /\ history'.overtaken = over /\ history'.strangers = strange
      /\ history'.accepted = accepted /\ history'.secret = secret
      /\ history'.tangled = history.tangled /\ history'.interrupted = history.interrupted
      /\ history'.raced = history.raced /\ history'.relinked = history.relinked
      /\ history'.unwarned = history.unwarned /\ history'.left = history.left
      /\ history'.mixed = history.mixed /\ history'.crowded = history.crowded
      /\ history'.late = history.late
  BY <1>1, <1>8 DEF Excuses
<1>10. history' \in Excuses
  <2> PICK A : A = SUBSET (SheetIds \X Shown \X Values)
    OBVIOUS
  <2> PICK S : S = [SheetIds -> Values]
    OBVIOUS
  <2> PICK N, I, C, E, F :
        N = SUBSET Values /\ I = SUBSET SheetIds /\ C = SUBSET Characters
        /\ E = SUBSET Events /\ F = SUBSET FileIds
    OBVIOUS
  <2>1. Excuses = [accepted : A, strangers : N, secret : S, overtaken : I, tangled : I,
                   interrupted : I, raced : C, relinked : E, unwarned : E,
                   left : F, mixed : F, crowded : C, late : N]
    BY DEF Excuses
  <2>2. accepted \in A /\ secret \in S /\ over \in I /\ strange \in N
    BY <1>7
  <2>3. history \in Excuses
    BY <1>1
  <2> QED
    BY <1>8, <2>1, <2>2, <2>3
<1>11. KeepsLinks /\ KeepsTalk /\ KeepsFiles
  BY <1>2, <1>9 DEF KeepsLinks, KeepsTalk, KeepsFiles, fileVars
<1>12. over = history.overtaken \cup When(StaleFor(s, sheets[s.char]), {s.char})
  BY DEF When
<1> QED
  BY <1>2, <1>3, <1>5, <1>6, <1>9, <1>10, <1>11, <1>12 DEF Wrote

\* What it means for the sheets, field by field.
LEMMA WroteSheet ==
    ASSUME SheetTypes, NEW h, NEW s, Wrote(h, s)
    PROVE  /\ s.char \in SheetIds /\ s.n \in Values /\ s.form \in Sheet /\ s.base \in Sheet
           /\ s.by \in Authors
           /\ sheets' \in [SheetIds -> Sheet] /\ sheets[s.char] \in Sheet
           /\ sheets'[s.char] = NextOf(s, sheets[s.char])
           /\ \A c \in SheetIds \ {s.char} : sheets'[c] = sheets[c]
           /\ \A f \in Fields : \/ sheets'[s.char][f] = s.form[f]
                                \/ f = "name" /\ sheets'[s.char][f] = sheets[s.char][f]
<1>1. s \in Step /\ s.char \in SheetIds
  BY SoundIsStep DEF Wrote, SoundStep, SheetWork
<1>2. /\ sheets[s.char] \in Sheet /\ NextOf(s, sheets[s.char]) \in Sheet
      /\ \A f \in Fields : \/ NextOf(s, sheets[s.char])[f] = s.form[f]
                           \/ f = "name" /\ NextOf(s, sheets[s.char])[f] = sheets[s.char][f]
  BY <1>1, NextIs DEF Wrote, SheetTypes
<1>3. /\ sheets' \in [SheetIds -> Sheet] /\ sheets'[s.char] = NextOf(s, sheets[s.char])
      /\ \A c \in SheetIds \ {s.char} : sheets'[c] = sheets[c]
  BY <1>1, <1>2 DEF Wrote, SheetTypes
<1> QED
  BY <1>1, <1>2, <1>3, StepFields

LEMMA WriteTyped ==
    ASSUME Inv, NEW h, NEW s, Wrote(h, s)
    PROVE  Typed' /\ LinkInv' /\ TalkInv' /\ FileInv'
<1>1. /\ JobsSound /\ SheetTypes /\ PlaceTypes /\ FileTypes /\ TalkTypes
      /\ history \in Excuses /\ Counts
  BY TypeParts DEF Inv
<1>2. SheetTypes'
  BY <1>1, WroteSheet DEF SheetTypes, Wrote
<1>3. PlaceTypes' /\ FileTypes' /\ TalkTypes'
  BY <1>1, PlaceTypesStay, FileTypesStay, TalkTypesStay DEF Wrote
<1>4. JobsSound' /\ history' \in Excuses /\ Counts'
  BY <1>1 DEF Counts, Wrote, WriteGoesOn
<1>5. \A other \in Works \ {SheetWork} : Elsewhere(other)
  <2>1. \A t \in Steps(h)' : t.do \in SheetWork
    BY ReviewStep DEF Wrote, WriteGoesOn, SheetWork
  <2>2. job[h] = <<>> \/ Now(h).do \in SheetWork
    BY <1>1, NowIs DEF Wrote, SheetWork
  <2> QED
    BY <1>1, <2>1, <2>2, StaysIn DEF Wrote, WriteGoesOn, Works
<1>6. LinkInv' /\ TalkInv' /\ FileInv'
  BY <1>4, <1>5, SheetsOnly DEF Wrote
<1> QED
  BY <1>2, <1>3, <1>4, <1>6, TypedNext

LEMMA WriteNumbers ==
    ASSUME Inv, NEW h, NEW s, Wrote(h, s)
    PROVE  /\ \A c \in SheetIds, f \in Fields : sheets[c][f] # s.n
           /\ \A r \in reviews : \A ch \in r.changes : ch.from # s.n
           /\ s.n \notin history.strangers
           /\ \A t \in Running : t.do = "review" => \A ch \in t.changes : ch.from # s.n
           /\ NumbersFresh'
<1>1. JobsSound /\ SheetTypes /\ SheetInv /\ Counts
  BY TypeParts DEF Inv
<1>2. /\ h \in Handlers /\ s \in SoundStep /\ s.do = "write" /\ Steps(h) = {s}
      /\ WriteGoesOn(h, s) /\ reviews' = reviews
  BY DEF Wrote
<1>3. s.n \in 1..requests /\ Unseen(Handlers \ {h}, s.n) /\ s.n \in Nat
  <2>1. s \in Steps(h) /\ s.do \in {"save", "write"} /\ NumbersFresh
    BY <1>1, <1>2 DEF SheetInv
  <2>2. s.n \in 1..requests /\ Unseen(Handlers \ {h}, s.n)
    BY <1>2, <2>1 DEF NumbersFresh
  <2> QED
    BY <2>2
<1>4. /\ \A c \in SheetIds, f \in Fields : sheets[c][f] # s.n
      /\ \A r \in reviews : \A ch \in r.changes : ch.from # s.n
      /\ s.n \notin history.strangers
  BY <1>3 DEF Unseen
<1>5. \A t \in Running : t.do = "review" => \A ch \in t.changes : ch.from # s.n
  <2> SUFFICES ASSUME NEW t \in Running, t.do = "review"
               PROVE  \A ch \in t.changes : ch.from # s.n
    OBVIOUS
  <2>1. PICK g \in Handlers : t \in Steps(g)
    BY <1>1, RunningIs
  <2>2. g # h
    BY <1>2, <2>1
  <2>3. Before(t, s.n)
    BY <1>3, <2>1, <2>2 DEF Unseen
  <2> QED
    BY <2>3 DEF Before
<1>6. \A gs \in SUBSET Handlers : \A m : m # s.n /\ Unseen(gs, m) /\ Before(s, m) =>
         Unseen(gs, m)'
  <2> SUFFICES ASSUME NEW gs \in SUBSET Handlers, NEW m, m # s.n, Unseen(gs, m),
                      Before(s, m)
               PROVE  Unseen(gs, m)'
    OBVIOUS
  <2>1. \A f \in Fields : s.form[f] # m /\ s.base[f] # m
    BY <1>2 DEF Before
  <2>2. \A c \in SheetIds, f \in Fields : sheets'[c][f] # m
    BY <1>1, <2>1, WroteSheet DEF Unseen
  <2>3. m \notin history'.strangers
    BY DEF Wrote, Unseen, When
  <2>4. Before(ReviewOf(s), m)
    <3>1. /\ ReviewOf(s).do = "review" /\ ReviewOf(s).changes = Diff(s.base, s.form)
          /\ s.base \in Sheet /\ s.form \in Sheet
      BY <1>2, ReviewStep, SoundIsStep, StepFields
    <3>2. \A ch \in Diff(s.base, s.form) : ch.field \in Fields /\ ch.from = s.base[ch.field]
      BY <3>1, DiffIs, FieldsAre
    <3> QED
      BY <2>1, <3>1, <3>2 DEF Before
  <2>5. \A g \in gs : \A t \in Steps(g)' : Before(t, m)
    BY <1>2, <2>4 DEF Unseen, WriteGoesOn
  <2> QED
    BY <1>2, <2>2, <2>3, <2>5 DEF Unseen
<1>7. \A g \in Handlers : \A x \in Steps(g)' : x.do \in {"save", "write"} =>
         /\ x.n \in 1..requests' /\ Unseen(Handlers \ {g}, x.n)'
         /\ x.do = "write" => \A f \in Fields : x.base[f] # x.n
  <2> SUFFICES ASSUME NEW g \in Handlers, NEW x \in Steps(g)', x.do \in {"save", "write"}
               PROVE  /\ x.n \in 1..requests' /\ Unseen(Handlers \ {g}, x.n)'
                      /\ x.do = "write" => \A f \in Fields : x.base[f] # x.n
    OBVIOUS
  <2>1. g # h
    BY <1>2, ReviewStep DEF WriteGoesOn
  <2>2. x \in Steps(g)
    BY <1>2, <2>1 DEF WriteGoesOn
  <2>3. /\ x.n \in 1..requests /\ Unseen(Handlers \ {g}, x.n)
        /\ x.do = "write" => \A f \in Fields : x.base[f] # x.n
    BY <1>1, <2>2 DEF SheetInv, NumbersFresh
  <2>4. Before(s, x.n)
    BY <1>2, <2>1, <2>3 DEF Unseen
  <2>5. x.n # s.n
    BY <1>2, <2>4 DEF Before
  <2> QED
    BY <1>2, <1>6, <2>3, <2>4, <2>5 DEF WriteGoesOn
<1>8. \A m \in Nat : m > requests' => Unseen(Handlers, m)'
  <2> SUFFICES ASSUME NEW m \in Nat, m > requests PROVE Unseen(Handlers, m)'
    BY <1>2 DEF WriteGoesOn
  <2>1. Unseen(Handlers, m)
    BY <1>1 DEF SheetInv, NumbersFresh
  <2>2. Before(s, m)
    BY <1>2, <2>1 DEF Unseen
  <2>3. m # s.n
    BY <1>2, <2>2 DEF Before
  <2> QED
    BY <1>6, <2>1, <2>2, <2>3
<1> QED
  BY <1>4, <1>5, <1>7, <1>8 DEF NumbersFresh

LEMMA WriteCovers ==
    ASSUME Inv, NEW h, NEW s, Wrote(h, s)
    PROVE  Covers'
<1>1. JobsSound /\ SheetTypes /\ SheetInv
  BY TypeParts DEF Inv
<1>2. /\ h \in Handlers /\ s \in SoundStep /\ s.do = "write" /\ Steps(h) = {s}
      /\ WriteGoesOn(h, s) /\ exists' = exists /\ reviews' = reviews
  BY DEF Wrote
<1>3. /\ \A c \in SheetIds, f \in Fields : sheets[c][f] # s.n
      /\ \A r \in reviews : \A ch \in r.changes : ch.from # s.n
      /\ s.n \notin history.strangers
      /\ \A t \in Running : t.do = "review" => \A ch \in t.changes : ch.from # s.n
  BY WriteNumbers
<1>4. \A x : x.do = "review" /\ x \in Running => x \in Running'
  BY <1>2 DEF Running, WriteGoesOn
<1>5. \A x : x \in Running' => x \in Running \/ (x = ReviewOf(s) /\ Judged(s))
  BY <1>2 DEF Running, WriteGoesOn
<1>6. \A d, f, v : v # s.n /\ Covered(d, f, v) => Covered(d, f, v)'
  BY <1>2, <1>4 DEF Covered, ToJudge, Wrote, When
<1>7. Undisturbed' \subseteq Undisturbed /\ Undisturbed \subseteq SheetIds
  BY <1>1, <1>2 DEF Undisturbed, Wrote, SheetTypes, SheetIds
<1> PICK c : c = s.char
  OBVIOUS
<1> PICK now : now = sheets[c]
  OBVIOUS
<1> PICK next : next = NextOf(s, now)
  OBVIOUS
<1>8. /\ sheets'[c] = next /\ \A d \in SheetIds \ {c} : sheets'[d] = sheets[d]
      /\ now \in Sheet /\ c \in SheetIds /\ s.by \in Authors
      /\ s.form \in Sheet /\ s.base \in Sheet
  BY <1>1, WroteSheet
<1>9. c \in Undisturbed' => now = s.base /\ next = s.form
  <2>1. c \in Undisturbed' => ~StaleFor(s, now)
    BY DEF Undisturbed, Wrote, When
  <2>2. ~StaleFor(s, now) => now = s.base /\ next = s.form
    BY <1>2, <1>8, NextIs DEF StaleFor
  <2> QED
    BY <2>1, <2>2
<1>10. c \in Undisturbed' => \A f \in Shown : Covered(c, f, next[f])'
  <2> SUFFICES ASSUME c \in Undisturbed', NEW f \in Shown
               PROVE  Covered(c, f, next[f])'
    OBVIOUS
  <2>1. now = s.base /\ next = s.form /\ f \in Fields
    BY <1>9, FieldsAre
  <2>2. CASE next[f] = now[f]
    <3>1. Covered(c, f, now[f])
      BY <1>1, <1>7 DEF SheetInv, Covers
    <3>2. now[f] # s.n
      BY <1>3, <1>8, <2>1
    <3>3. PICK v : v = now[f]
      OBVIOUS
    <3>4. Covered(c, f, v)'
      BY <1>6, <3>1, <3>2, <3>3
    <3> QED
      BY <2>2, <3>3, <3>4
  <2>3. CASE next[f] # now[f]
    <3> PICK v : v = next[f]
      OBVIOUS
    <3>1. Concerning(s.changes, f, v)
      <4>1. s.changes = Diff(now, next)
        BY <1>2, <2>1 DEF SoundStep, Written
      <4> QED
        BY <1>8, <2>1, <2>3, <4>1, DiffIs
    <3>2. Covered(c, f, v)'
      <4>1. CASE Judged(s)
        <5>1. ReviewOf(s) \in Running'
          BY <1>2, <4>1 DEF Running, WriteGoesOn
        <5>2. /\ ReviewOf(s).do = "review" /\ ReviewOf(s).char = c
              /\ ReviewOf(s).changes = s.changes
          BY <1>2, ReviewStep
        <5>3. ToJudge(c, f, v)'
          BY <3>1, <5>1, <5>2 DEF ToJudge
        <5> QED
          BY <5>3 DEF Covered
      <4>2. CASE Owns(s.by)
        <5>1. f \in (IF s.char = Account THEN s.touched ELSE Fields)
          BY <1>2, <2>1, <2>3 DEF SoundStep, Written
        <5>2. <<c, f, v>> \in Sent(s, next)
          BY <5>1 DEF Sent
        <5>3. <<c, f, v>> \in history'.accepted
          BY <4>2, <5>2 DEF Wrote, When
        <5> QED
          BY <5>3 DEF Covered
      <4>3. CASE ~Judged(s) /\ ~Owns(s.by)
        <5>1. s.changes # {}
          BY <3>1 DEF Concerning
        <5>2. s.char = Account
          BY <4>3, <5>1 DEF Judged
        <5>3. v = s.n
          BY <1>2, <2>1, <2>3, <5>2 DEF SoundStep, Written
        <5>4. history'.strangers = history.strangers
          BY <4>3 DEF Wrote, When
        <5> QED
          BY <1>3, <5>3, <5>4 DEF Covered
      <4> QED
        BY <4>1, <4>2, <4>3
    <3> QED
      BY <3>2
  <2> QED
    BY <2>2, <2>3
<1>11. ASSUME NEW d \in Undisturbed'
       PROVE  /\ \A f \in Shown : Covered(d, f, sheets[d][f])'
              /\ \A r \in reviews : r.char = d =>
                   \A ch \in r.changes : Covered(d, ch.field, ch.from)'
              /\ \A t \in Running' : t.do = "review" /\ t.char = d =>
                   \A ch \in t.changes : Covered(d, ch.field, ch.from)'
  <2>1. /\ \A f \in Shown : Covered(d, f, sheets[d][f])
        /\ \A r \in reviews : r.char = d =>
             \A ch \in r.changes : Covered(d, ch.field, ch.from)
        /\ \A t \in Running : t.do = "review" /\ t.char = d =>
             \A ch \in t.changes : Covered(d, ch.field, ch.from)
    BY <1>1, <1>7 DEF SheetInv, Covers
  <2>2. \A f \in Shown : Covered(d, f, sheets[d][f])'
    <3> TAKE f \in Shown
    <3> PICK v : v = sheets'[d][f]
      OBVIOUS
    <3>1. CASE d = c
      <4>1. Covered(c, f, next[f])'
        BY <1>10, <3>1
      <4>2. v = next[f] /\ next[f] = (next[f])'
        BY <1>8, <3>1
      <4> QED
        BY <1>8, <3>1, <4>1, <4>2 DEF Covered, ToJudge
    <3>2. CASE d # c
      <4>1. v = sheets[d][f] /\ v # s.n
        BY <1>3, <1>7, <1>8, <3>2, FieldsAre
      <4>2. Covered(d, f, v)
        BY <2>1, <4>1
      <4>3. Covered(d, f, v)'
        BY <1>6, <4>1, <4>2
      <4> QED
        BY <4>3 DEF Covered, ToJudge
    <3> QED
      BY <3>1, <3>2
  <2>3. \A r \in reviews : r.char = d =>
           \A ch \in r.changes : Covered(d, ch.field, ch.from)'
    BY <1>3, <1>6, <2>1
  <2>4. \A t \in Running' : t.do = "review" /\ t.char = d =>
           \A ch \in t.changes : Covered(d, ch.field, ch.from)'
    <3> SUFFICES ASSUME NEW t \in Running', t.do = "review", t.char = d, NEW ch \in t.changes
                 PROVE  Covered(d, ch.field, ch.from)'
      OBVIOUS
    <3>1. CASE t \in Running
      BY <1>3, <1>6, <2>1, <3>1
    <3>2. CASE t = ReviewOf(s)
      <4>1. d = c /\ t.changes = Diff(s.base, s.form)
        BY <1>2, <3>2, ReviewStep
      <4>2. now = s.base
        BY <1>9, <4>1
      <4>3. ch.field \in Shown /\ ch.from = now[ch.field]
        BY <1>8, <4>1, <4>2, DiffIs
      <4>4. Covered(d, ch.field, ch.from)
        BY <2>1, <4>1, <4>3
      <4>5. ch.from # s.n
        BY <1>3, <1>8, <4>3, FieldsAre
      <4> QED
        BY <1>6, <4>4, <4>5
    <3> QED
      BY <1>5, <3>1, <3>2
  <2> QED
    BY <2>2, <2>3, <2>4
<1> QED
  BY <1>2, <1>11 DEF Covers

LEMMA WriteBorn ==
    ASSUME Inv, NEW h, NEW s, Wrote(h, s)
    PROVE  Born' /\ SecretIsStaffs'
<1>1. JobsSound /\ SheetTypes /\ SheetInv
  BY TypeParts DEF Inv
<1>2. /\ h \in Handlers /\ s \in SoundStep /\ s.do = "write" /\ Steps(h) = {s}
      /\ WriteGoesOn(h, s) /\ exists' = exists /\ reviews' = reviews
      /\ s.char \in exists \cup {Account}
  BY DEF Wrote
<1>3. s \in Running
  BY <1>2 DEF Running
<1>4. \A x : x \in Running' => x \in Running \/ x = ReviewOf(s)
  BY <1>2 DEF Running, WriteGoesOn
<1>5. /\ ReviewOf(s).do = "review" /\ ReviewOf(s).char = s.char
      /\ ReviewOf(s).changes = Diff(s.base, s.form)
  BY <1>2, ReviewStep
<1>6. /\ s.form \in Sheet /\ s.base \in Sheet /\ s.char \in SheetIds
      /\ sheets' \in [SheetIds -> Sheet] /\ sheets[s.char] \in Sheet
      /\ sheets'[s.char] = NextOf(s, sheets[s.char])
      /\ \A c \in SheetIds \ {s.char} : sheets'[c] = sheets[c]
      /\ \A f \in Fields : \/ sheets'[s.char][f] = s.form[f]
                           \/ f = "name" /\ sheets'[s.char][f] = sheets[s.char][f]
  BY <1>1, WroteSheet
<1>7. Born'
  <2> SUFFICES ASSUME NEW d \in Characters \ Given
               PROVE  /\ sheets'[d]["name"] = 0 => Unborn(d)'
                      /\ \A r \in reviews : r.char = d =>
                           \A ch \in r.changes : ch.field = "name" => ch.from # 0
                      /\ \A x \in Running' : x.char = d =>
                           /\ x.do \in {"save", "write"} => x.form["name"] # 0
                           /\ x.do = "write" => x.base["name"] # 0
                           /\ x.do = "review" =>
                                \A ch \in x.changes : ch.field = "name" => ch.from # 0
    BY <1>2 DEF Born
  <2>1. /\ sheets[d]["name"] = 0 => Unborn(d)
        /\ \A r \in reviews : r.char = d =>
             \A ch \in r.changes : ch.field = "name" => ch.from # 0
        /\ \A x \in Running : x.char = d =>
             /\ x.do \in {"save", "write"} => x.form["name"] # 0
             /\ x.do = "write" => x.base["name"] # 0
             /\ x.do = "review" =>
                  \A ch \in x.changes : ch.field = "name" => ch.from # 0
    BY <1>1 DEF SheetInv, Born
  <2>2. CASE d = s.char
    <3>1. s.form["name"] # 0 /\ s.base["name"] # 0 /\ sheets[d]["name"] # 0
      BY <1>2, <1>3, <2>1, <2>2 DEF Unborn, SheetWork
    <3>2. sheets'[d]["name"] # 0
      BY <1>6, <2>2, <3>1, FieldsAre
    <3>3. \A ch \in Diff(s.base, s.form) : ch.field = "name" => ch.from # 0
      BY <1>6, <3>1, DiffIs
    <3> QED
      BY <1>4, <1>5, <2>1, <3>2, <3>3
  <2>3. CASE d # s.char
    <3>1. sheets'[d] = sheets[d]
      BY <1>6, <2>3 DEF SheetIds
    <3>2. Unborn(d) => Unborn(d)'
      BY <1>2, <1>4, <1>5, <2>3 DEF Unborn
    <3> QED
      BY <1>4, <1>5, <2>1, <2>3, <3>1, <3>2
  <2> QED
    BY <2>2, <2>3
<1>8. SecretIsStaffs'
  <2> SUFFICES ASSUME NEW c \in (exists \cup {Account}) \ history'.overtaken
               PROVE  sheets'[c]["secret"] = history'.secret[c]
    BY <1>2 DEF SecretIsStaffs
  <2>1. c \notin history.overtaken /\ c \in SheetIds
    BY <1>1 DEF Wrote, SheetTypes, SheetIds
  <2>2. sheets[c]["secret"] = history.secret[c]
    BY <1>1, <2>1 DEF SheetInv, SecretIsStaffs
  <2>3. history.secret \in [SheetIds -> Values]
    BY TypeParts, HistoryIs DEF Inv
  <2>4. CASE c = s.char
    <3>1. ~StaleFor(s, sheets[c])
      BY <2>4 DEF Wrote, When
    <3>2. sheets'[c]["secret"] =
             IF IsElevated(s.by) /\ "secret" \in s.touched THEN s.n ELSE sheets[c]["secret"]
      BY <1>2, <1>6, <2>4, <3>1, NextIs
    <3>3. history'.secret[c] =
             IF IsElevated(s.by) /\ "secret" \in s.touched THEN s.n ELSE history.secret[c]
      BY <1>6, <2>3, <2>4 DEF Wrote
    <3> QED
      BY <2>2, <3>2, <3>3
  <2>5. CASE c # s.char
    BY <1>6, <2>1, <2>2, <2>3, <2>5 DEF Wrote
  <2> QED
    BY <2>4, <2>5
<1> QED
  BY <1>7, <1>8

LEMMA WriteKeeps ==
    ASSUME Inv, NEW h \in Handlers, Write(h)
    PROVE  Inv'
<1>1. CASE Now(h).char \in exists \cup {Account}
  <2>1. PICK s : s = Now(h)
    OBVIOUS
  <2>2. Wrote(h, s)
    BY <1>1, <2>1, WriteIs
  <2>3. Typed' /\ LinkInv' /\ TalkInv' /\ FileInv'
    BY <2>2, WriteTyped
  <2>4. NumbersFresh' /\ Covers' /\ Born' /\ SecretIsStaffs'
    BY <2>2, WriteNumbers, WriteCovers, WriteBorn
  <2>5. \A r \in reviews' : Single(r.changes)
    BY <2>2 DEF Inv, SheetInv, Wrote
  <2> QED
    BY <2>2, <2>3, <2>4, <2>5 DEF Inv, SheetInv, Wrote, WriteGoesOn
<1>2. CASE Now(h).char \notin exists \cup {Account}
  <2>1. /\ job[h] # <<>> /\ Now(h).do = "write" /\ Refuse(h)
        /\ UNCHANGED <<sheetVars, places, fileVars, messages, history>>
    BY <1>2 DEF Write, Doing, Now, sheetVars
  <2> QED
    BY <2>1, SheetRefused DEF SheetWork
<1> QED
  BY <1>1, <1>2

-----------------------------------------------------------------------------
(* Review *)

LEMMA ReviewKeeps ==
    ASSUME Inv, NEW h \in Handlers, Review(h)
    PROVE  Inv'
<1>1. /\ Typed /\ JobsSound /\ SheetInv /\ SheetTypes /\ PlaceTypes /\ FileTypes /\ TalkTypes
      /\ history \in Excuses /\ Counts
  BY TypeParts DEF Inv
<1> PICK s : s = Now(h)
  OBVIOUS
<1>2. /\ job[h] # <<>> /\ s.do = "review" /\ s.do \in Lone /\ s.do \in SheetWork
      /\ UNCHANGED <<exists, sheets, places, fileVars, messages, history>>
  BY DEF Review, Doing, Now, Lone, SheetWork
<1>3. /\ s \in SoundStep /\ Steps(h) = {s} /\ s.char \in SheetIds /\ Single(s.changes)
      /\ s.n \in Values /\ s.changes \in SUBSET Change
  BY <1>1, <1>2, NowIs, StepFields DEF SoundStep
<1>4. CASE s.char \notin exists \cup {Account}
  <2>1. Refuse(h) /\ UNCHANGED sheetVars
    BY <1>2, <1>4 DEF Review, sheetVars
  <2> QED
    BY <1>2, <1>4, <2>1, SheetRefused
<1>5. CASE s.char \in exists \cup {Account}
  <2> PICK new : new = [n |-> s.n, char |-> s.char, changes |-> s.changes]
    OBVIOUS
  <2>1. new.char = s.char /\ new.changes = s.changes
    OBVIOUS
  <2>2. reviews' = reviews \cup {new} /\ Then(h, <<>>)
    BY <1>5 DEF Review
  <2>3. /\ JobsSound' /\ Steps(h)' = {}
        /\ \A g \in Handlers \ {h} : job'[g] = job[g] /\ Steps(g)' = Steps(g)
        /\ requests' = requests /\ faults' = faults /\ ops' = ops
    BY <1>1, <1>2, <2>2, ThenIs
  <2>4. s \in Running /\ \A x : x \in Running <=> x \in Running' \/ x = s
    BY <1>3, <2>3 DEF Running
  <2>5. \A x : x \in Running' => x \in Running
    BY <2>4
  <2>6. LinkInv' /\ TalkInv' /\ FileInv'
    <3>1. \A other \in Works \ {SheetWork} : Elsewhere(other)
      BY <1>1, <1>2, <2>3, StaysIn DEF Works
    <3>2. KeepsLinks /\ KeepsTalk /\ KeepsFiles
      BY <1>2 DEF KeepsLinks, KeepsTalk, KeepsFiles, fileVars
    <3> QED
      BY <2>3, <3>1, <3>2, SheetsOnly
  <2>7. Typed'
    <3>1. SheetTypes'
      <4>1. new \in [n : Values, char : SheetIds, changes : SUBSET Change]
        BY <1>3
      <4> QED
        BY <1>1, <1>2, <2>2, <4>1 DEF SheetTypes
    <3>2. PlaceTypes' /\ FileTypes' /\ TalkTypes' /\ history' \in Excuses
      BY <1>1, <1>2, PlaceTypesStay, FileTypesStay, TalkTypesStay
    <3>3. Counts'
      BY <1>1, <2>3 DEF Counts
    <3> QED
      BY <2>3, <3>1, <3>2, <3>3, TypedNext
  <2>8. \A r \in reviews' : Single(r.changes)
    BY <1>1, <1>3, <2>1, <2>2 DEF SheetInv
  <2>9. NumbersFresh'
    <3>1. \A gs \in SUBSET Handlers : \A m : Unseen(gs, m) /\ (\A ch \in s.changes : ch.from # m)
             => Unseen(gs, m)'
      BY <1>2, <2>1, <2>2, <2>3 DEF Unseen
    <3>2. \A g \in Handlers : \A x \in Steps(g)' : x.do \in {"save", "write"} =>
             /\ x.n \in 1..requests' /\ Unseen(Handlers \ {g}, x.n)'
             /\ x.do = "write" => \A f \in Fields : x.base[f] # x.n
      <4> SUFFICES ASSUME NEW g \in Handlers, NEW x \in Steps(g)',
                          x.do \in {"save", "write"}
                   PROVE  /\ x.n \in 1..requests' /\ Unseen(Handlers \ {g}, x.n)'
                          /\ x.do = "write" => \A f \in Fields : x.base[f] # x.n
        OBVIOUS
      <4>1. g # h /\ x \in Steps(g)
        BY <2>3
      <4>2. /\ x.n \in 1..requests /\ Unseen(Handlers \ {g}, x.n)
            /\ x.do = "write" => \A f \in Fields : x.base[f] # x.n
        BY <1>1, <4>1 DEF SheetInv, NumbersFresh
      <4>3. Before(s, x.n)
        BY <1>3, <4>1, <4>2 DEF Unseen
      <4> QED
        BY <1>2, <2>3, <3>1, <4>2, <4>3 DEF Before
    <3>3. \A m \in Nat : m > requests' => Unseen(Handlers, m)'
      <4> SUFFICES ASSUME NEW m \in Nat, m > requests PROVE Unseen(Handlers, m)'
        BY <2>3
      <4>1. Unseen(Handlers, m)
        BY <1>1 DEF SheetInv, NumbersFresh
      <4>2. Before(s, m)
        BY <1>3, <4>1 DEF Unseen
      <4> QED
        BY <1>2, <3>1, <4>1, <4>2 DEF Before
    <3> QED
      BY <3>2, <3>3 DEF NumbersFresh
  <2>10. Covers'
    <3>1. \A d, f, v : ToJudge(d, f, v)' <=> ToJudge(d, f, v)
      BY <1>2, <2>1, <2>2, <2>4 DEF ToJudge
    <3>2. \A d, f, v : Covered(d, f, v)' <=> Covered(d, f, v)
      BY <1>2, <3>1 DEF Covered
    <3>3. Undisturbed' = Undisturbed
      BY <1>2 DEF Undisturbed
    <3> SUFFICES ASSUME NEW d \in Undisturbed
                 PROVE  /\ \A f \in Shown : Covered(d, f, sheets[d][f])
                        /\ \A r \in reviews' : r.char = d =>
                             \A ch \in r.changes : Covered(d, ch.field, ch.from)
                        /\ \A x \in Running' : x.do = "review" /\ x.char = d =>
                             \A ch \in x.changes : Covered(d, ch.field, ch.from)
      BY <1>2, <3>2, <3>3 DEF Covers
    <3>4. /\ \A f \in Shown : Covered(d, f, sheets[d][f])
          /\ \A r \in reviews : r.char = d =>
               \A ch \in r.changes : Covered(d, ch.field, ch.from)
          /\ \A x \in Running : x.do = "review" /\ x.char = d =>
               \A ch \in x.changes : Covered(d, ch.field, ch.from)
      BY <1>1 DEF SheetInv, Covers
    <3> QED
      BY <1>2, <2>1, <2>2, <2>4, <2>5, <3>4
  <2>11. Born'
    <3> SUFFICES ASSUME NEW d \in Characters \ Given
                 PROVE  /\ sheets[d]["name"] = 0 => Unborn(d)'
                        /\ \A r \in reviews' : r.char = d =>
                             \A ch \in r.changes : ch.field = "name" => ch.from # 0
                        /\ \A x \in Running' : x.char = d =>
                             /\ x.do \in {"save", "write"} => x.form["name"] # 0
                             /\ x.do = "write" => x.base["name"] # 0
                             /\ x.do = "review" =>
                                  \A ch \in x.changes : ch.field = "name" => ch.from # 0
      BY <1>2 DEF Born
    <3>1. /\ sheets[d]["name"] = 0 => Unborn(d)
          /\ \A r \in reviews : r.char = d =>
               \A ch \in r.changes : ch.field = "name" => ch.from # 0
          /\ \A x \in Running : x.char = d =>
               /\ x.do \in {"save", "write"} => x.form["name"] # 0
               /\ x.do = "write" => x.base["name"] # 0
               /\ x.do = "review" =>
                    \A ch \in x.changes : ch.field = "name" => ch.from # 0
      BY <1>1 DEF SheetInv, Born
    <3>2. Unborn(d) => Unborn(d)'
      BY <1>2, <2>1, <2>2, <2>4, <2>5 DEF Unborn
    <3>3. \A r \in reviews' : r.char = d =>
             \A ch \in r.changes : ch.field = "name" => ch.from # 0
      BY <1>2, <2>1, <2>2, <2>4, <3>1
    <3> QED
      BY <2>5, <3>1, <3>2, <3>3
  <2>12. SecretIsStaffs'
    BY <1>1, <1>2 DEF SheetInv, SecretIsStaffs
  <2> QED
    BY <2>3, <2>6, <2>7, <2>8, <2>9, <2>10, <2>11, <2>12 DEF Inv, SheetInv
<1> QED
  BY <1>4, <1>5

-----------------------------------------------------------------------------
(* The owner judges *)

LEMMA RevertIs ==
    ASSUME NEW sheet \in Sheet, NEW changes, changes \in SUBSET Change, Single(changes)
    PROVE  LET back == Revert(sheet, changes)
           IN  /\ back \in Sheet /\ back["secret"] = sheet["secret"]
               /\ \A ch \in changes : back[ch.field] = ch.from
               /\ \A f \in Fields : (\A ch \in changes : ch.field # f) => back[f] = sheet[f]
<1> PICK back : back = Revert(sheet, changes)
  OBVIOUS
<1>1. \A f \in Fields : back[f] = IF \E ch \in changes : ch.field = f
                                  THEN (CHOOSE ch \in changes : ch.field = f).from
                                  ELSE sheet[f]
  BY DEF Revert
<1>2. \A ch \in changes : ch.field \in Shown /\ ch.from \in Values
  BY DEF Change
<1>3. \A ch \in changes : (CHOOSE d \in changes : d.field = ch.field) = ch
  BY DEF Single
<1>4. \A ch \in changes : back[ch.field] = ch.from
  BY <1>1, <1>2, <1>3, FieldsAre
<1>5. \A f \in Fields : (\A ch \in changes : ch.field # f) => back[f] = sheet[f]
  BY <1>1
<1>6. \A f \in Fields : back[f] \in Values
  BY <1>2, <1>4, <1>5 DEF Sheet
<1>7. back \in Sheet
  <2>1. back = [f \in Fields |-> back[f]]
    BY DEF Revert
  <2> QED
    BY <1>6, <2>1 DEF Sheet
<1>8. back["secret"] = sheet["secret"]
  BY <1>2, <1>5, FieldsAre
<1> QED
  BY <1>4, <1>5, <1>7, <1>8

Resolved(r, reject) ==
    /\ r \in reviews /\ reject \subseteq r.changes /\ Once
    /\ reviews' = reviews \ {r}
    /\ sheets' = [sheets EXCEPT ![r.char] = Revert(@, reject)]
    /\ UNCHANGED <<exists, places, fileVars, messages>>
    /\ history' \in Excuses
    /\ history'.accepted = history.accepted
         \cup {<<r.char, ch.field, ch.to>> : ch \in r.changes \ reject}
    /\ history.tangled \subseteq history'.tangled
    /\ (\E s \in reviews \cup {step \in Running : step.do = "review"} :
          s.char = r.char /\ OnTop(s.changes, reject)) => r.char \in history'.tangled
    /\ history'.strangers = history.strangers /\ history'.overtaken = history.overtaken
    /\ history'.secret = history.secret /\ history'.interrupted = history.interrupted
    /\ KeepsLinks /\ KeepsTalk /\ KeepsFiles
LEMMA ResolveIs ==
    ASSUME Inv, NEW r \in reviews, NEW reject \in SUBSET r.changes, Resolve(r, reject)
    PROVE  Resolved(r, reject)
<1>1. SheetTypes /\ history \in Excuses
  BY TypeParts DEF Inv
<1>2. r.char \in SheetIds /\ r.changes \in SUBSET Change
  BY <1>1 DEF SheetTypes
<1> PICK others : others = {s \in reviews \cup {step \in Running : step.do = "review"} :
                              s.char = r.char /\ OnTop(s.changes, reject)}
  OBVIOUS
<1> PICK tangled : tangled = history.tangled \cup When(others # {}, {r.char})
  OBVIOUS
<1> PICK accepted : accepted = history.accepted
                      \cup {<<r.char, ch.field, ch.to>> : ch \in r.changes \ reject}
  OBVIOUS
<1>3. history' = [history EXCEPT !.accepted = accepted, !.tangled = tangled]
  <2>1. (\E s \in reviews \cup {step \in Running : step.do = "review"} :
           s.char = r.char /\ OnTop(s.changes, reject)) <=> others # {}
    OBVIOUS
  <2>2. When(\E s \in reviews \cup {step \in Running : step.do = "review"} :
               s.char = r.char /\ OnTop(s.changes, reject), {r.char})
          = When(others # {}, {r.char})
    BY <2>1 DEF When
  <2> QED
    BY <1>1, <2>2 DEF Resolve, Excuses
<1>4. accepted \in SUBSET (SheetIds \X Shown \X Values) /\ tangled \in SUBSET SheetIds
  <2>1. \A ch \in r.changes : <<r.char, ch.field, ch.to>> \in SheetIds \X Shown \X Values
    BY <1>2 DEF Change
  <2> QED
    BY <1>1, <1>2, <2>1, HistoryIs DEF When
<1>5. history' \in Excuses
  <2> PICK A : A = SUBSET (SheetIds \X Shown \X Values)
    OBVIOUS
  <2> PICK S : S = [SheetIds -> Values]
    OBVIOUS
  <2> PICK N, I, C, E, F :
        N = SUBSET Values /\ I = SUBSET SheetIds /\ C = SUBSET Characters
        /\ E = SUBSET Events /\ F = SUBSET FileIds
    OBVIOUS
  <2>1. Excuses = [accepted : A, strangers : N, secret : S, overtaken : I, tangled : I,
                   interrupted : I, raced : C, relinked : E, unwarned : E,
                   left : F, mixed : F, crowded : C, late : N]
    BY DEF Excuses
  <2>2. accepted \in A /\ tangled \in I /\ history \in Excuses
    BY <1>1, <1>4
  <2> QED
    BY <1>3, <2>1, <2>2
<1>6. /\ history'.accepted = accepted /\ history'.tangled = tangled
      /\ history'.strangers = history.strangers /\ history'.overtaken = history.overtaken
      /\ history'.secret = history.secret /\ history'.interrupted = history.interrupted
      /\ history'.raced = history.raced /\ history'.relinked = history.relinked
      /\ history'.unwarned = history.unwarned /\ history'.left = history.left
      /\ history'.mixed = history.mixed /\ history'.crowded = history.crowded
      /\ history'.late = history.late
  BY <1>1, <1>3 DEF Excuses
<1>7. KeepsLinks /\ KeepsTalk /\ KeepsFiles
  BY <1>6 DEF Resolve, KeepsLinks, KeepsTalk, KeepsFiles, fileVars
<1>8. /\ history.tangled \subseteq tangled
      /\ (\E s \in reviews \cup {step \in Running : step.do = "review"} :
            s.char = r.char /\ OnTop(s.changes, reject)) => r.char \in tangled
  BY DEF When
<1> QED
  BY <1>5, <1>6, <1>7, <1>8 DEF Resolved, Resolve

LEMMA ResolveKeeps ==
    ASSUME Inv, NEW r \in reviews, NEW reject \in SUBSET r.changes, Resolve(r, reject)
    PROVE  Inv'
<1>1. /\ Typed /\ JobsSound /\ SheetInv /\ SheetTypes /\ PlaceTypes /\ FileTypes /\ TalkTypes
      /\ history \in Excuses /\ Counts
  BY TypeParts DEF Inv
<1>2. Resolved(r, reject)
  BY ResolveIs
<1>3. /\ JobsSound' /\ job' = job /\ \A h \in Handlers : Steps(h)' = Steps(h)
      /\ requests' = requests + 1 /\ requests' \in 0..MaxRequests
      /\ faults' = faults /\ ops' = ops /\ Running' = Running
  BY <1>1, <1>2, OnceIs DEF Resolved
<1> PICK c : c = r.char
  OBVIOUS
<1> PICK back : back = Revert(sheets[c], reject)
  OBVIOUS
<1>4. /\ c \in SheetIds /\ r.changes \in SUBSET Change /\ Single(r.changes)
      /\ reject \in SUBSET Change /\ Single(reject) /\ sheets[c] \in Sheet
  BY <1>1 DEF SheetTypes, SheetInv, Single
<1>5. /\ back \in Sheet /\ back["secret"] = sheets[c]["secret"]
      /\ \A ch \in reject : back[ch.field] = ch.from
      /\ \A f \in Fields : (\A ch \in reject : ch.field # f) => back[f] = sheets[c][f]
  BY <1>4, RevertIs
<1>6. /\ sheets' = [sheets EXCEPT ![c] = back] /\ sheets' \in [SheetIds -> Sheet]
      /\ sheets'[c] = back /\ \A d \in SheetIds \ {c} : sheets'[d] = sheets[d]
      /\ reviews' = reviews \ {r} /\ exists' = exists
  BY <1>1, <1>2, <1>4, <1>5 DEF Resolved, SheetTypes
<1>7. LinkInv' /\ TalkInv' /\ FileInv'
  BY <1>2, <1>3, NothingMoves, SheetsOnly DEF Resolved
<1>8. Typed'
  <2>1. SheetTypes'
    BY <1>1, <1>6 DEF SheetTypes
  <2>2. PlaceTypes' /\ FileTypes' /\ TalkTypes' /\ history' \in Excuses
    BY <1>1, <1>2, <1>6, PlaceTypesStay, FileTypesStay, TalkTypesStay DEF Resolved
  <2>3. Counts'
    BY <1>1, <1>3 DEF Counts
  <2> QED
    BY <1>3, <2>1, <2>2, <2>3, TypedNext
<1>9. NumbersFresh'
  <2>1. \A gs \in SUBSET Handlers : \A m : Unseen(gs, m) => Unseen(gs, m)'
    <3> SUFFICES ASSUME NEW gs \in SUBSET Handlers, NEW m, Unseen(gs, m)
                 PROVE  Unseen(gs, m)'
      OBVIOUS
    <3>1. \A f \in Fields : back[f] # m
      <4> TAKE f \in Fields
      <4>1. CASE \E ch \in reject : ch.field = f
        BY <1>5, <4>1 DEF Unseen
      <4>2. CASE \A ch \in reject : ch.field # f
        BY <1>4, <1>5, <4>2 DEF Unseen
      <4> QED
        BY <4>1, <4>2
    <3>2. \A d \in SheetIds, f \in Fields : sheets'[d][f] # m
      BY <1>6, <3>1 DEF Unseen
    <3> QED
      BY <1>2, <1>3, <1>6, <3>2 DEF Unseen, Resolved
  <2>2. \A g \in Handlers : \A x \in Steps(g)' : x.do \in {"save", "write"} =>
           /\ x.n \in 1..requests' /\ Unseen(Handlers \ {g}, x.n)'
           /\ x.do = "write" => \A f \in Fields : x.base[f] # x.n
    <3> SUFFICES ASSUME NEW g \in Handlers, NEW x \in Steps(g), x.do \in {"save", "write"}
                 PROVE  /\ x.n \in 1..requests' /\ Unseen(Handlers \ {g}, x.n)'
                        /\ x.do = "write" => \A f \in Fields : x.base[f] # x.n
      BY <1>3
    <3>1. /\ x.n \in 1..requests /\ Unseen(Handlers \ {g}, x.n)
          /\ x.do = "write" => \A f \in Fields : x.base[f] # x.n
      BY <1>1 DEF SheetInv, NumbersFresh
    <3>2. requests \in Nat
      BY <1>1, ConstantsFit DEF Counts
    <3> QED
      BY <1>3, <2>1, <3>1, <3>2
  <2>3. \A m \in Nat : m > requests' => Unseen(Handlers, m)'
    <3>1. requests \in Nat
      BY <1>1, ConstantsFit DEF Counts
    <3> QED
      BY <1>1, <1>3, <2>1, <3>1 DEF SheetInv, NumbersFresh
  <2> QED
    BY <2>2, <2>3 DEF NumbersFresh
<1>10. Covers'
  <2>1. \A d, f, v : /\ Covered(d, f, v)
                     /\ ~(d = c /\ \E ch \in reject : ch.field = f /\ ch.to = v)
                     => Covered(d, f, v)'
    <3> SUFFICES ASSUME NEW d, NEW f, NEW v, Covered(d, f, v),
                        ~(d = c /\ \E ch \in reject : ch.field = f /\ ch.to = v),
                        v \in history.strangers, <<d, f, v>> \notin history'.accepted
                 PROVE  ToJudge(d, f, v)'
      BY <1>2 DEF Covered, Resolved
    <3>1. ToJudge(d, f, v)
      BY <1>2 DEF Covered, Resolved
    <3>2. ~(r.char = d /\ Concerning(r.changes, f, v))
      <4> SUFFICES ASSUME r.char = d, NEW ch \in r.changes, ch.field = f, ch.to = v
                   PROVE  FALSE
        BY DEF Concerning
      <4>1. ch \notin reject
        OBVIOUS
      <4>2. <<d, f, v>> \in history'.accepted
        BY <1>2, <4>1 DEF Resolved
      <4> QED
        BY <4>2
    <3> QED
      BY <1>3, <1>6, <3>1, <3>2 DEF ToJudge
  <2>2. Undisturbed' \subseteq Undisturbed
    BY <1>2, <1>6 DEF Undisturbed, Resolved
  <2>3. ASSUME NEW d \in Undisturbed'
        PROVE  /\ \A f \in Shown : Covered(d, f, sheets[d][f])'
               /\ \A t \in reviews' : t.char = d =>
                    \A ch \in t.changes : Covered(d, ch.field, ch.from)'
               /\ \A t \in Running' : t.do = "review" /\ t.char = d =>
                    \A ch \in t.changes : Covered(d, ch.field, ch.from)'
    <3>1. /\ \A f \in Shown : Covered(d, f, sheets[d][f])
          /\ \A t \in reviews : t.char = d =>
               \A ch \in t.changes : Covered(d, ch.field, ch.from)
          /\ \A t \in Running : t.do = "review" /\ t.char = d =>
               \A ch \in t.changes : Covered(d, ch.field, ch.from)
      BY <1>1, <2>2 DEF SheetInv, Covers
    <3>2. \A t \in reviews \cup {step \in Running : step.do = "review"} : t.char = d =>
             \A x \in t.changes :
                ~(d = c /\ \E ch \in reject : ch.field = x.field /\ ch.to = x.from)
      <4>1. d \notin history'.tangled
        BY DEF Undisturbed
      <4> QED
        BY <1>2, <4>1 DEF Resolved, OnTop
    <3>3. \A t \in reviews' : t.char = d =>
             \A ch \in t.changes : Covered(d, ch.field, ch.from)'
      BY <1>6, <2>1, <3>1, <3>2
    <3>4. \A t \in Running' : t.do = "review" /\ t.char = d =>
             \A ch \in t.changes : Covered(d, ch.field, ch.from)'
      BY <1>3, <2>1, <3>1, <3>2
    <3>5. \A f \in Shown : Covered(d, f, sheets[d][f])'
      <4> TAKE f \in Shown
      <4> PICK v : v = sheets'[d][f]
        OBVIOUS
      <4>1. f \in Fields /\ d \in SheetIds
        BY <1>1, <1>6, FieldsAre DEF Undisturbed, SheetTypes, SheetIds
      <4>2. Covered(d, f, v)'
        <5>1. CASE d # c
          BY <1>6, <2>1, <3>1, <4>1, <5>1
        <5>2. CASE d = c /\ \A ch \in reject : ch.field # f
          <6>1. v = sheets[d][f]
            BY <1>5, <1>6, <4>1, <5>2
          <6> QED
            BY <2>1, <3>1, <5>2, <6>1
        <5>3. CASE d = c /\ \E ch \in reject : ch.field = f
          <6>1. PICK ch \in reject : ch.field = f
            BY <5>3
          <6>2. v = ch.from
            BY <1>5, <1>6, <5>3, <6>1
          <6>3. Covered(d, f, v)
            BY <3>1, <5>3, <6>1, <6>2
          <6>4. ~ \E x \in reject : x.field = f /\ x.to = v
            BY <1>4, <6>1, <6>2 DEF Single
          <6> QED
            BY <2>1, <6>3, <6>4
        <5> QED
          BY <5>1, <5>2, <5>3
      <4> QED
        BY <4>2 DEF Covered, ToJudge
    <3> QED
      BY <3>3, <3>4, <3>5
  <2> QED
    BY <2>3 DEF Covers
<1>11. Born'
  <2> SUFFICES ASSUME NEW d \in Characters \ Given
               PROVE  /\ sheets'[d]["name"] = 0 => Unborn(d)'
                      /\ \A t \in reviews' : t.char = d =>
                           \A ch \in t.changes : ch.field = "name" => ch.from # 0
                      /\ \A x \in Running' : x.char = d =>
                           /\ x.do \in {"save", "write"} => x.form["name"] # 0
                           /\ x.do = "write" => x.base["name"] # 0
                           /\ x.do = "review" =>
                                \A ch \in x.changes : ch.field = "name" => ch.from # 0
    BY DEF Born
  <2>1. /\ sheets[d]["name"] = 0 => Unborn(d)
        /\ \A t \in reviews : t.char = d =>
             \A ch \in t.changes : ch.field = "name" => ch.from # 0
        /\ \A x \in Running : x.char = d =>
             /\ x.do \in {"save", "write"} => x.form["name"] # 0
             /\ x.do = "write" => x.base["name"] # 0
             /\ x.do = "review" =>
                  \A ch \in x.changes : ch.field = "name" => ch.from # 0
    BY <1>1 DEF SheetInv, Born
  <2>2. sheets'[d]["name"] = 0 => sheets[d]["name"] = 0
    <3>1. CASE d = c
      <4>1. CASE \E ch \in reject : ch.field = "name"
        BY <1>5, <1>6, <2>1, <3>1, <4>1
      <4>2. CASE \A ch \in reject : ch.field # "name"
        BY <1>5, <1>6, <3>1, <4>2, FieldsAre
      <4> QED
        BY <4>1, <4>2
    <3>2. CASE d # c
      BY <1>6, <3>2 DEF SheetIds
    <3> QED
      BY <3>1, <3>2
  <2>3. Unborn(d) => Unborn(d)'
    BY <1>3, <1>6 DEF Unborn
  <2> QED
    BY <1>3, <1>6, <2>1, <2>2, <2>3
<1>12. SecretIsStaffs'
  <2> SUFFICES ASSUME NEW d \in (exists \cup {Account}) \ history.overtaken
               PROVE  sheets'[d]["secret"] = history.secret[d]
    BY <1>2, <1>6 DEF SecretIsStaffs, Resolved
  <2>1. sheets[d]["secret"] = history.secret[d] /\ d \in SheetIds
    BY <1>1 DEF SheetInv, SecretIsStaffs, SheetTypes, SheetIds
  <2> QED
    BY <1>5, <1>6, <2>1
<1>13. \A t \in reviews' : Single(t.changes)
  BY <1>1, <1>6 DEF SheetInv
<1> QED
  BY <1>3, <1>7, <1>8, <1>9, <1>10, <1>11, <1>12, <1>13 DEF Inv, SheetInv

-----------------------------------------------------------------------------
(* A character is created *)

LEMMA CreateIs ==
    ASSUME Inv, NEW c \in Characters, CreateCharacter(c)
    PROVE  /\ history' \in Excuses
           /\ history'.accepted = history.accepted /\ history'.strangers = history.strangers
           /\ history'.overtaken = history.overtaken /\ history'.tangled = history.tangled
           /\ history'.interrupted = history.interrupted
           /\ history'.secret[c] = requests + 1
           /\ \A d \in SheetIds \ {c} : history'.secret[d] = history.secret[d]
           /\ KeepsLinks /\ KeepsTalk /\ KeepsFiles
<1>1. history \in Excuses /\ Counts /\ Typed /\ JobsSound
  BY TypeParts DEF Inv
<1>2. requests + 1 \in Values
  <2>1. Once
    BY DEF CreateCharacter
  <2>2. requests' = requests + 1 /\ requests' \in 0..MaxRequests
    BY <1>1, <2>1, OnceIs
  <2> QED
    BY <2>2 DEF Values
<1> PICK secret : secret = [history.secret EXCEPT ![c] = requests + 1]
  OBVIOUS
<1>3. /\ secret \in [SheetIds -> Values] /\ secret[c] = requests + 1
      /\ \A d \in SheetIds \ {c} : secret[d] = history.secret[d]
  BY <1>1, <1>2, HistoryIs DEF SheetIds
<1>4. history' = [history EXCEPT !.secret = secret]
  BY <1>1 DEF CreateCharacter, Excuses
<1>5. history' \in Excuses
  <2> PICK A : A = SUBSET (SheetIds \X Shown \X Values)
    OBVIOUS
  <2> PICK S : S = [SheetIds -> Values]
    OBVIOUS
  <2> PICK N, I, C, E, F :
        N = SUBSET Values /\ I = SUBSET SheetIds /\ C = SUBSET Characters
        /\ E = SUBSET Events /\ F = SUBSET FileIds
    OBVIOUS
  <2>1. Excuses = [accepted : A, strangers : N, secret : S, overtaken : I, tangled : I,
                   interrupted : I, raced : C, relinked : E, unwarned : E,
                   left : F, mixed : F, crowded : C, late : N]
    BY DEF Excuses
  <2>2. secret \in S /\ history \in Excuses
    BY <1>1, <1>3
  <2> QED
    BY <1>4, <2>1, <2>2
<1>6. /\ history'.accepted = history.accepted /\ history'.tangled = history.tangled
      /\ history'.strangers = history.strangers /\ history'.overtaken = history.overtaken
      /\ history'.secret = secret /\ history'.interrupted = history.interrupted
      /\ history'.raced = history.raced /\ history'.relinked = history.relinked
      /\ history'.unwarned = history.unwarned /\ history'.left = history.left
      /\ history'.mixed = history.mixed /\ history'.crowded = history.crowded
      /\ history'.late = history.late
  BY <1>1, <1>4 DEF Excuses
<1>7. KeepsLinks /\ KeepsTalk /\ KeepsFiles
  BY <1>6 DEF CreateCharacter, KeepsLinks, KeepsTalk, KeepsFiles, fileVars
<1> QED
  BY <1>3, <1>5, <1>6, <1>7

LEMMA CreateCharacterKeeps ==
    ASSUME Inv, NEW c \in Characters, CreateCharacter(c)
    PROVE  Inv'
<1>1. /\ Typed /\ JobsSound /\ SheetInv /\ SheetTypes /\ PlaceTypes /\ FileTypes /\ TalkTypes
      /\ history \in Excuses /\ Counts
  BY TypeParts DEF Inv
<1>2. /\ c \in Characters \ Given /\ sheets[c] = Blank /\ Once
      /\ exists' = exists \cup {c} /\ UNCHANGED <<reviews, places, fileVars, messages>>
  BY DEF CreateCharacter
<1>3. /\ JobsSound' /\ job' = job /\ \A h \in Handlers : Steps(h)' = Steps(h)
      /\ requests' = requests + 1 /\ requests' \in 0..MaxRequests
      /\ faults' = faults /\ ops' = ops /\ Running' = Running
  BY <1>1, <1>2, OnceIs
<1> PICK n : n = requests + 1
  OBVIOUS
<1>4. n \in Values /\ n \in Nat /\ requests \in Nat /\ n > requests /\ requests' = n /\ n # 0
  BY <1>1, <1>3, ConstantsFit DEF Counts, Values
<1>5. /\ history' \in Excuses
      /\ history'.accepted = history.accepted /\ history'.strangers = history.strangers
      /\ history'.overtaken = history.overtaken /\ history'.tangled = history.tangled
      /\ history'.interrupted = history.interrupted
      /\ history'.secret[c] = n
      /\ \A d \in SheetIds \ {c} : history'.secret[d] = history.secret[d]
      /\ KeepsLinks /\ KeepsTalk /\ KeepsFiles
  BY CreateIs
<1> PICK new : new = [f \in Fields |-> n]
  OBVIOUS
<1>6. new \in Sheet /\ \A f \in Fields : new[f] = n
  BY <1>4 DEF Sheet
<1>7. /\ sheets' = [sheets EXCEPT ![c] = new] /\ sheets' \in [SheetIds -> Sheet]
      /\ sheets'[c] = new /\ \A d \in SheetIds \ {c} : sheets'[d] = sheets[d]
      /\ c \in SheetIds
  BY <1>1, <1>2, <1>6 DEF CreateCharacter, SheetTypes, SheetIds
<1>8. LinkInv' /\ TalkInv' /\ FileInv'
  BY <1>3, <1>5, NothingMoves, SheetsOnly
<1>9. Typed'
  <2>1. SheetTypes'
    BY <1>1, <1>2, <1>7 DEF SheetTypes
  <2>2. PlaceTypes' /\ FileTypes' /\ TalkTypes'
    BY <1>1, <1>2, PlaceTypesStay, FileTypesStay, TalkTypesStay
  <2>3. Counts'
    BY <1>1, <1>3 DEF Counts
  <2> QED
    BY <1>3, <1>5, <2>1, <2>2, <2>3, TypedNext
<1>10. Unseen(Handlers, n)
  BY <1>1, <1>4 DEF SheetInv, NumbersFresh
<1>11. Unborn(c)
  BY <1>1, <1>2, FieldsAre DEF SheetInv, Born, Blank
<1>12. NumbersFresh'
  <2>1. \A gs \in SUBSET Handlers : \A m : m # n /\ Unseen(gs, m) => Unseen(gs, m)'
    <3> SUFFICES ASSUME NEW gs \in SUBSET Handlers, NEW m, m # n, Unseen(gs, m)
                 PROVE  Unseen(gs, m)'
      OBVIOUS
    <3>1. \A d \in SheetIds, f \in Fields : sheets'[d][f] # m
      BY <1>6, <1>7 DEF Unseen
    <3> QED
      BY <1>2, <1>3, <1>5, <3>1 DEF Unseen
  <2>2. \A g \in Handlers : \A x \in Steps(g)' : x.do \in {"save", "write"} =>
           /\ x.n \in 1..requests' /\ Unseen(Handlers \ {g}, x.n)'
           /\ x.do = "write" => \A f \in Fields : x.base[f] # x.n
    <3> SUFFICES ASSUME NEW g \in Handlers, NEW x \in Steps(g), x.do \in {"save", "write"}
                 PROVE  /\ x.n \in 1..requests' /\ Unseen(Handlers \ {g}, x.n)'
                        /\ x.do = "write" => \A f \in Fields : x.base[f] # x.n
      BY <1>3
    <3>1. /\ x.n \in 1..requests /\ Unseen(Handlers \ {g}, x.n)
          /\ x.do = "write" => \A f \in Fields : x.base[f] # x.n
      BY <1>1 DEF SheetInv, NumbersFresh
    <3>2. x.n # n /\ x.n \in 1..requests'
      BY <1>4, <3>1
    <3> QED
      BY <2>1, <3>1, <3>2
  <2>3. \A m \in Nat : m > requests' => Unseen(Handlers, m)'
    BY <1>1, <1>4, <2>1 DEF SheetInv, NumbersFresh
  <2> QED
    BY <2>2, <2>3 DEF NumbersFresh
<1>13. Covers'
  <2>1. \A d, f, v : Covered(d, f, v)' <=> Covered(d, f, v)
    BY <1>2, <1>3, <1>5 DEF Covered, ToJudge
  <2>2. Undisturbed' \subseteq Undisturbed \cup {c}
    BY <1>2, <1>5 DEF Undisturbed
  <2> SUFFICES ASSUME NEW d \in Undisturbed'
               PROVE  /\ \A f \in Shown : Covered(d, f, sheets'[d][f])
                      /\ \A r \in reviews : r.char = d =>
                           \A ch \in r.changes : Covered(d, ch.field, ch.from)
                      /\ \A x \in Running : x.do = "review" /\ x.char = d =>
                           \A ch \in x.changes : Covered(d, ch.field, ch.from)
    BY <1>2, <1>3, <2>1 DEF Covers
  <2>3. CASE d = c
    <3>1. \A f \in Shown : Covered(d, f, sheets'[d][f])
      BY <1>6, <1>7, <1>10, <2>3, FieldsAre DEF Covered, Unseen
    <3> QED
      BY <1>11, <2>3, <3>1 DEF Unborn, SheetWork
  <2>4. CASE d # c
    <3>1. d \in Undisturbed /\ d \in SheetIds
      BY <1>1, <2>2, <2>4 DEF Undisturbed, SheetTypes, SheetIds
    <3>2. sheets'[d] = sheets[d]
      BY <1>7, <2>4, <3>1
    <3> QED
      BY <1>1, <3>1, <3>2 DEF SheetInv, Covers
  <2> QED
    BY <2>3, <2>4
<1>14. Born'
  <2> SUFFICES ASSUME NEW d \in Characters \ Given
               PROVE  /\ sheets'[d]["name"] = 0 => Unborn(d)'
                      /\ \A t \in reviews : t.char = d =>
                           \A ch \in t.changes : ch.field = "name" => ch.from # 0
                      /\ \A x \in Running : x.char = d =>
                           /\ x.do \in {"save", "write"} => x.form["name"] # 0
                           /\ x.do = "write" => x.base["name"] # 0
                           /\ x.do = "review" =>
                                \A ch \in x.changes : ch.field = "name" => ch.from # 0
    BY <1>2, <1>3 DEF Born
  <2>1. sheets'[d]["name"] = 0 => Unborn(d)'
    <3>1. CASE d = c
      BY <1>4, <1>6, <1>7, <3>1, FieldsAre
    <3>2. CASE d # c
      <4>1. sheets'[d] = sheets[d]
        BY <1>7, <3>2 DEF SheetIds
      <4> QED
        BY <1>1, <1>2, <1>3, <3>2, <4>1 DEF SheetInv, Born, Unborn
    <3> QED
      BY <3>1, <3>2
  <2> QED
    BY <1>1, <2>1 DEF SheetInv, Born
<1>15. SecretIsStaffs'
  <2> SUFFICES ASSUME NEW d \in (exists' \cup {Account}) \ history.overtaken
               PROVE  sheets'[d]["secret"] = history'.secret[d]
    BY <1>5 DEF SecretIsStaffs
  <2>1. CASE d = c
    BY <1>5, <1>6, <1>7, <2>1, FieldsAre
  <2>2. CASE d # c
    <3>1. d \in SheetIds /\ d \in exists \cup {Account}
      BY <1>1, <1>2, <2>2 DEF SheetTypes, SheetIds
    <3> QED
      BY <1>1, <1>5, <1>7, <2>2, <3>1 DEF SheetInv, SecretIsStaffs
  <2> QED
    BY <2>1, <2>2
<1>16. \A t \in reviews' : Single(t.changes)
  BY <1>1, <1>2 DEF SheetInv
<1> QED
  BY <1>3, <1>8, <1>9, <1>12, <1>13, <1>14, <1>15, <1>16 DEF Inv, SheetInv

-----------------------------------------------------------------------------
(* What an action adds to the past *)

LEMMA PastMixed ==
    ASSUME history \in Excuses,
           NEW more, more \in SUBSET FileIds,
           Past("mixed", more)
    PROVE  /\ history' \in Excuses
           /\ history'.mixed = history.mixed \cup more
           /\ history'.accepted = history.accepted /\ history'.strangers = history.strangers
           /\ history'.secret = history.secret /\ history'.overtaken = history.overtaken
           /\ history'.tangled = history.tangled /\ history'.interrupted = history.interrupted
           /\ history'.raced = history.raced /\ history'.relinked = history.relinked
           /\ history'.unwarned = history.unwarned /\ history'.left = history.left
           /\ history'.crowded = history.crowded /\ history'.late = history.late
<1> PICK A : A = SUBSET (SheetIds \X Shown \X Values)
  OBVIOUS
<1> PICK S : S = [SheetIds -> Values]
  OBVIOUS
<1> PICK N, I, C, E, F :
      N = SUBSET Values /\ I = SUBSET SheetIds /\ C = SUBSET Characters
      /\ E = SUBSET Events /\ F = SUBSET FileIds
  OBVIOUS
<1> PICK more0 : more0 = history.mixed \cup more
  OBVIOUS
<1>1. Excuses = [accepted : A, strangers : N, secret : S, overtaken : I, tangled : I,
                 interrupted : I, raced : C, relinked : E, unwarned : E,
                 left : F, mixed : F, crowded : C, late : N]
  BY DEF Excuses
<1>2. more0 \in F
  BY HistoryIs
<1>3. history' = [history EXCEPT !.mixed = more0]
  BY <1>1 DEF Past
<1>4. history' \in Excuses
  BY <1>1, <1>2, <1>3
<1>5. /\ history'.mixed = history.mixed \cup more
      /\ history'.accepted = history.accepted /\ history'.strangers = history.strangers
      /\ history'.secret = history.secret /\ history'.overtaken = history.overtaken
      /\ history'.tangled = history.tangled /\ history'.interrupted = history.interrupted
      /\ history'.raced = history.raced /\ history'.relinked = history.relinked
      /\ history'.unwarned = history.unwarned /\ history'.left = history.left
      /\ history'.crowded = history.crowded /\ history'.late = history.late
  BY <1>1, <1>3
<1> QED
  BY <1>4, <1>5
LEMMA PastLeft ==
    ASSUME history \in Excuses,
           NEW more, more \in SUBSET FileIds,
           Past("left", more)
    PROVE  /\ history' \in Excuses
           /\ history'.left = history.left \cup more
           /\ history'.accepted = history.accepted /\ history'.strangers = history.strangers
           /\ history'.secret = history.secret /\ history'.overtaken = history.overtaken
           /\ history'.tangled = history.tangled /\ history'.interrupted = history.interrupted
           /\ history'.raced = history.raced /\ history'.relinked = history.relinked
           /\ history'.unwarned = history.unwarned /\ history'.mixed = history.mixed
           /\ history'.crowded = history.crowded /\ history'.late = history.late
<1> PICK A : A = SUBSET (SheetIds \X Shown \X Values)
  OBVIOUS
<1> PICK S : S = [SheetIds -> Values]
  OBVIOUS
<1> PICK N, I, C, E, F :
      N = SUBSET Values /\ I = SUBSET SheetIds /\ C = SUBSET Characters
      /\ E = SUBSET Events /\ F = SUBSET FileIds
  OBVIOUS
<1> PICK more0 : more0 = history.left \cup more
  OBVIOUS
<1>1. Excuses = [accepted : A, strangers : N, secret : S, overtaken : I, tangled : I,
                 interrupted : I, raced : C, relinked : E, unwarned : E,
                 left : F, mixed : F, crowded : C, late : N]
  BY DEF Excuses
<1>2. more0 \in F
  BY HistoryIs
<1>3. history' = [history EXCEPT !.left = more0]
  BY <1>1 DEF Past
<1>4. history' \in Excuses
  BY <1>1, <1>2, <1>3
<1>5. /\ history'.left = history.left \cup more
      /\ history'.accepted = history.accepted /\ history'.strangers = history.strangers
      /\ history'.secret = history.secret /\ history'.overtaken = history.overtaken
      /\ history'.tangled = history.tangled /\ history'.interrupted = history.interrupted
      /\ history'.raced = history.raced /\ history'.relinked = history.relinked
      /\ history'.unwarned = history.unwarned /\ history'.mixed = history.mixed
      /\ history'.crowded = history.crowded /\ history'.late = history.late
  BY <1>1, <1>3
<1> QED
  BY <1>4, <1>5
LEMMA PastCrowded ==
    ASSUME history \in Excuses,
           NEW more, more \in SUBSET Characters,
           Past("crowded", more)
    PROVE  /\ history' \in Excuses
           /\ history'.crowded = history.crowded \cup more
           /\ history'.accepted = history.accepted /\ history'.strangers = history.strangers
           /\ history'.secret = history.secret /\ history'.overtaken = history.overtaken
           /\ history'.tangled = history.tangled /\ history'.interrupted = history.interrupted
           /\ history'.raced = history.raced /\ history'.relinked = history.relinked
           /\ history'.unwarned = history.unwarned /\ history'.left = history.left
           /\ history'.mixed = history.mixed /\ history'.late = history.late
<1> PICK A : A = SUBSET (SheetIds \X Shown \X Values)
  OBVIOUS
<1> PICK S : S = [SheetIds -> Values]
  OBVIOUS
<1> PICK N, I, C, E, F :
      N = SUBSET Values /\ I = SUBSET SheetIds /\ C = SUBSET Characters
      /\ E = SUBSET Events /\ F = SUBSET FileIds
  OBVIOUS
<1> PICK more0 : more0 = history.crowded \cup more
  OBVIOUS
<1>1. Excuses = [accepted : A, strangers : N, secret : S, overtaken : I, tangled : I,
                 interrupted : I, raced : C, relinked : E, unwarned : E,
                 left : F, mixed : F, crowded : C, late : N]
  BY DEF Excuses
<1>2. more0 \in C
  BY HistoryIs
<1>3. history' = [history EXCEPT !.crowded = more0]
  BY <1>1 DEF Past
<1>4. history' \in Excuses
  BY <1>1, <1>2, <1>3
<1>5. /\ history'.crowded = history.crowded \cup more
      /\ history'.accepted = history.accepted /\ history'.strangers = history.strangers
      /\ history'.secret = history.secret /\ history'.overtaken = history.overtaken
      /\ history'.tangled = history.tangled /\ history'.interrupted = history.interrupted
      /\ history'.raced = history.raced /\ history'.relinked = history.relinked
      /\ history'.unwarned = history.unwarned /\ history'.left = history.left
      /\ history'.mixed = history.mixed /\ history'.late = history.late
  BY <1>1, <1>3
<1> QED
  BY <1>4, <1>5
LEMMA PastLate ==
    ASSUME history \in Excuses,
           NEW more, more \in SUBSET Values,
           Past("late", more)
    PROVE  /\ history' \in Excuses
           /\ history'.late = history.late \cup more
           /\ history'.accepted = history.accepted /\ history'.strangers = history.strangers
           /\ history'.secret = history.secret /\ history'.overtaken = history.overtaken
           /\ history'.tangled = history.tangled /\ history'.interrupted = history.interrupted
           /\ history'.raced = history.raced /\ history'.relinked = history.relinked
           /\ history'.unwarned = history.unwarned /\ history'.left = history.left
           /\ history'.mixed = history.mixed /\ history'.crowded = history.crowded
<1> PICK A : A = SUBSET (SheetIds \X Shown \X Values)
  OBVIOUS
<1> PICK S : S = [SheetIds -> Values]
  OBVIOUS
<1> PICK N, I, C, E, F :
      N = SUBSET Values /\ I = SUBSET SheetIds /\ C = SUBSET Characters
      /\ E = SUBSET Events /\ F = SUBSET FileIds
  OBVIOUS
<1> PICK more0 : more0 = history.late \cup more
  OBVIOUS
<1>1. Excuses = [accepted : A, strangers : N, secret : S, overtaken : I, tangled : I,
                 interrupted : I, raced : C, relinked : E, unwarned : E,
                 left : F, mixed : F, crowded : C, late : N]
  BY DEF Excuses
<1>2. more0 \in N
  BY HistoryIs
<1>3. history' = [history EXCEPT !.late = more0]
  BY <1>1 DEF Past
<1>4. history' \in Excuses
  BY <1>1, <1>2, <1>3
<1>5. /\ history'.late = history.late \cup more
      /\ history'.accepted = history.accepted /\ history'.strangers = history.strangers
      /\ history'.secret = history.secret /\ history'.overtaken = history.overtaken
      /\ history'.tangled = history.tangled /\ history'.interrupted = history.interrupted
      /\ history'.raced = history.raced /\ history'.relinked = history.relinked
      /\ history'.unwarned = history.unwarned /\ history'.left = history.left
      /\ history'.mixed = history.mixed /\ history'.crowded = history.crowded
  BY <1>1, <1>3
<1> QED
  BY <1>4, <1>5
LEMMA PastLinks ==
    ASSUME history \in Excuses,
           NEW cs, cs \in SUBSET Characters,
           NEW es, es \in SUBSET Events,
           history' = [history EXCEPT !.raced = @ \cup cs, !.relinked = @ \cup es]
    PROVE  /\ history' \in Excuses
           /\ history'.raced = history.raced \cup cs
           /\ history'.relinked = history.relinked \cup es
           /\ history'.accepted = history.accepted /\ history'.strangers = history.strangers
           /\ history'.secret = history.secret /\ history'.overtaken = history.overtaken
           /\ history'.tangled = history.tangled /\ history'.interrupted = history.interrupted
           /\ history'.unwarned = history.unwarned /\ history'.left = history.left
           /\ history'.mixed = history.mixed /\ history'.crowded = history.crowded
           /\ history'.late = history.late
<1> PICK A : A = SUBSET (SheetIds \X Shown \X Values)
  OBVIOUS
<1> PICK S : S = [SheetIds -> Values]
  OBVIOUS
<1> PICK N, I, C, E, F :
      N = SUBSET Values /\ I = SUBSET SheetIds /\ C = SUBSET Characters
      /\ E = SUBSET Events /\ F = SUBSET FileIds
  OBVIOUS
<1> PICK cs0 : cs0 = history.raced \cup cs
  OBVIOUS
<1> PICK es0 : es0 = history.relinked \cup es
  OBVIOUS
<1>1. Excuses = [accepted : A, strangers : N, secret : S, overtaken : I, tangled : I,
                 interrupted : I, raced : C, relinked : E, unwarned : E,
                 left : F, mixed : F, crowded : C, late : N]
  BY DEF Excuses
<1>2. cs0 \in C /\ es0 \in E
  BY HistoryIs
<1>3. history' = [history EXCEPT !.raced = cs0, !.relinked = es0]
  BY <1>1
<1>4. history' \in Excuses
  BY <1>1, <1>2, <1>3
<1>5. /\ history'.raced = history.raced \cup cs
      /\ history'.relinked = history.relinked \cup es
      /\ history'.accepted = history.accepted /\ history'.strangers = history.strangers
      /\ history'.secret = history.secret /\ history'.overtaken = history.overtaken
      /\ history'.tangled = history.tangled /\ history'.interrupted = history.interrupted
      /\ history'.unwarned = history.unwarned /\ history'.left = history.left
      /\ history'.mixed = history.mixed /\ history'.crowded = history.crowded
      /\ history'.late = history.late
  BY <1>1, <1>3
<1> QED
  BY <1>4, <1>5
LEMMA PastDropped ==
    ASSUME history \in Excuses,
           NEW es, es \in SUBSET Events,
           NEW fs, fs \in SUBSET FileIds,
           history' = [history EXCEPT !.unwarned = @ \cup es, !.left = @ \cup fs]
    PROVE  /\ history' \in Excuses
           /\ history'.unwarned = history.unwarned \cup es
           /\ history'.left = history.left \cup fs
           /\ history'.accepted = history.accepted /\ history'.strangers = history.strangers
           /\ history'.secret = history.secret /\ history'.overtaken = history.overtaken
           /\ history'.tangled = history.tangled /\ history'.interrupted = history.interrupted
           /\ history'.raced = history.raced /\ history'.relinked = history.relinked
           /\ history'.mixed = history.mixed /\ history'.crowded = history.crowded
           /\ history'.late = history.late
<1> PICK A : A = SUBSET (SheetIds \X Shown \X Values)
  OBVIOUS
<1> PICK S : S = [SheetIds -> Values]
  OBVIOUS
<1> PICK N, I, C, E, F :
      N = SUBSET Values /\ I = SUBSET SheetIds /\ C = SUBSET Characters
      /\ E = SUBSET Events /\ F = SUBSET FileIds
  OBVIOUS
<1> PICK es0 : es0 = history.unwarned \cup es
  OBVIOUS
<1> PICK fs0 : fs0 = history.left \cup fs
  OBVIOUS
<1>1. Excuses = [accepted : A, strangers : N, secret : S, overtaken : I, tangled : I,
                 interrupted : I, raced : C, relinked : E, unwarned : E,
                 left : F, mixed : F, crowded : C, late : N]
  BY DEF Excuses
<1>2. es0 \in E /\ fs0 \in F
  BY HistoryIs
<1>3. history' = [history EXCEPT !.unwarned = es0, !.left = fs0]
  BY <1>1
<1>4. history' \in Excuses
  BY <1>1, <1>2, <1>3
<1>5. /\ history'.unwarned = history.unwarned \cup es
      /\ history'.left = history.left \cup fs
      /\ history'.accepted = history.accepted /\ history'.strangers = history.strangers
      /\ history'.secret = history.secret /\ history'.overtaken = history.overtaken
      /\ history'.tangled = history.tangled /\ history'.interrupted = history.interrupted
      /\ history'.raced = history.raced /\ history'.relinked = history.relinked
      /\ history'.mixed = history.mixed /\ history'.crowded = history.crowded
      /\ history'.late = history.late
  BY <1>1, <1>3
<1> QED
  BY <1>4, <1>5
LEMMA PastRestart ==
    ASSUME history \in Excuses,
           NEW cs, cs \in SUBSET SheetIds,
           NEW fs, fs \in SUBSET FileIds,
           history' = [history EXCEPT !.interrupted = @ \cup cs, !.left = @ \cup fs]
    PROVE  /\ history' \in Excuses
           /\ history'.interrupted = history.interrupted \cup cs
           /\ history'.left = history.left \cup fs
           /\ history'.accepted = history.accepted /\ history'.strangers = history.strangers
           /\ history'.secret = history.secret /\ history'.overtaken = history.overtaken
           /\ history'.tangled = history.tangled /\ history'.raced = history.raced
           /\ history'.relinked = history.relinked /\ history'.unwarned = history.unwarned
           /\ history'.mixed = history.mixed /\ history'.crowded = history.crowded
           /\ history'.late = history.late
<1> PICK A : A = SUBSET (SheetIds \X Shown \X Values)
  OBVIOUS
<1> PICK S : S = [SheetIds -> Values]
  OBVIOUS
<1> PICK N, I, C, E, F :
      N = SUBSET Values /\ I = SUBSET SheetIds /\ C = SUBSET Characters
      /\ E = SUBSET Events /\ F = SUBSET FileIds
  OBVIOUS
<1> PICK cs0 : cs0 = history.interrupted \cup cs
  OBVIOUS
<1> PICK fs0 : fs0 = history.left \cup fs
  OBVIOUS
<1>1. Excuses = [accepted : A, strangers : N, secret : S, overtaken : I, tangled : I,
                 interrupted : I, raced : C, relinked : E, unwarned : E,
                 left : F, mixed : F, crowded : C, late : N]
  BY DEF Excuses
<1>2. cs0 \in I /\ fs0 \in F
  BY HistoryIs
<1>3. history' = [history EXCEPT !.interrupted = cs0, !.left = fs0]
  BY <1>1
<1>4. history' \in Excuses
  BY <1>1, <1>2, <1>3
<1>5. /\ history'.interrupted = history.interrupted \cup cs
      /\ history'.left = history.left \cup fs
      /\ history'.accepted = history.accepted /\ history'.strangers = history.strangers
      /\ history'.secret = history.secret /\ history'.overtaken = history.overtaken
      /\ history'.tangled = history.tangled /\ history'.raced = history.raced
      /\ history'.relinked = history.relinked /\ history'.unwarned = history.unwarned
      /\ history'.mixed = history.mixed /\ history'.crowded = history.crowded
      /\ history'.late = history.late
  BY <1>1, <1>3
<1> QED
  BY <1>4, <1>5

-----------------------------------------------------------------------------
(* Places: a request starts *)

\* It found the character free, or warned of every place that hangs on it.
Checked(s) ==
    /\ s.do \in {"book", "role", "link"} /\ s.place.role = "sc" /\ s.place.char # NoChar
         => ~BookedElsewhere(s.place.char, s.event)
    /\ s.do = "deleteChar" =>
         \A e \in Events : places[e].char = s.char => s.forced /\ e \in s.warned
LEMMA PlaceRequestKeeps ==
    ASSUME Inv, NEW h \in Handlers, NEW s \in SoundStep, s.do \in PlaceWork, Checked(s),
           Start(h, <<s>>), UNCHANGED <<sheetVars, places, fileVars, messages, history>>
    PROVE  Inv'
<1>1. /\ Typed /\ JobsSound /\ LinkInv /\ SheetTypes /\ PlaceTypes /\ FileTypes /\ TalkTypes
      /\ history \in Excuses /\ Counts
  BY TypeParts DEF Inv
<1>2. <<s>> \in Seq(SoundStep) /\ Plan(<<s>>) /\ {<<s>>[i] : i \in DOMAIN <<s>>} = {s}
  BY LoneJob DEF Lone
<1>3. /\ JobsSound' /\ job[h] = <<>> /\ Steps(h) = {} /\ Steps(h)' = {s}
      /\ \A g \in Handlers \ {h} : job'[g] = job[g] /\ Steps(g)' = Steps(g)
      /\ requests' = requests + 1 /\ requests' \in 0..MaxRequests
      /\ faults' = faults /\ ops' = ops
  BY <1>1, <1>2, StartIs
<1>4. \A t : t \in Running' <=> t \in Running \/ t = s
  BY <1>3 DEF Running
<1>5. SheetInv' /\ TalkInv' /\ FileInv'
  <2>1. \A other \in Works \ {PlaceWork} : Elsewhere(other)
    BY <1>1, <1>3, StaysIn DEF Works
  <2>2. requests \in Nat /\ requests' \in Nat /\ requests <= requests'
    BY <1>1, <1>3, ConstantsFit DEF Counts
  <2>3. KeepsSheets /\ KeepsTalk /\ KeepsFiles
    BY <2>2 DEF KeepsSheets, KeepsTalk, KeepsFiles, sheetVars, fileVars
  <2> QED
    BY <1>3, <2>1, <2>3, LinksOnly
<1>6. Typed'
  <2>1. SheetTypes' /\ PlaceTypes' /\ FileTypes' /\ TalkTypes' /\ history' \in Excuses
    BY <1>1, SheetTypesStay, PlaceTypesStay, FileTypesStay, TalkTypesStay DEF sheetVars
  <2>2. Counts'
    BY <1>1, <1>3 DEF Counts
  <2> QED
    BY <1>3, <2>1, <2>2, TypedNext
<1>7. LinkInv'
  <2>1. \A c, e : BookedElsewhere(c, e)' <=> BookedElsewhere(c, e)
    BY DEF BookedElsewhere
  <2>2. StillFree'
    BY <1>1, <1>4, <2>1 DEF LinkInv, StillFree, Checked
  <2>3. Warned'
    BY <1>1, <1>4 DEF LinkInv, Warned, Checked
  <2> QED
    BY <1>1, <2>2, <2>3 DEF LinkInv, LinksAreSound
<1> QED
  BY <1>3, <1>5, <1>6, <1>7 DEF Inv

LEMMA ToPlaceIs ==
    ASSUME PlaceTypes, NEW what \in {"book", "role", "link"}, NEW e \in Events, NEW p \in Place,
           p.role # "none", p.char # NoChar => p.role \in {"sc", "nsc"},
           what = "link" => p.role = places[e].role
    PROVE  LET s == ToPlace(what, e, p)
           IN  /\ s \in SoundStep /\ s.do = what /\ s.do \in PlaceWork /\ s.event = e
               /\ s.place = p /\ s.was = places[e]
<1> PICK s : s = ToPlace(what, e, p)
  OBVIOUS
<1> PICK was : was = places[e]
  OBVIOUS
<1>1. what \in PlaceWork /\ was \in Place
  BY DEF PlaceWork, PlaceTypes
<1>2. Do(what) \in Step /\ Do(what).do = what
  BY <1>1, DoIs
<1>3. s = [Do(what) EXCEPT !.event = e, !.place = p, !.was = was]
  BY DEF ToPlace
<1>4. s \in Step /\ s.do = what /\ s.event = e /\ s.place = p /\ s.was = was
  BY <1>1, <1>2, <1>3 DEF Step
<1>5. s \in SoundStep
  BY <1>4 DEF SoundStep, SheetWork, TalkWork, Arrival
<1> QED
  BY <1>1, <1>4, <1>5

LEMMA BookKeeps ==
    ASSUME Inv, NEW h \in Handlers, NEW e \in Events, NEW p \in Place,
           Book(h, e, p) \/ ChangeRole(h, e, p)
    PROVE  Inv'
<1>1. PlaceTypes
  BY TypeParts DEF Inv
<1> PICK what \in {"book", "role"} :
      /\ p.role # "none" /\ Fits(e, p) /\ Start(h, <<ToPlace(what, e, p)>>)
      /\ UNCHANGED <<sheetVars, places, fileVars, messages, history>>
  BY DEF Book, ChangeRole
<1> PICK s : s = ToPlace(what, e, p)
  OBVIOUS
<1>2. /\ p.char # NoChar => p.role \in {"sc", "nsc"}
      /\ p.char # NoChar /\ p.role = "sc" => ~BookedElsewhere(p.char, e)
  BY DEF Fits, CharacterFits
<1>3. s \in SoundStep /\ s.do = what /\ s.do \in PlaceWork /\ s.event = e /\ s.place = p
  BY <1>1, <1>2, ToPlaceIs
<1>4. Checked(s)
  BY <1>2, <1>3 DEF Checked
<1> QED
  BY <1>3, <1>4, PlaceRequestKeeps

LEMMA ChangeCharacterKeeps ==
    ASSUME Inv, NEW h \in Handlers, NEW e \in Events, NEW c \in MaybeChar,
           ChangeCharacter(h, e, c)
    PROVE  Inv'
<1>1. PlaceTypes
  BY TypeParts DEF Inv
<1>2. PICK p : p = [places[e] EXCEPT !.char = c]
  OBVIOUS
<1>3. places[e] \in Place
  BY <1>1 DEF PlaceTypes
<1>4. p \in Place /\ p.role = places[e].role /\ p.char = c
  BY <1>2, <1>3 DEF Place
<1>5. PICK s : s = ToPlace("link", e, p)
  OBVIOUS
<1>6. /\ places[e].role \in {"sc", "nsc"} /\ CharacterFits(e, places[e].role, c)
      /\ Start(h, <<s>>) /\ UNCHANGED <<sheetVars, places, fileVars, messages, history>>
  BY <1>2, <1>5 DEF ChangeCharacter
<1>7. p.role \in {"sc", "nsc"} /\ p.role # "none"
  BY <1>4, <1>6
<1>8. s \in SoundStep /\ s.do = "link" /\ s.do \in PlaceWork /\ s.event = e /\ s.place = p
  BY <1>1, <1>4, <1>5, <1>7, ToPlaceIs
<1>9. Checked(s)
  BY <1>4, <1>6, <1>8 DEF Checked, CharacterFits
<1> QED
  BY <1>6, <1>8, <1>9, PlaceRequestKeeps

LEMMA DeleteCharacterKeeps ==
    ASSUME Inv, NEW h \in Handlers, NEW c \in Characters, NEW force \in BOOLEAN,
           DeleteCharacter(h, c, force)
    PROVE  Inv'
<1> PICK warned : warned = LinkedTo(c)
  OBVIOUS
<1>1. warned \in SUBSET Events /\ \A e \in Events : places[e].char = c => e \in warned
  BY DEF LinkedTo
<1> PICK s : s = [Do("deleteChar") EXCEPT !.char = c, !.warned = warned, !.forced = force]
  OBVIOUS
<1>2. /\ warned # {} => force
      /\ Start(h, <<s>>)
      /\ UNCHANGED <<sheetVars, places, fileVars, messages, history>>
  BY DEF DeleteCharacter, Refused
<1>3. Do("deleteChar") \in Step /\ Do("deleteChar").do = "deleteChar"
  BY DoIs DEF PlaceWork
<1>4. /\ s \in Step /\ s.do = "deleteChar" /\ s.char = c /\ s.warned = warned
      /\ s.forced = force
  BY <1>1, <1>3 DEF Step, SheetIds
<1>5. s \in SoundStep /\ s.do \in PlaceWork
  BY <1>4 DEF SoundStep, SheetWork, PlaceWork, TalkWork, Arrival
<1>6. Checked(s)
  BY <1>1, <1>2, <1>4 DEF Checked
<1> QED
  BY <1>2, <1>5, <1>6, PlaceRequestKeeps

-----------------------------------------------------------------------------
(* Places: links go, messages go *)

LEMMA LinksShrink ==
    ASSUME LinkInv, JobsSound, PlaceTypes,
           \A s \in Running' : s.do \in PlaceWork => s \in Running,
           \A e \in Events : places'[e].char # NoChar =>
              places'[e].char = places[e].char /\ places'[e].role = places[e].role,
           history.raced \subseteq history'.raced,
           history.relinked \subseteq history'.relinked,
           history'.unwarned \subseteq history'.relinked
    PROVE  LinkInv'
<1>1. \A c \in Characters : \A e \in Events :
         (places'[e].role = "sc" /\ places'[e].char = c)
         => (places[e].role = "sc" /\ places[e].char = c)
  BY ConstantsFit
<1>2. \A c \in Characters : \A e : BookedElsewhere(c, e)' => BookedElsewhere(c, e)
  BY <1>1 DEF BookedElsewhere
<1>3. \A s \in Running' : s.do \in PlaceWork =>
         s.place.char \in Characters \cup {NoChar} /\ (s.do = "deleteChar" => s.char \in Characters)
  BY RunningIs, SoundIsStep, StepFields DEF SoundStep, Place, MaybeChar
<1>4. StillFree'
  BY <1>2, <1>3 DEF LinkInv, StillFree, PlaceWork
<1>5. Warned'
  <2> SUFFICES ASSUME NEW s \in Running', s.do = "deleteChar", NEW e \in Events,
                      places'[e].char = s.char
               PROVE  e \in history'.relinked \/ (s.forced /\ e \in s.warned)
    BY DEF Warned
  <2>1. s \in Running /\ s.char # NoChar
    BY <1>3, ConstantsFit DEF PlaceWork
  <2> QED
    BY <2>1 DEF LinkInv, Warned
<1>6. LinksAreSound'
  BY <1>1 DEF LinkInv, LinksAreSound
<1> QED
  BY <1>4, <1>5, <1>6 DEF LinkInv

LEMMA TalkShrinks ==
    ASSUME TalkInv, JobsSound, JobsSound', Elsewhere(TalkWork),
           messages' \subseteq messages, history'.late = history.late
    PROVE  TalkInv'
<1>1. \A h \in Handlers : Doing(h, "mark")' => Doing(h, "mark") /\ Now(h)' = Now(h)
  <2>1. TalkWork \in Works /\ "mark" \in TalkWork
    BY DEF Works, TalkWork
  <2> QED
    BY <2>1, HeadsElsewhere DEF Now
<1>2. \A events : MessagesOf(events)' \subseteq MessagesOf(events)
  BY DEF MessagesOf
<1>3. ShownBefore'
  BY <1>1, <1>2 DEF TalkInv, ShownBefore
<1>4. ReadMeansShown'
  BY DEF TalkInv, ReadMeansShown
<1> QED
  BY <1>3, <1>4 DEF TalkInv

LEMMA UnregisterKeeps ==
    ASSUME Inv, NEW e \in Events, Unregister(e)
    PROVE  Inv'
<1>1. /\ Typed /\ JobsSound /\ LinkInv /\ TalkInv /\ SheetTypes /\ PlaceTypes /\ FileTypes
      /\ TalkTypes /\ history \in Excuses /\ Counts
  BY TypeParts DEF Inv
<1>2. /\ Once /\ places' = [places EXCEPT ![e] = NoPlace] /\ messages' \subseteq messages
      /\ UNCHANGED <<sheetVars, fileVars, history>>
  BY DEF Unregister
<1>3. /\ JobsSound' /\ job' = job /\ \A h \in Handlers : Steps(h)' = Steps(h)
      /\ requests' = requests + 1 /\ requests' \in 0..MaxRequests
      /\ faults' = faults /\ ops' = ops /\ Running' = Running
  BY <1>1, <1>2, OnceIs
<1>4. /\ places' \in [Events -> Place] /\ places'[e] = NoPlace
      /\ \A d \in Events \ {e} : places'[d] = places[d]
      /\ NoPlace.char = NoChar /\ NoPlace.nsc = NoChar
  BY <1>1, <1>2, Blanks DEF PlaceTypes, NoPlace
<1>5. \A work \in Works : Elsewhere(work)
  BY <1>3, NothingMoves
<1>6. SheetInv' /\ FileInv'
  <2>1. requests \in Nat /\ requests' \in Nat /\ requests <= requests'
    BY <1>1, <1>3, ConstantsFit DEF Counts
  <2>2. KeepsSheets /\ KeepsFiles
    BY <1>2, <2>1 DEF KeepsSheets, KeepsFiles, sheetVars, fileVars
  <2> QED
    BY <1>1, <1>3, <1>5, <2>2, SheetsElsewhere, FilesElsewhere DEF Inv, Works
<1>7. TalkInv'
  BY <1>1, <1>2, <1>3, <1>5, TalkShrinks DEF Works
<1>8. LinkInv'
  <2>1. history'.unwarned \subseteq history'.relinked
    BY <1>1, <1>2 DEF LinkInv, LinksAreSound
  <2> QED
    BY <1>1, <1>2, <1>3, <1>4, <2>1, LinksShrink
<1>9. Typed'
  <2>1. PlaceTypes'
    <3>1. \A d \in Events : {places'[d].char, places'[d].nsc} \subseteq exists' \cup {NoChar}
      BY <1>1, <1>2, <1>4 DEF PlaceTypes, sheetVars
    <3>2. \A d \in Events : places'[d].role \in {"none", "other"} => places'[d].char = NoChar
      BY <1>1, <1>4 DEF PlaceTypes
    <3> QED
      BY <1>4, <3>1, <3>2 DEF PlaceTypes
  <2>2. SheetTypes' /\ FileTypes' /\ history' \in Excuses
    BY <1>1, <1>2, SheetTypesStay, FileTypesStay DEF sheetVars
  <2>3. TalkTypes'
    BY <1>1, <1>2 DEF TalkTypes
  <2>4. Counts'
    BY <1>1, <1>3 DEF Counts
  <2> QED
    BY <1>3, <2>1, <2>2, <2>3, <2>4, TypedNext
<1> QED
  BY <1>3, <1>6, <1>7, <1>8, <1>9 DEF Inv

\* The database refuses what a request for a place or a deletion wants.
LEMMA PlaceRefused ==
    ASSUME Inv, NEW h \in Handlers, job[h] # <<>>, Now(h).do \in PlaceWork, Refuse(h),
           UNCHANGED <<sheetVars, places, fileVars, messages, history>>
    PROVE  Inv'
<1>1. /\ Typed /\ JobsSound /\ LinkInv /\ SheetTypes /\ PlaceTypes /\ FileTypes /\ TalkTypes
      /\ history \in Excuses /\ Counts
  BY TypeParts DEF Inv
<1>2. /\ JobsSound' /\ job'[h] = <<>> /\ Steps(h)' = {}
      /\ \A g \in Handlers \ {h} : job'[g] = job[g] /\ Steps(g)' = Steps(g)
      /\ requests' = requests /\ faults' = faults /\ ops' = ops
  BY <1>1, RefuseIs
<1>3. SheetInv' /\ TalkInv' /\ FileInv'
  <2>1. \A other \in Works \ {PlaceWork} : Elsewhere(other)
    BY <1>1, <1>2, StaysIn DEF Works
  <2>2. requests \in Nat
    BY <1>1, ConstantsFit DEF Counts
  <2>3. KeepsSheets /\ KeepsTalk /\ KeepsFiles
    BY <1>2, <2>2 DEF KeepsSheets, KeepsTalk, KeepsFiles, sheetVars, fileVars
  <2> QED
    BY <1>2, <2>1, <2>3, LinksOnly
<1>4. Typed'
  <2>1. SheetTypes' /\ PlaceTypes' /\ FileTypes' /\ TalkTypes' /\ history' \in Excuses
    BY <1>1, SheetTypesStay, PlaceTypesStay, FileTypesStay, TalkTypesStay DEF sheetVars
  <2>2. Counts'
    BY <1>1, <1>2 DEF Counts
  <2> QED
    BY <1>2, <2>1, <2>2, TypedNext
<1>5. LinkInv'
  <2>1. \A s \in Running' : s \in Running
    BY <1>2 DEF Running
  <2>2. history'.unwarned \subseteq history'.relinked
    BY <1>1 DEF LinkInv, LinksAreSound
  <2> QED
    BY <1>1, <2>1, <2>2, LinksShrink
<1> QED
  BY <1>2, <1>3, <1>4, <1>5 DEF Inv

-----------------------------------------------------------------------------
(* Places: a link is written *)

\* What a statement has done that writes place p at event e, or leaves it as it was.
Placed(h, e, p) ==
    /\ job[h] # <<>> /\ Now(h).do \in {"book", "role", "link"} /\ e \in Events
    /\ p \in Place /\ SoundLinks(p)
    /\ \/ places' = places
       \/ /\ places' = [places EXCEPT ![e] = p]
          /\ p.role \in {"none", "other"} => p.char = NoChar
    /\ Linked(h, e, p) /\ Then(h, <<>>)
    /\ UNCHANGED <<sheetVars, fileVars, messages>>
    /\ p.role = "sc" /\ p.char # NoChar /\ p.char \notin history'.raced
         => ~BookedElsewhere(p.char, e)
LEMMA LinkedIs ==
    ASSUME history \in Excuses, NEW h, NEW e \in Events, NEW p \in Place, Linked(h, e, p)
    PROVE  /\ history' \in Excuses
           /\ history'.accepted = history.accepted /\ history'.strangers = history.strangers
           /\ history'.secret = history.secret /\ history'.overtaken = history.overtaken
           /\ history'.tangled = history.tangled
           /\ history'.interrupted = history.interrupted
           /\ history'.unwarned = history.unwarned /\ history'.left = history.left
           /\ history'.mixed = history.mixed /\ history'.crowded = history.crowded
           /\ history'.late = history.late
           /\ history.raced \subseteq history'.raced
           /\ history.relinked \subseteq history'.relinked
           /\ p.char # NoChar /\ (\E s \in Others(h) : Links(s, p.char))
                => p.char \in history'.raced
           /\ p.char # NoChar /\ Now(h).do = "link" /\ places[e].role # Now(h).was.role
                => p.char \in history'.raced
           /\ (\E s \in Others(h) : s.do = "deleteChar" /\ s.char \in {p.char, p.nsc})
                => e \in history'.relinked
<1>1. PICK racing : racing <=> /\ p.char # NoChar
                               /\ \/ \E s \in Others(h) : Links(s, p.char)
                                  \/ Now(h).do = "link" /\ places[e].role # Now(h).was.role
  OBVIOUS
<1>2. PICK deleting : deleting <=> \E s \in Others(h) :
                        s.do = "deleteChar" /\ s.char \in {p.char, p.nsc}
  OBVIOUS
<1>3. PICK cs : cs = IF racing THEN {p.char} ELSE {}
  OBVIOUS
<1>4. PICK es : es = IF deleting THEN {e} ELSE {}
  OBVIOUS
<1>5. history' = [history EXCEPT !.raced = @ \cup cs, !.relinked = @ \cup es]
  BY <1>1, <1>2, <1>3, <1>4 DEF Linked, When
<1>6. cs \in SUBSET Characters /\ es \in SUBSET Events
  BY <1>1, <1>3, <1>4 DEF Place, MaybeChar
<1>7. /\ history' \in Excuses
      /\ history'.raced = history.raced \cup cs
      /\ history'.relinked = history.relinked \cup es
      /\ history'.accepted = history.accepted /\ history'.strangers = history.strangers
      /\ history'.secret = history.secret /\ history'.overtaken = history.overtaken
      /\ history'.tangled = history.tangled /\ history'.interrupted = history.interrupted
      /\ history'.unwarned = history.unwarned /\ history'.left = history.left
      /\ history'.mixed = history.mixed /\ history'.crowded = history.crowded
      /\ history'.late = history.late
  BY <1>5, <1>6, PastLinks
<1> QED
  BY <1>1, <1>2, <1>3, <1>4, <1>7

LEMMA PlacedKeeps ==
    ASSUME Inv, NEW h \in Handlers, NEW e, NEW p, Placed(h, e, p)
    PROVE  Inv'
<1>1. /\ Typed /\ JobsSound /\ LinkInv /\ SheetTypes /\ PlaceTypes /\ FileTypes /\ TalkTypes
      /\ history \in Excuses /\ Counts
  BY TypeParts DEF Inv
<1> PICK s : s = Now(h)
  OBVIOUS
<1>2. /\ job[h] # <<>> /\ s.do \in {"book", "role", "link"} /\ s.do \in PlaceWork
      /\ s.do \in Lone /\ e \in Events /\ p \in Place /\ SoundLinks(p)
      /\ UNCHANGED <<sheetVars, fileVars, messages>>
  BY DEF Placed, PlaceWork, Lone
<1>3. /\ Linked(h, e, p) /\ Then(h, <<>>)
      /\ p.role = "sc" /\ p.char # NoChar /\ p.char \notin history'.raced
           => ~BookedElsewhere(p.char, e)
  BY DEF Placed
<1>4. /\ JobsSound' /\ job'[h] = <<>> /\ Steps(h)' = {}
      /\ \A g \in Handlers \ {h} : job'[g] = job[g] /\ Steps(g)' = Steps(g)
      /\ requests' = requests /\ faults' = faults /\ ops' = ops
  BY <1>1, <1>2, <1>3, ThenIs
<1>5. /\ history' \in Excuses
      /\ history'.accepted = history.accepted /\ history'.strangers = history.strangers
      /\ history'.secret = history.secret /\ history'.overtaken = history.overtaken
      /\ history'.tangled = history.tangled
      /\ history'.interrupted = history.interrupted
      /\ history'.unwarned = history.unwarned /\ history'.left = history.left
      /\ history'.mixed = history.mixed /\ history'.crowded = history.crowded
      /\ history'.late = history.late
      /\ history.raced \subseteq history'.raced
      /\ history.relinked \subseteq history'.relinked
      /\ p.char # NoChar /\ (\E t \in Others(h) : Links(t, p.char))
           => p.char \in history'.raced
      /\ (\E t \in Others(h) : t.do = "deleteChar" /\ t.char \in {p.char, p.nsc})
           => e \in history'.relinked
  BY <1>1, <1>2, <1>3, LinkedIs
<1>6. /\ places' \in [Events -> Place] /\ \A d \in Events \ {e} : places'[d] = places[d]
      /\ \/ places'[e] = places[e]
         \/ places'[e] = p /\ (p.role \in {"none", "other"} => p.char = NoChar)
  BY <1>1, <1>2 DEF Placed, PlaceTypes
<1>7. SheetInv' /\ TalkInv' /\ FileInv'
  <2>1. \A other \in Works \ {PlaceWork} : Elsewhere(other)
    BY <1>1, <1>2, <1>4, StaysIn DEF Works
  <2>2. requests \in Nat
    BY <1>1, ConstantsFit DEF Counts
  <2>3. KeepsSheets /\ KeepsTalk /\ KeepsFiles
    BY <1>2, <1>4, <1>5, <2>2 DEF KeepsSheets, KeepsTalk, KeepsFiles, sheetVars, fileVars
  <2> QED
    BY <1>4, <2>1, <2>3, LinksOnly
<1>8. Typed'
  <2>1. PlaceTypes'
    <3>1. \A d \in Events : {places'[d].char, places'[d].nsc} \subseteq exists' \cup {NoChar}
      BY <1>1, <1>2, <1>6 DEF PlaceTypes, SoundLinks, sheetVars
    <3>2. \A d \in Events : places'[d].role \in {"none", "other"} => places'[d].char = NoChar
      BY <1>1, <1>2, <1>6 DEF PlaceTypes
    <3> QED
      BY <1>6, <3>1, <3>2 DEF PlaceTypes
  <2>2. SheetTypes' /\ FileTypes' /\ TalkTypes'
    BY <1>1, <1>2, SheetTypesStay, FileTypesStay, TalkTypesStay DEF sheetVars
  <2>3. Counts'
    BY <1>1, <1>4 DEF Counts
  <2> QED
    BY <1>4, <1>5, <2>1, <2>2, <2>3, TypedNext
<1>9. \A t : t \in Running' => t \in Running /\ t \in Others(h)
  BY <1>4 DEF Running, Others
<1>10. \A t \in Running' : t.do \in PlaceWork =>
          t.place.char \in MaybeChar /\ (t.do = "deleteChar" => t.char # NoChar)
  <2> SUFFICES ASSUME NEW t \in Running', t.do \in PlaceWork
               PROVE  /\ t.place.char \in MaybeChar
                      /\ t.do = "deleteChar" => t.char # NoChar
    OBVIOUS
  <2>1. t \in SoundStep /\ t.place \in Place
    BY <1>1, <1>9, RunningIs, SoundIsStep, StepFields
  <2>2. t.place.char \in MaybeChar
    BY <2>1 DEF Place
  <2>3. t.do = "deleteChar" => t.char \in Characters
    BY <2>1 DEF SoundStep
  <2> QED
    BY <2>2, <2>3, ConstantsFit
<1>11. \A c \in Characters \ history'.raced : \A d \in Events :
          BookedElsewhere(c, d)' => BookedElsewhere(c, d) \/ (p.role = "sc" /\ p.char = c)
  BY <1>6 DEF BookedElsewhere
<1>12. StillFree'
  <2> SUFFICES ASSUME NEW t \in Running', t.do \in {"book", "role", "link"},
                      t.place.role = "sc", t.place.char \notin history'.raced \cup {NoChar},
                      BookedElsewhere(t.place.char, t.event)'
               PROVE  FALSE
    BY DEF StillFree
  <2>1. t.place.char \in Characters /\ t.event \in Events
    BY <1>1, <1>9, <1>10, RunningIs DEF PlaceWork, MaybeChar, SoundStep
  <2>2. ~BookedElsewhere(t.place.char, t.event)
    BY <1>1, <1>5, <1>9 DEF LinkInv, StillFree
  <2>3. p.char = t.place.char
    BY <1>11, <2>1, <2>2
  <2>4. Links(t, p.char)
    BY <2>3 DEF Links
  <2> QED
    BY <1>5, <1>9, <2>3, <2>4
<1>13. Warned'
  <2> SUFFICES ASSUME NEW t \in Running', t.do = "deleteChar", NEW d \in Events,
                      places'[d].char = t.char
               PROVE  d \in history'.relinked \/ (t.forced /\ d \in t.warned)
    BY DEF Warned
  <2>1. CASE places'[d] = places[d]
    BY <1>1, <1>5, <1>9, <2>1 DEF LinkInv, Warned
  <2>2. CASE d = e /\ places'[e] = p
    BY <1>5, <1>9, <2>2
  <2> QED
    BY <1>6, <2>1, <2>2
<1>14. LinksAreSound'
  <2>1. history'.unwarned \subseteq history'.relinked
    BY <1>1, <1>5 DEF LinkInv, LinksAreSound
  <2>2. ASSUME NEW c \in Characters \ history'.raced, NEW d \in Events, NEW b \in Events,
               places'[d].role = "sc", places'[b].role = "sc",
               places'[d].char = c, places'[b].char = c
        PROVE  d = b
    <3>1. c # NoChar /\ c \notin history.raced
      BY <1>5, ConstantsFit
    <3>2. CASE places'[e] = places[e]
      <4>1. places'[d] = places[d] /\ places'[b] = places[b]
        BY <1>6, <3>2
      <4> QED
        BY <1>1, <2>2, <3>1, <4>1 DEF LinkInv, LinksAreSound
    <3>3. CASE d # e /\ b # e
      <4>1. places'[d] = places[d] /\ places'[b] = places[b]
        BY <1>6, <3>3
      <4> QED
        BY <1>1, <2>2, <3>1, <4>1 DEF LinkInv, LinksAreSound
    <3>4. CASE places'[e] = p /\ p.role = "sc" /\ p.char = c
      <4>1. ~BookedElsewhere(c, e)
        BY <1>3, <2>2, <3>1, <3>4
      <4>2. \A x \in Events \ {e} : ~(places'[x].role = "sc" /\ places'[x].char = c)
        BY <1>6, <4>1 DEF BookedElsewhere
      <4> QED
        BY <2>2, <4>2
    <3> QED
      BY <1>6, <2>2, <3>2, <3>3, <3>4
  <2> QED
    BY <2>1, <2>2 DEF LinksAreSound
<1> QED
  BY <1>4, <1>7, <1>8, <1>12, <1>13, <1>14 DEF Inv, LinkInv

LEMMA InsertPlaceKeeps ==
    ASSUME Inv, NEW h \in Handlers, InsertPlace(h) \/ UpdateRole(h)
    PROVE  Inv'
<1>1. JobsSound /\ LinkInv /\ history \in Excuses
  BY TypeParts DEF Inv
<1> PICK s : s = Now(h)
  OBVIOUS
<1>2. job[h] # <<>> /\ s.do \in {"book", "role"} /\ s.do \in PlaceWork
  BY DEF InsertPlace, UpdateRole, Doing, Now, PlaceWork
<1>3. s \in SoundStep /\ s \in Running /\ s.place \in Place
  BY <1>1, <1>2, NowIs, StepFields
<1>4. /\ s.event \in Events /\ s.place.role # "none"
      /\ s.place.char # NoChar => s.place.role \in {"sc", "nsc"}
  BY <1>2, <1>3 DEF SoundStep
<1>5. CASE Refuse(h) /\ UNCHANGED <<sheetVars, places, fileVars, messages, history>>
  BY <1>2, <1>5, PlaceRefused
<1>6. CASE /\ SoundLinks(s.place) /\ places' = [places EXCEPT ![s.event] = s.place]
           /\ Linked(h, s.event, s.place) /\ Then(h, <<>>)
           /\ UNCHANGED <<sheetVars, fileVars, messages>>
  <2>1. history.raced \subseteq history'.raced
    BY <1>1, <1>3, <1>4, <1>6, LinkedIs
  <2>2. s.place.role = "sc" /\ s.place.char # NoChar /\ s.place.char \notin history'.raced
          => ~BookedElsewhere(s.place.char, s.event)
    BY <1>1, <1>2, <1>3, <2>1 DEF LinkInv, StillFree
  <2>3. s.place.role \in {"none", "other"} => s.place.char = NoChar
    BY <1>4
  <2>4. Placed(h, s.event, s.place)
    BY <1>2, <1>3, <1>4, <1>6, <2>2, <2>3 DEF Placed
  <2> QED
    BY <2>4, PlacedKeeps
<1> QED
  BY <1>5, <1>6 DEF InsertPlace, UpdateRole

LEMMA UpdateCharacterKeeps ==
    ASSUME Inv, NEW h \in Handlers, UpdateCharacter(h)
    PROVE  Inv'
<1>1. JobsSound /\ LinkInv /\ PlaceTypes /\ history \in Excuses
  BY TypeParts DEF Inv
<1>2. PICK s : s = Now(h)
  OBVIOUS
<1>3. PICK e : e = s.event
  OBVIOUS
<1>4. PICK p : p = [places[e] EXCEPT !.char = s.place.char]
  OBVIOUS
<1>5. job[h] # <<>> /\ s.do = "link" /\ s.do \in PlaceWork
  BY <1>2 DEF UpdateCharacter, Doing, Now, PlaceWork
<1>6. s \in SoundStep /\ s \in Running /\ s.place \in Place
  BY <1>1, <1>2, <1>5, NowIs, StepFields
<1>7. /\ e \in Events /\ s.place.role # "none" /\ s.place.role = s.was.role
      /\ s.place.char # NoChar => s.place.role \in {"sc", "nsc"}
  BY <1>3, <1>5, <1>6 DEF SoundStep
<1>8. places[e] \in Place /\ (places[e].role = "none" => places[e].char = NoChar)
  BY <1>1, <1>7 DEF PlaceTypes
<1>9. /\ p \in Place /\ p.role = places[e].role /\ p.char = s.place.char
      /\ p.nsc = places[e].nsc
  BY <1>4, <1>6, <1>8 DEF Place
<1>10. CASE Refuse(h) /\ UNCHANGED <<sheetVars, places, fileVars, messages, history>>
  BY <1>2, <1>5, <1>10, PlaceRefused
<1>11. CASE /\ SoundLinks(p) /\ (p.role = "other" => p.char = NoChar)
            /\ places' = IF p.role = "none" THEN places ELSE [places EXCEPT ![e] = p]
            /\ Linked(h, e, p) /\ Then(h, <<>>)
            /\ UNCHANGED <<sheetVars, fileVars, messages>>
  <2>1. /\ history.raced \subseteq history'.raced
        /\ p.char # NoChar /\ places[e].role # s.was.role => p.char \in history'.raced
    BY <1>1, <1>2, <1>5, <1>7, <1>9, <1>11, LinkedIs
  <2>2. p.role = "sc" /\ p.char # NoChar /\ p.char \notin history'.raced
          => ~BookedElsewhere(p.char, e)
    BY <1>1, <1>3, <1>5, <1>6, <1>7, <1>9, <2>1 DEF LinkInv, StillFree
  <2>3. \/ places' = places
        \/ /\ places' = [places EXCEPT ![e] = p]
           /\ p.role \in {"none", "other"} => p.char = NoChar
    BY <1>11
  <2>4. Placed(h, e, p)
    BY <1>2, <1>5, <1>7, <1>9, <1>11, <2>2, <2>3 DEF Placed
  <2> QED
    BY <2>4, PlacedKeeps
<1> QED
  BY <1>2, <1>3, <1>4, <1>10, <1>11 DEF UpdateCharacter

-----------------------------------------------------------------------------
(* A character is deleted *)

LEMMA FewerFiles ==
    ASSUME IsFiniteSet(files), files' \subseteq files, NEW c
    PROVE  /\ Cardinality(FilesOf(c)) \in Nat /\ Cardinality(FilesOf(c)') \in Nat
           /\ Cardinality(FilesOf(c)') <= Cardinality(FilesOf(c))
<1> PICK old, new : old = FilesOf(c) /\ new = FilesOf(c)'
  OBVIOUS
<1>1. old \in SUBSET files /\ new \in SUBSET old
  BY DEF FilesOf
<1>2. IsFiniteSet(old)
  BY <1>1, FS_Subset
<1>3. IsFiniteSet(new) /\ Cardinality(new) <= Cardinality(old)
  BY <1>1, <1>2, FS_Subset
<1> QED
  BY <1>2, <1>3, FS_CardinalityType

\* Rows that go with their character leave their bytes behind.
LEMMA RowsGoKeeps ==
    ASSUME JobsSound, JobsSound', FileInv, FileTypes, Elsewhere(FileWork),
           files' \subseteq files, store' = store,
           \A f \in files \ files' : f.spot.file \in history'.left,
           history'.mixed = history.mixed, history.left \subseteq history'.left,
           history'.crowded = history.crowded
    PROVE  FileInv'
<1>1. \A h \in Handlers : \A s : s.do \in FileWork => (s \in Steps(h)' <=> s \in Steps(h))
  BY DEF Elsewhere, Steps
<1>2. \A s : s.do \in FileWork => (s \in Running' <=> s \in Running)
  BY <1>1 DEF Running
<1>3. \A h \in Handlers : \A what \in FileWork :
         Doing(h, what) => Doing(h, what)' /\ Now(h)' = Now(h)
  <2> TAKE h \in Handlers
  <2> TAKE what \in FileWork
  <2> SUFFICES ASSUME Doing(h, what) PROVE Doing(h, what)' /\ Now(h)' = Now(h)
    OBVIOUS
  <2>1. job'[h] = job[h]
    BY NowIs DEF Elsewhere, Doing, Now
  <2> QED
    BY <2>1 DEF Doing, Now
<1>4. \A h \in Handlers : \A what \in FileWork :
         Doing(h, what)' => Doing(h, what) /\ Now(h)' = Now(h)
  <2> TAKE h \in Handlers
  <2> TAKE what \in FileWork
  <2>1. FileWork \in Works
    BY DEF Works
  <2> QED
    BY <2>1, HeadsElsewhere DEF Now
<1>5. Arriving'
  <2> SUFFICES ASSUME NEW h \in Handlers, NEW s \in Steps(h)', s.do \in Arrival
               PROVE  /\ \A f \in files' : f.spot.file # s.spot.file
                      /\ s.do = "upload" => \A x \in store : x.file # s.spot.file
                      /\ s.do = "insertFile" => s.spot \in store
                      /\ \A g \in Handlers : \A t \in Steps(g)' :
                           /\ ~Handles(t, s.spot.file)
                           /\ g # h /\ t.do \in Arrival => t.spot.file # s.spot.file
    BY DEF Arriving
  <2>1. s \in Steps(h)
    BY <1>1 DEF Arrival, FileWork
  <2>2. /\ \A f \in files : f.spot.file # s.spot.file
        /\ s.do = "upload" => \A x \in store : x.file # s.spot.file
        /\ s.do = "insertFile" => s.spot \in store
        /\ \A g \in Handlers : \A t \in Steps(g) :
             /\ ~Handles(t, s.spot.file)
             /\ g # h /\ t.do \in Arrival => t.spot.file # s.spot.file
    BY <2>1 DEF FileInv, Arriving
  <2>3. \A g \in Handlers : \A t \in Steps(g)' :
           /\ ~Handles(t, s.spot.file)
           /\ g # h /\ t.do \in Arrival => t.spot.file # s.spot.file
    <3> SUFFICES ASSUME NEW g \in Handlers, NEW t \in Steps(g)'
                 PROVE  /\ ~Handles(t, s.spot.file)
                        /\ g # h /\ t.do \in Arrival => t.spot.file # s.spot.file
      OBVIOUS
    <3>1. CASE t.do \in FileWork
      BY <1>1, <2>2, <3>1
    <3>2. CASE t.do \notin FileWork
      BY <3>2 DEF FileWork, Arrival, Handles
    <3> QED
      BY <3>1, <3>2
  <2> QED
    BY <2>2, <2>3
<1>6. \A c : /\ Cardinality(FilesOf(c)) \in Nat /\ Cardinality(FilesOf(c)') \in Nat
             /\ Cardinality(FilesOf(c)') <= Cardinality(FilesOf(c))
  BY FewerFiles DEF FileTypes
<1>7. Room'
  <2> SUFFICES ASSUME NEW s \in Running', s.do \in Arrival, s.char \notin history'.crowded
               PROVE  HasRoom(s.char)'
    BY DEF Room
  <2>1. HasRoom(s.char)
    BY <1>2 DEF FileInv, Room, Arrival, FileWork
  <2> QED
    BY <1>6, <2>1, ConstantsFit DEF HasRoom
<1>8. RowsStand'
  <2> SUFFICES ASSUME NEW s \in Running', s.do \in {"dropRow", "copy", "point"},
                      s.spot.file \notin history'.mixed \cup history'.left
               PROVE  \E f \in files' : f.spot = s.spot
    BY DEF RowsStand
  <2>1. PICK f \in files : f.spot = s.spot
    BY <1>2 DEF FileInv, RowsStand, FileWork
  <2> QED
    BY <2>1
<1>9. Gone'
  BY <1>4 DEF FileInv, Gone, FileWork
<1>10. Copied'
  <2> SUFFICES ASSUME NEW h \in Handlers, Doing(h, "point")',
                      Now(h)'.spot.file \notin history'.mixed
               PROVE  NewSpot(Now(h)') \in store
    BY DEF Copied, NewSpot
  <2>1. Doing(h, "point") /\ Now(h)' = Now(h)
    BY <1>4 DEF FileWork
  <2> QED
    BY <2>1 DEF FileInv, Copied
<1>11. AllNamed'
  <2> SUFFICES ASSUME NEW x \in store, x.file \notin history'.mixed \cup history'.left
               PROVE  Named(x)'
    BY DEF AllNamed
  <2>1. Named(x)
    BY DEF FileInv, AllNamed
  <2>2. CASE \E f \in files : f.spot = x
    BY <2>2 DEF Named
  <2>3. CASE \E h \in Handlers : Hers(h, x)
    <3>1. PICK h \in Handlers : Hers(h, x)
      BY <2>3
    <3>2. Hers(h, x)'
      BY <1>3, <3>1 DEF Hers, NewSpot, FileWork
    <3> QED
      BY <3>2 DEF Named
  <2> QED
    BY <2>1, <2>2, <2>3 DEF Named
<1>12. FilesAreSound'
  <2>1. \A x \in store : x.file \notin history'.mixed \cup history'.left =>
           \/ \E f \in files' : f.spot = x
           \/ \E step \in Running' : step.spot.file = x.file
    <3> SUFFICES ASSUME NEW x \in store, x.file \notin history'.mixed \cup history'.left,
                        ~ \E f \in files' : f.spot = x
                 PROVE  \E step \in Running' : step.spot.file = x.file
      OBVIOUS
    <3>2. PICK h \in Handlers : Hers(h, x)
      BY DEF FileInv, AllNamed, Named
    <3>3. job[h] # <<>> /\ Now(h).do \in FileWork /\ Now(h).spot.file = x.file
      BY <3>2 DEF Hers, Doing, Now, FileWork, NewSpot
    <3>4. Now(h) \in Running
      BY <3>3, NowIs
    <3> QED
      BY <1>2, <3>3, <3>4
  <2>2. \A c \in Characters \ history'.crowded : Cardinality(FilesOf(c)') <= Quota
    BY <1>6, ConstantsFit DEF FileInv, FilesAreSound
  <2> QED
    BY <2>1, <2>2 DEF FileInv, FilesAreSound
<1> QED
  BY <1>5, <1>7, <1>8, <1>9, <1>10, <1>11, <1>12 DEF FileInv

LEMMA DropSheets ==
    ASSUME Inv, NEW h \in Handlers, job[h] # <<>>, Now(h).do = "deleteChar",
           Steps(h)' = {}, \A g \in Handlers \ {h} : Steps(g)' = Steps(g),
           exists' = exists \ {Now(h).char}, sheets' = sheets, requests' = requests,
           reviews' = {r \in reviews : r.char # Now(h).char},
           history'.accepted = history.accepted, history'.strangers = history.strangers,
           history'.secret = history.secret, history'.overtaken = history.overtaken,
           history'.tangled = history.tangled, history'.interrupted = history.interrupted
    PROVE  SheetInv'
<1>1. JobsSound /\ SheetInv
  BY DEF Inv
<1>2. \A s : s.do \in SheetWork => (s \in Running' <=> s \in Running)
  <2>1. Steps(h) = {Now(h)} /\ Now(h).do \notin SheetWork
    BY <1>1, NowIs DEF Lone, PlaceWork, SheetWork
  <2> QED
    BY <2>1 DEF Running
<1>3. \A g \in Handlers : Steps(g)' \subseteq Steps(g)
  OBVIOUS
<1>4. \A gs \in SUBSET Handlers : \A n : Unseen(gs, n) => Unseen(gs, n)'
  BY DEF Unseen
<1>5. NumbersFresh'
  <2>1. \A g \in Handlers : \A s \in Steps(g)' : s.do \in {"save", "write"} =>
           /\ s.n \in 1..requests' /\ Unseen(Handlers \ {g}, s.n)'
           /\ s.do = "write" => \A f \in Fields : s.base[f] # s.n
    BY <1>1, <1>3, <1>4 DEF SheetInv, NumbersFresh
  <2>2. \A n \in Nat : n > requests' => Unseen(Handlers, n)'
    BY <1>1, <1>4 DEF SheetInv, NumbersFresh
  <2> QED
    BY <2>1, <2>2 DEF NumbersFresh
<1>6. Account # Now(h).char
  <2>1. Now(h).char \in Characters
    BY <1>1, NowIs DEF SoundStep
  <2> QED
    BY <2>1, ConstantsFit
<1>7. Undisturbed' = Undisturbed \ {Now(h).char}
  BY <1>6 DEF Undisturbed
<1>8. \A c, f, v : c # Now(h).char => (Covered(c, f, v)' <=> Covered(c, f, v))
  <2>1. \A c, f, v : c # Now(h).char => (ToJudge(c, f, v)' <=> ToJudge(c, f, v))
    BY <1>2 DEF ToJudge, SheetWork
  <2> QED
    BY <2>1 DEF Covered
<1>9. Covers'
  <2> SUFFICES ASSUME NEW c \in Undisturbed \ {Now(h).char}
               PROVE  /\ \A f \in Shown : Covered(c, f, sheets[c][f])
                      /\ \A r \in reviews' : r.char = c =>
                           \A ch \in r.changes : Covered(c, ch.field, ch.from)
                      /\ \A s \in Running' : s.do = "review" /\ s.char = c =>
                           \A ch \in s.changes : Covered(c, ch.field, ch.from)
    BY <1>7, <1>8 DEF Covers
  <2> QED
    BY <1>1, <1>2 DEF SheetInv, Covers, SheetWork
<1>10. Born'
  <2> SUFFICES ASSUME NEW c \in Characters \ Given
               PROVE  /\ sheets[c]["name"] = 0 => Unborn(c)'
                      /\ \A r \in reviews' : r.char = c =>
                           \A ch \in r.changes : ch.field = "name" => ch.from # 0
                      /\ \A s \in Running' : s.char = c =>
                           /\ s.do \in {"save", "write"} => s.form["name"] # 0
                           /\ s.do = "write" => s.base["name"] # 0
                           /\ s.do = "review" =>
                                \A ch \in s.changes : ch.field = "name" => ch.from # 0
    BY DEF Born
  <2>1. Unborn(c) => Unborn(c)'
    BY <1>2 DEF Unborn
  <2> QED
    BY <1>1, <1>2, <2>1 DEF SheetInv, Born, SheetWork
<1>11. SecretIsStaffs'
  BY <1>1 DEF SheetInv, SecretIsStaffs
<1>12. \A r \in reviews' : Single(r.changes)
  BY <1>1 DEF SheetInv
<1> QED
  BY <1>5, <1>9, <1>10, <1>11, <1>12 DEF SheetInv

LEMMA DropCharacterKeeps ==
    ASSUME Inv, NEW h \in Handlers, DropCharacter(h)
    PROVE  Inv'
<1>1. /\ Typed /\ JobsSound /\ LinkInv /\ TalkInv /\ FileInv /\ SheetTypes /\ PlaceTypes
      /\ FileTypes /\ TalkTypes /\ history \in Excuses /\ Counts
  BY TypeParts DEF Inv
<1>2. PICK c : c = Now(h).char
  OBVIOUS
<1>3. /\ job[h] # <<>> /\ Now(h).do = "deleteChar" /\ Now(h).do \in PlaceWork
      /\ Now(h).do \in Lone /\ UNCHANGED <<sheets, store, backend>>
  BY DEF DropCharacter, Doing, Now, PlaceWork, Lone
<1>4. c \in Characters /\ c # NoChar
  BY <1>1, <1>2, <1>3, NowIs, ConstantsFit DEF SoundStep
<1>5. CASE Refuse(h) /\ UNCHANGED <<exists, reviews, places, files, messages, history>>
  BY <1>3, <1>5, PlaceRefused DEF sheetVars, fileVars
<1>6. PICK lost : lost = {e \in Events : places[e].char = c}
  OBVIOUS
<1>7. PICK unwarned : unwarned = lost \ When(Now(h).forced, Now(h).warned)
  OBVIOUS
<1>8. PICK left : left = {f.spot.file : f \in {g \in files : g.char = c}}
  OBVIOUS
<1>9. CASE /\ exists' = exists \ {c} /\ reviews' = {r \in reviews : r.char # c}
           /\ places' = [e \in Events |->
                           IF e \in lost THEN NoPlace
                           ELSE IF places[e].nsc = c THEN [places[e] EXCEPT !.nsc = NoChar]
                           ELSE places[e]]
           /\ files' = {f \in files : f.char # c}
           /\ messages' \subseteq messages
           /\ history' = [history EXCEPT !.unwarned = @ \cup unwarned, !.left = @ \cup left]
           /\ Then(h, <<>>)
  <2>1. /\ JobsSound' /\ job'[h] = <<>> /\ Steps(h)' = {}
        /\ \A g \in Handlers \ {h} : job'[g] = job[g] /\ Steps(g)' = Steps(g)
        /\ requests' = requests /\ faults' = faults /\ ops' = ops
    BY <1>1, <1>3, <1>9, ThenIs
  <2>2. unwarned \in SUBSET Events /\ left \in SUBSET FileIds
    <3>1. \A f \in files : f.spot.file \in FileIds
      BY <1>1 DEF FileTypes, Spot
    <3> QED
      BY <1>6, <1>7, <1>8, <3>1
  <2>3. /\ history' \in Excuses
        /\ history'.unwarned = history.unwarned \cup unwarned
        /\ history'.left = history.left \cup left
        /\ history'.accepted = history.accepted /\ history'.strangers = history.strangers
        /\ history'.secret = history.secret /\ history'.overtaken = history.overtaken
        /\ history'.tangled = history.tangled /\ history'.interrupted = history.interrupted
        /\ history'.raced = history.raced /\ history'.relinked = history.relinked
        /\ history'.mixed = history.mixed /\ history'.crowded = history.crowded
        /\ history'.late = history.late
    BY <1>1, <1>9, <2>2, PastDropped
  <2>4. \A other \in Works \ {PlaceWork} : Elsewhere(other)
    BY <1>1, <1>3, <2>1, StaysIn DEF Works
  <2>5. Elsewhere(SheetWork) /\ Elsewhere(TalkWork) /\ Elsewhere(FileWork)
    BY <2>4, WorksDiffer DEF Works
  <2>6. SheetInv'
    BY <1>2, <1>3, <1>9, <2>1, <2>3, DropSheets
  <2>7. TalkInv'
    BY <1>1, <1>9, <2>1, <2>3, <2>5, TalkShrinks
  <2>8. FileInv'
    <3>1. \A f \in files \ files' : f.spot.file \in history'.left
      BY <1>8, <1>9, <2>3
    <3> QED
      BY <1>1, <1>3, <1>9, <2>1, <2>3, <2>5, <3>1, RowsGoKeeps
  <2>9. \A e \in Events :
           /\ places'[e] \in Place
           /\ \/ places'[e] = NoPlace
              \/ /\ places'[e].char = places[e].char /\ places'[e].role = places[e].role
                 /\ places[e].char # c
                 /\ \/ places'[e].nsc = NoChar
                    \/ places'[e].nsc = places[e].nsc /\ places[e].nsc # c
    <3> TAKE e \in Events
    <3>1. places[e] \in Place
      BY <1>1 DEF PlaceTypes
    <3>2. CASE e \in lost
      BY <1>9, <3>2, Blanks
    <3>3. CASE e \notin lost /\ places[e].nsc = c
      <4>1. places'[e] = [places[e] EXCEPT !.nsc = NoChar] /\ places[e].char # c
        BY <1>6, <1>9, <3>3
      <4> QED
        BY <3>1, <4>1 DEF Place, MaybeChar
    <3>4. CASE e \notin lost /\ places[e].nsc # c
      <4>1. places'[e] = places[e] /\ places[e].char # c
        BY <1>6, <1>9, <3>4
      <4> QED
        BY <3>1, <3>4, <4>1
    <3> QED
      BY <3>2, <3>3, <3>4
  <2>10. NoPlace.char = NoChar /\ NoPlace.nsc = NoChar
    BY DEF NoPlace
  <2>11. LinkInv'
    <3>1. \A s \in Running' : s \in Running
      BY <2>1 DEF Running
    <3>2. unwarned \subseteq history.relinked
      <4> SUFFICES ASSUME NEW e \in unwarned PROVE e \in history.relinked
        OBVIOUS
      <4>1. /\ e \in Events /\ places[e].char = c
            /\ ~(Now(h).forced /\ e \in Now(h).warned)
        BY <1>6, <1>7 DEF When
      <4>2. Now(h) \in Running
        BY <1>1, <1>3, NowIs
      <4> QED
        BY <1>1, <1>2, <1>3, <4>1, <4>2 DEF LinkInv, Warned
    <3>3. history'.unwarned \subseteq history'.relinked
      BY <1>1, <2>3, <3>2 DEF LinkInv, LinksAreSound
    <3>4. \A e \in Events : places'[e].char # NoChar =>
             places'[e].char = places[e].char /\ places'[e].role = places[e].role
      BY <2>9, <2>10
    <3> QED
      BY <1>1, <2>3, <3>1, <3>3, <3>4, LinksShrink
  <2>12. Typed'
    <3>1. SheetTypes'
      BY <1>1, <1>3, <1>9 DEF SheetTypes
    <3>2. PlaceTypes'
      <4>1. places' \in [Events -> Place]
        BY <1>9, <2>9
      <4>2. \A e \in Events : {places'[e].char, places'[e].nsc} \subseteq exists' \cup {NoChar}
        <5> TAKE e \in Events
        <5>1. /\ places[e].char \in exists \cup {NoChar}
              /\ places[e].nsc \in exists \cup {NoChar}
          BY <1>1 DEF PlaceTypes
        <5>2. /\ places'[e].char \in exists' \cup {NoChar}
              /\ places'[e].nsc \in exists' \cup {NoChar}
          <6>1. exists' = exists \ {c}
            BY <1>9
          <6>2. \/ places'[e].char = NoChar /\ places'[e].nsc = NoChar
                \/ /\ places'[e].char = places[e].char /\ places[e].char # c
                   /\ \/ places'[e].nsc = NoChar
                      \/ places'[e].nsc = places[e].nsc /\ places[e].nsc # c
            BY <2>9, <2>10
          <6> QED
            BY <5>1, <6>1, <6>2
        <5> QED
          BY <5>2
      <4>3. \A e \in Events : places'[e].role \in {"none", "other"} => places'[e].char = NoChar
        BY <1>1, <2>9, <2>10 DEF PlaceTypes
      <4> QED
        BY <4>1, <4>2, <4>3 DEF PlaceTypes
    <3>3. FileTypes'
      <4>1. IsFiniteSet(files')
        BY <1>1, <1>9, FS_Subset DEF FileTypes
      <4> QED
        BY <1>1, <1>3, <1>9, <4>1 DEF FileTypes
    <3>4. TalkTypes'
      BY <1>1, <1>9 DEF TalkTypes
    <3>5. Counts'
      BY <1>1, <2>1 DEF Counts
    <3> QED
      BY <2>1, <2>3, <3>1, <3>2, <3>3, <3>4, <3>5, TypedNext
  <2> QED
    BY <2>1, <2>6, <2>7, <2>8, <2>11, <2>12 DEF Inv
<1>10. messages \ MessagesOf(lost) \subseteq messages
  OBVIOUS
<1> QED
  BY <1>2, <1>5, <1>6, <1>7, <1>8, <1>9, <1>10 DEF DropCharacter

-----------------------------------------------------------------------------
(* Files: what comes after a statement, and what it leaves alone *)

LEMMA HandlingPlan ==
    ASSUME NEW q \in Seq(SoundStep), Plan(q), q # <<>>, Head(q).do \in Handling
    PROVE  /\ \A i \in DOMAIN Tail(q) :
                /\ Tail(q)[i].do \in {"remove", "copy"}
                /\ Tail(q)[i].spot.file = Head(q).spot.file =>
                     Tail(q)[i].do = "remove" /\ Head(q).do \in {"dropRow", "point"}
           /\ Head(q).do = "copy" =>
                /\ \A i \in DOMAIN Tail(q) : Tail(q)[i].do = "copy"
                /\ \A i, j \in DOMAIN Tail(q) :
                     i < j => Tail(q)[i].spot.file # Tail(q)[j].spot.file
<1>1. /\ Head(q) = q[1] /\ 1 \in DOMAIN q
      /\ Len(q) \in Nat /\ Len(Tail(q)) = Len(q) - 1 /\ DOMAIN q = 1..Len(q)
      /\ \A i \in DOMAIN Tail(q) : i + 1 \in DOMAIN q /\ Tail(q)[i] = q[i + 1]
  BY TailIs
<1>2. DOMAIN Tail(q) \subseteq Nat /\ \A i \in DOMAIN Tail(q) : i >= 1
  <2>1. Tail(q) \in Seq(SoundStep)
    BY TailIs
  <2> QED
    BY <2>1
<1>3. \A i \in DOMAIN Tail(q) : Tail(q)[i].do \in {"remove", "copy"}
  <2> TAKE i \in DOMAIN Tail(q)
  <2>1. i + 1 \in DOMAIN q /\ Tail(q)[i] = q[i + 1] /\ i + 1 # 1 /\ Len(q) # 1
    BY <1>1, <1>2
  <2>2. q[i + 1].do \notin Lone
    BY <2>1 DEF Plan
  <2>3. q[i + 1].do \notin {"dropRow", "point"}
    BY <2>1 DEF Plan
  <2>4. q[i + 1].do \in FileWork
    <3>1. PICK work \in Works : \A k \in DOMAIN q : q[k].do \in work
      BY DEF Plan, OneKind, Works
    <3>2. q[1].do \in FileWork
      BY <1>1 DEF Handling, FileWork
    <3>3. work = FileWork
      BY <1>1, <3>1, <3>2, WorksDiffer DEF Works
    <3> QED
      BY <2>1, <3>1, <3>3
  <2> QED
    BY <2>1, <2>2, <2>3, <2>4 DEF Lone, Arrival, FileWork
<1>4. \A i \in DOMAIN Tail(q) : Tail(q)[i].spot.file = Head(q).spot.file =>
         Tail(q)[i].do = "remove" /\ Head(q).do \in {"dropRow", "point"}
  <2> SUFFICES ASSUME NEW i \in DOMAIN Tail(q), Tail(q)[i].spot.file = Head(q).spot.file
               PROVE  Tail(q)[i].do = "remove" /\ Head(q).do \in {"dropRow", "point"}
    OBVIOUS
  <2>1. i + 1 \in DOMAIN q /\ Tail(q)[i] = q[i + 1] /\ 1 < i + 1
    BY <1>1, <1>2
  <2>2. q[i + 1].do \in Handling
    BY <1>3, <2>1 DEF Handling
  <2>3. i + 1 = 2 /\ q[1].do \in {"dropRow", "point"}
    BY <1>1, <2>1, <2>2 DEF Plan
  <2>4. q[2].do = "remove"
    BY <1>1, <2>3 DEF Plan
  <2> QED
    BY <1>1, <2>1, <2>3, <2>4
<1>5. ASSUME Head(q).do = "copy"
      PROVE  /\ \A i \in DOMAIN Tail(q) : Tail(q)[i].do = "copy"
             /\ \A i, j \in DOMAIN Tail(q) :
                  i < j => Tail(q)[i].spot.file # Tail(q)[j].spot.file
  <2>1. \A i \in DOMAIN Tail(q) : Tail(q)[i].do # "remove"
    <3> SUFFICES ASSUME NEW i \in DOMAIN Tail(q), Tail(q)[i].do = "remove" PROVE FALSE
      OBVIOUS
    <3>1. i + 1 \in DOMAIN q /\ q[i + 1].do = "remove" /\ i + 1 # 1
      BY <1>1, <1>2
    <3>2. q[1].do \in {"dropRow", "point"}
      BY <3>1 DEF Plan
    <3> QED
      BY <1>1, <1>5, <3>2
  <2>2. \A i, j \in DOMAIN Tail(q) :
           i < j => Tail(q)[i].spot.file # Tail(q)[j].spot.file
    <3> SUFFICES ASSUME NEW i \in DOMAIN Tail(q), NEW j \in DOMAIN Tail(q), i < j,
                        Tail(q)[i].spot.file = Tail(q)[j].spot.file
                 PROVE  FALSE
      OBVIOUS
    <3>1. /\ i + 1 \in DOMAIN q /\ j + 1 \in DOMAIN q /\ i + 1 < j + 1 /\ i + 1 # 1
          /\ Tail(q)[i] = q[i + 1] /\ Tail(q)[j] = q[j + 1]
      BY <1>1, <1>2
    <3>2. q[i + 1].do \in Handling /\ q[j + 1].do \in Handling
      BY <1>3, <3>1 DEF Handling
    <3>3. i + 1 = 1
      BY <3>1, <3>2 DEF Plan
    <3> QED
      BY <3>1, <3>3
  <2> QED
    BY <1>3, <2>1, <2>2
<1> QED
  BY <1>3, <1>4, <1>5

\* What is left to do of a request at a file.
LEMMA RestHandles ==
    ASSUME JobsSound, NEW h \in Handlers, job[h] # <<>>, Now(h).do \in Handling,
           job' = [job EXCEPT ![h] = Tail(job[h])]
    PROVE  /\ \A t \in Steps(h)' :
                /\ t.do \in {"remove", "copy"} /\ t.do \in FileWork
                /\ t.spot.file = Now(h).spot.file => t.do = "remove"
           /\ ~Doing(h, "point")' /\ ~Doing(h, "insertFile")'
           /\ Doing(h, "remove")' => Now(h).do \in {"dropRow", "point"}
           /\ Now(h).do \in {"dropRow", "point"} =>
                Doing(h, "remove")' /\ Now(h)'.spot = Now(h).spot
<1>1. job[h] \in Seq(SoundStep) /\ Plan(job[h]) /\ job'[h] = Tail(job[h])
  BY RestIs DEF JobsSound
<1>2. \A i \in DOMAIN Tail(job[h]) :
         /\ Tail(job[h])[i].do \in {"remove", "copy"}
         /\ Tail(job[h])[i].spot.file = Now(h).spot.file => Tail(job[h])[i].do = "remove"
  BY <1>1, HandlingPlan DEF Now
<1>3. \A t \in Steps(h)' :
         /\ t.do \in {"remove", "copy"} /\ t.do \in FileWork
         /\ t.spot.file = Now(h).spot.file => t.do = "remove"
  BY <1>1, <1>2 DEF Steps, FileWork
<1>4. /\ Now(h).do \in {"dropRow", "point"} =>
           /\ Tail(job[h]) # <<>> /\ Head(Tail(job[h])).do = "remove"
           /\ Head(Tail(job[h])).spot = Now(h).spot
      /\ Tail(job[h]) # <<>> =>
           /\ Head(Tail(job[h])).do \notin Arrival \cup {"point"}
           /\ Head(Tail(job[h])).do = "remove" => Now(h).do \in {"dropRow", "point"}
  BY <1>1, SecondIs DEF Now
<1> QED
  BY <1>1, <1>3, <1>4 DEF Doing, Now, Arrival

FileStep(h) ==
    /\ JobsSound' /\ \A g \in Handlers \ {h} : job'[g] = job[g] /\ Steps(g)' = Steps(g)
    /\ job[h] = <<>> \/ Now(h).do \in FileWork
    /\ \A s \in Steps(h)' : s.do \in FileWork
    /\ UNCHANGED <<sheetVars, places, messages>>
    /\ requests' \in 0..MaxRequests /\ requests <= requests' /\ faults' \in 0..MaxFaults
    /\ ops' = ops /\ history' \in Excuses
    /\ history'.accepted = history.accepted /\ history'.strangers = history.strangers
    /\ history'.secret = history.secret /\ history'.overtaken = history.overtaken
    /\ history'.tangled = history.tangled /\ history'.interrupted = history.interrupted
    /\ history'.raced = history.raced /\ history'.relinked = history.relinked
    /\ history'.unwarned = history.unwarned /\ history'.late = history.late
LEMMA FileStepKeeps ==
    ASSUME Inv, NEW h \in Handlers, FileStep(h), FileTypes', FileInv'
    PROVE  Inv'
<1>1. /\ JobsSound /\ SheetTypes /\ PlaceTypes /\ TalkTypes /\ Counts
  BY TypeParts DEF Inv
<1>2. JobsSound' /\ UNCHANGED <<sheetVars, places, messages>> /\ history' \in Excuses
  BY DEF FileStep
<1>3. Counts'
  BY <1>1 DEF FileStep, Counts
<1>4. \A other \in Works \ {FileWork} : Elsewhere(other)
  BY <1>1, StaysIn DEF FileStep, Works
<1>5. requests \in Nat /\ requests' \in Nat
  BY <1>1, <1>3, ConstantsFit DEF Counts
<1>6. KeepsSheets /\ KeepsLinks /\ KeepsTalk
  BY <1>5 DEF FileStep, KeepsSheets, KeepsLinks, KeepsTalk, sheetVars
<1>7. SheetInv' /\ LinkInv' /\ TalkInv'
  BY <1>2, <1>4, <1>6, FilesOnly
<1>8. Typed'
  <2>1. SheetTypes' /\ PlaceTypes' /\ TalkTypes'
    BY <1>1, <1>2, SheetTypesStay, PlaceTypesStay, TalkTypesStay DEF sheetVars
  <2> QED
    BY <1>2, <1>3, <2>1, TypedNext
<1> QED
  BY <1>2, <1>7, <1>8 DEF Inv

\* The other requests stay at what they do.
LEMMA HeadsStay ==
    ASSUME NEW h \in Handlers, NEW g \in Handlers \ {h}, job'[g] = job[g]
    PROVE  /\ Now(g)' = Now(g) /\ \A what : Doing(g, what)' <=> Doing(g, what)
           /\ \A x : Hers(g, x)' <=> Hers(g, x)
BY DEF Now, Doing, Hers, NewSpot
LEMMA HersIs ==
    ASSUME JobsSound, NEW h \in Handlers, NEW x, Hers(h, x)
    PROVE  Now(h).spot.file = x.file /\ Now(h) \in Running
           /\ Now(h).do \in {"point", "remove", "insertFile"}
<1>1. /\ job[h] # <<>> /\ Now(h).spot.file = x.file
      /\ Now(h).do \in {"point", "remove", "insertFile"}
  BY DEF Hers, Doing, Now, NewSpot
<1> QED
  BY <1>1, NowIs
\* Bytes are accounted for by a row or a request that is about to.
LEMMA NamedIsSound ==
    ASSUME JobsSound, AllNamed
    PROVE  \A x \in store : x.file \notin history.mixed \cup history.left =>
             \/ \E f \in files : f.spot = x
             \/ \E step \in Running : step.spot.file = x.file
<1> SUFFICES ASSUME NEW x \in store, x.file \notin history.mixed \cup history.left
             PROVE  \/ \E f \in files : f.spot = x
                    \/ \E step \in Running : step.spot.file = x.file
  OBVIOUS
<1>1. CASE \E f \in files : f.spot = x
  BY <1>1
<1>2. CASE \E h \in Handlers : Hers(h, x)
  BY <1>2, HersIs
<1> QED
  BY <1>1, <1>2 DEF AllNamed, Named
LEMMA NamedIsSoundNext ==
    ASSUME JobsSound', AllNamed'
    PROVE  \A x \in store' : x.file \notin history'.mixed \cup history'.left =>
             \/ \E f \in files' : f.spot = x
             \/ \E step \in Running' : step.spot.file = x.file
<1> SUFFICES ASSUME NEW x \in store', x.file \notin history'.mixed \cup history'.left
             PROVE  \/ \E f \in files' : f.spot = x
                    \/ \E step \in Running' : step.spot.file = x.file
  OBVIOUS
<1>1. CASE \E f \in files' : f.spot = x
  BY <1>1
<1>2. CASE \E h \in Handlers : Hers(h, x)'
  <2>1. PICK h \in Handlers : Hers(h, x)'
    BY <1>2
  <2>2. job'[h] # <<>> /\ Head(job'[h]).spot.file = x.file
    BY <2>1 DEF Hers, Doing, Now, NewSpot
  <2>3. job'[h] \in Seq(SoundStep)
    BY DEF JobsSound
  <2>4. Head(job'[h]) = job'[h][1] /\ 1 \in DOMAIN job'[h]
    BY <2>2, <2>3
  <2>5. Head(job'[h]) \in Running'
    BY <2>4 DEF Running, Steps
  <2> QED
    BY <2>2, <2>5
<1> QED
  BY <1>1, <1>2 DEF AllNamed, Named

-----------------------------------------------------------------------------
(* Files: requests give up, requests start *)

LEMMA FileStepsGo ==
    ASSUME JobsSound, JobsSound', FileInv, NEW h \in Handlers,
           \A g \in Handlers \ {h} : job'[g] = job[g] /\ Steps(g)' = Steps(g),
           Steps(h)' \subseteq Steps(h), files' = files, store' = store,
           history.mixed \subseteq history'.mixed, history.left \subseteq history'.left,
           history'.crowded = history.crowded,
           ~Doing(h, "remove")', ~Doing(h, "point")',
           \A x : Hers(h, x) => x.file \in history'.mixed \cup history'.left
    PROVE  FileInv'
<1>1. \A g \in Handlers : Steps(g)' \subseteq Steps(g)
  OBVIOUS
<1>2. \A s : s \in Running' => s \in Running
  BY <1>1 DEF Running
<1>3. \A g \in Handlers : \A what \in {"remove", "point"} :
         Doing(g, what)' => g # h /\ Doing(g, what) /\ Now(g)' = Now(g)
  BY HeadsStay
<1>4. Arriving'
  BY <1>1 DEF FileInv, Arriving
<1>5. Room'
  BY <1>2 DEF FileInv, Room, HasRoom, FilesOf
<1>6. RowsStand'
  BY <1>2 DEF FileInv, RowsStand
<1>7. Gone'
  BY <1>3 DEF FileInv, Gone
<1>8. Copied'
  <2> SUFFICES ASSUME NEW g \in Handlers, Doing(g, "point")',
                      Now(g)'.spot.file \notin history'.mixed
               PROVE  NewSpot(Now(g)') \in store
    BY DEF Copied, NewSpot
  <2>1. Doing(g, "point") /\ Now(g)' = Now(g)
    BY <1>3
  <2> QED
    BY <2>1 DEF FileInv, Copied
<1>9. AllNamed'
  <2> SUFFICES ASSUME NEW x \in store, x.file \notin history'.mixed \cup history'.left
               PROVE  Named(x)'
    BY DEF AllNamed
  <2>1. Named(x)
    BY DEF FileInv, AllNamed
  <2>2. CASE \E f \in files : f.spot = x
    BY <2>2 DEF Named
  <2>3. CASE \E g \in Handlers : Hers(g, x)
    <3>1. PICK g \in Handlers \ {h} : Hers(g, x)
      BY <2>3
    <3>2. Hers(g, x)'
      BY <3>1, HeadsStay
    <3> QED
      BY <3>2 DEF Named
  <2> QED
    BY <2>1, <2>2, <2>3 DEF Named
<1>10. FilesAreSound'
  <2>1. \A f \in files : f.spot.file \notin history'.mixed => f.spot \in store
    BY DEF FileInv, FilesAreSound
  <2>2. \A c : FilesOf(c)' = FilesOf(c)
    BY DEF FilesOf
  <2> QED
    BY <1>9, <2>1, <2>2, NamedIsSoundNext DEF FileInv, FilesAreSound
<1> QED
  BY <1>4, <1>5, <1>6, <1>7, <1>8, <1>9, <1>10 DEF FileInv

\* Rows that were read are handled: one is to be deleted, or some to be moved.
LEMMA HandlingStarts ==
    ASSUME Inv, NEW h \in Handlers, NEW q \in Seq(SoundStep), Plan(q), Start(h, q),
           \A i \in DOMAIN q : q[i].do \in Handling /\ \E f \in files : q[i].spot = f.spot,
           q # <<>> => Head(q).do \in {"dropRow", "copy"},
           UNCHANGED <<sheetVars, places, fileVars, messages, history>>
    PROVE  Inv'
<1>1. /\ Typed /\ JobsSound /\ FileInv /\ FileTypes /\ Counts /\ history \in Excuses
  BY TypeParts DEF Inv
<1>2. /\ job[h] = <<>> /\ Steps(h) = {}
      /\ JobsSound' /\ job'[h] = q /\ \A g \in Handlers \ {h} : job'[g] = job[g]
      /\ Steps(h)' = {q[i] : i \in DOMAIN q}
      /\ \A g \in Handlers \ {h} : Steps(g)' = Steps(g)
      /\ requests' = requests + 1 /\ requests' \in 0..MaxRequests
      /\ faults' = faults /\ ops' = ops
  BY <1>1, StartIs
<1>3. \A t \in Steps(h)' : t.do \in Handling /\ \E f \in files : t.spot = f.spot
  BY <1>2
<1>4. \A t : t \in Running' => t \in Running \/ t \in Steps(h)'
  BY <1>2 DEF Running
<1>5. \A what \in {"remove", "point", "insertFile"} : ~Doing(h, what)'
  BY <1>2 DEF Doing
<1>6. \A what : ~Doing(h, what)
  BY <1>2 DEF Doing
<1>7. FileStep(h)
  <2>1. \A s \in Steps(h)' : s.do \in FileWork
    BY <1>3 DEF Handling, FileWork
  <2>2. requests <= requests' /\ faults' \in 0..MaxFaults
    BY <1>1, <1>2, ConstantsFit DEF Counts
  <2> QED
    BY <1>1, <1>2, <2>1, <2>2 DEF FileStep
<1>8. FileTypes'
  BY <1>1, FileTypesStay DEF sheetVars
<1>9. files' = files /\ store' = store /\ history' = history
  BY DEF fileVars
<1>10. Arriving'
  <2> SUFFICES ASSUME NEW g \in Handlers, NEW s \in Steps(g)', s.do \in Arrival
               PROVE  /\ \A f \in files : f.spot.file # s.spot.file
                      /\ s.do = "upload" => \A x \in store : x.file # s.spot.file
                      /\ s.do = "insertFile" => s.spot \in store
                      /\ \A k \in Handlers : \A t \in Steps(k)' :
                           /\ ~Handles(t, s.spot.file)
                           /\ k # g /\ t.do \in Arrival => t.spot.file # s.spot.file
    BY <1>9 DEF Arriving
  <2>1. g # h /\ s \in Steps(g)
    BY <1>2, <1>3 DEF Handling, Arrival
  <2>2. /\ \A f \in files : f.spot.file # s.spot.file
        /\ s.do = "upload" => \A x \in store : x.file # s.spot.file
        /\ s.do = "insertFile" => s.spot \in store
        /\ \A k \in Handlers : \A t \in Steps(k) :
             /\ ~Handles(t, s.spot.file)
             /\ k # g /\ t.do \in Arrival => t.spot.file # s.spot.file
    BY <1>1, <2>1 DEF FileInv, Arriving
  <2>3. \A t \in Steps(h)' : ~Handles(t, s.spot.file) /\ t.do \notin Arrival
    BY <1>3, <2>2 DEF Handles, Handling, Arrival
  <2>4. \A k \in Handlers : \A t \in Steps(k)' :
           /\ ~Handles(t, s.spot.file)
           /\ k # g /\ t.do \in Arrival => t.spot.file # s.spot.file
    <3> SUFFICES ASSUME NEW k \in Handlers, NEW t \in Steps(k)'
                 PROVE  /\ ~Handles(t, s.spot.file)
                        /\ k # g /\ t.do \in Arrival => t.spot.file # s.spot.file
      OBVIOUS
    <3>1. CASE k = h
      BY <2>3, <3>1
    <3>2. CASE k # h
      <4>1. t \in Steps(k)
        BY <1>2, <3>2
      <4> QED
        BY <2>2, <4>1
    <3> QED
      BY <3>1, <3>2
  <2> QED
    BY <2>2, <2>4
<1>11. Room'
  BY <1>1, <1>3, <1>4, <1>9 DEF FileInv, Room, HasRoom, FilesOf, Handling, Arrival
<1>12. RowsStand'
  <2> SUFFICES ASSUME NEW s \in Running', s.do \in {"dropRow", "copy", "point"},
                      s.spot.file \notin history.mixed \cup history.left
               PROVE  \E f \in files : f.spot = s.spot
    BY <1>9 DEF RowsStand
  <2>1. CASE s \in Running
    BY <1>1, <2>1 DEF FileInv, RowsStand
  <2>2. CASE s \in Steps(h)'
    BY <1>3, <2>2
  <2> QED
    BY <1>4, <2>1, <2>2
<1>13. Gone'
  <2> SUFFICES ASSUME NEW g \in Handlers, Doing(g, "remove")',
                      Now(g)'.spot.file \notin history.mixed
               PROVE  \A f \in files : f.spot # Now(g)'.spot
    BY <1>9 DEF Gone
  <2>1. Doing(g, "remove") /\ Now(g)' = Now(g)
    BY <1>2, <1>5, HeadsStay
  <2> QED
    BY <1>1, <2>1 DEF FileInv, Gone
<1>14. Copied'
  <2> SUFFICES ASSUME NEW g \in Handlers, Doing(g, "point")',
                      Now(g)'.spot.file \notin history.mixed
               PROVE  NewSpot(Now(g)') \in store
    BY <1>9 DEF Copied, NewSpot
  <2>1. Doing(g, "point") /\ Now(g)' = Now(g)
    BY <1>2, <1>5, HeadsStay
  <2> QED
    BY <1>1, <2>1 DEF FileInv, Copied
<1>15. AllNamed'
  <2> SUFFICES ASSUME NEW x \in store, x.file \notin history.mixed \cup history.left
               PROVE  Named(x)'
    BY <1>9 DEF AllNamed
  <2>1. Named(x)
    BY <1>1 DEF FileInv, AllNamed
  <2>2. \A g \in Handlers : Hers(g, x) => Hers(g, x)'
    <3> TAKE g \in Handlers
    <3>1. CASE g = h
      BY <1>6, <3>1 DEF Hers
    <3>2. CASE g # h
      BY <1>2, <3>2, HeadsStay
    <3> QED
      BY <3>1, <3>2
  <2> QED
    BY <1>9, <2>1, <2>2 DEF Named
<1>16. FilesAreSound'
  <2>1. \A c : FilesOf(c)' = FilesOf(c)
    BY <1>9 DEF FilesOf
  <2> QED
    BY <1>1, <1>2, <1>9, <1>15, <2>1, NamedIsSoundNext DEF FileInv, FilesAreSound
<1>17. FileInv'
  BY <1>10, <1>11, <1>12, <1>13, <1>14, <1>15, <1>16 DEF FileInv
<1> QED
  BY <1>7, <1>8, <1>17, FileStepKeeps

-----------------------------------------------------------------------------
(* Files: one is deleted, all are moved, one is uploaded *)

LEMMA DeleteFileKeeps ==
    ASSUME Inv, NEW h \in Handlers, NEW f \in files, DeleteFile(h, f)
    PROVE  Inv'
<1>1. f.spot \in Spot
  BY TypeParts DEF Inv, FileTypes
<1>s. PICK s : s = [Do("dropRow") EXCEPT !.spot = f.spot]
  OBVIOUS
<1>t. PICK t : t = [Do("remove") EXCEPT !.spot = f.spot]
  OBVIOUS
<1>2. Start(h, <<s, t>>) /\ UNCHANGED <<sheetVars, places, fileVars, messages, history>>
  BY <1>s, <1>t DEF DeleteFile
<1>3. s \in Step /\ s.do = "dropRow" /\ s.spot = f.spot
  <2>1. Do("dropRow") \in Step /\ Do("dropRow").do = "dropRow"
    BY DoIs DEF FileWork
  <2> QED
    BY <1>1, <1>s, <2>1 DEF Step
<1>4. t \in Step /\ t.do = "remove" /\ t.spot = f.spot
  <2>1. Do("remove") \in Step /\ Do("remove").do = "remove"
    BY DoIs DEF FileWork
  <2> QED
    BY <1>1, <1>t, <2>1 DEF Step
<1>5. s \in SoundStep /\ t \in SoundStep
  BY <1>3, <1>4 DEF SoundStep, SheetWork, TalkWork, Arrival
<1>q. PICK q : q = <<s, t>>
  OBVIOUS
<1>6. /\ q \in Seq(SoundStep) /\ Len(q) = 2 /\ DOMAIN q = {1, 2} /\ q[1] = s /\ q[2] = t
      /\ Head(q) = s
  BY <1>5, <1>q
<1>7. Plan(q)
  <2>1. OneKind(q)
    BY <1>3, <1>4, <1>6 DEF OneKind, FileWork
  <2>2. s.do \notin Lone /\ t.do \notin Lone
    BY <1>3, <1>4 DEF Lone, SheetWork, PlaceWork, Arrival
  <2>3. \A i \in DOMAIN q : q[i].do \notin Lone /\ q[i].do # "mark"
    BY <1>3, <1>4, <1>6, <2>2
  <2>4. \A i \in DOMAIN q : q[i].do \in {"dropRow", "point"} => i = 1
    BY <1>3, <1>4, <1>6
  <2>5. \A i, j \in DOMAIN q : i < j => i = 1 /\ j = 2
    BY <1>6
  <2>6. q[1].do = "dropRow" /\ q[2].do = "remove" /\ q[2].spot = q[1].spot
    BY <1>3, <1>4, <1>6
  <2>7. \A i \in DOMAIN q : i = 1 \/ i = 2
    BY <1>6
  <2>8. Len(q) > 1
    BY <1>6
  <2> QED
    BY <2>1, <2>3, <2>4, <2>5, <2>6, <2>7, <2>8 DEF Plan
<1>8. \A i \in DOMAIN q : q[i].do \in Handling /\ \E g \in files : q[i].spot = g.spot
  <2>1. \A i \in DOMAIN q : q[i] = s \/ q[i] = t
    BY <1>6
  <2>2. s.do \in Handling /\ t.do \in Handling
    BY <1>3, <1>4 DEF Handling
  <2> QED
    BY <1>3, <1>4, <2>1, <2>2
<1>9. Head(q).do \in {"dropRow", "copy"}
  BY <1>3, <1>6
<1> QED
  BY <1>2, <1>6, <1>7, <1>8, <1>9, <1>q, HandlingStarts

LEMMA SetToSeqIs ==
    ASSUME NEW S, IsFiniteSet(S)
    PROVE  /\ Cardinality(S) \in Nat /\ SetToSeq(S) \in [1..Cardinality(S) -> S]
           /\ \A i, j \in 1..Cardinality(S) : SetToSeq(S)[i] = SetToSeq(S)[j] => i = j
<1>1. Cardinality(S) \in Nat /\ ExistsBijection(1..Cardinality(S), S)
  BY FS_CardinalityType
<1>2. \E f \in [1..Cardinality(S) -> S] : IsInjective(f)
  BY <1>1 DEF ExistsBijection, Bijection, Injection
<1> PICK q : q = SetToSeq(S)
  OBVIOUS
<1>3. q \in [1..Cardinality(S) -> S] /\ IsInjective(q)
  BY <1>2 DEF SetToSeq
<1> QED
  BY <1>1, <1>3 DEF IsInjective

LEMMA MigrateKeeps ==
    ASSUME Inv, NEW h \in Handlers, Migrate(h)
    PROVE  Inv'
<1>1. FileTypes
  BY TypeParts DEF Inv
<1>c. PICK C : C = [f \in files |-> [Do("copy") EXCEPT !.spot = f.spot, !.to = backend]]
  OBVIOUS
<1>2. Do("copy") \in Step /\ Do("copy").do = "copy"
  BY DoIs DEF FileWork
<1>3. \A f \in files : /\ C[f] \in Step /\ C[f].do = "copy" /\ C[f].spot = f.spot
                       /\ C[f].to = backend
  <2> TAKE f \in files
  <2>1. C[f] = [Do("copy") EXCEPT !.spot = f.spot, !.to = backend]
    BY <1>c
  <2>2. f.spot \in Spot /\ backend \in Backends
    BY <1>1 DEF FileTypes
  <2> QED
    BY <1>2, <2>1, <2>2 DEF Step
<1>e. PICK elsewhere : elsewhere = {f \in files : f.spot.backend # backend}
  OBVIOUS
<1>s. PICK S : S = {C[f] : f \in elsewhere}
  OBVIOUS
<1>4. S \subseteq SoundStep
  <2> SUFFICES ASSUME NEW f \in elsewhere PROVE C[f] \in SoundStep
    BY <1>s
  <2>1. f \in files /\ f.spot.backend # backend
    BY <1>e
  <2> QED
    BY <1>3, <2>1 DEF SoundStep, SheetWork, TalkWork, Arrival
<1>5. IsFiniteSet(S)
  <2>1. IsFiniteSet(elsewhere)
    BY <1>1, <1>e, FS_Subset DEF FileTypes
  <2> PICK D : D = [f \in elsewhere |-> C[f]]
    OBVIOUS
  <2>2. D \in Surjection(elsewhere, S)
    BY <1>s DEF Surjection
  <2> QED
    BY <2>1, <2>2, FS_Surjection
<1>q. PICK q : q = SetToSeq(S)
  OBVIOUS
<1>n. PICK n : n = Cardinality(S)
  OBVIOUS
<1>6. /\ n \in Nat /\ q \in [1..n -> S]
      /\ \A i, j \in 1..n : q[i] = q[j] => i = j
  BY <1>5, <1>q, <1>n, SetToSeqIs
<1>7. q \in Seq(SoundStep) /\ DOMAIN q = 1..n
  <2>1. q \in [1..n -> SoundStep]
    BY <1>4, <1>6
  <2> QED
    BY <1>6, <2>1
<1>8. \A i \in DOMAIN q : \E f \in elsewhere : q[i] = C[f]
  BY <1>6, <1>7, <1>s
<1>9. \A i \in DOMAIN q : q[i].do = "copy" /\ \E f \in files : q[i].spot = f.spot
  BY <1>3, <1>8, <1>e
<1>10. \A i, j \in DOMAIN q : i < j => q[i].spot.file # q[j].spot.file
  <2> SUFFICES ASSUME NEW i \in DOMAIN q, NEW j \in DOMAIN q, i < j,
                      q[i].spot.file = q[j].spot.file
               PROVE  FALSE
    OBVIOUS
  <2>1. PICK f \in files, g \in files : q[i] = C[f] /\ q[j] = C[g]
    BY <1>8, <1>e
  <2>2. f = g
    BY <1>1, <1>3, <2>1 DEF FileTypes
  <2>3. i = j
    BY <1>6, <1>7, <2>1, <2>2
  <2> QED
    BY <1>7, <2>3
<1>11. Plan(q)
  <2>1. OneKind(q)
    BY <1>9 DEF OneKind, FileWork
  <2>2. \A i \in DOMAIN q : q[i].do \notin Lone \cup {"mark", "dropRow", "point", "remove"}
    BY <1>9 DEF Lone, SheetWork, PlaceWork, Arrival
  <2> QED
    BY <1>10, <2>1, <2>2 DEF Plan
<1>12. Start(h, q) /\ UNCHANGED <<sheetVars, places, fileVars, messages, history>>
  <2>1. S = {[Do("copy") EXCEPT !.spot = f.spot, !.to = backend] : f \in elsewhere}
    BY <1>c, <1>e, <1>s
  <2> QED
    BY <1>e, <1>q, <2>1 DEF Migrate
<1>13. q # <<>> => Head(q).do = "copy"
  <2> SUFFICES ASSUME q # <<>> PROVE Head(q).do = "copy"
    OBVIOUS
  <2>1. q \in Seq(SoundStep)
    BY <1>7
  <2>2. Head(q) = q[1] /\ 1 \in DOMAIN q
    BY <2>1
  <2> QED
    BY <1>9, <2>2
<1> QED
  BY <1>7, <1>9, <1>11, <1>12, <1>13, HandlingStarts DEF Handling

LEMMA UploadKeeps ==
    ASSUME Inv, NEW h \in Handlers, NEW c \in Characters, NEW f \in FileIds, Upload(h, c, f)
    PROVE  Inv'
<1>1. /\ Typed /\ JobsSound /\ FileInv /\ FileTypes /\ Counts /\ history \in Excuses
  BY TypeParts DEF Inv
<1> PICK spot : spot = [file |-> f, backend |-> backend, key |-> "folder"]
  OBVIOUS
<1>2. spot \in Spot /\ spot.file = f
  BY <1>1 DEF Spot, FileTypes
<1>3. PICK u : u = [Do("upload") EXCEPT !.char = c, !.spot = spot]
  OBVIOUS
<1>4. /\ c \in exists /\ UnusedFile(f) /\ HasRoom(c) /\ Start(h, <<u>>)
      /\ UNCHANGED <<sheetVars, places, fileVars, messages, history>>
  BY <1>3 DEF Upload
<1>5. u \in Step /\ u.do = "upload" /\ u.char = c /\ u.spot = spot
  <2>1. Do("upload") \in Step /\ Do("upload").do = "upload"
    BY DoIs DEF FileWork
  <2> QED
    BY <1>2, <1>3, <2>1 DEF Step, SheetIds
<1>6. u \in SoundStep /\ u.do \in Lone /\ u.do \in FileWork
  BY <1>5 DEF SoundStep, SheetWork, TalkWork, Arrival, Lone, FileWork
<1>7. <<u>> \in Seq(SoundStep) /\ Plan(<<u>>) /\ <<u>> # <<>> /\ Head(<<u>>) = u
      /\ {<<u>>[i] : i \in DOMAIN <<u>>} = {u}
  BY <1>6, LoneJob
<1>8. /\ job[h] = <<>> /\ Steps(h) = {}
      /\ JobsSound' /\ job'[h] = <<u>> /\ \A g \in Handlers \ {h} : job'[g] = job[g]
      /\ Steps(h)' = {u}
      /\ \A g \in Handlers \ {h} : Steps(g)' = Steps(g)
      /\ requests' = requests + 1 /\ requests' \in 0..MaxRequests
      /\ faults' = faults /\ ops' = ops
  BY <1>1, <1>4, <1>7, StartIs
<1>9. \A t : t \in Running' => t \in Running \/ t = u
  BY <1>8 DEF Running
<1>10. \A what \in {"remove", "point", "insertFile"} : ~Doing(h, what)'
  BY <1>5, <1>7, <1>8 DEF Doing
<1>11. \A what : ~Doing(h, what)
  BY <1>8 DEF Doing
<1>12. files' = files /\ store' = store /\ history' = history
  BY <1>4 DEF fileVars
<1>13. /\ f \notin history.left \cup history.mixed
       /\ \A x \in store : x.file # f
       /\ \A r \in files : r.spot.file # f
       /\ \A t \in Running : t.spot.file # f
  BY <1>4 DEF UnusedFile
<1>14. FileStep(h)
  <2>1. requests <= requests' /\ faults' \in 0..MaxFaults
    BY <1>1, <1>8, ConstantsFit DEF Counts
  <2> QED
    BY <1>1, <1>4, <1>6, <1>8, <2>1 DEF FileStep
<1>15. FileTypes'
  BY <1>1, <1>4, FileTypesStay DEF sheetVars
<1>16. Arriving'
  <2> SUFFICES ASSUME NEW g \in Handlers, NEW s \in Steps(g)', s.do \in Arrival
               PROVE  /\ \A r \in files : r.spot.file # s.spot.file
                      /\ s.do = "upload" => \A x \in store : x.file # s.spot.file
                      /\ s.do = "insertFile" => s.spot \in store
                      /\ \A k \in Handlers : \A t \in Steps(k)' :
                           /\ ~Handles(t, s.spot.file)
                           /\ k # g /\ t.do \in Arrival => t.spot.file # s.spot.file
    BY <1>12 DEF Arriving
  <2>1. ~Handles(u, s.spot.file)
    BY <1>5 DEF Handles
  <2>2. CASE g = h
    <3>1. s = u /\ s.do = "upload" /\ s.spot.file = f
      BY <1>2, <1>5, <1>8, <2>2
    <3>2. \A k \in Handlers \ {h} : \A t \in Steps(k)' : t \in Running
      BY <1>8 DEF Running
    <3>3. \A k \in Handlers \ {h} : \A t \in Steps(k)' :
             ~Handles(t, s.spot.file) /\ t.spot.file # s.spot.file
      BY <1>13, <3>1, <3>2 DEF Handles
    <3>4. \A k \in Handlers : \A t \in Steps(k)' :
             /\ ~Handles(t, s.spot.file)
             /\ k # g /\ t.do \in Arrival => t.spot.file # s.spot.file
      BY <1>8, <2>1, <2>2, <3>3
    <3> QED
      BY <1>13, <3>1, <3>4
  <2>3. CASE g # h
    <3>1. s \in Steps(g) /\ s \in Running
      BY <1>8, <2>3 DEF Running
    <3>2. /\ \A r \in files : r.spot.file # s.spot.file
          /\ s.do = "upload" => \A x \in store : x.file # s.spot.file
          /\ s.do = "insertFile" => s.spot \in store
          /\ \A k \in Handlers : \A t \in Steps(k) :
               /\ ~Handles(t, s.spot.file)
               /\ k # g /\ t.do \in Arrival => t.spot.file # s.spot.file
      BY <1>1, <3>1 DEF FileInv, Arriving
    <3>3. u.spot.file # s.spot.file
      BY <1>2, <1>5, <1>13, <3>1
    <3>4. \A k \in Handlers : \A t \in Steps(k)' :
             /\ ~Handles(t, s.spot.file)
             /\ k # g /\ t.do \in Arrival => t.spot.file # s.spot.file
      <4> SUFFICES ASSUME NEW k \in Handlers, NEW t \in Steps(k)'
                   PROVE  /\ ~Handles(t, s.spot.file)
                          /\ k # g /\ t.do \in Arrival => t.spot.file # s.spot.file
        OBVIOUS
      <4>1. CASE k = h
        BY <1>8, <2>1, <3>3, <4>1
      <4>2. CASE k # h
        <5>1. t \in Steps(k)
          BY <1>8, <4>2
        <5> QED
          BY <3>2, <5>1
      <4> QED
        BY <4>1, <4>2
    <3> QED
      BY <3>2, <3>4
  <2> QED
    BY <2>2, <2>3
<1>17. Room'
  <2>1. \A x : HasRoom(x)' <=> HasRoom(x)
    BY <1>12 DEF HasRoom, FilesOf
  <2> QED
    BY <1>1, <1>4, <1>5, <1>9, <1>12, <2>1 DEF FileInv, Room
<1>18. RowsStand'
  BY <1>1, <1>5, <1>9, <1>12 DEF FileInv, RowsStand
<1>19. Gone'
  <2> SUFFICES ASSUME NEW g \in Handlers, Doing(g, "remove")',
                      Now(g)'.spot.file \notin history.mixed
               PROVE  \A r \in files : r.spot # Now(g)'.spot
    BY <1>12 DEF Gone
  <2>1. Doing(g, "remove") /\ Now(g)' = Now(g)
    BY <1>8, <1>10, HeadsStay
  <2> QED
    BY <1>1, <2>1 DEF FileInv, Gone
<1>20. Copied'
  <2> SUFFICES ASSUME NEW g \in Handlers, Doing(g, "point")',
                      Now(g)'.spot.file \notin history.mixed
               PROVE  NewSpot(Now(g)') \in store
    BY <1>12 DEF Copied, NewSpot
  <2>1. Doing(g, "point") /\ Now(g)' = Now(g)
    BY <1>8, <1>10, HeadsStay
  <2> QED
    BY <1>1, <2>1 DEF FileInv, Copied
<1>21. AllNamed'
  <2> SUFFICES ASSUME NEW x \in store, x.file \notin history.mixed \cup history.left
               PROVE  Named(x)'
    BY <1>12 DEF AllNamed
  <2>1. Named(x)
    BY <1>1 DEF FileInv, AllNamed
  <2>2. \A g \in Handlers : Hers(g, x) => Hers(g, x)'
    <3> TAKE g \in Handlers
    <3>1. CASE g = h
      BY <1>11, <3>1 DEF Hers
    <3>2. CASE g # h
      BY <1>8, <3>2, HeadsStay
    <3> QED
      BY <3>1, <3>2
  <2> QED
    BY <1>12, <2>1, <2>2 DEF Named
<1>22. FilesAreSound'
  <2>1. \A x : FilesOf(x)' = FilesOf(x)
    BY <1>12 DEF FilesOf
  <2> QED
    BY <1>1, <1>8, <1>12, <1>21, <2>1, NamedIsSoundNext DEF FileInv, FilesAreSound
<1>23. FileInv'
  BY <1>16, <1>17, <1>18, <1>19, <1>20, <1>21, <1>22 DEF FileInv
<1> QED
  BY <1>14, <1>15, <1>23, FileStepKeeps

-----------------------------------------------------------------------------
(* Files: bytes are stored, a row is added *)

LEMMA FileGivesUp ==
    ASSUME Inv, NEW h \in Handlers, FileStep(h), UNCHANGED fileVars,
           Steps(h)' \subseteq Steps(h),
           history.mixed \subseteq history'.mixed, history.left \subseteq history'.left,
           history'.crowded = history.crowded,
           ~Doing(h, "remove")', ~Doing(h, "point")',
           \A x : Hers(h, x) => x.file \in history'.mixed \cup history'.left
    PROVE  Inv'
<1>1. JobsSound /\ FileInv /\ FileTypes
  BY TypeParts DEF Inv
<1>2. /\ JobsSound' /\ \A g \in Handlers \ {h} : job'[g] = job[g] /\ Steps(g)' = Steps(g)
      /\ exists' = exists
  BY DEF FileStep, sheetVars
<1>3. FileTypes'
  BY <1>1, <1>2, FileTypesStay
<1>4. FileInv'
  BY <1>1, <1>2, FileStepsGo DEF fileVars
<1> QED
  BY <1>3, <1>4, FileStepKeeps

LEMMA FailIs ==
    ASSUME Counts, Fail
    PROVE  faults' \in 0..MaxFaults
BY ConstantsFit DEF Counts, Fail

LEMMA StoreBytesKeeps ==
    ASSUME Inv, NEW h \in Handlers, StoreBytes(h)
    PROVE  Inv'
<1>1. /\ Typed /\ JobsSound /\ FileInv /\ FileTypes /\ Counts /\ history \in Excuses
  BY TypeParts DEF Inv
<1> PICK s : s = Now(h)
  OBVIOUS
<1>2. /\ job[h] # <<>> /\ s.do = "upload" /\ s.do \in FileWork /\ s.do \in Lone
      /\ UNCHANGED <<sheetVars, places, files, backend, messages, history>>
  BY DEF StoreBytes, Doing, Now, FileWork, Lone, Arrival
<1>3. s \in SoundStep /\ s \in Step /\ Steps(h) = {s} /\ s \in Running /\ s.spot \in Spot
      /\ Tail(job[h]) = <<>>
  BY <1>1, <1>2, NowIs, StepFields
<1>4. \A x : ~Hers(h, x)
  BY <1>2 DEF Hers, Doing, Now
<1>5. requests \in 0..MaxRequests /\ requests <= requests
  BY <1>1, ConstantsFit DEF Counts
<1>6. CASE Fail /\ job' = [job EXCEPT ![h] = <<>>] /\ UNCHANGED <<store, requests, ops>>
  <2>1. /\ JobsSound' /\ job'[h] = <<>> /\ Steps(h)' = {}
        /\ \A g \in Handlers \ {h} : job'[g] = job[g] /\ Steps(g)' = Steps(g)
    BY <1>1, <1>6, EndIs
  <2>2. FileStep(h)
    BY <1>1, <1>2, <1>5, <1>6, <2>1, FailIs DEF FileStep
  <2>3. ~Doing(h, "remove")' /\ ~Doing(h, "point")'
    BY <2>1 DEF Doing
  <2> QED
    BY <1>2, <1>4, <1>6, <2>1, <2>2, <2>3, FileGivesUp DEF fileVars
<1>7. CASE /\ store' = store \cup {s.spot}
           /\ Then(h, <<[s EXCEPT !.do = "insertFile"]>>)
  <2>1. PICK t : t = [s EXCEPT !.do = "insertFile"]
    OBVIOUS
  <2>2. t \in Step /\ t.do = "insertFile" /\ t.char = s.char /\ t.spot = s.spot
    BY <1>3, <2>1 DEF Step
  <2>3. s.char \in Characters
    BY <1>2, <1>3 DEF SoundStep, Arrival
  <2>4. t \in SoundStep /\ t.do \in Lone /\ t.do \in FileWork
    BY <2>2, <2>3 DEF SoundStep, SheetWork, TalkWork, Arrival, Lone, FileWork
  <2>5. /\ JobsSound' /\ job'[h] = <<t>> /\ job'[h] # <<>> /\ Head(job'[h]) = t
        /\ \A g \in Handlers \ {h} : job'[g] = job[g] /\ Steps(g)' = Steps(g)
        /\ Steps(h)' = {t}
        /\ requests' = requests /\ faults' = faults /\ ops' = ops
    BY <1>1, <1>2, <1>7, <2>1, <2>4, ThenOneIs
  <2>6. Now(h)' = t /\ \A what : Doing(h, what)' <=> what = "insertFile"
    BY <2>2, <2>5 DEF Doing, Now
  <2>7. FileStep(h)
    <3>1. faults' \in 0..MaxFaults
      BY <1>1, <2>5 DEF Counts
    <3> QED
      BY <1>1, <1>2, <1>5, <2>4, <2>5, <3>1 DEF FileStep
  <2>8. FileTypes'
    BY <1>1, <1>2, <1>3, <1>7 DEF FileTypes, sheetVars
  <2>9. /\ \A f \in files : f.spot.file # s.spot.file
        /\ \A x \in store : x.file # s.spot.file
        /\ \A k \in Handlers : \A u \in Steps(k) :
             /\ ~Handles(u, s.spot.file)
             /\ k # h /\ u.do \in Arrival => u.spot.file # s.spot.file
    BY <1>1, <1>2, <1>3 DEF FileInv, Arriving, Arrival
  <2>10. ~Handles(t, s.spot.file) /\ \A f : ~Handles(t, f)
    BY <2>2 DEF Handles
  <2>11. Arriving'
    <3> SUFFICES ASSUME NEW g \in Handlers, NEW u \in Steps(g)', u.do \in Arrival
                 PROVE  /\ \A r \in files : r.spot.file # u.spot.file
                        /\ u.do = "upload" => \A x \in store' : x.file # u.spot.file
                        /\ u.do = "insertFile" => u.spot \in store'
                        /\ \A k \in Handlers : \A v \in Steps(k)' :
                             /\ ~Handles(v, u.spot.file)
                             /\ k # g /\ v.do \in Arrival => v.spot.file # u.spot.file
      BY <1>2 DEF Arriving
    <3>1. CASE g = h
      <4>1. u = t /\ u.spot = s.spot
        BY <2>2, <2>5, <3>1
      <4>2. \A k \in Handlers : \A v \in Steps(k)' :
               /\ ~Handles(v, s.spot.file)
               /\ k # h /\ v.do \in Arrival => v.spot.file # s.spot.file
        <5> TAKE k \in Handlers
        <5>1. CASE k = h
          BY <2>5, <2>10, <5>1
        <5>2. CASE k # h
          BY <2>5, <2>9, <5>2
        <5> QED
          BY <5>1, <5>2
      <4> QED
        BY <1>7, <2>2, <2>9, <3>1, <4>1, <4>2
    <3>2. CASE g # h
      <4>1. u \in Steps(g)
        BY <2>5, <3>2
      <4>2. /\ \A r \in files : r.spot.file # u.spot.file
            /\ u.do = "upload" => \A x \in store : x.file # u.spot.file
            /\ u.do = "insertFile" => u.spot \in store
            /\ \A k \in Handlers : \A v \in Steps(k) :
                 /\ ~Handles(v, u.spot.file)
                 /\ k # g /\ v.do \in Arrival => v.spot.file # u.spot.file
        BY <1>1, <4>1 DEF FileInv, Arriving
      <4>3. s.spot.file # u.spot.file
        BY <2>9, <3>2, <4>1
      <4>4. \A k \in Handlers : \A v \in Steps(k)' :
               /\ ~Handles(v, u.spot.file)
               /\ k # g /\ v.do \in Arrival => v.spot.file # u.spot.file
        <5> TAKE k \in Handlers
        <5>1. CASE k = h
          BY <2>2, <2>5, <2>10, <4>3, <5>1
        <5>2. CASE k # h
          BY <2>5, <4>2, <5>2
        <5> QED
          BY <5>1, <5>2
      <4>5. u.do = "upload" => \A x \in store' : x.file # u.spot.file
        BY <1>7, <4>2, <4>3
      <4>6. u.do = "insertFile" => u.spot \in store'
        BY <1>7, <4>2
      <4> QED
        BY <4>2, <4>4, <4>5, <4>6
    <3> QED
      BY <3>1, <3>2
  <2>12. \A u : u \in Running' => u \in Running \/ u = t
    BY <2>5 DEF Running
  <2>13. Room'
    <3>1. \A x : HasRoom(x)' <=> HasRoom(x)
      BY <1>2 DEF HasRoom, FilesOf
    <3>2. t.char \notin history.crowded => HasRoom(t.char)
      BY <1>1, <1>2, <1>3, <2>2 DEF FileInv, Room, Arrival
    <3> QED
      BY <1>1, <1>2, <2>12, <3>1, <3>2 DEF FileInv, Room
  <2>14. RowsStand'
    BY <1>1, <1>2, <2>2, <2>12 DEF FileInv, RowsStand
  <2>15. Gone'
    <3> SUFFICES ASSUME NEW g \in Handlers, Doing(g, "remove")',
                        Now(g)'.spot.file \notin history.mixed
                 PROVE  \A r \in files : r.spot # Now(g)'.spot
      BY <1>2 DEF Gone
    <3>1. Doing(g, "remove") /\ Now(g)' = Now(g)
      BY <2>5, <2>6, HeadsStay
    <3> QED
      BY <1>1, <3>1 DEF FileInv, Gone
  <2>16. Copied'
    <3> SUFFICES ASSUME NEW g \in Handlers, Doing(g, "point")',
                        Now(g)'.spot.file \notin history.mixed
                 PROVE  NewSpot(Now(g)') \in store'
      BY <1>2 DEF Copied, NewSpot
    <3>1. Doing(g, "point") /\ Now(g)' = Now(g)
      BY <2>5, <2>6, HeadsStay
    <3> QED
      BY <1>1, <1>7, <3>1 DEF FileInv, Copied
  <2>17. AllNamed'
    <3> SUFFICES ASSUME NEW x \in store', x.file \notin history.mixed \cup history.left
                 PROVE  Named(x)'
      BY <1>2 DEF AllNamed
    <3>1. CASE x = s.spot
      <4>1. Hers(h, x)'
        BY <2>2, <2>6, <3>1 DEF Hers
      <4> QED
        BY <4>1 DEF Named
    <3>2. CASE x \in store
      <4>1. Named(x)
        BY <1>1, <3>2 DEF FileInv, AllNamed
      <4>2. \A g \in Handlers : Hers(g, x) => Hers(g, x)'
        <5> TAKE g \in Handlers
        <5>1. CASE g = h
          BY <1>4, <5>1
        <5>2. CASE g # h
          BY <2>5, <5>2, HeadsStay
        <5> QED
          BY <5>1, <5>2
      <4> QED
        BY <1>2, <4>1, <4>2 DEF Named
    <3> QED
      BY <1>7, <3>1, <3>2
  <2>18. FilesAreSound'
    <3>1. \A x : FilesOf(x)' = FilesOf(x)
      BY <1>2 DEF FilesOf
    <3>2. \A f \in files : f.spot.file \notin history.mixed => f.spot \in store'
      BY <1>1, <1>7 DEF FileInv, FilesAreSound
    <3> QED
      BY <1>1, <1>2, <2>5, <2>17, <3>1, <3>2, NamedIsSoundNext DEF FileInv, FilesAreSound
  <2>19. FileInv'
    BY <2>11, <2>13, <2>14, <2>15, <2>16, <2>17, <2>18 DEF FileInv
  <2> QED
    BY <2>7, <2>8, <2>19, FileStepKeeps
<1> QED
  BY <1>6, <1>7 DEF StoreBytes

LEMMA InsertFileKeeps ==
    ASSUME Inv, NEW h \in Handlers, InsertFile(h)
    PROVE  Inv'
<1>1. /\ Typed /\ JobsSound /\ FileInv /\ FileTypes /\ Counts /\ history \in Excuses
  BY TypeParts DEF Inv
<1> PICK s : s = Now(h)
  OBVIOUS
<1>2. /\ job[h] # <<>> /\ s.do = "insertFile" /\ s.do \in FileWork /\ s.do \in Lone
      /\ s.do \in Arrival /\ UNCHANGED <<sheetVars, places, store, backend, messages>>
  BY DEF InsertFile, Doing, Now, FileWork, Lone, Arrival
<1>3. s \in SoundStep /\ s \in Step /\ Steps(h) = {s} /\ s \in Running /\ s.spot \in Spot
      /\ s.spot.file \in FileIds /\ s.char \in Characters
  BY <1>1, <1>2, NowIs, StepFields DEF Spot, SoundStep
<1>4. requests \in 0..MaxRequests /\ requests <= requests
  BY <1>1, ConstantsFit DEF Counts
<1>5. CASE Refuse(h) /\ Past("left", {s.spot.file}) /\ UNCHANGED files
  <2>1. /\ JobsSound' /\ job'[h] = <<>> /\ Steps(h)' = {}
        /\ \A g \in Handlers \ {h} : job'[g] = job[g] /\ Steps(g)' = Steps(g)
        /\ requests' = requests /\ faults' = faults /\ ops' = ops
    BY <1>1, <1>5, RefuseIs
  <2>2. /\ history' \in Excuses /\ history'.left = history.left \cup {s.spot.file}
        /\ history'.accepted = history.accepted /\ history'.strangers = history.strangers
        /\ history'.secret = history.secret /\ history'.overtaken = history.overtaken
        /\ history'.tangled = history.tangled /\ history'.interrupted = history.interrupted
        /\ history'.raced = history.raced /\ history'.relinked = history.relinked
        /\ history'.unwarned = history.unwarned /\ history'.mixed = history.mixed
        /\ history'.crowded = history.crowded /\ history'.late = history.late
    BY <1>1, <1>3, <1>5, PastLeft
  <2>3. FileStep(h)
    <3>1. faults' \in 0..MaxFaults
      BY <1>1, <2>1 DEF Counts
    <3> QED
      BY <1>2, <1>4, <2>1, <2>2, <3>1 DEF FileStep
  <2>4. ~Doing(h, "remove")' /\ ~Doing(h, "point")'
    BY <2>1 DEF Doing
  <2>5. \A x : Hers(h, x) => x.file = s.spot.file
    BY <1>1, HersIs
  <2> QED
    BY <1>2, <1>5, <2>1, <2>2, <2>3, <2>4, <2>5, FileGivesUp DEF fileVars
<1>6. PICK crowd : crowd = When(\E step \in Others(h) : step.do \in {"upload", "insertFile"}
                                                    /\ step.char = s.char, {s.char})
  OBVIOUS
<1>7. crowd \in SUBSET Characters
  BY <1>3, <1>6 DEF When
<1>8. CASE /\ s.char \in exists /\ files' = files \cup {[spot |-> s.spot, char |-> s.char]}
           /\ Past("crowded", crowd) /\ Then(h, <<>>)
  <2>1. /\ JobsSound' /\ job'[h] = <<>> /\ Steps(h)' = {}
        /\ \A g \in Handlers \ {h} : job'[g] = job[g] /\ Steps(g)' = Steps(g)
        /\ requests' = requests /\ faults' = faults /\ ops' = ops
    BY <1>1, <1>2, <1>8, ThenIs
  <2>2. /\ history' \in Excuses /\ history'.crowded = history.crowded \cup crowd
        /\ history'.accepted = history.accepted /\ history'.strangers = history.strangers
        /\ history'.secret = history.secret /\ history'.overtaken = history.overtaken
        /\ history'.tangled = history.tangled /\ history'.interrupted = history.interrupted
        /\ history'.raced = history.raced /\ history'.relinked = history.relinked
        /\ history'.unwarned = history.unwarned /\ history'.mixed = history.mixed
        /\ history'.left = history.left /\ history'.late = history.late
    BY <1>1, <1>7, <1>8, PastCrowded
  <2>3. FileStep(h)
    <3>1. faults' \in 0..MaxFaults
      BY <1>1, <2>1 DEF Counts
    <3> QED
      BY <1>2, <1>4, <2>1, <2>2, <3>1 DEF FileStep
  <2>4. PICK row : row = [spot |-> s.spot, char |-> s.char]
    OBVIOUS
  <2>5. /\ files' = files \cup {row} /\ row.spot = s.spot /\ row.char = s.char
        /\ row \in [spot : Spot, char : Characters]
    BY <1>3, <1>8, <2>4
  <2>6. /\ \A f \in files : f.spot.file # s.spot.file
        /\ s.spot \in store
        /\ \A k \in Handlers : \A u \in Steps(k) :
             /\ ~Handles(u, s.spot.file)
             /\ k # h /\ u.do \in Arrival => u.spot.file # s.spot.file
    BY <1>1, <1>2, <1>3 DEF FileInv, Arriving
  <2>7. FileTypes'
    <3>1. IsFiniteSet(files')
      BY <1>1, <2>5, FS_AddElement DEF FileTypes
    <3>2. files' \subseteq [spot : Spot, char : Characters]
      BY <1>1, <2>5 DEF FileTypes
    <3>3. \A f, g \in files' : f.spot.file = g.spot.file => f = g
      BY <1>1, <2>5, <2>6 DEF FileTypes
    <3>4. \A f \in files' : f.char \in exists
      BY <1>1, <1>8, <2>5 DEF FileTypes
    <3> QED
      BY <1>1, <1>2, <3>1, <3>2, <3>3, <3>4 DEF FileTypes, sheetVars
  <2>8. \A g \in Handlers : Steps(g)' \subseteq Steps(g)
    BY <2>1
  <2>9. \A u : u \in Running' => u \in Running /\ u \in Others(h)
    BY <2>1 DEF Running, Others
  <2>10. \A what : ~Doing(h, what)'
    BY <2>1 DEF Doing
  <2>11. Arriving'
    <3> SUFFICES ASSUME NEW g \in Handlers, NEW u \in Steps(g)', u.do \in Arrival
                 PROVE  /\ \A r \in files' : r.spot.file # u.spot.file
                        /\ u.do = "upload" => \A x \in store : x.file # u.spot.file
                        /\ u.do = "insertFile" => u.spot \in store
                        /\ \A k \in Handlers : \A v \in Steps(k)' :
                             /\ ~Handles(v, u.spot.file)
                             /\ k # g /\ v.do \in Arrival => v.spot.file # u.spot.file
      BY <1>2 DEF Arriving
    <3>1. u \in Steps(g) /\ g # h
      BY <2>1
    <3>2. /\ \A r \in files : r.spot.file # u.spot.file
          /\ u.do = "upload" => \A x \in store : x.file # u.spot.file
          /\ u.do = "insertFile" => u.spot \in store
          /\ \A k \in Handlers : \A v \in Steps(k) :
               /\ ~Handles(v, u.spot.file)
               /\ k # g /\ v.do \in Arrival => v.spot.file # u.spot.file
      BY <1>1, <3>1 DEF FileInv, Arriving
    <3>3. row.spot.file # u.spot.file
      BY <2>5, <2>6, <3>1
    <3> QED
      BY <2>5, <2>8, <3>2, <3>3
  <2>12. \A c : c # s.char => FilesOf(c)' = FilesOf(c)
    BY <2>5 DEF FilesOf
  <2>13. s.char \notin history.crowded => Cardinality(FilesOf(s.char)') <= Quota
    <3> SUFFICES ASSUME s.char \notin history.crowded
                 PROVE  Cardinality(FilesOf(s.char)') <= Quota
      OBVIOUS
    <3>1. HasRoom(s.char)
      BY <1>1, <1>2, <1>3 DEF FileInv, Room
    <3>2. PICK old : old = FilesOf(s.char)
      OBVIOUS
    <3>3. IsFiniteSet(old) /\ row \notin old
      <4>1. old \in SUBSET files
        BY <3>2 DEF FilesOf
      <4>2. row \notin files
        BY <2>5, <2>6
      <4> QED
        BY <1>1, <4>1, <4>2, FS_Subset DEF FileTypes
    <3>4. FilesOf(s.char)' = old \cup {row}
      BY <2>5, <3>2 DEF FilesOf
    <3>5. Cardinality(old \cup {row}) = Cardinality(old) + 1
      BY <3>3, FS_AddElement
    <3> QED
      BY <3>1, <3>2, <3>4, <3>5 DEF HasRoom
  <2>14. Room'
    <3> SUFFICES ASSUME NEW u \in Running', u.do \in Arrival, u.char \notin history'.crowded
                 PROVE  HasRoom(u.char)'
      BY DEF Room
    <3>1. u \in Others(h) /\ u \in Running
      BY <2>9
    <3>2. u.char # s.char
      BY <1>6, <2>2, <3>1 DEF When, Arrival
    <3>3. HasRoom(u.char)
      BY <1>1, <2>2, <3>1 DEF FileInv, Room
    <3> QED
      BY <2>12, <3>2, <3>3 DEF HasRoom
  <2>15. RowsStand'
    BY <1>1, <2>2, <2>5, <2>9 DEF FileInv, RowsStand
  <2>16. Gone'
    <3> SUFFICES ASSUME NEW g \in Handlers, Doing(g, "remove")',
                        Now(g)'.spot.file \notin history.mixed
                 PROVE  \A r \in files' : r.spot # Now(g)'.spot
      BY <2>2 DEF Gone
    <3>1. g # h /\ Doing(g, "remove") /\ Now(g)' = Now(g)
      BY <2>1, <2>10, HeadsStay
    <3>2. \A r \in files : r.spot # Now(g).spot
      BY <1>1, <3>1 DEF FileInv, Gone
    <3>3. Now(g) \in Steps(g) /\ Now(g).do = "remove"
      BY <1>1, <3>1, NowIs DEF Doing, Now
    <3>4. Now(g).spot.file # s.spot.file
      BY <2>6, <3>3 DEF Handles
    <3> QED
      BY <2>5, <3>1, <3>2, <3>4
  <2>17. Copied'
    <3> SUFFICES ASSUME NEW g \in Handlers, Doing(g, "point")',
                        Now(g)'.spot.file \notin history.mixed
                 PROVE  NewSpot(Now(g)') \in store
      BY <1>2, <2>2 DEF Copied, NewSpot
    <3>1. Doing(g, "point") /\ Now(g)' = Now(g)
      BY <2>1, <2>10, HeadsStay
    <3> QED
      BY <1>1, <3>1 DEF FileInv, Copied
  <2>18. AllNamed'
    <3> SUFFICES ASSUME NEW x \in store, x.file \notin history.mixed \cup history.left
                 PROVE  Named(x)'
      BY <1>2, <2>2 DEF AllNamed
    <3>1. Named(x)
      BY <1>1 DEF FileInv, AllNamed
    <3>2. CASE \E f \in files : f.spot = x
      BY <2>5, <3>2 DEF Named
    <3>3. CASE Hers(h, x)
      <4>1. x = s.spot
        BY <1>2, <3>3 DEF Hers, Doing, Now
      <4> QED
        BY <2>5, <4>1 DEF Named
    <3>4. CASE \E g \in Handlers \ {h} : Hers(g, x)
      <4>1. PICK g \in Handlers \ {h} : Hers(g, x)
        BY <3>4
      <4>2. Hers(g, x)'
        BY <2>1, <4>1, HeadsStay
      <4> QED
        BY <4>2 DEF Named
    <3> QED
      BY <3>1, <3>2, <3>3, <3>4 DEF Named
  <2>19. FilesAreSound'
    <3>1. \A f \in files' : f.spot.file \notin history.mixed => f.spot \in store
      BY <1>1, <2>5, <2>6 DEF FileInv, FilesAreSound
    <3>2. \A c \in Characters \ history'.crowded : Cardinality(FilesOf(c)') <= Quota
      BY <1>1, <2>2, <2>12, <2>13 DEF FileInv, FilesAreSound
    <3> QED
      BY <1>2, <2>1, <2>2, <2>18, <3>1, <3>2, NamedIsSoundNext DEF FilesAreSound
  <2>20. FileInv'
    BY <2>11, <2>14, <2>15, <2>16, <2>17, <2>18, <2>19 DEF FileInv
  <2> QED
    BY <2>3, <2>7, <2>20, FileStepKeeps
<1> QED
  BY <1>5, <1>6, <1>8 DEF InsertFile

-----------------------------------------------------------------------------
(* Files: a row is deleted, bytes are removed *)

LEMMA MixingIs ==
    ASSUME JobsSound, NEW h \in Handlers, job[h] # <<>>
    PROVE  /\ Mixing(h) \in SUBSET FileIds
           /\ \A t \in Others(h) : Handles(t, Now(h).spot.file) =>
                Now(h).spot.file \in Mixing(h)
<1>1. Now(h).spot.file \in FileIds
  BY NowIs, StepFields DEF Spot
<1> QED
  BY <1>1 DEF Mixing, When

LEMMA MixedStep ==
    ASSUME Inv, NEW h \in Handlers, job[h] # <<>>, Now(h).do \in Handling,
           JobsSound', \A g \in Handlers \ {h} : job'[g] = job[g] /\ Steps(g)' = Steps(g),
           \A t \in Steps(h)' : t.do \in Handling, UNCHANGED <<sheetVars, places, messages>>,
           requests' = requests, faults' \in 0..MaxFaults, ops' = ops,
           Past("mixed", Mixing(h))
    PROVE  /\ FileStep(h) /\ history'.mixed = history.mixed \cup Mixing(h)
           /\ history'.left = history.left /\ history'.crowded = history.crowded
<1>1. JobsSound /\ Counts /\ history \in Excuses
  BY TypeParts DEF Inv
<1>2. Mixing(h) \in SUBSET FileIds
  BY <1>1, MixingIs
<1>3. /\ history' \in Excuses
      /\ history'.mixed = history.mixed \cup Mixing(h)
      /\ history'.accepted = history.accepted /\ history'.strangers = history.strangers
      /\ history'.secret = history.secret /\ history'.overtaken = history.overtaken
      /\ history'.tangled = history.tangled /\ history'.interrupted = history.interrupted
      /\ history'.raced = history.raced /\ history'.relinked = history.relinked
      /\ history'.unwarned = history.unwarned /\ history'.left = history.left
      /\ history'.crowded = history.crowded /\ history'.late = history.late
  BY <1>1, <1>2, PastMixed
<1>4. requests \in 0..MaxRequests /\ requests <= requests
  BY <1>1, ConstantsFit DEF Counts
<1>5. Now(h).do \in FileWork /\ \A t \in Steps(h)' : t.do \in FileWork
  BY DEF Handling, FileWork
<1> QED
  BY <1>1, <1>3, <1>4, <1>5 DEF FileStep

\* Whoever is at one file leaves the files that arrive alone.
LEMMA HandledArrives ==
    ASSUME JobsSound, FileInv, NEW h \in Handlers, job[h] # <<>>, Now(h).do \in Handling,
           \A g \in Handlers \ {h} : job'[g] = job[g] /\ Steps(g)' = Steps(g),
           \A t \in Steps(h)' :
              t.do \in Handling /\ \E u \in Steps(h) : u.do \in Handling /\ u.spot.file = t.spot.file,
           \A f \in files' : \E r \in files : f.spot.file = r.spot.file,
           \A x \in store' : x \in store \/ x.file = Now(h).spot.file,
           \A x \in store : x \in store' \/ x.file = Now(h).spot.file,
           history'.crowded = history.crowded,
           \A c : /\ Cardinality(FilesOf(c)) \in Nat /\ Cardinality(FilesOf(c)') \in Nat
                  /\ Cardinality(FilesOf(c)') <= Cardinality(FilesOf(c))
    PROVE  /\ Arriving' /\ Room'
           /\ \A c \in Characters \ history'.crowded : Cardinality(FilesOf(c)') <= Quota
<1>1. Handles(Now(h), Now(h).spot.file) /\ Now(h) \in Steps(h)
  BY NowIs DEF Handles, Handling
<1>2. \A g \in Handlers : \A s \in Steps(g)' : s.do \in Arrival => g # h /\ s \in Steps(g)
  BY DEF Arrival, Handling
<1>3. Arriving'
  <2> SUFFICES ASSUME NEW g \in Handlers, NEW s \in Steps(g)', s.do \in Arrival
               PROVE  /\ \A f \in files' : f.spot.file # s.spot.file
                      /\ s.do = "upload" => \A x \in store' : x.file # s.spot.file
                      /\ s.do = "insertFile" => s.spot \in store'
                      /\ \A k \in Handlers : \A t \in Steps(k)' :
                           /\ ~Handles(t, s.spot.file)
                           /\ k # g /\ t.do \in Arrival => t.spot.file # s.spot.file
    BY DEF Arriving
  <2>1. g # h /\ s \in Steps(g)
    BY <1>2
  <2>2. /\ \A f \in files : f.spot.file # s.spot.file
        /\ s.do = "upload" => \A x \in store : x.file # s.spot.file
        /\ s.do = "insertFile" => s.spot \in store
        /\ \A k \in Handlers : \A t \in Steps(k) :
             /\ ~Handles(t, s.spot.file)
             /\ k # g /\ t.do \in Arrival => t.spot.file # s.spot.file
    BY <2>1 DEF FileInv, Arriving
  <2>3. s.spot.file # Now(h).spot.file
    BY <1>1, <2>2
  <2>4. \A k \in Handlers : \A t \in Steps(k)' :
           /\ ~Handles(t, s.spot.file)
           /\ k # g /\ t.do \in Arrival => t.spot.file # s.spot.file
    <3> SUFFICES ASSUME NEW k \in Handlers, NEW t \in Steps(k)'
                 PROVE  /\ ~Handles(t, s.spot.file)
                        /\ k # g /\ t.do \in Arrival => t.spot.file # s.spot.file
      OBVIOUS
    <3>1. CASE k = h
      <4>1. t.do \in Handling /\ t.do \notin Arrival
        BY <3>1 DEF Handling, Arrival
      <4>2. PICK u \in Steps(h) : u.do \in Handling /\ u.spot.file = t.spot.file
        BY <3>1
      <4>3. u.spot.file # s.spot.file
        BY <2>2, <4>2 DEF Handles, Handling
      <4> QED
        BY <4>1, <4>2, <4>3 DEF Handles
    <3>2. CASE k # h
      <4>1. t \in Steps(k)
        BY <3>2
      <4> QED
        BY <2>2, <4>1
    <3> QED
      BY <3>1, <3>2
  <2>5. \A f \in files' : f.spot.file # s.spot.file
    BY <2>2
  <2>6. s.do = "upload" => \A x \in store' : x.file # s.spot.file
    BY <2>2, <2>3
  <2>7. s.do = "insertFile" => s.spot \in store'
    BY <2>2, <2>3
  <2> QED
    BY <2>4, <2>5, <2>6, <2>7
<1>4. Room'
  <2> SUFFICES ASSUME NEW s \in Running', s.do \in Arrival, s.char \notin history'.crowded
               PROVE  HasRoom(s.char)'
    BY DEF Room
  <2>1. s \in Running
    BY <1>2 DEF Running
  <2>2. HasRoom(s.char)
    BY <2>1 DEF FileInv, Room
  <2> QED
    BY <2>2, ConstantsFit DEF HasRoom
<1>5. \A c \in Characters \ history'.crowded : Cardinality(FilesOf(c)') <= Quota
  BY ConstantsFit DEF FileInv, FilesAreSound
<1> QED
  BY <1>3, <1>4, <1>5

LEMMA SameRows ==
    ASSUME FileTypes, files' = files
    PROVE  \A c : /\ Cardinality(FilesOf(c)) \in Nat /\ Cardinality(FilesOf(c)') \in Nat
                  /\ Cardinality(FilesOf(c)') <= Cardinality(FilesOf(c))
BY FewerFiles DEF FileTypes

LEMMA DropRowKeeps ==
    ASSUME Inv, NEW h \in Handlers, DropRow(h)
    PROVE  Inv'
<1>1. JobsSound /\ FileInv /\ FileTypes /\ Counts
  BY TypeParts DEF Inv
<1> PICK s : s = Now(h)
  OBVIOUS
<1>2. /\ job[h] # <<>> /\ s.do = "dropRow" /\ Now(h).do \in Handling
      /\ files' = {f \in files : f.spot.file # s.spot.file} /\ Past("mixed", Mixing(h))
      /\ Then(h, <<>>) /\ UNCHANGED <<sheetVars, places, store, backend, messages>>
  BY DEF DropRow, Doing, Now, Handling
<1>3. s \in Steps(h) /\ s \in Running
  BY <1>1, <1>2, NowIs
<1>4. /\ job' = [job EXCEPT ![h] = Tail(job[h])] /\ JobsSound'
      /\ \A g \in Handlers \ {h} : job'[g] = job[g] /\ Steps(g)' = Steps(g)
      /\ Steps(h)' \subseteq Steps(h)
      /\ requests' = requests /\ faults' = faults /\ ops' = ops
  BY <1>1, <1>2, ThenIs
<1>5. /\ \A t \in Steps(h)' :
           /\ t.do \in {"remove", "copy"}
           /\ t.spot.file = s.spot.file => t.do = "remove"
      /\ ~Doing(h, "point")' /\ Doing(h, "remove")' /\ Now(h)'.spot = s.spot
  BY <1>1, <1>2, <1>4, RestHandles
<1>6. /\ FileStep(h) /\ history'.mixed = history.mixed \cup Mixing(h)
      /\ history'.left = history.left /\ history'.crowded = history.crowded
  <2>1. \A t \in Steps(h)' : t.do \in Handling
    BY <1>5 DEF Handling
  <2>2. faults' \in 0..MaxFaults
    BY <1>1, <1>4 DEF Counts
  <2> QED
    BY <1>2, <1>4, <2>1, <2>2, MixedStep
<1>7. \A u : Handles(u, s.spot.file) /\ u \in Others(h) => s.spot.file \in history'.mixed
  BY <1>1, <1>2, <1>6, MixingIs
<1>8. \A g \in Handlers \ {h} : \A u \in Steps(g) : u \in Others(h)
  BY DEF Others
<1>9. files' \subseteq files /\ \A f \in files : f \in files' <=> f.spot.file # s.spot.file
  BY <1>2
<1>10. FileTypes'
  <2>1. IsFiniteSet(files')
    BY <1>1, <1>9, FS_Subset DEF FileTypes
  <2> QED
    BY <1>1, <1>2, <1>9, <2>1 DEF FileTypes, sheetVars
<1>11. \A c : /\ Cardinality(FilesOf(c)) \in Nat /\ Cardinality(FilesOf(c)') \in Nat
              /\ Cardinality(FilesOf(c)') <= Cardinality(FilesOf(c))
  BY <1>1, <1>9, FewerFiles DEF FileTypes
<1>12. /\ Arriving' /\ Room'
       /\ \A c \in Characters \ history'.crowded : Cardinality(FilesOf(c)') <= Quota
  <2>1. \A t \in Steps(h)' :
           t.do \in Handling /\ \E u \in Steps(h) : u.do \in Handling /\ u.spot.file = t.spot.file
    BY <1>4, <1>5 DEF Handling
  <2>2. \A f \in files' : \E r \in files : f.spot.file = r.spot.file
    BY <1>9
  <2> QED
    BY <1>1, <1>2, <1>4, <1>6, <1>11, <2>1, <2>2, HandledArrives
<1>13. RowsStand'
  <2> SUFFICES ASSUME NEW u \in Running', u.do \in {"dropRow", "copy", "point"},
                      u.spot.file \notin history'.mixed \cup history'.left
               PROVE  \E f \in files' : f.spot = u.spot
    BY DEF RowsStand
  <2>1. u \in Running /\ u.spot.file # s.spot.file
    <3> PICK g \in Handlers : u \in Steps(g)'
      BY DEF Running
    <3>1. CASE g = h
      BY <1>4, <1>5, <3>1 DEF Running
    <3>2. CASE g # h
      BY <1>4, <1>7, <1>8, <3>2 DEF Running, Handles
    <3> QED
      BY <3>1, <3>2
  <2>2. PICK f \in files : f.spot = u.spot
    BY <1>1, <1>6, <2>1 DEF FileInv, RowsStand
  <2> QED
    BY <1>9, <2>1, <2>2
<1>14. Gone'
  <2> SUFFICES ASSUME NEW g \in Handlers, Doing(g, "remove")',
                      Now(g)'.spot.file \notin history'.mixed
               PROVE  \A f \in files' : f.spot # Now(g)'.spot
    BY DEF Gone
  <2>1. CASE g = h
    BY <1>5, <1>9, <2>1
  <2>2. CASE g # h
    <3>1. Doing(g, "remove") /\ Now(g)' = Now(g)
      BY <1>4, <2>2, HeadsStay
    <3> QED
      BY <1>1, <1>6, <1>9, <3>1 DEF FileInv, Gone
  <2> QED
    BY <2>1, <2>2
<1>15. Copied'
  <2> SUFFICES ASSUME NEW g \in Handlers, Doing(g, "point")',
                      Now(g)'.spot.file \notin history'.mixed
               PROVE  NewSpot(Now(g)') \in store
    BY <1>2 DEF Copied, NewSpot
  <2>1. Doing(g, "point") /\ Now(g)' = Now(g)
    BY <1>4, <1>5, HeadsStay
  <2> QED
    BY <1>1, <1>6, <2>1 DEF FileInv, Copied
<1>16. AllNamed'
  <2> SUFFICES ASSUME NEW x \in store, x.file \notin history'.mixed \cup history'.left
               PROVE  Named(x)'
    BY <1>2 DEF AllNamed
  <2>1. Named(x)
    BY <1>1, <1>6 DEF FileInv, AllNamed
  <2>2. CASE \E f \in files : f.spot = x
    <3>1. PICK f \in files : f.spot = x
      BY <2>2
    <3>2. CASE x.file # s.spot.file
      BY <1>9, <3>1, <3>2 DEF Named
    <3>3. CASE x.file = s.spot.file
      <4>1. PICK r \in files : r.spot = s.spot
        BY <1>1, <1>2, <1>3, <1>6, <3>3 DEF FileInv, RowsStand
      <4>2. r = f
        BY <1>1, <3>1, <3>3, <4>1 DEF FileTypes
      <4>3. Hers(h, x)'
        BY <1>5, <3>1, <4>1, <4>2 DEF Hers
      <4> QED
        BY <4>3 DEF Named
    <3> QED
      BY <3>2, <3>3
  <2>3. CASE \E g \in Handlers : Hers(g, x)
    <3>1. PICK g \in Handlers : Hers(g, x)
      BY <2>3
    <3>2. g # h
      BY <1>2, <3>1 DEF Hers, Doing, Now
    <3>3. Hers(g, x)'
      BY <1>4, <3>1, <3>2, HeadsStay
    <3> QED
      BY <3>3 DEF Named
  <2> QED
    BY <2>1, <2>2, <2>3 DEF Named
<1>17. FilesAreSound'
  <2>1. \A f \in files' : f.spot.file \notin history'.mixed => f.spot \in store'
    BY <1>1, <1>2, <1>6, <1>9 DEF FileInv, FilesAreSound
  <2> QED
    BY <1>4, <1>12, <1>16, <2>1, NamedIsSoundNext DEF FilesAreSound
<1>18. FileInv'
  BY <1>12, <1>13, <1>14, <1>15, <1>16, <1>17 DEF FileInv
<1> QED
  BY <1>6, <1>10, <1>18, FileStepKeeps

LEMMA RemoveBytesKeeps ==
    ASSUME Inv, NEW h \in Handlers, RemoveBytes(h)
    PROVE  Inv'
<1>1. JobsSound /\ FileInv /\ FileTypes /\ Counts /\ history \in Excuses
  BY TypeParts DEF Inv
<1> PICK s : s = Now(h)
  OBVIOUS
<1>2. /\ job[h] # <<>> /\ s.do = "remove" /\ Now(h).do \in Handling /\ s.do \in FileWork
      /\ UNCHANGED <<sheetVars, places, files, backend, messages>>
  BY DEF RemoveBytes, Doing, Now, Handling, FileWork
<1>3. s \in Steps(h) /\ s \in Running /\ s.spot \in Spot /\ s.spot.file \in FileIds
  BY <1>1, <1>2, NowIs, StepFields DEF Spot
<1>4. CASE /\ Fail /\ Past("left", {s.spot.file})
           /\ job' = [job EXCEPT ![h] = Tail(@)] /\ UNCHANGED <<store, requests, ops>>
  <2>0. job' = [job EXCEPT ![h] = Tail(job[h])]
    BY <1>4
  <2>1. /\ JobsSound' /\ Steps(h)' \subseteq Steps(h)
        /\ \A g \in Handlers \ {h} : job'[g] = job[g] /\ Steps(g)' = Steps(g)
    BY <1>1, <1>2, <2>0, RestIs
  <2>2. /\ \A t \in Steps(h)' : t.do \in FileWork
        /\ ~Doing(h, "point")' /\ ~Doing(h, "remove")'
    BY <1>1, <1>2, <2>0, RestHandles
  <2>3. /\ history' \in Excuses /\ history'.left = history.left \cup {s.spot.file}
        /\ history'.accepted = history.accepted /\ history'.strangers = history.strangers
        /\ history'.secret = history.secret /\ history'.overtaken = history.overtaken
        /\ history'.tangled = history.tangled /\ history'.interrupted = history.interrupted
        /\ history'.raced = history.raced /\ history'.relinked = history.relinked
        /\ history'.unwarned = history.unwarned /\ history'.mixed = history.mixed
        /\ history'.crowded = history.crowded /\ history'.late = history.late
    BY <1>1, <1>3, <1>4, PastLeft
  <2>4. FileStep(h)
    <3>1. requests \in 0..MaxRequests /\ requests <= requests
      BY <1>1, ConstantsFit DEF Counts
    <3> QED
      BY <1>1, <1>2, <1>4, <2>1, <2>2, <2>3, <3>1, FailIs DEF FileStep
  <2>5. \A x : Hers(h, x) => x.file = s.spot.file
    BY <1>1, HersIs
  <2> QED
    BY <1>2, <1>4, <2>1, <2>2, <2>3, <2>4, <2>5, FileGivesUp DEF fileVars
<1>5. CASE store' = store \ {s.spot} /\ Past("mixed", Mixing(h)) /\ Then(h, <<>>)
  <2>1. /\ job' = [job EXCEPT ![h] = Tail(job[h])] /\ JobsSound'
        /\ \A g \in Handlers \ {h} : job'[g] = job[g] /\ Steps(g)' = Steps(g)
        /\ Steps(h)' \subseteq Steps(h)
        /\ requests' = requests /\ faults' = faults /\ ops' = ops
    BY <1>1, <1>2, <1>5, ThenIs
  <2>2. /\ \A t \in Steps(h)' : t.do \in {"remove", "copy"}
        /\ ~Doing(h, "point")' /\ ~Doing(h, "remove")'
    BY <1>1, <1>2, <2>1, RestHandles
  <2>3. /\ FileStep(h) /\ history'.mixed = history.mixed \cup Mixing(h)
        /\ history'.left = history.left /\ history'.crowded = history.crowded
    <3>1. \A t \in Steps(h)' : t.do \in Handling
      BY <2>2 DEF Handling
    <3>2. faults' \in 0..MaxFaults
      BY <1>1, <2>1 DEF Counts
    <3> QED
      BY <1>2, <1>5, <2>1, <3>1, <3>2, MixedStep
  <2>4. \A g \in Handlers \ {h} : \A u \in Steps(g) :
           Handles(u, s.spot.file) => s.spot.file \in history'.mixed
    BY <1>1, <1>2, <2>3, MixingIs DEF Others
  <2>5. FileTypes'
    BY <1>1, <1>2, <1>5 DEF FileTypes, sheetVars
  <2>6. /\ Arriving' /\ Room'
        /\ \A c \in Characters \ history'.crowded : Cardinality(FilesOf(c)') <= Quota
    <3>1. \A t \in Steps(h)' :
             t.do \in Handling
               /\ \E u \in Steps(h) : u.do \in Handling /\ u.spot.file = t.spot.file
      BY <2>1, <2>2 DEF Handling
    <3>2. \A c : /\ Cardinality(FilesOf(c)) \in Nat /\ Cardinality(FilesOf(c)') \in Nat
                 /\ Cardinality(FilesOf(c)') <= Cardinality(FilesOf(c))
      BY <1>1, <1>2, SameRows
    <3>3. \A x \in store' : x \in store
      BY <1>5
    <3>4. \A x \in store : x \in store' \/ x.file = s.spot.file
      BY <1>5
    <3> QED
      BY <1>1, <1>2, <2>1, <2>3, <3>1, <3>2, <3>3, <3>4, HandledArrives
  <2>7. RowsStand'
    <3>1. \A u : u \in Running' => u \in Running
      BY <2>1 DEF Running
    <3> QED
      BY <1>1, <1>2, <2>3, <3>1 DEF FileInv, RowsStand
  <2>8. Gone'
    <3> SUFFICES ASSUME NEW g \in Handlers, Doing(g, "remove")',
                        Now(g)'.spot.file \notin history'.mixed
                 PROVE  \A f \in files : f.spot # Now(g)'.spot
      BY <1>2 DEF Gone
    <3>1. Doing(g, "remove") /\ Now(g)' = Now(g)
      BY <2>1, <2>2, HeadsStay
    <3> QED
      BY <1>1, <2>3, <3>1 DEF FileInv, Gone
  <2>9. Copied'
    <3> SUFFICES ASSUME NEW g \in Handlers, Doing(g, "point")',
                        Now(g)'.spot.file \notin history'.mixed
                 PROVE  NewSpot(Now(g)') \in store'
      BY DEF Copied, NewSpot
    <3>1. g # h /\ Doing(g, "point") /\ Now(g)' = Now(g)
      BY <2>1, <2>2, HeadsStay
    <3>2. NewSpot(Now(g)) \in store /\ NewSpot(Now(g)).file = Now(g).spot.file
      BY <1>1, <2>3, <3>1 DEF FileInv, Copied, NewSpot
    <3>3. Now(g) \in Steps(g) /\ Now(g).do = "point"
      BY <1>1, <3>1, NowIs DEF Doing, Now
    <3>4. Now(g).spot.file # s.spot.file
      BY <2>4, <3>1, <3>3 DEF Handles
    <3> QED
      BY <1>5, <3>1, <3>2, <3>4
  <2>10. AllNamed'
    <3> SUFFICES ASSUME NEW x \in store', x.file \notin history'.mixed \cup history'.left
                 PROVE  Named(x)'
      BY DEF AllNamed
    <3>1. x \in store /\ x # s.spot
      BY <1>5
    <3>2. Named(x)
      BY <1>1, <2>3, <3>1 DEF FileInv, AllNamed
    <3>3. CASE \E f \in files : f.spot = x
      BY <1>2, <3>3 DEF Named
    <3>4. CASE \E g \in Handlers : Hers(g, x)
      <4>1. PICK g \in Handlers : Hers(g, x)
        BY <3>4
      <4>2. g # h
        BY <1>2, <3>1, <4>1 DEF Hers, Doing, Now
      <4>3. Hers(g, x)'
        BY <2>1, <4>1, <4>2, HeadsStay
      <4> QED
        BY <4>3 DEF Named
    <3> QED
      BY <3>2, <3>3, <3>4 DEF Named
  <2>11. FilesAreSound'
    <3>1. \A f \in files : f.spot.file \notin history'.mixed => f.spot \in store'
      <4> SUFFICES ASSUME NEW f \in files, f.spot.file \notin history'.mixed
                   PROVE  f.spot \in store'
        OBVIOUS
      <4>1. f.spot \in store
        BY <1>1, <2>3 DEF FileInv, FilesAreSound
      <4>2. f.spot # s.spot
        BY <1>1, <1>2, <2>3 DEF FileInv, Gone, Doing, Now
      <4> QED
        BY <1>5, <4>1, <4>2
    <3> QED
      BY <1>2, <2>1, <2>6, <2>10, <3>1, NamedIsSoundNext DEF FilesAreSound
  <2>12. FileInv'
    BY <2>6, <2>7, <2>8, <2>9, <2>10, <2>11 DEF FileInv
  <2> QED
    BY <2>3, <2>5, <2>12, FileStepKeeps
<1> QED
  BY <1>4, <1>5 DEF RemoveBytes

-----------------------------------------------------------------------------
(* Files: one is copied to another storage, its row is moved *)

CopiedFirst(q, p, r) == <<p, r>> \o Tail(q)
LEMMA CopiedPlan ==
    ASSUME NEW q \in Seq(SoundStep), Plan(q), q # <<>>, Head(q).do = "copy",
           NEW p \in SoundStep, p.do = "point", p.spot = Head(q).spot,
           NEW r \in SoundStep, r.do = "remove", r.spot = Head(q).spot
    PROVE  LET n == CopiedFirst(q, p, r)
           IN  /\ n \in Seq(SoundStep) /\ Plan(n) /\ n # <<>> /\ Head(n) = p
               /\ \A i \in DOMAIN n :
                    n[i] = p \/ n[i] = r \/ \E j \in DOMAIN Tail(q) : n[i] = Tail(q)[j]
<1>n. PICK n : n = CopiedFirst(q, p, r)
  OBVIOUS
<1>0. n = <<p, r>> \o Tail(q)
  BY <1>n DEF CopiedFirst
<1>1. Tail(q) \in Seq(SoundStep) /\ Len(Tail(q)) \in Nat /\ DOMAIN Tail(q) = 1..Len(Tail(q))
  <2>1. Tail(q) \in Seq(SoundStep)
    BY TailIs
  <2> QED
    BY <2>1
<1>2. Head(q).do \in Handling
  BY DEF Handling
<1>3. /\ \A i \in DOMAIN Tail(q) :
           /\ Tail(q)[i].do = "copy"
           /\ Tail(q)[i].spot.file # Head(q).spot.file
      /\ \A i, j \in DOMAIN Tail(q) : i < j => Tail(q)[i].spot.file # Tail(q)[j].spot.file
  BY <1>2, HandlingPlan
<1> PICK t : t = Tail(q)
  OBVIOUS
<1>4. <<p, r>> \in Seq(SoundStep) /\ Len(<<p, r>>) = 2
  OBVIOUS
<1>5. n \in Seq(SoundStep) /\ Len(n) = 2 + Len(t)
  BY <1>0, <1>1, <1>4
<1>6. DOMAIN n = 1..(2 + Len(t)) /\ n[1] = p /\ n[2] = r
  BY <1>0, <1>1, <1>4, <1>5
<1>7. \A i \in DOMAIN n : i \in {1, 2} \/ (i - 2 \in DOMAIN t /\ n[i] = t[i - 2])
  BY <1>0, <1>1, <1>4, <1>6
<1>8. n # <<>> /\ Head(n) = p
  BY <1>1, <1>5, <1>6
<1>9. \A i \in DOMAIN n : n[i] = p \/ n[i] = r \/ \E j \in DOMAIN t : n[i] = t[j]
  BY <1>6, <1>7
<1>10. \A i \in DOMAIN n : n[i].do \in {"point", "remove", "copy"}
  BY <1>3, <1>9
<1>11. \A i \in DOMAIN n : i # 1 /\ i # 2 => n[i].do = "copy" /\ n[i].spot.file # p.spot.file
  BY <1>3, <1>7
<1>12. Plan(n)
  <2>1. OneKind(n)
    BY <1>10 DEF OneKind, FileWork
  <2>2. \A i \in DOMAIN n : n[i].do \notin Lone /\ n[i].do # "mark"
    BY <1>10 DEF Lone, SheetWork, PlaceWork, Arrival
  <2>3. \A i \in DOMAIN n : n[i].do \in {"dropRow", "point"} =>
           i = 1 /\ Len(n) > 1 /\ n[2].do = "remove" /\ n[2].spot = n[1].spot
    BY <1>1, <1>5, <1>6, <1>11
  <2>4. \A i \in DOMAIN n : n[i].do = "remove" =>
           i = 1 \/ (i = 2 /\ n[1].do \in {"dropRow", "point"})
    BY <1>6, <1>11
  <2>5. \A i, j \in DOMAIN n : i < j /\ n[i].spot.file = n[j].spot.file => i = 1 /\ j = 2
    <3> SUFFICES ASSUME NEW i \in DOMAIN n, NEW j \in DOMAIN n, i < j,
                        n[i].spot.file = n[j].spot.file
                 PROVE  i = 1 /\ j = 2
      OBVIOUS
    <3>1. CASE i \in {1, 2}
      <4>1. j # 1
        BY <1>1, <1>6, <3>1
      <4>2. n[i].spot.file = p.spot.file
        BY <1>6, <3>1
      <4>3. j = 2
        BY <1>11, <4>1, <4>2
      <4> QED
        BY <3>1, <4>3
    <3>2. CASE i \notin {1, 2}
      <4>1. j \notin {1, 2}
        BY <1>1, <1>6, <3>2
      <4>2. /\ i - 2 \in DOMAIN t /\ j - 2 \in DOMAIN t
            /\ n[i] = t[i - 2] /\ n[j] = t[j - 2]
        BY <1>7, <3>2, <4>1
      <4>3. i - 2 < j - 2
        BY <1>1, <1>6
      <4> QED
        BY <1>3, <4>2, <4>3
    <3> QED
      BY <3>1, <3>2
  <2>6. n[1].do = "point"
    BY <1>6
  <2> QED
    BY <2>1, <2>2, <2>3, <2>4, <2>5, <2>6 DEF Plan
<1> QED
  BY <1>n, <1>5, <1>8, <1>9, <1>12

LEMMA CopyKeeps ==
    ASSUME Inv, NEW h \in Handlers, Copy(h)
    PROVE  Inv'
<1>1. JobsSound /\ FileInv /\ FileTypes /\ Counts
  BY TypeParts DEF Inv
<1> PICK s : s = Now(h)
  OBVIOUS
<1>2. /\ job[h] # <<>> /\ s.do = "copy" /\ Now(h).do \in Handling /\ s = Head(job[h])
      /\ Past("mixed", Mixing(h)) /\ UNCHANGED <<sheetVars, places, files, backend, messages>>
  BY DEF Copy, Doing, Now, Handling
<1>3. s \in Steps(h) /\ s \in Running /\ s \in SoundStep /\ s \in Step /\ s.spot \in Spot
  <2>1. s \in Steps(h) /\ s \in Running /\ s \in SoundStep /\ s \in Step
    BY <1>1, <1>2, NowIs
  <2> QED
    BY <2>1, StepFields
<1>4. \A x : ~Hers(h, x)
  BY <1>2 DEF Hers, Doing, Now
<1>5. CASE /\ job' = [job EXCEPT ![h] = Tail(@)] /\ store' = store
           /\ requests' = requests /\ ops' = ops /\ faults' \in 0..MaxFaults
  <2>0. job' = [job EXCEPT ![h] = Tail(job[h])]
    BY <1>5
  <2>1. /\ JobsSound' /\ Steps(h)' \subseteq Steps(h)
        /\ \A g \in Handlers \ {h} : job'[g] = job[g] /\ Steps(g)' = Steps(g)
    BY <1>1, <1>2, <2>0, RestIs
  <2>2. /\ \A t \in Steps(h)' : t.do \in {"remove", "copy"}
        /\ ~Doing(h, "point")' /\ ~Doing(h, "remove")'
    BY <1>1, <1>2, <2>0, RestHandles
  <2>3. /\ FileStep(h) /\ history'.mixed = history.mixed \cup Mixing(h)
        /\ history'.left = history.left /\ history'.crowded = history.crowded
    <3>1. \A t \in Steps(h)' : t.do \in Handling
      BY <2>2 DEF Handling
    <3> QED
      BY <1>2, <1>5, <2>1, <3>1, MixedStep
  <2> QED
    BY <1>2, <1>4, <1>5, <2>1, <2>2, <2>3, FileGivesUp DEF fileVars
<1>6. CASE /\ s.spot \in store /\ store' = store \cup {NewSpot(s)}
           /\ Then(h, AfterCopy(s))
  <2>p. PICK p : p = [s EXCEPT !.do = "point"]
    OBVIOUS
  <2>r. PICK r : r = [s EXCEPT !.do = "remove"]
    OBVIOUS
  <2>1. p \in Step /\ p.do = "point" /\ p.spot = s.spot /\ p.to = s.to
    BY <1>3, <2>p DEF Step
  <2>2. r \in Step /\ r.do = "remove" /\ r.spot = s.spot
    BY <1>3, <2>r DEF Step
  <2>3. p \in SoundStep /\ r \in SoundStep
    <3>1. s.to # s.spot.backend
      BY <1>2, <1>3 DEF SoundStep
    <3> QED
      BY <2>1, <2>2, <3>1 DEF SoundStep, SheetWork, TalkWork, Arrival
  <2>n. PICK n : n = <<p, r>> \o Tail(job[h])
    OBVIOUS
  <2>4. job[h] \in Seq(SoundStep) /\ Plan(job[h])
    BY <1>1 DEF JobsSound
  <2>5. /\ n \in Seq(SoundStep) /\ Plan(n) /\ n # <<>> /\ Head(n) = p
        /\ \A i \in DOMAIN n :
             n[i] = p \/ n[i] = r \/ \E j \in DOMAIN Tail(job[h]) : n[i] = Tail(job[h])[j]
    <3>1. Head(job[h]).do = "copy" /\ p.spot = Head(job[h]).spot /\ r.spot = Head(job[h]).spot
      BY <1>2, <2>1, <2>2
    <3>2. n = CopiedFirst(job[h], p, r)
      BY <2>n DEF CopiedFirst
    <3> QED
      BY <1>2, <2>1, <2>2, <2>3, <2>4, <3>1, <3>2, CopiedPlan
  <2>6. job' = [job EXCEPT ![h] = n] /\ requests' = requests /\ faults' = faults /\ ops' = ops
    BY <1>6, <2>p, <2>r, <2>n DEF Then, AfterCopy
  <2>7. /\ JobsSound' /\ job'[h] = n /\ \A g \in Handlers \ {h} : job'[g] = job[g]
        /\ Steps(h)' = {n[i] : i \in DOMAIN n}
        /\ \A g \in Handlers \ {h} : Steps(g)' = Steps(g)
    BY <1>1, <2>5, <2>6, JobChanges
  <2>8. \A t \in Steps(h)' : t = p \/ t = r \/ (t \in Steps(h) /\ t.do = "copy")
    <3>1. \A j \in DOMAIN Tail(job[h]) :
             Tail(job[h])[j] \in Steps(h) /\ Tail(job[h])[j].do = "copy"
      <4>1. \A j \in DOMAIN Tail(job[h]) : Tail(job[h])[j] \in Steps(h)
        BY <1>2, <2>4, TailIs DEF Steps
      <4>2. \A j \in DOMAIN Tail(job[h]) : Tail(job[h])[j].do = "copy"
        BY <1>2, <2>4, HandlingPlan DEF Now
      <4> QED
        BY <4>1, <4>2
    <3> QED
      BY <2>5, <2>7, <3>1
  <2>9. Now(h)' = p /\ \A what : Doing(h, what)' <=> what = "point"
    BY <2>1, <2>5, <2>7 DEF Doing, Now
  <2>10. \A t \in Steps(h)' :
           t.do \in Handling /\ \E u \in Steps(h) : u.do \in Handling /\ u.spot.file = t.spot.file
    <3>1. s.do \in Handling /\ p.do \in Handling /\ r.do \in Handling
      BY <1>2, <2>1, <2>2 DEF Handling
    <3> QED
      BY <1>3, <2>1, <2>2, <2>8, <3>1 DEF Handling
  <2>11. /\ FileStep(h) /\ history'.mixed = history.mixed \cup Mixing(h)
         /\ history'.left = history.left /\ history'.crowded = history.crowded
    <3>1. faults' \in 0..MaxFaults
      BY <1>1, <2>6 DEF Counts
    <3> QED
      BY <1>2, <2>6, <2>7, <2>10, <3>1, MixedStep
  <2>12. NewSpot(s) \in Spot /\ NewSpot(s).file = s.spot.file
    <3>1. s.to \in Backends
      BY <1>3, StepFields
    <3> QED
      BY <1>3, <3>1 DEF NewSpot, Spot
  <2>13. FileTypes'
    BY <1>1, <1>2, <1>6, <2>12 DEF FileTypes, sheetVars
  <2>14. /\ Arriving' /\ Room'
         /\ \A c \in Characters \ history'.crowded : Cardinality(FilesOf(c)') <= Quota
    <3>1. \A c : /\ Cardinality(FilesOf(c)) \in Nat /\ Cardinality(FilesOf(c)') \in Nat
                 /\ Cardinality(FilesOf(c)') <= Cardinality(FilesOf(c))
      BY <1>1, <1>2, SameRows
    <3>2. \A x \in store' : x \in store \/ x.file = s.spot.file
      BY <1>6, <2>12
    <3>3. \A x \in store : x \in store'
      BY <1>6
    <3>4. \A f \in files' : \E row \in files : f.spot.file = row.spot.file
      BY <1>2
    <3>5. /\ \A g \in Handlers \ {h} : job'[g] = job[g] /\ Steps(g)' = Steps(g)
          /\ history'.crowded = history.crowded
      BY <2>7, <2>11
    <3>6. /\ \A x \in store' : x \in store \/ x.file = Now(h).spot.file
          /\ \A x \in store : x \in store' \/ x.file = Now(h).spot.file
          /\ \A f \in files' : \E row \in files : f.spot.file = row.spot.file
      BY <3>2, <3>3, <3>4
    <3> QED
      BY <1>1, <1>2, <2>10, <3>1, <3>5, <3>6, HandledArrives
  <2>15. RowsStand'
    <3> SUFFICES ASSUME NEW u \in Running', u.do \in {"dropRow", "copy", "point"},
                        u.spot.file \notin history'.mixed \cup history'.left
                 PROVE  \E f \in files : f.spot = u.spot
      BY <1>2 DEF RowsStand
    <3>1. u = p \/ u \in Running
      BY <2>2, <2>7, <2>8 DEF Running
    <3>2. CASE u = p
      BY <1>1, <1>2, <1>3, <2>1, <2>11, <3>2 DEF FileInv, RowsStand
    <3>3. CASE u \in Running
      BY <1>1, <2>11, <3>3 DEF FileInv, RowsStand
    <3> QED
      BY <3>1, <3>2, <3>3
  <2>16. Gone'
    <3> SUFFICES ASSUME NEW g \in Handlers, Doing(g, "remove")',
                        Now(g)'.spot.file \notin history'.mixed
                 PROVE  \A f \in files : f.spot # Now(g)'.spot
      BY <1>2 DEF Gone
    <3>1. Doing(g, "remove") /\ Now(g)' = Now(g)
      BY <2>7, <2>9, HeadsStay
    <3> QED
      BY <1>1, <2>11, <3>1 DEF FileInv, Gone
  <2>17. Copied'
    <3> SUFFICES ASSUME NEW g \in Handlers, Doing(g, "point")',
                        Now(g)'.spot.file \notin history'.mixed
                 PROVE  NewSpot(Now(g)') \in store'
      BY DEF Copied, NewSpot
    <3>1. CASE g = h
      <4>1. NewSpot(p) = NewSpot(s)
        BY <2>1 DEF NewSpot
      <4> QED
        BY <1>6, <2>9, <3>1, <4>1
    <3>2. CASE g # h
      <4>1. Doing(g, "point") /\ Now(g)' = Now(g)
        BY <2>7, <3>2, HeadsStay
      <4> QED
        BY <1>1, <1>6, <2>11, <4>1 DEF FileInv, Copied
    <3> QED
      BY <3>1, <3>2
  <2>18. AllNamed'
    <3> SUFFICES ASSUME NEW x \in store', x.file \notin history'.mixed \cup history'.left
                 PROVE  Named(x)'
      BY DEF AllNamed
    <3>1. CASE x = NewSpot(s)
      <4>1. NewSpot(p) = x
        BY <2>1, <3>1 DEF NewSpot
      <4>2. Hers(h, x)'
        BY <2>9, <4>1 DEF Hers, NewSpot
      <4> QED
        BY <4>2 DEF Named
    <3>2. CASE x \in store
      <4>1. Named(x)
        BY <1>1, <2>11, <3>2 DEF FileInv, AllNamed
      <4>2. \A g \in Handlers : Hers(g, x) => Hers(g, x)'
        <5> TAKE g \in Handlers
        <5>1. CASE g = h
          BY <1>4, <5>1
        <5>2. CASE g # h
          BY <2>7, <5>2, HeadsStay
        <5> QED
          BY <5>1, <5>2
      <4> QED
        BY <1>2, <4>1, <4>2 DEF Named
    <3> QED
      BY <1>6, <3>1, <3>2
  <2>19. FilesAreSound'
    <3>1. \A f \in files : f.spot.file \notin history'.mixed => f.spot \in store'
      BY <1>1, <1>6, <2>11 DEF FileInv, FilesAreSound
    <3> QED
      BY <1>2, <2>7, <2>14, <2>18, <3>1, NamedIsSoundNext DEF FilesAreSound
  <2>20. FileInv'
    BY <2>14, <2>15, <2>16, <2>17, <2>18, <2>19 DEF FileInv
  <2> QED
    BY <2>11, <2>13, <2>20, FileStepKeeps
<1>7. ASSUME Then(h, <<>>), store' = store
      PROVE  /\ job' = [job EXCEPT ![h] = Tail(@)] /\ store' = store
             /\ requests' = requests /\ ops' = ops /\ faults' \in 0..MaxFaults
  <2>1. /\ job' = [job EXCEPT ![h] = Tail(job[h])]
        /\ requests' = requests /\ faults' = faults /\ ops' = ops
    BY <1>1, <1>2, <1>7, ThenIs
  <2> QED
    BY <1>1, <1>7, <2>1 DEF Counts
<1>8. ASSUME Fail /\ job' = [job EXCEPT ![h] = Tail(@)] /\ UNCHANGED <<store, requests, ops>>
      PROVE  /\ job' = [job EXCEPT ![h] = Tail(@)] /\ store' = store
             /\ requests' = requests /\ ops' = ops /\ faults' \in 0..MaxFaults
  BY <1>1, <1>8, FailIs
<1> QED
  BY <1>5, <1>6, <1>7, <1>8 DEF Copy

LEMMA PointKeeps ==
    ASSUME Inv, NEW h \in Handlers, Point(h)
    PROVE  Inv'
<1>1. JobsSound /\ FileInv /\ FileTypes /\ Counts
  BY TypeParts DEF Inv
<1> PICK s : s = Now(h)
  OBVIOUS
<1>2. /\ job[h] # <<>> /\ s.do = "point" /\ Now(h).do \in Handling /\ Doing(h, "point")
      /\ Past("mixed", Mixing(h)) /\ Then(h, <<>>)
      /\ UNCHANGED <<sheetVars, places, store, backend, messages>>
  BY DEF Point, Doing, Now, Handling
<1>3. /\ s \in Steps(h) /\ s \in Running /\ s \in SoundStep /\ s \in Step /\ s.spot \in Spot
      /\ s.to \in Backends
  BY <1>1, <1>2, NowIs, StepFields
<1>m. PICK M : M = [f \in files |-> IF f.spot.file = s.spot.file
                                    THEN [f EXCEPT !.spot = NewSpot(s)] ELSE f]
  OBVIOUS
<1>4. NewSpot(s) \in Spot /\ NewSpot(s).file = s.spot.file /\ NewSpot(s) # s.spot
  <2>1. s.to # s.spot.backend
    BY <1>2, <1>3 DEF SoundStep
  <2> QED
    BY <1>3, <2>1 DEF NewSpot, Spot
<1>5. \A f \in files :
         /\ M[f] \in [spot : Spot, char : Characters] /\ M[f].char = f.char
         /\ M[f].spot.file = f.spot.file
         /\ f.spot.file = s.spot.file => M[f].spot = NewSpot(s)
         /\ f.spot.file # s.spot.file => M[f] = f
  <2> TAKE f \in files
  <2>1. f \in [spot : Spot, char : Characters]
    BY <1>1 DEF FileTypes
  <2>2. M[f] = IF f.spot.file = s.spot.file THEN [f EXCEPT !.spot = NewSpot(s)] ELSE f
    BY <1>m
  <2> QED
    BY <1>4, <2>1, <2>2
<1>6. files' = {M[f] : f \in files}
  <2>1. files' = {IF f.spot.file = s.spot.file
                  THEN [f EXCEPT !.spot = NewSpot(s)] ELSE f : f \in files}
    BY DEF Point
  <2> QED
    BY <1>m, <2>1
<1>7. /\ job' = [job EXCEPT ![h] = Tail(job[h])] /\ JobsSound'
      /\ \A g \in Handlers \ {h} : job'[g] = job[g] /\ Steps(g)' = Steps(g)
      /\ Steps(h)' \subseteq Steps(h)
      /\ requests' = requests /\ faults' = faults /\ ops' = ops
  BY <1>1, <1>2, ThenIs
<1>8. /\ \A t \in Steps(h)' :
           /\ t.do \in {"remove", "copy"}
           /\ t.spot.file = s.spot.file => t.do = "remove"
      /\ ~Doing(h, "point")' /\ Doing(h, "remove")' /\ Now(h)'.spot = s.spot
  BY <1>1, <1>2, <1>7, RestHandles
<1>9. /\ FileStep(h) /\ history'.mixed = history.mixed \cup Mixing(h)
      /\ history'.left = history.left /\ history'.crowded = history.crowded
  <2>1. \A t \in Steps(h)' : t.do \in Handling
    BY <1>8 DEF Handling
  <2>2. faults' \in 0..MaxFaults
    BY <1>1, <1>7 DEF Counts
  <2> QED
    BY <1>2, <1>7, <2>1, <2>2, MixedStep
<1>10. \A g \in Handlers \ {h} : \A u \in Steps(g) :
          Handles(u, s.spot.file) => s.spot.file \in history'.mixed
  BY <1>1, <1>2, <1>9, MixingIs DEF Others
<1>11. /\ \A f \in files' : \E r \in files : f = M[r]
       /\ \A r \in files : M[r] \in files'
  BY <1>6
<1>12. IsFiniteSet(files')
  <2>1. M \in Surjection(files, files')
    BY <1>m, <1>6 DEF Surjection
  <2> QED
    BY <1>1, <2>1, FS_Surjection DEF FileTypes
<1>13. FileTypes'
  <2>1. files' \subseteq [spot : Spot, char : Characters]
    BY <1>5, <1>11
  <2>2. \A f, g \in files' : f.spot.file = g.spot.file => f = g
    BY <1>1, <1>5, <1>11 DEF FileTypes
  <2>3. \A f \in files' : f.char \in exists
    BY <1>1, <1>5, <1>11 DEF FileTypes
  <2> QED
    BY <1>1, <1>2, <1>12, <2>1, <2>2, <2>3 DEF FileTypes, sheetVars
<1>14. \A c : /\ Cardinality(FilesOf(c)) \in Nat /\ Cardinality(FilesOf(c)') \in Nat
              /\ Cardinality(FilesOf(c)') <= Cardinality(FilesOf(c))
  <2> TAKE c
  <2>1. PICK old, new : old = FilesOf(c) /\ new = FilesOf(c)'
    OBVIOUS
  <2>2. old = {f \in files : f.char = c} /\ new = {f \in files' : f.char = c}
    BY <2>1 DEF FilesOf
  <2>3. IsFiniteSet(old) /\ IsFiniteSet(new)
    BY <1>1, <1>12, <2>2, FS_Subset DEF FileTypes
  <2>n. PICK N : N = [f \in old |-> M[f]]
    OBVIOUS
  <2>4. N \in Surjection(old, new)
    <3>1. \A f \in old : M[f] \in new
      BY <1>5, <1>11, <2>2
    <3>2. \A f \in new : \E r \in old : M[r] = f
      BY <1>5, <1>11, <2>2
    <3> QED
      BY <2>n, <3>1, <3>2 DEF Surjection
  <2>5. Cardinality(new) <= Cardinality(old)
    BY <2>3, <2>4, FS_Surjection
  <2> QED
    BY <2>1, <2>3, <2>5, FS_CardinalityType
<1>15. /\ Arriving' /\ Room'
       /\ \A c \in Characters \ history'.crowded : Cardinality(FilesOf(c)') <= Quota
  <2>1. \A t \in Steps(h)' :
           t.do \in Handling /\ \E u \in Steps(h) : u.do \in Handling /\ u.spot.file = t.spot.file
    BY <1>7, <1>8 DEF Handling
  <2>2. \A f \in files' : \E r \in files : f.spot.file = r.spot.file
    BY <1>5, <1>11
  <2> QED
    BY <1>1, <1>2, <1>7, <1>9, <1>14, <2>1, <2>2, HandledArrives
<1>16. RowsStand'
  <2> SUFFICES ASSUME NEW u \in Running', u.do \in {"dropRow", "copy", "point"},
                      u.spot.file \notin history'.mixed \cup history'.left
               PROVE  \E f \in files' : f.spot = u.spot
    BY DEF RowsStand
  <2>1. u \in Running /\ u.spot.file # s.spot.file
    <3> PICK g \in Handlers : u \in Steps(g)'
      BY DEF Running
    <3>1. CASE g = h
      BY <1>7, <1>8, <3>1 DEF Running
    <3>2. CASE g # h
      BY <1>7, <1>10, <3>2 DEF Running, Handles
    <3> QED
      BY <3>1, <3>2
  <2>2. PICK f \in files : f.spot = u.spot
    BY <1>1, <1>9, <2>1 DEF FileInv, RowsStand
  <2>3. M[f] \in files' /\ M[f].spot = u.spot
    BY <1>5, <1>11, <2>1, <2>2
  <2> QED
    BY <2>3
<1>17. Gone'
  <2> SUFFICES ASSUME NEW g \in Handlers, Doing(g, "remove")',
                      Now(g)'.spot.file \notin history'.mixed, NEW r \in files
               PROVE  M[r].spot # Now(g)'.spot
    BY <1>11 DEF Gone
  <2>1. CASE g = h
    BY <1>4, <1>5, <1>8, <2>1
  <2>2. CASE g # h
    <3>1. Doing(g, "remove") /\ Now(g)' = Now(g)
      BY <1>7, <2>2, HeadsStay
    <3>2. Now(g) \in Steps(g) /\ Now(g).do = "remove"
      BY <1>1, <3>1, NowIs DEF Doing, Now
    <3>3. Now(g).spot.file # s.spot.file
      BY <1>10, <2>2, <3>1, <3>2 DEF Handles
    <3>4. r.spot # Now(g).spot
      BY <1>1, <1>9, <3>1 DEF FileInv, Gone
    <3> QED
      BY <1>5, <3>1, <3>3, <3>4
  <2> QED
    BY <2>1, <2>2
<1>18. Copied'
  <2> SUFFICES ASSUME NEW g \in Handlers, Doing(g, "point")',
                      Now(g)'.spot.file \notin history'.mixed
               PROVE  NewSpot(Now(g)') \in store
    BY <1>2 DEF Copied, NewSpot
  <2>1. Doing(g, "point") /\ Now(g)' = Now(g)
    BY <1>7, <1>8, HeadsStay
  <2> QED
    BY <1>1, <1>9, <2>1 DEF FileInv, Copied
<1>19. AllNamed'
  <2> SUFFICES ASSUME NEW x \in store, x.file \notin history'.mixed \cup history'.left
               PROVE  Named(x)'
    BY <1>2 DEF AllNamed
  <2>1. Named(x)
    BY <1>1, <1>9 DEF FileInv, AllNamed
  <2>2. x.file = s.spot.file => \E r \in files : r.spot = s.spot
    BY <1>1, <1>2, <1>3, <1>9 DEF FileInv, RowsStand
  <2>3. CASE \E f \in files : f.spot = x
    <3>1. PICK f \in files : f.spot = x
      BY <2>3
    <3>2. CASE x.file # s.spot.file
      BY <1>5, <1>11, <3>1, <3>2 DEF Named
    <3>3. CASE x.file = s.spot.file
      <4>1. PICK r \in files : r.spot = s.spot
        BY <2>2, <3>3
      <4>2. r = f
        BY <1>1, <3>1, <3>3, <4>1 DEF FileTypes
      <4>3. Hers(h, x)'
        BY <1>8, <3>1, <4>1, <4>2 DEF Hers
      <4> QED
        BY <4>3 DEF Named
    <3> QED
      BY <3>2, <3>3
  <2>4. CASE Hers(h, x)
    <3>1. x = NewSpot(s)
      BY <1>2, <2>4 DEF Hers, Doing, Now
    <3>2. PICK r \in files : r.spot = s.spot
      BY <1>4, <2>2, <3>1
    <3>3. M[r] \in files' /\ M[r].spot = x
      BY <1>5, <1>11, <3>1, <3>2
    <3> QED
      BY <3>3 DEF Named
  <2>5. CASE \E g \in Handlers \ {h} : Hers(g, x)
    <3>1. PICK g \in Handlers \ {h} : Hers(g, x)
      BY <2>5
    <3>2. Hers(g, x)'
      BY <1>7, <3>1, HeadsStay
    <3> QED
      BY <3>2 DEF Named
  <2> QED
    BY <2>1, <2>3, <2>4, <2>5 DEF Named
<1>20. FilesAreSound'
  <2>1. \A f \in files' : f.spot.file \notin history'.mixed => f.spot \in store'
    <3> SUFFICES ASSUME NEW r \in files, M[r].spot.file \notin history'.mixed
                 PROVE  M[r].spot \in store
      BY <1>2, <1>11
    <3>1. r.spot.file \notin history.mixed
      BY <1>5, <1>9
    <3>2. CASE r.spot.file = s.spot.file
      <4>1. NewSpot(s) \in store
        BY <1>1, <1>2, <3>1, <3>2 DEF FileInv, Copied
      <4> QED
        BY <1>5, <3>2, <4>1
    <3>3. CASE r.spot.file # s.spot.file
      BY <1>1, <1>5, <3>1, <3>3 DEF FileInv, FilesAreSound
    <3> QED
      BY <3>2, <3>3
  <2> QED
    BY <1>7, <1>15, <1>19, <2>1, NamedIsSoundNext DEF FilesAreSound
<1>21. FileInv'
  BY <1>15, <1>16, <1>17, <1>18, <1>19, <1>20 DEF FileInv
<1> QED
  BY <1>9, <1>13, <1>21, FileStepKeeps

-----------------------------------------------------------------------------
(* The talk *)

TalkStep(h) ==
    /\ JobsSound' /\ \A g \in Handlers \ {h} : job'[g] = job[g] /\ Steps(g)' = Steps(g)
    /\ job[h] = <<>> \/ Now(h).do \in TalkWork
    /\ \A s \in Steps(h)' : s.do \in TalkWork
    /\ UNCHANGED <<sheetVars, places, fileVars>>
    /\ requests' \in 0..MaxRequests /\ requests <= requests' /\ faults' = faults
    /\ ops' = ops /\ history' \in Excuses /\ history.late \subseteq history'.late
    /\ history'.accepted = history.accepted /\ history'.strangers = history.strangers
    /\ history'.secret = history.secret /\ history'.overtaken = history.overtaken
    /\ history'.tangled = history.tangled /\ history'.interrupted = history.interrupted
    /\ history'.raced = history.raced /\ history'.relinked = history.relinked
    /\ history'.unwarned = history.unwarned /\ history'.left = history.left
    /\ history'.mixed = history.mixed /\ history'.crowded = history.crowded
\* A message stays as it was to the others, or is a new one they cannot have missed.
StillTold(m) ==
    \/ \E r \in messages :
         /\ r.n = m.n /\ r.event = m.event /\ r.side = m.side /\ (r.shown => m.shown)
         /\ m.read => r.read \/ m.shown \/ m.n \in history.late
    \/ ~m.read /\ \A g \in Handlers : Doing(g, "mark") => m.n \in history'.late
LEMMA TalkStepKeeps ==
    ASSUME Inv, NEW h \in Handlers, TalkStep(h), TalkTypes',
           \A m \in messages' : StillTold(m),
           Doing(h, "mark")' => \A m \in messages' :
              m.event = Now(h)'.event /\ m.side # Now(h)'.side =>
                 m.shown \/ m.n \in history'.late
    PROVE  Inv'
<1>1. /\ JobsSound /\ TalkInv /\ SheetTypes /\ PlaceTypes /\ FileTypes /\ Counts
  BY TypeParts DEF Inv
<1>2. JobsSound' /\ UNCHANGED <<sheetVars, places, fileVars>> /\ history' \in Excuses
  BY DEF TalkStep
<1>3. Counts'
  BY <1>1 DEF TalkStep, Counts
<1>4. \A other \in Works \ {TalkWork} : Elsewhere(other)
  BY <1>1, StaysIn DEF TalkStep, Works
<1>5. requests \in Nat /\ requests' \in Nat
  BY <1>1, <1>3, ConstantsFit DEF Counts
<1>6. KeepsSheets /\ KeepsLinks /\ KeepsFiles
  BY <1>5 DEF TalkStep, KeepsSheets, KeepsLinks, KeepsFiles, sheetVars, fileVars
<1>7. SheetInv' /\ LinkInv' /\ FileInv'
  BY <1>2, <1>4, <1>6, TalkOnly
<1>8. Typed'
  <2>1. SheetTypes' /\ PlaceTypes' /\ FileTypes'
    BY <1>1, <1>2, SheetTypesStay, PlaceTypesStay, FileTypesStay DEF sheetVars
  <2> QED
    BY <1>2, <1>3, <2>1, TypedNext
<1>9. \A g \in Handlers \ {h} : job'[g] = job[g]
  BY DEF TalkStep
<1>10. history.late \subseteq history'.late
  BY DEF TalkStep
<1>11. ShownBefore'
  <2> SUFFICES ASSUME NEW g \in Handlers, Doing(g, "mark")', NEW m \in messages',
                      m.event = Now(g)'.event, m.side # Now(g)'.side
               PROVE  m.shown \/ m.n \in history'.late
    BY DEF ShownBefore, MessagesOf
  <2>1. CASE g = h
    BY <2>1
  <2>2. CASE g # h
    <3>1. Doing(g, "mark") /\ Now(g)' = Now(g)
      BY <1>9, <2>2, HeadsStay
    <3>2. CASE ~m.read /\ \A k \in Handlers : Doing(k, "mark") => m.n \in history'.late
      BY <3>1, <3>2
    <3>3. CASE \E r \in messages :
                 r.n = m.n /\ r.event = m.event /\ r.side = m.side /\ (r.shown => m.shown)
      <4>1. PICK r \in messages :
                 r.n = m.n /\ r.event = m.event /\ r.side = m.side /\ (r.shown => m.shown)
        BY <3>3
      <4>2. r.shown \/ r.n \in history.late
        BY <1>1, <3>1, <4>1 DEF TalkInv, ShownBefore, MessagesOf
      <4> QED
        BY <1>10, <4>1, <4>2
    <3> QED
      BY <3>2, <3>3 DEF StillTold
  <2> QED
    BY <2>1, <2>2
<1>12. ReadMeansShown'
  <2> SUFFICES ASSUME NEW m \in messages', m.read
               PROVE  m.shown \/ m.n \in history'.late
    BY DEF ReadMeansShown
  <2>1. PICK r \in messages :
          /\ r.n = m.n /\ r.event = m.event /\ r.side = m.side /\ (r.shown => m.shown)
          /\ m.read => r.read \/ m.shown \/ m.n \in history.late
    BY DEF StillTold
  <2>2. r.read => r.shown \/ r.n \in history.late
    BY <1>1 DEF TalkInv, ReadMeansShown
  <2> QED
    BY <1>10, <2>1, <2>2
<1> QED
  BY <1>2, <1>7, <1>8, <1>11, <1>12 DEF Inv, TalkInv

\* What follows the steps of a talk in one request.
LEMMA TalkRest ==
    ASSUME Inv, NEW h \in Handlers, job[h] # <<>>, Now(h).do \in TalkWork, Then(h, <<>>)
    PROVE  /\ JobsSound'
           /\ \A g \in Handlers \ {h} : job'[g] = job[g] /\ Steps(g)' = Steps(g)
           /\ \A s \in Steps(h)' : s.do \in TalkWork
           /\ requests' = requests /\ faults' = faults /\ ops' = ops
           /\ requests' \in 0..MaxRequests /\ requests <= requests'
           /\ Doing(h, "mark")' =>
                /\ Now(h).do = "show" /\ Now(h)'.event = Now(h).event
                /\ Now(h)'.side = Now(h).side
<1>1. JobsSound /\ Counts
  BY TypeParts DEF Inv
<1>2. /\ JobsSound' /\ job'[h] = Tail(job[h])
      /\ \A g \in Handlers \ {h} : job'[g] = job[g] /\ Steps(g)' = Steps(g)
      /\ Steps(h)' \subseteq Steps(h)
      /\ requests' = requests /\ faults' = faults /\ ops' = ops
  BY <1>1, ThenIs
<1>3. \A s \in Steps(h) : s.do \in TalkWork
  BY <1>1, NowIs DEF Works
<1>4. requests' \in 0..MaxRequests /\ requests <= requests'
  BY <1>1, <1>2, ConstantsFit DEF Counts
<1>5. job[h] \in Seq(SoundStep) /\ Plan(job[h])
  BY <1>1 DEF JobsSound
<1>6. Doing(h, "mark")' => /\ Now(h).do = "show" /\ Now(h)'.event = Now(h).event
                           /\ Now(h)'.side = Now(h).side
  BY <1>2, <1>5, SecondIs DEF Doing, Now
<1> QED
  BY <1>2, <1>3, <1>4, <1>6

LEMMA TalkStarts ==
    ASSUME Inv, NEW h \in Handlers, NEW q \in Seq(SoundStep), Plan(q), Start(h, q),
           \A i \in DOMAIN q : q[i].do \in TalkWork, q # <<>>, Head(q).do # "mark",
           UNCHANGED <<sheetVars, places, fileVars, history>>, TalkTypes',
           \A m \in messages' : StillTold(m)
    PROVE  Inv'
<1>1. /\ Typed /\ JobsSound /\ Counts /\ history \in Excuses
  BY TypeParts DEF Inv
<1>2. /\ job[h] = <<>>
      /\ JobsSound' /\ job'[h] = q /\ \A g \in Handlers \ {h} : job'[g] = job[g]
      /\ Steps(h)' = {q[i] : i \in DOMAIN q}
      /\ \A g \in Handlers \ {h} : Steps(g)' = Steps(g)
      /\ requests' = requests + 1 /\ requests' \in 0..MaxRequests
      /\ faults' = faults /\ ops' = ops
  BY <1>1, StartIs
<1>3. \A s \in Steps(h)' : s.do \in TalkWork
  BY <1>2
<1>4. requests <= requests'
  BY <1>1, <1>2, ConstantsFit DEF Counts
<1>5. ~Doing(h, "mark")'
  BY <1>2 DEF Doing
<1>6. TalkStep(h)
  BY <1>1, <1>2, <1>3, <1>4 DEF TalkStep
<1> QED
  BY <1>5, <1>6, TalkStepKeeps
LEMMA AllStillTold ==
    ASSUME messages' = messages
    PROVE  \A m \in messages' : StillTold(m)
BY DEF StillTold

Reading(what, e, side) == [Do(what) EXCEPT !.event = e, !.side = side]
Saying(e, side, n) == [Do("say") EXCEPT !.event = e, !.side = side, !.n = n]
LEMMA TalkDo ==
    ASSUME NEW e \in Events, NEW side \in {"player", "staff"}
    PROVE  /\ \A what \in TalkWork :
                /\ Reading(what, e, side) \in SoundStep /\ Reading(what, e, side).do = what
                /\ Reading(what, e, side).event = e /\ Reading(what, e, side).side = side
           /\ \A n \in Values : Saying(e, side, n) \in SoundStep /\ Saying(e, side, n).do = "say"
<1>1. \A what \in TalkWork :
         what \notin SheetWork \cup {"book", "role", "link", "deleteChar", "copy", "point"}
                        \cup Arrival
  BY DEF TalkWork, SheetWork, Arrival
<1>2. ASSUME NEW what \in TalkWork
      PROVE  /\ Reading(what, e, side) \in SoundStep /\ Reading(what, e, side).do = what
             /\ Reading(what, e, side).event = e /\ Reading(what, e, side).side = side
  <2>1. Do(what) \in Step /\ Do(what).do = what
    BY DoIs
  <2>2. PICK t : t = Reading(what, e, side)
    OBVIOUS
  <2>3. t \in Step /\ t.do = what /\ t.event = e /\ t.side = side
    BY <2>1, <2>2 DEF Step, Reading
  <2>4. t \in SoundStep
    BY <1>1, <2>3 DEF SoundStep, SheetWork
  <2> QED
    BY <2>2, <2>3, <2>4
<1>3. ASSUME NEW n \in Values
      PROVE  Saying(e, side, n) \in SoundStep /\ Saying(e, side, n).do = "say"
  <2>1. Do("say") \in Step /\ Do("say").do = "say"
    BY DoIs DEF TalkWork
  <2>2. PICK t : t = Saying(e, side, n)
    OBVIOUS
  <2>3. t \in Step /\ t.do = "say" /\ t.event = e
    BY <2>1, <2>2 DEF Step, Saying
  <2>4. t \in SoundStep
    BY <1>1, <2>3 DEF SoundStep, SheetWork, TalkWork
  <2> QED
    BY <2>2, <2>3, <2>4
<1> QED
  BY <1>2, <1>3

LEMMA ReadPlan ==
    ASSUME NEW e \in Events, NEW side \in {"player", "staff"}
    PROVE  LET q == ReadSteps(e, side)
           IN  /\ q \in Seq(SoundStep) /\ Plan(q) /\ q # <<>> /\ Head(q).do # "mark"
               /\ \A i \in DOMAIN q : q[i].do \in TalkWork
<1>1. PICK q, s, t : /\ q = ReadSteps(e, side)
                     /\ s = Reading("show", e, side) /\ t = Reading("mark", e, side)
  OBVIOUS
<1>2. /\ s \in SoundStep /\ t \in SoundStep /\ s.do = "show" /\ t.do = "mark"
      /\ s.event = t.event /\ s.side = t.side
  BY <1>1, TalkDo DEF TalkWork
<1>3. q = <<s, t>>
  BY <1>1 DEF ReadSteps, Reading
<1>4. q \in Seq(SoundStep) /\ DOMAIN q = {1, 2} /\ q[1] = s /\ q[2] = t /\ q # <<>> /\ Head(q) = s
  BY <1>2, <1>3
<1>5. \A i \in DOMAIN q : q[i].do \in TalkWork /\ q[i].do \in {"show", "mark"}
  BY <1>2, <1>4 DEF TalkWork
<1>6. Plan(q)
  <2>1. OneKind(q)
    BY <1>5 DEF OneKind
  <2>2. \A i \in DOMAIN q : q[i].do \notin Lone \cup Handling
    BY <1>5 DEF Lone, SheetWork, PlaceWork, Arrival, Handling
  <2>3. \A i \in DOMAIN q : q[i].do = "mark" /\ i > 1 =>
           q[i - 1].do = "show" /\ q[i - 1].event = q[i].event /\ q[i - 1].side = q[i].side
    BY <1>2, <1>4
  <2> QED
    BY <2>1, <2>2, <2>3 DEF Plan, Handling
<1> QED
  BY <1>1, <1>2, <1>4, <1>5, <1>6

LEMMA PostPlan ==
    ASSUME NEW e \in Events, NEW side \in {"player", "staff"}, NEW n \in Values
    PROVE  LET q == <<Saying(e, side, n)>> \o ReadSteps(e, side)
           IN  /\ q \in Seq(SoundStep) /\ Plan(q) /\ q # <<>> /\ Head(q).do # "mark"
               /\ \A i \in DOMAIN q : q[i].do \in TalkWork
<1>1. PICK q, r, s, t :
         /\ q = <<Saying(e, side, n)>> \o ReadSteps(e, side) /\ r = Saying(e, side, n)
         /\ s = Reading("show", e, side) /\ t = Reading("mark", e, side)
  OBVIOUS
<1>2. /\ s \in SoundStep /\ t \in SoundStep /\ s.do = "show" /\ t.do = "mark"
      /\ s.event = t.event /\ s.side = t.side /\ r \in SoundStep /\ r.do = "say"
  BY <1>1, TalkDo DEF TalkWork
<1>3. q = <<r>> \o <<s, t>>
  BY <1>1 DEF ReadSteps, Reading
<1>4. /\ <<r>> \in Seq(SoundStep) /\ Len(<<r>>) = 1
      /\ <<s, t>> \in Seq(SoundStep) /\ Len(<<s, t>>) = 2
  BY <1>2
<1>5. /\ q \in Seq(SoundStep) /\ DOMAIN q = {1, 2, 3} /\ q[1] = r /\ q[2] = s /\ q[3] = t
      /\ q # <<>> /\ Head(q) = r
  <2>1. q \in Seq(SoundStep) /\ Len(q) = 3
    BY <1>3, <1>4
  <2>2. q[1] = r /\ q[2] = s /\ q[3] = t
    BY <1>3, <1>4, <2>1
  <2>3. DOMAIN q = 1..3 /\ q # <<>> /\ Head(q) = q[1]
    BY <2>1
  <2> QED
    BY <2>1, <2>2, <2>3
<1>6. \A i \in DOMAIN q : q[i].do \in TalkWork /\ q[i].do \in {"say", "show", "mark"}
  BY <1>2, <1>5 DEF TalkWork
<1>7. Plan(q)
  <2>1. OneKind(q)
    BY <1>6 DEF OneKind
  <2>2. \A i \in DOMAIN q : q[i].do \notin Lone \cup Handling
    BY <1>6 DEF Lone, SheetWork, PlaceWork, Arrival, Handling
  <2>3. \A i \in DOMAIN q : q[i].do = "mark" /\ i > 1 =>
           q[i - 1].do = "show" /\ q[i - 1].event = q[i].event /\ q[i - 1].side = q[i].side
    BY <1>2, <1>5
  <2> QED
    BY <2>1, <2>2, <2>3 DEF Plan, Handling
<1> QED
  BY <1>1, <1>2, <1>5, <1>6, <1>7

LEMMA ReadThreadKeeps ==
    ASSUME Inv, NEW h \in Handlers, NEW e \in Events, NEW side \in {"player", "staff"},
           ReadThread(h, e, side)
    PROVE  Inv'
<1>1. TalkTypes
  BY TypeParts DEF Inv
<1>2. TalkTypes' /\ \A m \in messages' : StillTold(m)
  BY <1>1, TalkTypesStay, AllStillTold DEF ReadThread
<1>3. Start(h, ReadSteps(e, side)) /\ UNCHANGED <<sheetVars, places, fileVars, history>>
  BY DEF ReadThread
<1> PICK q : q = ReadSteps(e, side)
  OBVIOUS
<1>4. /\ q \in Seq(SoundStep) /\ Plan(q) /\ q # <<>> /\ Head(q).do # "mark"
      /\ \A i \in DOMAIN q : q[i].do \in TalkWork
  BY ReadPlan
<1> QED
  BY <1>2, <1>3, <1>4, TalkStarts

LEMMA PostKeeps ==
    ASSUME Inv, NEW h \in Handlers, NEW e \in Events, NEW side \in {"player", "staff"},
           Post(h, e, side)
    PROVE  Inv'
<1>1. TalkTypes /\ Counts /\ Typed /\ JobsSound
  BY TypeParts DEF Inv
<1>2. TalkTypes' /\ \A m \in messages' : StillTold(m)
  BY <1>1, TalkTypesStay, AllStillTold DEF Post
<1>q. PICK q : q = <<Saying(e, side, requests + 1)>> \o ReadSteps(e, side)
  OBVIOUS
<1>3. Start(h, q) /\ UNCHANGED <<sheetVars, places, fileVars, history>>
  BY <1>q DEF Post, Saying
<1>4. requests + 1 \in Values
  <2>1. Request
    BY <1>3 DEF Start
  <2> QED
    BY <1>1, <2>1, ConstantsFit DEF Request, Counts, Values
<1>5. /\ q \in Seq(SoundStep) /\ Plan(q) /\ q # <<>> /\ Head(q).do # "mark"
      /\ \A i \in DOMAIN q : q[i].do \in TalkWork
  BY <1>4, <1>q, PostPlan
<1> QED
  BY <1>2, <1>3, <1>5, TalkStarts

LEMMA RespondKeeps ==
    ASSUME Inv, NEW h \in Handlers, NEW m \in messages, Respond(h, m)
    PROVE  Inv'
<1>1. TalkTypes
  BY TypeParts DEF Inv
<1>2. /\ m.n \in Values /\ m.event \in Events /\ m.side \in {"player", "staff"}
      /\ m.shown \in BOOLEAN /\ m.read \in BOOLEAN
  BY <1>1 DEF TalkTypes
<1>r. PICK r : r = [m EXCEPT !.proposal = "answered"]
  OBVIOUS
<1>3. /\ r \in [n : Values, event : Events, side : {"player", "staff"},
                proposal : {"none", "open", "answered"}, shown : BOOLEAN, read : BOOLEAN]
      /\ r.n = m.n /\ r.event = m.event /\ r.side = m.side /\ r.shown = m.shown
      /\ r.read = m.read
  BY <1>1, <1>r DEF TalkTypes
<1>4. messages' = (messages \ {m}) \cup {r}
  BY <1>r DEF Respond
<1>5. TalkTypes'
  BY <1>1, <1>3, <1>4 DEF TalkTypes
<1>6. \A x \in messages' : StillTold(x)
  BY <1>3, <1>4 DEF StillTold
<1>7. Start(h, ReadSteps(m.event, "player")) /\ UNCHANGED <<sheetVars, places, fileVars, history>>
  BY DEF Respond
<1> PICK q : q = ReadSteps(m.event, "player")
  OBVIOUS
<1>8. /\ q \in Seq(SoundStep) /\ Plan(q) /\ q # <<>> /\ Head(q).do # "mark"
      /\ \A i \in DOMAIN q : q[i].do \in TalkWork
  BY <1>2, ReadPlan
<1> QED
  BY <1>5, <1>6, <1>7, <1>8, TalkStarts

LEMMA SayKeeps ==
    ASSUME Inv, NEW h \in Handlers, NEW proposal \in {"none", "open"}, Say(h, proposal)
    PROVE  Inv'
<1>1. JobsSound /\ TalkTypes /\ Counts /\ history \in Excuses
  BY TypeParts DEF Inv
<1> PICK s : s = Now(h)
  OBVIOUS
<1>2. /\ job[h] # <<>> /\ s.do = "say" /\ s.do \in TalkWork
      /\ UNCHANGED <<sheetVars, places, fileVars>>
  BY DEF Say, Doing, Now, TalkWork
<1>3. s \in SoundStep /\ s.n \in Values /\ s.side \in {"player", "staff"} /\ s.event \in Events
  <2>1. s \in SoundStep /\ s \in Step
    BY <1>1, <1>2, NowIs
  <2> QED
    BY <1>2, <2>1, StepFields DEF SoundStep
<1>4. CASE Refuse(h) /\ UNCHANGED <<messages, history>>
  <2>1. /\ JobsSound' /\ job'[h] = <<>> /\ Steps(h)' = {}
        /\ \A g \in Handlers \ {h} : job'[g] = job[g] /\ Steps(g)' = Steps(g)
        /\ requests' = requests /\ faults' = faults /\ ops' = ops
    BY <1>1, <1>4, RefuseIs
  <2>2. TalkStep(h)
    <3>1. requests' \in 0..MaxRequests /\ requests <= requests'
      BY <1>1, <2>1, ConstantsFit DEF Counts
    <3> QED
      BY <1>1, <1>2, <1>4, <2>1, <3>1 DEF TalkStep
  <2>3. ~Doing(h, "mark")'
    BY <2>1 DEF Doing
  <2>4. TalkTypes' /\ \A m \in messages' : StillTold(m)
    BY <1>1, <1>4, TalkTypesStay, AllStillTold
  <2> QED
    BY <2>2, <2>3, <2>4, TalkStepKeeps
<1>m. PICK m : m = [n |-> s.n, event |-> s.event, side |-> s.side, proposal |-> proposal,
                    shown |-> FALSE, read |-> FALSE]
  OBVIOUS
<1>l. PICK late : late = When(\E g \in Handlers : Doing(g, "mark"), {s.n})
  OBVIOUS
<1>5. CASE messages' = messages \cup {m} /\ Past("late", late) /\ Then(h, <<>>)
  <2>1. /\ JobsSound'
        /\ \A g \in Handlers \ {h} : job'[g] = job[g] /\ Steps(g)' = Steps(g)
        /\ \A t \in Steps(h)' : t.do \in TalkWork
        /\ requests' = requests /\ faults' = faults /\ ops' = ops
        /\ requests' \in 0..MaxRequests /\ requests <= requests' /\ ~Doing(h, "mark")'
    BY <1>2, <1>5, TalkRest
  <2>2. late \in SUBSET Values
    BY <1>3, <1>l DEF When
  <2>3. /\ history' \in Excuses
        /\ history'.late = history.late \cup late
        /\ history'.accepted = history.accepted /\ history'.strangers = history.strangers
        /\ history'.secret = history.secret /\ history'.overtaken = history.overtaken
        /\ history'.tangled = history.tangled /\ history'.interrupted = history.interrupted
        /\ history'.raced = history.raced /\ history'.relinked = history.relinked
        /\ history'.unwarned = history.unwarned /\ history'.left = history.left
        /\ history'.mixed = history.mixed /\ history'.crowded = history.crowded
    BY <1>1, <1>5, <2>2, PastLate
  <2>4. TalkStep(h)
    BY <1>2, <2>1, <2>3 DEF TalkStep
  <2>5. /\ m \in [n : Values, event : Events, side : {"player", "staff"},
                  proposal : {"none", "open", "answered"}, shown : BOOLEAN, read : BOOLEAN]
        /\ ~m.read /\ m.n = s.n
    BY <1>3, <1>m
  <2>6. TalkTypes'
    BY <1>1, <1>5, <2>5 DEF TalkTypes
  <2>7. StillTold(m)
    BY <1>l, <2>3, <2>5 DEF StillTold, When
  <2>8. \A x \in messages : StillTold(x)
    BY DEF StillTold
  <2> QED
    BY <1>5, <2>1, <2>4, <2>6, <2>7, <2>8, TalkStepKeeps
<1> QED
  BY <1>4, <1>5, <1>m, <1>l DEF Say

LEMMA ShowKeeps ==
    ASSUME Inv, NEW h \in Handlers, Show(h)
    PROVE  Inv'
<1>1. JobsSound /\ TalkTypes /\ Counts /\ history \in Excuses
  BY TypeParts DEF Inv
<1> PICK s : s = Now(h)
  OBVIOUS
<1>2. /\ job[h] # <<>> /\ s.do = "show" /\ s.do \in TalkWork /\ Then(h, <<>>)
      /\ UNCHANGED <<sheetVars, places, fileVars, history>>
  BY DEF Show, Doing, Now, TalkWork
<1>3. /\ JobsSound'
      /\ \A g \in Handlers \ {h} : job'[g] = job[g] /\ Steps(g)' = Steps(g)
      /\ \A t \in Steps(h)' : t.do \in TalkWork
      /\ requests' = requests /\ faults' = faults /\ ops' = ops
      /\ requests' \in 0..MaxRequests /\ requests <= requests'
      /\ Doing(h, "mark")' => Now(h)'.event = s.event /\ Now(h)'.side = s.side
  BY <1>2, TalkRest
<1>4. TalkStep(h)
  BY <1>1, <1>2, <1>3 DEF TalkStep
<1>m. PICK M : M = [m \in messages |-> [m EXCEPT !.shown = TRUE]]
  OBVIOUS
<1>s. PICK seen : seen = {m \in messages : m.event = s.event /\ m.side # s.side}
  OBVIOUS
<1>5. \A m \in messages :
         /\ M[m] \in [n : Values, event : Events, side : {"player", "staff"},
                      proposal : {"none", "open", "answered"}, shown : BOOLEAN, read : BOOLEAN]
         /\ M[m].n = m.n /\ M[m].event = m.event /\ M[m].side = m.side
         /\ M[m].shown = TRUE /\ M[m].read = m.read
  BY <1>1, <1>m DEF TalkTypes
<1>6. messages' = (messages \ seen) \cup {M[m] : m \in seen}
  BY <1>m, <1>s DEF Show, MessagesOf
<1>7. \A x \in messages' : (x \in messages /\ x \notin seen) \/ \E m \in seen : x = M[m]
  BY <1>6
<1>8. seen \subseteq messages
  BY <1>s
<1>9. TalkTypes'
  BY <1>1, <1>5, <1>7, <1>8 DEF TalkTypes
<1>10. \A x \in messages' : StillTold(x)
  <2> TAKE x \in messages'
  <2>1. CASE x \in messages
    BY <2>1 DEF StillTold
  <2>2. CASE \E m \in seen : x = M[m]
    BY <1>5, <1>8, <2>2 DEF StillTold
  <2> QED
    BY <1>7, <2>1, <2>2
<1>11. Doing(h, "mark")' => \A x \in messages' :
          x.event = Now(h)'.event /\ x.side # Now(h)'.side => x.shown \/ x.n \in history'.late
  <2> SUFFICES ASSUME NEW x \in messages', x.event = s.event, x.side # s.side
               PROVE  x.shown
    BY <1>3
  <2>1. PICK m \in seen : x = M[m]
    BY <1>7, <1>s
  <2> QED
    BY <1>5, <1>8, <2>1
<1> QED
  BY <1>4, <1>9, <1>10, <1>11, TalkStepKeeps

LEMMA MarkReadKeeps ==
    ASSUME Inv, NEW h \in Handlers, MarkRead(h)
    PROVE  Inv'
<1>1. JobsSound /\ TalkInv /\ TalkTypes /\ Counts /\ history \in Excuses
  BY TypeParts DEF Inv
<1> PICK s : s = Now(h)
  OBVIOUS
<1>2. /\ job[h] # <<>> /\ s.do = "mark" /\ s.do \in TalkWork /\ Then(h, <<>>)
      /\ Doing(h, "mark") /\ UNCHANGED <<sheetVars, places, fileVars, history>>
  BY DEF MarkRead, Doing, Now, TalkWork
<1>3. /\ JobsSound'
      /\ \A g \in Handlers \ {h} : job'[g] = job[g] /\ Steps(g)' = Steps(g)
      /\ \A t \in Steps(h)' : t.do \in TalkWork
      /\ requests' = requests /\ faults' = faults /\ ops' = ops
      /\ requests' \in 0..MaxRequests /\ requests <= requests' /\ ~Doing(h, "mark")'
  BY <1>2, TalkRest
<1>4. TalkStep(h)
  BY <1>1, <1>2, <1>3 DEF TalkStep
<1>m. PICK M : M = [m \in messages |-> [m EXCEPT !.read = TRUE]]
  OBVIOUS
<1>s. PICK seen : seen = ToSide(s)
  OBVIOUS
<1>5. \A m \in messages :
         /\ M[m] \in [n : Values, event : Events, side : {"player", "staff"},
                      proposal : {"none", "open", "answered"}, shown : BOOLEAN, read : BOOLEAN]
         /\ M[m].n = m.n /\ M[m].event = m.event /\ M[m].side = m.side
         /\ M[m].shown = m.shown
  BY <1>1, <1>m DEF TalkTypes
<1>6. seen \subseteq messages /\ \A m \in seen : m.event = s.event /\ m.side # s.side
  BY <1>s DEF ToSide, MessagesOf
<1>7. messages' = (messages \ seen) \cup {M[m] : m \in seen}
  <2>1. messages' = (messages \ seen) \cup {[m EXCEPT !.read = TRUE] : m \in seen}
    BY <1>s DEF MarkRead
  <2> QED
    BY <1>m, <1>6, <2>1
<1>8. \A x \in messages' : x \in messages \/ \E m \in seen : x = M[m]
  BY <1>7
<1>9. TalkTypes'
  BY <1>1, <1>5, <1>6, <1>8 DEF TalkTypes
<1>10. \A m \in seen : m.shown \/ m.n \in history.late
  BY <1>1, <1>2, <1>6 DEF TalkInv, ShownBefore, MessagesOf
<1>11. \A x \in messages' : StillTold(x)
  <2> TAKE x \in messages'
  <2>1. CASE x \in messages
    BY <2>1 DEF StillTold
  <2>2. CASE \E m \in seen : x = M[m]
    BY <1>5, <1>6, <1>10, <2>2 DEF StillTold
  <2> QED
    BY <1>8, <2>1, <2>2
<1> QED
  BY <1>3, <1>4, <1>9, <1>11, TalkStepKeeps

-----------------------------------------------------------------------------
(* The storage is changed, a request is interrupted *)

LEMMA ChangeBackendKeeps ==
    ASSUME Inv, NEW b \in Backends, ChangeBackend(b)
    PROVE  Inv'
<1>1. /\ Typed /\ JobsSound /\ SheetInv /\ LinkInv /\ TalkInv /\ FileInv /\ SheetTypes
      /\ PlaceTypes /\ FileTypes /\ TalkTypes /\ history \in Excuses /\ Counts
  BY TypeParts DEF Inv
<1>2. /\ Once /\ backend' = b
      /\ UNCHANGED <<sheetVars, places, files, store, messages, history>>
  BY DEF ChangeBackend
<1>3. /\ JobsSound' /\ job' = job
      /\ requests' = requests + 1 /\ requests' \in 0..MaxRequests
      /\ faults' = faults /\ ops' = ops
  BY <1>1, <1>2, OnceIs
<1>4. \A work \in Works : Elsewhere(work)
  BY <1>3, NothingMoves
<1>5. KeepsSheets /\ KeepsLinks /\ KeepsTalk /\ KeepsFiles
  <2>1. requests \in Nat /\ requests' \in Nat /\ requests <= requests'
    BY <1>1, <1>3, ConstantsFit DEF Counts
  <2> QED
    BY <1>2, <2>1 DEF KeepsSheets, KeepsLinks, KeepsTalk, KeepsFiles, sheetVars
<1>6. SheetInv' /\ LinkInv' /\ TalkInv' /\ FileInv'
  BY <1>1, <1>3, <1>4, <1>5, SheetsElsewhere, LinksElsewhere, TalkElsewhere, FilesElsewhere
     DEF Works
<1>7. Typed'
  <2>1. SheetTypes' /\ PlaceTypes' /\ TalkTypes'
    BY <1>1, <1>2, SheetTypesStay, PlaceTypesStay, TalkTypesStay DEF sheetVars
  <2>2. FileTypes'
    BY <1>1, <1>2 DEF FileTypes, sheetVars
  <2>3. Counts'
    BY <1>1, <1>3 DEF Counts
  <2>4. history' \in Excuses
    BY <1>1, <1>2
  <2> QED
    BY <1>3, <2>1, <2>2, <2>3, <2>4, TypedNext
<1> QED
  BY <1>3, <1>6, <1>7 DEF Inv

LEMMA RestartKeeps ==
    ASSUME Inv, NEW h \in Handlers, Restart(h)
    PROVE  Inv'
<1>1. /\ Typed /\ JobsSound /\ SheetInv /\ LinkInv /\ TalkInv /\ FileInv /\ SheetTypes
      /\ PlaceTypes /\ FileTypes /\ TalkTypes /\ history \in Excuses /\ Counts
  BY TypeParts DEF Inv
<1>2. /\ job[h] # <<>> /\ job' = [job EXCEPT ![h] = <<>>] /\ faults < MaxFaults
      /\ faults' = faults + 1
      /\ UNCHANGED <<sheetVars, places, fileVars, messages, requests, ops>>
  BY DEF Restart, Idle
<1>3. /\ JobsSound' /\ job'[h] = <<>> /\ Steps(h)' = {}
      /\ \A g \in Handlers \ {h} : job'[g] = job[g] /\ Steps(g)' = Steps(g)
  BY <1>1, <1>2, EndIs
<1>c. PICK cs : cs = {s.char : s \in {t \in Steps(h) : t.do = "review"}}
  OBVIOUS
<1>f. PICK fs : fs = {s.spot.file : s \in
                        {t \in Steps(h) : t.do \in {"insertFile", "point", "remove"}}}
  OBVIOUS
<1>4. Steps(h) \subseteq SoundStep
  BY <1>1, RunningIs
<1>5. cs \in SUBSET SheetIds
  <2>1. \A s \in Steps(h) : s.do = "review" => s.char \in SheetIds
    BY <1>4 DEF SoundStep, SheetWork
  <2> QED
    BY <1>c, <2>1
<1>6. fs \in SUBSET FileIds
  <2>1. \A s \in Steps(h) : s.spot.file \in FileIds
    BY <1>4, SoundIsStep, StepFields DEF Spot
  <2> QED
    BY <1>f, <2>1
<1>7. history' = [history EXCEPT !.interrupted = @ \cup cs, !.left = @ \cup fs]
  BY <1>c, <1>f DEF Restart
<1>8. /\ history' \in Excuses
      /\ history'.interrupted = history.interrupted \cup cs
      /\ history'.left = history.left \cup fs
      /\ history'.accepted = history.accepted /\ history'.strangers = history.strangers
      /\ history'.secret = history.secret /\ history'.overtaken = history.overtaken
      /\ history'.tangled = history.tangled /\ history'.raced = history.raced
      /\ history'.relinked = history.relinked /\ history'.unwarned = history.unwarned
      /\ history'.mixed = history.mixed /\ history'.crowded = history.crowded
      /\ history'.late = history.late
  BY <1>1, <1>5, <1>6, <1>7, PastRestart
<1>9. SheetInv'
  <2>1. \A s \in Steps(h) : s.do = "review" => s.char \in history'.interrupted
    BY <1>8, <1>c
  <2> QED
    BY <1>1, <1>2, <1>3, <1>8, <2>1, SheetStepsGo
<1>10. LinkInv'
  <2>1. \A s : s \in Running' => s \in Running
    BY <1>3 DEF Running
  <2>2. history.unwarned \subseteq history.relinked
    BY <1>1 DEF LinkInv, LinksAreSound
  <2> QED
    BY <1>1, <1>2, <1>8, <2>1, <2>2, LinksShrink
<1>11. ~Doing(h, "mark")' /\ ~Doing(h, "remove")' /\ ~Doing(h, "point")'
  BY <1>3 DEF Doing
<1>12. TalkInv'
  <2>1. ShownBefore'
    <3> SUFFICES ASSUME NEW g \in Handlers, Doing(g, "mark")', NEW m \in messages,
                        m.event = Now(g)'.event, m.side # Now(g)'.side
                 PROVE  m.shown \/ m.n \in history'.late
      BY <1>2 DEF ShownBefore, MessagesOf
    <3>1. Doing(g, "mark") /\ Now(g)' = Now(g)
      BY <1>3, <1>11, HeadsStay
    <3> QED
      BY <1>1, <1>8, <3>1 DEF TalkInv, ShownBefore, MessagesOf
  <2>2. ReadMeansShown'
    BY <1>1, <1>2, <1>8 DEF TalkInv, ReadMeansShown
  <2> QED
    BY <2>1, <2>2 DEF TalkInv
<1>13. FileInv'
  <2>1. \A x : Hers(h, x) => x.file \in history'.left
    <3> SUFFICES ASSUME NEW x, Hers(h, x) PROVE x.file \in history'.left
      OBVIOUS
    <3>1. Now(h).spot.file = x.file /\ Now(h).do \in {"point", "remove", "insertFile"}
      BY <1>1, HersIs
    <3>2. Now(h) \in Steps(h)
      BY <1>1, <1>2, NowIs
    <3> QED
      BY <1>8, <1>f, <3>1, <3>2
  <2> QED
    BY <1>1, <1>2, <1>3, <1>8, <1>11, <2>1, FileStepsGo DEF fileVars
<1>14. Typed'
  <2>1. SheetTypes' /\ PlaceTypes' /\ TalkTypes' /\ FileTypes'
    BY <1>1, <1>2, SheetTypesStay, PlaceTypesStay, TalkTypesStay, FileTypesStay DEF sheetVars
  <2>2. Counts'
    BY <1>1, <1>2, ConstantsFit DEF Counts
  <2> QED
    BY <1>3, <1>8, <2>1, <2>2, TypedNext
<1> QED
  BY <1>3, <1>9, <1>10, <1>12, <1>13, <1>14 DEF Inv

-----------------------------------------------------------------------------
(* In the beginning *)

LEMMA InitJobs ==
    ASSUME Init
    PROVE  /\ JobsSound /\ Running = {} /\ \A h \in Handlers : Steps(h) = {}
           /\ \A h \in Handlers : \A what : ~Doing(h, what)
<1>1. \A h \in Handlers : job[h] = <<>>
  BY DEF Init
<1>2. JobsSound
  <2>1. job = [h \in Handlers |-> <<>>]
    BY DEF Init
  <2> QED
    BY <2>1, EmptyJob DEF JobsSound
<1>3. \A h \in Handlers : Steps(h) = {}
  BY <1>1 DEF Steps
<1>4. \A h \in Handlers : \A what : ~Doing(h, what)
  BY <1>1 DEF Doing
<1> QED
  BY <1>2, <1>3, <1>4 DEF Running
LEMMA InitHistory ==
    ASSUME Init
    PROVE  /\ history \in Excuses /\ history.strangers = {} /\ history.unwarned = {}
           /\ history.mixed = {} /\ history.left = {}
           /\ \A c \in SheetIds : history.secret[c] = 0
<1>1. history = [accepted |-> {}, strangers |-> {}, secret |-> [c \in SheetIds |-> 0],
                 overtaken |-> {}, tangled |-> {}, interrupted |-> {}, raced |-> {},
                 relinked |-> {}, unwarned |-> {}, left |-> {}, mixed |-> {},
                 crowded |-> {}, late |-> {}]
  BY DEF Init
<1>2. [c \in SheetIds |-> 0] \in [SheetIds -> Values]
  BY Blanks
<1>3. history \in Excuses
  BY <1>1, <1>2 DEF Excuses
<1> QED
  BY <1>1, <1>3
\* At most one place names a character, and at most one file is there.
LEMMA InitPlaces ==
    ASSUME Init
    PROVE  /\ PlaceTypes
           /\ \A d, e \in Events : places[d].role = "sc" /\ places[e].role = "sc" => d = e
<1>1. PICK linked \in When("linked" \in ops, {{e} : e \in Events}) \cup {{}},
           p \in [role : {"sc", "nsc"}, char : Given, nsc : {NoChar}] :
             places = [e \in Events |-> IF e \in linked THEN p ELSE NoPlace]
  BY DEF Init
<1>2. p \in Place /\ p.char \in Given /\ p.nsc = NoChar /\ p.role \in {"sc", "nsc"}
  <2>1. Given \subseteq Characters
    BY ConstantsFit
  <2> QED
    BY <1>1, <2>1 DEF Place, Role, MaybeChar
<1>3. \A e \in Events : places[e] = p \/ places[e] = NoPlace
  BY <1>1
<1>4. NoPlace \in Place /\ NoPlace.char = NoChar /\ NoPlace.nsc = NoChar /\ NoPlace.role = "none"
  BY Blanks DEF NoPlace
<1>5. places \in [Events -> Place]
  BY <1>1, <1>2, <1>4
<1>6. exists = Given
  BY DEF Init
<1>7. \A e \in Events : {places[e].char, places[e].nsc} \subseteq exists \cup {NoChar}
  BY <1>2, <1>3, <1>4, <1>6
<1>8. \A e \in Events : places[e].role \in {"none", "other"} => places[e].char = NoChar
  BY <1>2, <1>3, <1>4
<1>9. \A d, e \in linked : d = e
  BY <1>1 DEF When
<1>10. \A e \in Events : places[e].role = "sc" => e \in linked
  BY <1>1, <1>4
<1> QED
  BY <1>5, <1>7, <1>8, <1>9, <1>10 DEF PlaceTypes
LEMMA InitFiles ==
    ASSUME Init
    PROVE  FileTypes /\ \A c : Cardinality(FilesOf(c)) <= Quota
<1>1. PICK row : row = [spot |-> Legacy, char |-> CHOOSE c \in Given : TRUE]
  OBVIOUS
<1>2. /\ files = When("legacy" \in ops, {row}) /\ ops \in Scenarios /\ exists = Given
      /\ store = {f.spot : f \in files} /\ backend = "local"
  BY <1>1 DEF Init
<1>3. /\ files \subseteq {row}
      /\ files # {} => row \in [spot : Spot, char : Characters] /\ row.char \in exists
                       /\ Quota >= 1
  <2>1. files \subseteq {row} /\ (files # {} => "legacy" \in ops)
    BY <1>2 DEF When
  <2>2. Legacy \in Spot
    BY SomeFile DEF Legacy, Spot, Backends
  <2>3. "legacy" \in ops => Given # {} /\ Quota >= 1
    BY <1>2, CharactersAssumption
  <2>4. Given # {} => row.char \in Given
    BY <1>1
  <2> QED
    BY <1>1, <1>2, <2>1, <2>2, <2>3, <2>4, ConstantsFit
<1>4. IsFiniteSet({row}) /\ Cardinality({row}) = 1
  BY FS_Singleton
<1>5. IsFiniteSet(files)
  BY <1>3, <1>4, FS_Subset
<1>6. FileTypes
  <2>1. files \subseteq [spot : Spot, char : Characters] /\ \A f \in files : f.char \in exists
    BY <1>3
  <2>2. store \subseteq Spot
    BY <1>2, <2>1
  <2>3. backend \in Backends
    BY <1>2 DEF Backends
  <2> QED
    BY <1>3, <1>5, <2>1, <2>2, <2>3 DEF FileTypes
<1>7. \A c : Cardinality(FilesOf(c)) <= Quota
  <2> TAKE c
  <2>1. PICK mine : mine = FilesOf(c)
    OBVIOUS
  <2>2. mine \subseteq files
    BY <2>1 DEF FilesOf
  <2>3. CASE mine = {}
    <3>1. Cardinality(mine) = 0
      BY <2>3, FS_EmptySet
    <3> QED
      BY <2>1, <3>1, ConstantsFit
  <2>4. CASE mine # {}
    <3>1. mine = {row} /\ Quota >= 1
      BY <1>3, <2>2, <2>4
    <3> QED
      BY <1>4, <2>1, <3>1
  <2> QED
    BY <2>3, <2>4
<1> QED
  BY <1>6, <1>7

LEMMA InitInv == Init => Inv
<1> SUFFICES ASSUME Init PROVE Inv
  OBVIOUS
<1>1. /\ exists = Given /\ sheets = [c \in SheetIds |-> Blank] /\ reviews = {}
      /\ store = {f.spot : f \in files} /\ messages = {}
      /\ requests = 0 /\ faults = 0 /\ ops \in Scenarios
  BY DEF Init
<1>2. /\ JobsSound /\ Running = {} /\ \A h \in Handlers : Steps(h) = {}
      /\ \A h \in Handlers : \A what : ~Doing(h, what)
  BY InitJobs
<1>3. /\ history \in Excuses /\ history.strangers = {} /\ history.unwarned = {}
      /\ history.mixed = {} /\ history.left = {} /\ \A c \in SheetIds : history.secret[c] = 0
  BY InitHistory
<1>4. \A c \in SheetIds : \A f \in Fields : sheets[c][f] = 0
  BY <1>1 DEF Blank
<1>5. Given \subseteq SheetIds /\ Account \in SheetIds /\ "name" \in Fields /\ "secret" \in Fields
  BY ConstantsFit DEF SheetIds, Fields
<1>6. Typed
  <2>1. SheetTypes
    BY <1>1, Blanks, ConstantsFit DEF SheetTypes
  <2>2. TalkTypes /\ Counts
    BY <1>1, ConstantsFit DEF TalkTypes, Counts
  <2> QED
    BY <1>2, <1>3, <2>1, <2>2, InitPlaces, InitFiles, TypeParts
<1>7. SheetInv
  <2>1. NumbersFresh
    <3>1. \A n \in Nat : n > requests => Unseen(Handlers, n)
      BY <1>1, <1>2, <1>3, <1>4 DEF Unseen
    <3> QED
      BY <1>2, <3>1 DEF NumbersFresh
  <2>2. Covers
    BY <1>1, <1>2, <1>3 DEF Covers, Covered
  <2>3. Born
    BY <1>1, <1>2 DEF Born, Unborn
  <2>4. SecretIsStaffs
    BY <1>1, <1>3, <1>4, <1>5 DEF SecretIsStaffs
  <2> QED
    BY <1>1, <2>1, <2>2, <2>3, <2>4 DEF SheetInv
<1>8. LinkInv
  <2>1. LinksAreSound
    BY <1>3, InitPlaces DEF LinksAreSound
  <2> QED
    BY <1>2, <2>1 DEF LinkInv, StillFree, Warned
<1>9. TalkInv
  BY <1>1, <1>2 DEF TalkInv, ShownBefore, ReadMeansShown
<1>10. FileInv
  <2>1. \A x \in store : \E f \in files : f.spot = x
    BY <1>1
  <2>2. \A f \in files : f.spot \in store
    BY <1>1
  <2>3. FilesAreSound
    BY <2>1, <2>2, InitFiles DEF FilesAreSound
  <2>4. AllNamed
    BY <2>1 DEF AllNamed, Named
  <2> QED
    BY <1>2, <2>3, <2>4 DEF FileInv, Arriving, Room, RowsStand, Gone, Copied
<1> QED
  BY <1>2, <1>6, <1>7, <1>8, <1>9, <1>10 DEF Inv

-----------------------------------------------------------------------------
(* Every step *)

LEMMA StutterKeeps ==
    ASSUME Inv, UNCHANGED cvars
    PROVE  Inv'
<1>1. /\ JobsSound /\ SheetInv /\ LinkInv /\ TalkInv /\ FileInv /\ SheetTypes
      /\ PlaceTypes /\ FileTypes /\ TalkTypes /\ history \in Excuses /\ Counts
  BY TypeParts DEF Inv
<1>2. UNCHANGED <<sheetVars, places, fileVars, messages, job, history, requests, faults, ops>>
  BY DEF cvars
<1>3. JobsSound'
  BY <1>1, <1>2 DEF JobsSound
<1>4. \A work \in Works : Elsewhere(work)
  BY <1>2, NothingMoves
<1>5. KeepsSheets /\ KeepsLinks /\ KeepsTalk /\ KeepsFiles
  <2>1. requests \in Nat /\ requests' \in Nat /\ requests <= requests'
    BY <1>1, <1>2, ConstantsFit DEF Counts
  <2> QED
    BY <1>2, <2>1 DEF KeepsSheets, KeepsLinks, KeepsTalk, KeepsFiles, sheetVars, fileVars
<1>6. SheetInv' /\ LinkInv' /\ TalkInv' /\ FileInv'
  BY <1>1, <1>3, <1>4, <1>5, SheetsElsewhere, LinksElsewhere, TalkElsewhere, FilesElsewhere
     DEF Works
<1>7. Typed'
  <2>1. SheetTypes' /\ PlaceTypes' /\ TalkTypes' /\ FileTypes'
    BY <1>1, <1>2, SheetTypesStay, PlaceTypesStay, TalkTypesStay, FileTypesStay DEF sheetVars
  <2>2. Counts' /\ history' \in Excuses
    BY <1>1, <1>2 DEF Counts
  <2> QED
    BY <1>3, <2>1, <2>2, TypedNext
<1> QED
  BY <1>3, <1>6, <1>7 DEF Inv

LEMMA NextInv == Inv /\ [Next]_cvars => Inv'
<1> SUFFICES ASSUME Inv, [Next]_cvars PROVE Inv'
  OBVIOUS
<1>1. CASE UNCHANGED cvars
  BY <1>1, StutterKeeps
<1>2. ASSUME NEW h \in Handlers, Proceed(h) PROVE Inv'
  <2>1. CASE Save(h) \/ Write(h) \/ Review(h)
    BY <2>1, SaveKeeps, WriteKeeps, ReviewKeeps
  <2>2. CASE InsertPlace(h) \/ UpdateRole(h) \/ UpdateCharacter(h) \/ DropCharacter(h)
    BY <2>2, InsertPlaceKeeps, UpdateCharacterKeeps, DropCharacterKeeps
  <2>3. CASE StoreBytes(h) \/ InsertFile(h) \/ DropRow(h) \/ RemoveBytes(h) \/ Copy(h) \/ Point(h)
    BY <2>3, StoreBytesKeeps, InsertFileKeeps, DropRowKeeps, RemoveBytesKeeps, CopyKeeps,
       PointKeeps
  <2>4. CASE (\E proposal \in {"none", "open"} : Say(h, proposal)) \/ Show(h) \/ MarkRead(h)
    BY <2>4, SayKeeps, ShowKeeps, MarkReadKeeps
  <2> QED
    BY <1>2, <2>1, <2>2, <2>3, <2>4 DEF Proceed
<1>3. ASSUME NEW h \in Handlers, Sheets(h) PROVE Inv'
  BY <1>3, OpenFormKeeps DEF Sheets
<1>4. ASSUME NEW h \in Handlers, Placing(h) PROVE Inv'
  <2>1. ASSUME NEW e \in Events, NEW p \in Place, Book(h, e, p) \/ ChangeRole(h, e, p)
        PROVE  Inv'
    BY <2>1, BookKeeps
  <2>2. ASSUME NEW e \in Events, NEW c \in MaybeChar, ChangeCharacter(h, e, c) PROVE Inv'
    BY <2>2, ChangeCharacterKeeps
  <2>3. ASSUME NEW e \in Events, Unregister(e) PROVE Inv'
    BY <2>3, UnregisterKeeps
  <2>4. ASSUME NEW e \in Events, NEW side \in {"player", "staff"},
               ReadThread(h, e, side) \/ Post(h, e, side)
        PROVE  Inv'
    BY <2>4, ReadThreadKeeps, PostKeeps
  <2>5. ASSUME NEW m \in messages, Respond(h, m) PROVE Inv'
    BY <2>5, RespondKeeps
  <2>6. ASSUME NEW c \in Characters, NEW force \in BOOLEAN, DeleteCharacter(h, c, force)
        PROVE  Inv'
    BY <2>6, DeleteCharacterKeeps
  <2> QED
    BY <1>4, <2>1, <2>2, <2>3, <2>4, <2>5, <2>6 DEF Placing
<1>5. ASSUME NEW h \in Handlers, Filing(h) PROVE Inv'
  BY <1>5, UploadKeeps, DeleteFileKeeps, MigrateKeeps DEF Filing
<1>6. ASSUME NEW h \in Handlers, Restart(h) PROVE Inv'
  BY <1>6, RestartKeeps
<1>7. CASE Judging
  BY <1>7, ResolveKeeps DEF Judging
<1>8. ASSUME NEW c \in Characters, CreateCharacter(c) PROVE Inv'
  BY <1>8, CreateCharacterKeeps
<1>9. ASSUME NEW b \in Backends, ChangeBackend(b) PROVE Inv'
  BY <1>9, ChangeBackendKeeps
<1> QED
  BY <1>1, <1>2, <1>3, <1>4, <1>5, <1>6, <1>7, <1>8, <1>9 DEF Next

-----------------------------------------------------------------------------
(* The theorems *)

\* What the other theorems rest on: beside the properties themselves, in which order the
\* statements of a request come (each handler of the characters' routes), that a number a
\* request still has to write stands nowhere else, that whatever a rejection would put back
\* was itself judged or is about to be (resolveReview), what a booking has checked, and who
\* answers for the bytes of a file while it is uploaded, moved or deleted.
THEOREM CInvariant == Spec => []Inv
<1>1. Init => Inv
  BY InitInv
<1>2. Inv /\ [Next]_cvars => Inv'
  BY NextInv
<1> QED
  BY <1>1, <1>2, PTL DEF Spec

\* The state is well typed; the foreign keys of registrations and character_files and
\* registrations_character_con_role_check are never broken.
THEOREM TypeCorrect == Spec => []TypeOK
<1>1. Inv => TypeOK
  BY DEF Inv, Typed
<1> QED
  BY <1>1, CInvariant, PTL

\* What somebody else wrote on a sheet stands there only as long as the owner has it before
\* them to judge, or once they accepted or sent it (updateCharacter, resolveReview),
\* however many requests write, record and judge at the same time.
THEOREM OwnerHasTheSayCorrect == Spec => []OwnerHasTheSay
<1>1. Inv => OwnerHasTheSay
  BY DEF Inv, SheetInv, Covers, Covered, ToJudge, Concerning, Undisturbed, OwnerHasTheSay
<1> QED
  BY <1>1, CInvariant, PTL

\* A staffOnly field holds what somebody with staff rights sent last, be it for a sheet of
\* their own, whatever the forms of other owners and of managers contain
\* (effectiveCustomFields and isElevated of updateCharacter).
THEOREM SecretCorrect == Spec => []SecretIsStaffs
<1>1. Inv => SecretIsStaffs
  BY DEF Inv, SheetInv
<1> QED
  BY <1>1, CInvariant, PTL

\* A character has a part at one event only (resolveCharacterId), and no place is lost with
\* a character without a warning before it (deleteCharacter).
THEOREM LinksCorrect == Spec => []LinksAreSound
<1>1. Inv => LinksAreSound
  BY DEF Inv, LinkInv
<1> QED
  BY <1>1, CInvariant, PTL

\* Bytes are where the rows of character_files say, none stay behind that no row names, also
\* while files are moved to another storage, and no character has more than its quota.
THEOREM FilesCorrect == Spec => []FilesAreSound
<1>1. Inv => FilesAreSound
  BY DEF Inv, FileInv
<1> QED
  BY <1>1, CInvariant, PTL

\* A message counts as read only if it was shown to the other side (readThread).
THEOREM ReadCorrect == Spec => []ReadMeansShown
<1>1. Inv => ReadMeansShown
  BY DEF Inv, TalkInv
<1> QED
  BY <1>1, CInvariant, PTL
=============================================================================
