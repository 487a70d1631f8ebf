----------------------------- MODULE Characters -----------------------------
(***************************************************************************)
(* One person's characters: the sheets that the owner, staff and group     *)
(* managers write, the reviews of what others wrote, the places at events  *)
(* that characters are linked to, their files and where the bytes are, and *)
(* the talk with the orga about NSC roles.  Translated from                *)
(* backend/characters, characterReviews, characterFiles, storageSettings,  *)
(* storage, nscDialog, groupTree/accountFields.js and the parts of         *)
(* registrations that link characters.                                     *)
(*                                                                         *)
(* A value on a sheet is the number of the request that sent it, 0 in the  *)
(* beginning.  The account's own fields are a sheet as well; the NSC       *)
(* questionnaire of a character is like its sheet and left out.            *)
(***************************************************************************)
EXTENDS Integers, Sequences, FiniteSets, SequencesExt

CONSTANTS
    Characters,   \* ids that the owner's characters may get
    Given,        \* those that exist in the beginning
    Events,       \* events the owner registers for
    FileIds,      \* ids of files
    Quota,        \* how many files a character may have (all are of one size)
    Handlers,     \* requests handled at the same time
    Scenarios,    \* which kinds of operations may happen together in one behaviour
    Edits,        \* fields that are changed together in a form
    MaxRequests,  \* bound on requests started
    MaxBrief,     \* ... in behaviours that are "brief"
    MaxFaults     \* bound on restarts and failures of the file storage

Account == "account"
NoChar == "none"
NoEvent == "none"
Backends == {"local", "s3"}
Fields == {"name", "own", "group", "secret"}
Shown == Fields \ {"secret"}   \* those that are not staffOnly

ASSUME CharactersAssumption ==
    /\ Given \subseteq Characters /\ {Account, NoChar} \cap Characters = {} /\ NoEvent \notin Events
    /\ Edits \subseteq SUBSET Fields /\ FileIds # {}
    /\ Quota \in Nat /\ MaxRequests \in Nat /\ MaxBrief \in 0..MaxRequests /\ MaxFaults \in Nat
    \* A legacy file belongs to a character and was within the quota.
    /\ (\E s \in Scenarios : "legacy" \in s) => Given # {} /\ Quota >= 1

VARIABLES
    exists,     \* the characters there are
    sheets,     \* what stands on the sheets
    reviews,    \* the pending changes the owner has not judged yet
    places,     \* the owner's registrations and the characters they name
    files,      \* the rows of character_files
    store,      \* where bytes are: [file, backend, key]
    backend,    \* the file storage set by the administrator
    messages,   \* the talk about NSC roles
    job,        \* the statements each handler still has to run
    history,    \* what the properties have to know about the past
    requests,   \* how many requests were started
    faults,     \* how many faults there were
    ops         \* the kinds of operations that happen in this behaviour

sheetVars == <<exists, sheets, reviews>>
fileVars == <<files, store, backend>>
cvars == <<sheetVars, places, fileVars, messages, job, history, requests, faults, ops>>

Values == 0..MaxRequests
Sheet == [Fields -> Values]
Blank == [f \in Fields |-> 0]
SheetIds == Characters \cup {Account}
MaybeChar == Characters \cup {NoChar}
Role == {"none", "other", "sc", "nsc"}
Place == [role : Role, char : MaybeChar, nsc : MaybeChar]
NoPlace == [role |-> "none", char |-> NoChar, nsc |-> NoChar]
Change == [field : Shown, from : Values, to : Values]
Spot == [file : FileIds, backend : Backends, key : {"flat", "folder"}]
\* Who fills in a form: the owner or who manages their account, who may have staff rights
\* too, other staff, and those who look after the owner's group.
Authors == {"owner", "staffOwner", "staff", "manager"}
Owns(by) == by \in {"owner", "staffOwner"}
IsElevated(by) == by \in {"staff", "staffOwner"}

Step ==
    [do : {"save", "write", "review", "create", "book", "role", "link", "deleteChar",
           "upload", "insertFile", "dropRow", "remove", "copy", "point", "say", "show",
           "mark"},
     char : SheetIds \cup {NoChar}, by : Authors, n : Values,
     touched : SUBSET Fields, form : Sheet, base : Sheet, changes : SUBSET Change,
     event : Events \cup {NoEvent}, place : Place, was : Place, warned : SUBSET Events,
     forced : BOOLEAN, spot : Spot, to : Backends, side : {"player", "staff"}]
Excuses ==
    [accepted : SUBSET (SheetIds \X Shown \X Values), strangers : SUBSET Values,
     secret : [SheetIds -> Values], overtaken : SUBSET SheetIds,
     tangled : SUBSET SheetIds, interrupted : SUBSET SheetIds,
     raced : SUBSET Characters, relinked : SUBSET Events, unwarned : SUBSET Events,
     left : SUBSET FileIds, mixed : SUBSET FileIds, crowded : SUBSET Characters,
     late : SUBSET Values]

TypeOK ==
    /\ exists \subseteq Characters
    /\ sheets \in [SheetIds -> Sheet]
    /\ reviews \subseteq [n : Values, char : SheetIds, changes : SUBSET Change]
    /\ places \in [Events -> Place]
    \* the foreign keys and registrations_character_con_role_check
    /\ \A e \in Events : {places[e].char, places[e].nsc} \subseteq exists \cup {NoChar}
    /\ \A e \in Events : places[e].role \in {"none", "other"} => places[e].char = NoChar
    /\ files \subseteq [spot : Spot, char : Characters]
    /\ \A f, g \in files : f.spot.file = g.spot.file => f = g
    /\ \A f \in files : f.char \in exists
    /\ store \subseteq Spot /\ backend \in Backends
    /\ messages \subseteq [n : Values, event : Events, side : {"player", "staff"},
                           proposal : {"none", "open", "answered"},
                           shown : BOOLEAN, read : BOOLEAN]
    /\ job \in [Handlers -> Seq(Step)]
    /\ history \in Excuses
    /\ requests \in 0..MaxRequests /\ faults \in 0..MaxFaults
    /\ ops \in Scenarios

-----------------------------------------------------------------------------
Idle(h) == job[h] = <<>>
Doing(h, what) == job[h] # <<>> /\ Head(job[h]).do = what
Now(h) == Head(job[h])
Steps(h) == {job[h][i] : i \in DOMAIN job[h]}
Others(h) == UNION {Steps(g) : g \in Handlers \ {h}}
Running == UNION {Steps(h) : h \in Handlers}
Does(kinds) == kinds \cap ops # {}

Do(what) ==
    [do |-> what, char |-> NoChar, by |-> "owner", n |-> 0, touched |-> {},
     form |-> Blank, base |-> Blank, changes |-> {},
     event |-> NoEvent, place |-> NoPlace, was |-> NoPlace,
     warned |-> {}, forced |-> FALSE,
     spot |-> [file |-> CHOOSE f \in FileIds : TRUE, backend |-> "local", key |-> "flat"],
     to |-> "local", side |-> "player"]

\* A request starts, on one of the free handlers (it makes no difference which). Without
\* "rush" it waits until all others are answered.
Request ==
    /\ "rush" \in ops \/ \A h \in Handlers : Idle(h)
    /\ requests < (IF "brief" \in ops THEN MaxBrief ELSE MaxRequests)
    /\ requests' = requests + 1
Start(h, steps) ==
    /\ Request /\ Idle(h) /\ h = CHOOSE g \in Handlers : Idle(g)
    /\ job' = [job EXCEPT ![h] = steps]
    /\ UNCHANGED <<faults, ops>>
\* A request whose statements are as good as one.
Once == Request /\ UNCHANGED <<job, faults, ops>>
\* The next statement of a request.
Then(h, steps) ==
    /\ job' = [job EXCEPT ![h] = steps \o Tail(@)]
    /\ UNCHANGED <<requests, faults, ops>>
\* The handler answers with an error; what it had still to do is not done.
Refuse(h) == job' = [job EXCEPT ![h] = <<>>] /\ UNCHANGED <<requests, faults, ops>>
\* A call of the file storage fails.
Fail == "fail" \in ops /\ faults < MaxFaults /\ faults' = faults + 1
Past(field, more) == history' = [history EXCEPT ![field] = @ \cup more]
When(condition, set) == IF condition THEN set ELSE {}

-----------------------------------------------------------------------------
(* Sheets *)

\* The client shows the sheet in a form; for the account it sends only what was touched.
OpenForm(h, c, by, touched) ==
    /\ Does({IF c = Account THEN "account" ELSE "sheet"}) /\ c \in exists \cup {Account}
    /\ by = "manager" => touched = {"group"}
    /\ c = Account => by # "staffOwner" /\ touched \cap {"secret", "name"} = {}
    /\ Start(h, <<[Do("save") EXCEPT !.char = c, !.by = by, !.n = requests + 1,
                     !.touched = touched, !.form = sheets[c]]>>)
    /\ UNCHANGED <<sheetVars, places, fileVars, messages, history>>

Filled(step) == [f \in Fields |-> IF f \in step.touched THEN step.n ELSE step.form[f]]
\* Mutant: what the owner sent for a staffOnly field is stored.
EffectiveAsSent(step, stored) ==
    IF step.by = "manager" THEN [stored EXCEPT !["group"] = Filled(step)["group"]]
    ELSE Filled(step)
\* What updateCharacter, updateGroupAccountFields and updateMember store. An owner with staff
\* rights writes staffOnly fields like other staff.
Effective(step, stored) ==
    IF step.char = Account
    THEN [f \in Fields |-> IF f \in step.touched THEN step.n ELSE stored[f]]
    ELSE IF step.by = "manager" THEN [stored EXCEPT !["group"] = Filled(step)["group"]]
    ELSE IF ~IsElevated(step.by) THEN [Filled(step) EXCEPT !["secret"] = stored["secret"]]
    ELSE Filled(step)
\* Mutant: the name is not compared.
DiffWithoutName(stored, next) ==
    {[field |-> f, from |-> stored[f], to |-> next[f]] :
        f \in {g \in Shown \ {"name"} : stored[g] # next[g]}}
\* diffForReview: the changed fields that the owner gets to see.
Diff(stored, next) ==
    {[field |-> f, from |-> stored[f], to |-> next[f]] :
        f \in {g \in Shown : stored[g] # next[g]}}

\* The handler reads the stored sheet and works out what to write.
Save(h) ==
    /\ Doing(h, "save")
    /\ LET step == Now(h)
           stored == sheets[step.char]
       IN  IF step.char \in exists \cup {Account}
           THEN Then(h, <<[step EXCEPT !.do = "write", !.base = stored,
                             !.form = Effective(step, stored),
                             !.changes = Diff(stored, Effective(step, stored))]>>)
           ELSE Refuse(h)
    /\ UNCHANGED <<sheetVars, places, fileVars, messages, history>>

\* Whose changes the owner gets to judge: not their own, and of the account those by
\* group managers only.
Judged(step) ==
    /\ ~Owns(step.by) /\ step.changes # {}
    /\ step.char = Account => step.by = "manager"
\* What the sender puts their name to: a whole form, of the account single fields.
Sent(step, next) ==
    {<<step.char, f, next[f]>> :
        f \in Shown \cap (IF step.char = Account THEN step.touched ELSE Fields)}
\* UPDATE characters / UPDATE users: the whole sheet is written. (A manager's name is
\* not; of the account nothing is written without a change.)
Write(h) ==
    /\ Doing(h, "write")
    /\ LET step == Now(h)
           c == step.char
           now == sheets[c]
           next == [step.form EXCEPT !["name"] = IF step.by = "manager" THEN now["name"]
                                                  ELSE @]
           stale == \/ now # step.base
                    \/ /\ IsElevated(step.by) /\ c # Account /\ "secret" \notin step.touched
                       /\ next["secret"] # now["secret"]
       IN  IF c \in exists \cup {Account}
           THEN /\ sheets' = [sheets EXCEPT ![c] = next]
                /\ history' =
                     [history EXCEPT
                        !.overtaken = @ \cup When(stale, {c}),
                        !.strangers = @ \cup When(Judged(step), {step.n}),
                        !.accepted = @ \cup When(Owns(step.by), Sent(step, next)),
                        !.secret[c] = IF IsElevated(step.by) /\ "secret" \in step.touched
                                      THEN step.n ELSE @]
                /\ Then(h, IF Judged(step) THEN <<[step EXCEPT !.do = "review"]>> ELSE <<>>)
           ELSE Refuse(h) /\ UNCHANGED <<sheets, history>>
    /\ UNCHANGED <<exists, reviews, places, fileVars, messages>>
\* recordReview
Review(h) ==
    /\ Doing(h, "review")
    /\ IF Now(h).char \in exists \cup {Account}
       THEN /\ reviews' = reviews \cup
                 {[n |-> Now(h).n, char |-> Now(h).char, changes |-> Now(h).changes]}
            /\ Then(h, <<>>)
       ELSE Refuse(h) /\ UNCHANGED reviews
    /\ UNCHANGED <<exists, sheets, places, fileVars, messages, history>>

Revert(sheet, changes) ==
    [f \in Fields |->
        IF \E ch \in changes : ch.field = f
        THEN (CHOOSE ch \in changes : ch.field = f).from ELSE sheet[f]]
\* Another change came after one that is rejected.
OnTop(later, rejected) ==
    \E ch \in rejected, d \in later : d.field = ch.field /\ d.from = ch.to
\* resolveReview, one transaction: the owner rejects some of the changes or all.
Resolve(r, reject) ==
    /\ Does({"sheet", "account"}) /\ Once /\ reject \subseteq r.changes
    /\ reviews' = reviews \ {r}
    /\ sheets' = [sheets EXCEPT ![r.char] = Revert(@, reject)]
    /\ history' =
         [history EXCEPT
            !.accepted = @ \cup {<<r.char, ch.field, ch.to>> : ch \in r.changes \ reject},
            !.tangled = @ \cup
               When(\E s \in reviews \cup {step \in Running : step.do = "review"} :
                      s.char = r.char /\ OnTop(s.changes, reject), {r.char})]
    /\ UNCHANGED <<exists, places, fileVars, messages>>

\* createCharacter, by the owner or by an administrator in the owner's account. Nothing
\* that is sent is left out or judged.
CreateCharacter(c) ==
    /\ Does({"create"}) /\ Once /\ c \in Characters \ Given /\ sheets[c] = Blank
    /\ exists' = exists \cup {c}
    /\ sheets' = [sheets EXCEPT ![c] = [f \in Fields |-> requests + 1]]
    /\ history' = [history EXCEPT !.secret[c] = requests + 1]
    /\ UNCHANGED <<reviews, places, fileVars, messages>>

-----------------------------------------------------------------------------
(* Places at events *)

BookedElsewhere(c, e) ==
    \E d \in Events \ {e} : places[d].role = "sc" /\ places[d].char = c
\* resolveCharacterId (group managers may register an sc without a character)
CharacterFits(e, role, c) ==
    c # NoChar => /\ role \in {"sc", "nsc"} /\ c \in exists
                  /\ role = "sc" => ~BookedElsewhere(c, e)
\* ... and resolveNscAvailability
Fits(e, p) ==
    /\ CharacterFits(e, p.role, p.char)
    /\ p.nsc # NoChar => p.role = "sc" /\ p.nsc \in exists /\ p.nsc # p.char

Links(step, c) == step.do \in {"book", "role", "link"} /\ step.place.char = c
\* What a request must be told about: another one is linking the same character, or the
\* role is not the one it read; or the character is just being deleted.
Linked(h, e, p) ==
    history' =
      [history EXCEPT
         !.raced = @ \cup
            When(/\ p.char # NoChar
                 /\ \/ \E step \in Others(h) : Links(step, p.char)
                    \/ Now(h).do = "link" /\ places[e].role # Now(h).was.role,
                 {p.char}),
         !.relinked = @ \cup
            When(\E step \in Others(h) : step.do = "deleteChar"
                                         /\ step.char \in {p.char, p.nsc}, {e})]
SoundLinks(p) == {p.char, p.nsc} \subseteq exists \cup {NoChar}
ToPlace(what, e, p) ==
    [Do(what) EXCEPT !.event = e, !.place = p, !.was = places[e]]

\* registerForEvent: the check, then the insert.
Book(h, e, p) ==
    /\ Does({"place"}) /\ p.role # "none" /\ Fits(e, p)
    /\ Start(h, <<ToPlace("book", e, p)>>)
    /\ UNCHANGED <<sheetVars, places, fileVars, messages, history>>
InsertPlace(h) ==
    /\ Doing(h, "book")
    /\ LET e == Now(h).event
           p == Now(h).place
       IN  IF places[e].role = "none" /\ SoundLinks(p)
           THEN places' = [places EXCEPT ![e] = p] /\ Linked(h, e, p) /\ Then(h, <<>>)
           ELSE Refuse(h) /\ UNCHANGED <<places, history>>
    /\ UNCHANGED <<sheetVars, fileVars, messages>>
\* setConRole: the check, then the update of role and characters.
ChangeRole(h, e, p) ==
    /\ Does({"place"}) /\ p.role # "none" /\ Fits(e, p)
    /\ Start(h, <<ToPlace("role", e, p)>>)
    /\ UNCHANGED <<sheetVars, places, fileVars, messages, history>>
UpdateRole(h) ==
    /\ Doing(h, "role")
    /\ LET e == Now(h).event
           p == Now(h).place
       IN  IF places[e].role # "none" /\ SoundLinks(p)
           THEN places' = [places EXCEPT ![e] = p] /\ Linked(h, e, p) /\ Then(h, <<>>)
           ELSE Refuse(h) /\ UNCHANGED <<places, history>>
    /\ UNCHANGED <<sheetVars, fileVars, messages>>
\* setRegistrationCharacter: only the character, for the role it read.
ChangeCharacter(h, e, c) ==
    /\ Does({"place"}) /\ places[e].role \in {"sc", "nsc"}
    /\ CharacterFits(e, places[e].role, c) /\ c # places[e].char
    /\ Start(h, <<ToPlace("link", e, [places[e] EXCEPT !.char = c])>>)
    /\ UNCHANGED <<sheetVars, places, fileVars, messages, history>>
UpdateCharacter(h) ==
    /\ Doing(h, "link")
    /\ LET e == Now(h).event
           p == [places[e] EXCEPT !.char = Now(h).place.char]
       IN  IF SoundLinks(p) /\ (p.role = "other" => p.char = NoChar)
           THEN /\ places' = IF p.role = "none" THEN places ELSE [places EXCEPT ![e] = p]
                /\ Linked(h, e, p) /\ Then(h, <<>>)
           ELSE Refuse(h) /\ UNCHANGED <<places, history>>
    /\ UNCHANGED <<sheetVars, fileVars, messages>>
MessagesOf(events) == {m \in messages : m.event \in events}
\* The registration is deleted.
Unregister(e) ==
    /\ Does({"place"}) /\ Once /\ places[e].role # "none"
    /\ places' = [places EXCEPT ![e] = NoPlace]
    /\ messages' = messages \ MessagesOf({e})
    /\ UNCHANGED <<sheetVars, fileVars, history>>

\* listCharacterRegistrations
LinkedTo(c) == {e \in Events : c \in {places[e].char, places[e].nsc}}
\* Mutant: only an NSC link is a reason to ask.
RefusedIfNsc(c, force) == (\E e \in Events : places[e].nsc = c) /\ ~force
Refused(c, force) == LinkedTo(c) # {} /\ ~force
\* deleteCharacter lists the registrations and refuses without "force"...
DeleteCharacter(h, c, force) ==
    /\ Does({"delete"}) /\ c \in exists /\ ~Refused(c, force)
    /\ Start(h, <<[Do("deleteChar") EXCEPT !.char = c, !.warned = LinkedTo(c),
                     !.forced = force]>>)
    /\ UNCHANGED <<sheetVars, places, fileVars, messages, history>>
\* ... and deletes in a transaction whatever is linked then. (Deleting the character
\* fails if it was linked again in between.)
DropCharacter(h) ==
    /\ Doing(h, "deleteChar")
    /\ LET c == Now(h).char
           lost == {e \in Events : places[e].char = c}
       IN  \/ /\ exists' = exists \ {c}
              /\ reviews' = {r \in reviews : r.char # c}
              /\ places' = [e \in Events |->
                              IF e \in lost THEN NoPlace
                              ELSE IF places[e].nsc = c THEN [places[e] EXCEPT !.nsc = NoChar]
                              ELSE places[e]]
              /\ files' = {f \in files : f.char # c}
              /\ messages' = messages \ MessagesOf(lost)
              /\ history' =
                   [history EXCEPT
                      !.unwarned = @ \cup (lost \ When(Now(h).forced, Now(h).warned)),
                      !.left = @ \cup {f.spot.file : f \in {g \in files : g.char = c}}]
              /\ Then(h, <<>>)
           \/ /\ ~(LinkedTo(c) \subseteq Now(h).warned)
              /\ Refuse(h)
              /\ UNCHANGED <<exists, reviews, places, files, messages, history>>
    /\ UNCHANGED <<sheets, store, backend>>

-----------------------------------------------------------------------------
(* Files *)

FilesOf(c) == {f \in files : f.char = c}
UnusedFile(f) ==
    /\ f \notin history.left \cup history.mixed
    /\ \A s \in store \cup {r.spot : r \in files} \cup {t.spot : t \in Running} : s.file # f
Handles(step, f) ==
    step.do \in {"dropRow", "remove", "copy", "point"} /\ step.spot.file = f
\* What a request must be told about: another one is at the same file.
Mixing(h) == When(\E step \in Others(h) : Handles(step, Now(h).spot.file),
                  {Now(h).spot.file})

HasRoom(c) == Cardinality(FilesOf(c)) + 1 <= Quota
\* POST files: the quota and the storage settings are read, the bytes stored, then the row.
Upload(h, c, f) ==
    /\ Does({"file"}) /\ c \in exists /\ UnusedFile(f) /\ HasRoom(c)
    /\ f = CHOOSE x \in FileIds : UnusedFile(x)
    /\ Start(h, <<[Do("upload") EXCEPT
                     !.char = c, !.spot = [file |-> f, backend |-> backend, key |-> "folder"]]>>)
    /\ UNCHANGED <<sheetVars, places, fileVars, messages, history>>
StoreBytes(h) ==
    /\ Doing(h, "upload")
    /\ \/ /\ store' = store \cup {Now(h).spot}
          /\ Then(h, <<[Now(h) EXCEPT !.do = "insertFile"]>>)
       \/ Fail /\ job' = [job EXCEPT ![h] = <<>>] /\ UNCHANGED <<store, requests, ops>>
    /\ UNCHANGED <<sheetVars, places, files, backend, messages, history>>
InsertFile(h) ==
    /\ Doing(h, "insertFile")
    /\ LET c == Now(h).char
       IN  IF c \in exists
           THEN /\ files' = files \cup {[spot |-> Now(h).spot, char |-> c]}
                /\ Past("crowded",
                        When(\E step \in Others(h) : step.do \in {"upload", "insertFile"}
                                                      /\ step.char = c, {c}))
                /\ Then(h, <<>>)
           ELSE Refuse(h) /\ Past("left", {Now(h).spot.file}) /\ UNCHANGED files
    /\ UNCHANGED <<sheetVars, places, store, backend, messages>>

\* DELETE files/:fileId reads the row, deletes it, and removes the bytes where it said.
DeleteFile(h, f) ==
    /\ Does({"file"})
    /\ Start(h, <<[Do("dropRow") EXCEPT !.spot = f.spot], [Do("remove") EXCEPT !.spot = f.spot]>>)
    /\ UNCHANGED <<sheetVars, places, fileVars, messages, history>>
DropRow(h) ==
    /\ Doing(h, "dropRow")
    /\ files' = {f \in files : f.spot.file # Now(h).spot.file}
    /\ Past("mixed", Mixing(h)) /\ Then(h, <<>>)
    /\ UNCHANGED <<sheetVars, places, store, backend, messages>>
RemoveBytes(h) ==
    /\ Doing(h, "remove")
    /\ \/ store' = store \ {Now(h).spot} /\ Past("mixed", Mixing(h)) /\ Then(h, <<>>)
       \/ /\ Fail /\ Past("left", {Now(h).spot.file})
          /\ job' = [job EXCEPT ![h] = Tail(@)] /\ UNCHANGED <<store, requests, ops>>
    /\ UNCHANGED <<sheetVars, places, files, backend, messages>>

\* PUT admin/settings/storage
ChangeBackend(b) ==
    /\ Does({"migrate"}) /\ Once /\ backend # b /\ backend' = b
    /\ UNCHANGED <<sheetVars, places, files, store, messages, history>>
\* POST migrate goes through the files that are not on the backend that was set then.
Migrate(h) ==
    /\ Does({"migrate"})
    /\ LET elsewhere == {f \in files : f.spot.backend # backend}
       IN  Start(h, SetToSeq({[Do("copy") EXCEPT !.spot = f.spot, !.to = backend] :
                                 f \in elsewhere}))
    /\ UNCHANGED <<sheetVars, places, fileVars, messages, history>>
NewSpot(step) == [file |-> step.spot.file, backend |-> step.to, key |-> "folder"]
\* Mutant: the old copy is removed before the row says where the new one is.
RemovedFirst(step) == <<[step EXCEPT !.do = "remove"], [step EXCEPT !.do = "point"]>>
AfterCopy(step) == <<[step EXCEPT !.do = "point"], [step EXCEPT !.do = "remove"]>>
\* Downloading and uploading: if it fails, the next file is tried.
Copy(h) ==
    /\ Doing(h, "copy")
    /\ \/ /\ Now(h).spot \in store
          /\ store' = store \cup {NewSpot(Now(h))} /\ Then(h, AfterCopy(Now(h)))
       \/ Now(h).spot \notin store /\ Then(h, <<>>) /\ UNCHANGED store
       \/ /\ Fail /\ job' = [job EXCEPT ![h] = Tail(@)] /\ UNCHANGED <<store, requests, ops>>
    /\ Past("mixed", Mixing(h))
    /\ UNCHANGED <<sheetVars, places, files, backend, messages>>
Point(h) ==
    /\ Doing(h, "point")
    /\ files' = {IF f.spot.file = Now(h).spot.file
                 THEN [f EXCEPT !.spot = NewSpot(Now(h))] ELSE f : f \in files}
    /\ Past("mixed", Mixing(h)) /\ Then(h, <<>>)
    /\ UNCHANGED <<sheetVars, places, store, backend, messages>>

-----------------------------------------------------------------------------
(* The talk about NSC roles *)

\* hasNscRegistration (being available as NSC stands for having an NSC character)
HasNsc(e) == places[e].role = "nsc" \/ places[e].nsc # NoChar
ReadSteps(e, side) ==
    <<[Do("show") EXCEPT !.event = e, !.side = side],
      [Do("mark") EXCEPT !.event = e, !.side = side]>>
ReadThread(h, e, side) ==
    /\ Does({"talk"}) /\ HasNsc(e) /\ Start(h, ReadSteps(e, side))
    /\ UNCHANGED <<sheetVars, places, fileVars, messages, history>>
\* addMessage checks, inserts, and shows the thread to the author.
Post(h, e, side) ==
    /\ Does({"talk"}) /\ HasNsc(e)
    /\ Start(h, <<[Do("say") EXCEPT !.event = e, !.side = side, !.n = requests + 1]>>
                  \o ReadSteps(e, side))
    /\ UNCHANGED <<sheetVars, places, fileVars, messages, history>>
Say(h, proposal) ==
    /\ Doing(h, "say")
    /\ proposal # "none" => Now(h).side = "staff"
    /\ IF places[Now(h).event].role # "none"
       THEN /\ messages' = messages \cup
                 {[n |-> Now(h).n, event |-> Now(h).event, side |-> Now(h).side,
                   proposal |-> proposal, shown |-> FALSE, read |-> FALSE]}
            /\ Past("late", When(\E g \in Handlers : Doing(g, "mark"), {Now(h).n}))
            /\ Then(h, <<>>)
       ELSE Refuse(h) /\ UNCHANGED <<messages, history>>
    /\ UNCHANGED <<sheetVars, places, fileVars>>
\* Mutant: one's own messages are meant as well.
AllOfThread(step) == MessagesOf({step.event})
ToSide(step) == {m \in MessagesOf({step.event}) : m.side # step.side}
\* readThread: SELECT...
Show(h) ==
    /\ Doing(h, "show") /\ Then(h, <<>>)
    /\ LET seen == {m \in MessagesOf({Now(h).event}) : m.side # Now(h).side}
       IN  messages' = (messages \ seen) \cup {[m EXCEPT !.shown = TRUE] : m \in seen}
    /\ UNCHANGED <<sheetVars, places, fileVars, history>>
\* ... and UPDATE, of what there is then.
MarkRead(h) ==
    /\ Doing(h, "mark") /\ Then(h, <<>>)
    /\ messages' = (messages \ ToSide(Now(h)))
                      \cup {[m EXCEPT !.read = TRUE] : m \in ToSide(Now(h))}
    /\ UNCHANGED <<sheetVars, places, fileVars, history>>
\* respondToProposal
Respond(h, m) ==
    /\ Does({"talk"}) /\ HasNsc(m.event) /\ m.proposal = "open"
    /\ messages' = (messages \ {m}) \cup {[m EXCEPT !.proposal = "answered"]}
    /\ Start(h, ReadSteps(m.event, "player"))
    /\ UNCHANGED <<sheetVars, places, fileVars, history>>

-----------------------------------------------------------------------------
\* The process restarts, or a statement fails.
Restart(h) ==
    /\ "restart" \in ops /\ ~Idle(h) /\ faults < MaxFaults /\ faults' = faults + 1
    /\ job' = [job EXCEPT ![h] = <<>>]
    /\ history' =
         [history EXCEPT
            !.interrupted = @ \cup {s.char : s \in {t \in Steps(h) : t.do = "review"}},
            !.left = @ \cup {s.spot.file : s \in
                        {t \in Steps(h) : t.do \in {"insertFile", "point", "remove"}}}]
    /\ UNCHANGED <<sheetVars, places, fileVars, messages, requests, ops>>

Legacy == [file |-> CHOOSE f \in FileIds : TRUE, backend |-> "local", key |-> "flat"]
Init ==
    /\ ops \in Scenarios
    /\ exists = Given /\ sheets = [c \in SheetIds |-> Blank] /\ reviews = {}
    /\ \E linked \in When("linked" \in ops, {{e} : e \in Events}) \cup {{}},
          p \in [role : {"sc", "nsc"}, char : Given, nsc : {NoChar}] :
            places = [e \in Events |-> IF e \in linked THEN p ELSE NoPlace]
    \* "legacy": a file from before there was a folder for each character
    /\ files = When("legacy" \in ops, {[spot |-> Legacy, char |-> CHOOSE c \in Given : TRUE]})
    /\ store = {f.spot : f \in files} /\ backend = "local"
    /\ messages = {} /\ job = [h \in Handlers |-> <<>>]
    /\ history = [accepted |-> {}, strangers |-> {}, secret |-> [c \in SheetIds |-> 0],
                  overtaken |-> {}, tangled |-> {}, interrupted |-> {}, raced |-> {},
                  relinked |-> {}, unwarned |-> {}, left |-> {}, mixed |-> {},
                  crowded |-> {}, late |-> {}]
    /\ requests = 0 /\ faults = 0

Proceed(h) ==
    \/ Save(h) \/ Write(h) \/ Review(h)
    \/ InsertPlace(h) \/ UpdateRole(h) \/ UpdateCharacter(h) \/ DropCharacter(h)
    \/ StoreBytes(h) \/ InsertFile(h) \/ DropRow(h) \/ RemoveBytes(h) \/ Copy(h) \/ Point(h)
    \/ \E proposal \in {"none", "open"} : Say(h, proposal)
    \/ Show(h) \/ MarkRead(h)
Sheets(h) ==
    \E c \in SheetIds :
        \E by \in Authors, touched \in Edits :
            OpenForm(h, c, by, touched)
Judging == \E r \in reviews : \E reject \in SUBSET r.changes : Resolve(r, reject)
Placing(h) ==
    \/ \E e \in Events :
         \/ \E p \in Place : Book(h, e, p) \/ ChangeRole(h, e, p)
         \/ \E c \in MaybeChar : ChangeCharacter(h, e, c)
         \/ Unregister(e)
         \/ \E side \in {"player", "staff"} : ReadThread(h, e, side) \/ Post(h, e, side)
    \/ \E m \in messages : Respond(h, m)
    \/ \E c \in Characters, force \in BOOLEAN : DeleteCharacter(h, c, force)
Filing(h) ==
    \/ \E c \in Characters, f \in FileIds : Upload(h, c, f)
    \/ \E f \in files : DeleteFile(h, f)
    \/ Migrate(h)

Next ==
    \/ \E h \in Handlers :
         Proceed(h) \/ Sheets(h) \/ Placing(h) \/ Filing(h) \/ Restart(h)
    \/ Judging
    \/ \E c \in Characters : CreateCharacter(c)
    \/ \E b \in Backends : ChangeBackend(b)

Spec == Init /\ [][Next]_cvars

-----------------------------------------------------------------------------
(* What must hold *)

\* What somebody else wrote on a sheet stands there only as long as the owner has it before
\* them to judge, or once they have accepted it or sent it themselves (updateCharacter,
\* resolveReview). Except if the review was never recorded because of a crash, a whole
\* sheet was written that had been read before another write, or of several changes of a
\* field an earlier one was rejected first.
OwnerHasTheSay ==
    \A c \in (exists \cup {Account}) \ (history.overtaken \cup history.tangled
                                           \cup history.interrupted) :
        \A f \in Shown :
            LET v == sheets[c][f]
                Concerns(changes) == \E ch \in changes : ch.field = f /\ ch.to = v
            IN  v \in history.strangers /\ <<c, f, v>> \notin history.accepted =>
                    \/ \E r \in reviews : r.char = c /\ Concerns(r.changes)
                    \/ \E step \in Running :
                         step.do = "review" /\ step.char = c /\ Concerns(step.changes)

\* A staffOnly field holds what somebody with staff rights sent last, or what it was created
\* with, whatever the forms of owners without these rights and of managers contain. Except if
\* a sheet was written that had been read before it. (routes.js: staff may write it "on any
\* character -- including their own"; updateCharacter's comment says an owner never can.)
SecretIsStaffs ==
    \A c \in (exists \cup {Account}) \ history.overtaken :
        sheets[c]["secret"] = history.secret[c]

\* "At most one registration ever": a character has a part at one event only
\* (resolveCharacterId), unless two requests linked it at the same time or the role changed
\* meanwhile. And no place is lost with a character without a warning before it, unless it
\* was linked while the character was being deleted (deleteCharacter).
LinksAreSound ==
    /\ \A c \in Characters \ history.raced :
         \A d, e \in Events :
            places[d].role = "sc" /\ places[e].role = "sc"
              /\ places[d].char = c /\ places[e].char = c => d = e
    /\ history.unwarned \subseteq history.relinked

\* Each row's bytes are where the row says, and no bytes stay behind that no row names;
\* also while files are moved to another storage. Except for files two requests were at
\* together, and bytes left by a crash, a failure or a deleted character. A character has
\* no more files than its quota, unless they were uploaded at the same time.
FilesAreSound ==
    /\ \A f \in files : f.spot.file \notin history.mixed => f.spot \in store
    /\ \A s \in store : s.file \notin history.mixed \cup history.left =>
         \/ \E f \in files : f.spot = s
         \/ \E step \in Running : step.spot.file = s.file
    /\ \A c \in Characters \ history.crowded : Cardinality(FilesOf(c)) <= Quota

\* A message counts as read only if it was shown to the other side, or came while the
\* thread was on its way to them (readThread).
ReadMeansShown ==
    \A m \in messages : m.read => m.shown \/ m.n \in history.late
=============================================================================
