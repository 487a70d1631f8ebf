------------------------------- MODULE Guests -------------------------------
(***************************************************************************)
(* People who come without an account: they ask for a ticket in the public *)
(* widget, are entered from a PDF form, or leave their address to be       *)
(* reminded when registration opens.  Each makes a guest (a row of users   *)
(* without a password), by several statements that are undone one by one   *)
(* when a later one fails.  Translated from backend/guestRegistrations,    *)
(* pdfImport, comingSoon and the guest links of payments.                  *)
(*                                                                         *)
(* What a form contains is left out, except the address and whether there  *)
(* is a character.  A guest's link is the number of the request that wrote *)
(* it.  Places that are not free and amounts due are in Registrations and  *)
(* Payments; every guest here still has to pay.                            *)
(***************************************************************************)
EXTENDS Integers, Sequences, FiniteSets, SequencesExt

CONSTANTS
    Mails,        \* e-mail addresses of people without an account
    Rows,         \* ids that new rows of users get
    Events,       \* events that can be booked
    Imports,      \* ids of imported PDF forms
    Names,        \* names of the fields in a PDF form
    Handlers,     \* requests handled at the same time
    Scenarios,    \* which kinds of operations may happen together in one behaviour
    MaxRequests,  \* bound on requests started
    MaxBrief,     \* ... in behaviours that are "brief"
    MaxFaults     \* bound on restarts and failing statements

NoMail == "none"
NoRow == "none"
NoEvent == "none"
NoImport == "none"

ASSUME GuestsAssumption ==
    /\ NoMail \notin Mails /\ NoRow \notin Rows /\ NoEvent \notin Events
    /\ NoImport \notin Imports
    /\ MaxRequests \in Nat /\ MaxBrief \in Nat /\ MaxFaults \in Nat

VARIABLES
    users,        \* the rows of users: address, and the number of the wish to be reminded
    places,       \* their registrations, with the link the guest was sent
    characters,   \* their characters, by the number of the request that made them
    invitations,  \* invitations to turn a guest into an account
    locked,       \* registration is "coming soon"
    imports,      \* the rows of pdf_imports
    template,     \* the fields of the uploaded template
    mapping,      \* those that are assigned to a field of the application
    job,          \* the statements each handler still has to run, and what it has read
    history,      \* what the properties have to know about the past
    requests,     \* how many requests were started
    faults,       \* how many faults there were
    ops           \* the kinds of operations that happen in this behaviour

guestVars == <<users, places, characters>>
formVars == <<template, mapping>>
gvars == <<guestVars, invitations, locked, imports, formVars, job, history, requests,
           faults, ops>>

Numbers == 0..MaxRequests
Row == [kind : {"free", "guest", "account", "gone"}, mail : Mails \cup {NoMail},
        mark : Numbers]
Place == [user : Rows, event : Events, n : Numbers, import : Imports \cup {NoImport},
          link : Numbers, expired : BOOLEAN]
Wish == [user : Rows, mark : Numbers]
Job ==
    [todo : Seq({"insert", "character", "register", "link", "mail", "undoUser",
                 "undoCharacter", "adopted", "adoptError", "mark", "insertMarked",
                 "unlock", "select", "invite", "unmark", "template", "mapping", "remind"}),
     user : Rows \cup {NoRow}, mail : Mails \cup {NoMail}, event : Events \cup {NoEvent},
     import : Imports \cup {NoImport}, n : Numbers, link : Numbers,
     created : BOOLEAN, made : BOOLEAN, wasLocked : BOOLEAN,
     wishes : Seq(Wish), unpaid : Seq(Place),
     names : SUBSET Names, kept : SUBSET Names]
Excuses ==
    [undone : SUBSET Rows, shared : SUBSET Rows, withdrawn : SUBSET Rows,
     interrupted : SUBSET Rows, twice : SUBSET Imports, invitedTwice : SUBSET Rows,
     late : SUBSET Numbers, mailed : [Rows \X Events -> Numbers], crossed : SUBSET Rows,
     reread : BOOLEAN]

TypeOK ==
    /\ users \in [Rows -> Row]
    \* the unique index on the address
    /\ \A r, s \in Rows : r # s /\ users[r].mail = users[s].mail => users[r].mail = NoMail
    /\ places \subseteq Place
    /\ \A p, q \in places : p.user = q.user /\ p.event = q.event => p = q
    /\ characters \subseteq [user : Rows, n : Numbers]
    \* the foreign keys
    /\ \A x \in places \cup characters \cup invitations :
         users[x.user].kind \in {"guest", "account"}
    /\ invitations \subseteq [user : Rows, mark : Numbers, n : Numbers]
    /\ locked \in BOOLEAN
    /\ imports \in [Imports -> [state : {"none", "there", "deleted"},
                                mail : Mails \cup {NoMail}, character : BOOLEAN,
                                adopted : BOOLEAN, error : BOOLEAN]]
    /\ template \subseteq Names /\ mapping \subseteq Names
    /\ job \in [Handlers -> Job]
    /\ history \in Excuses
    /\ requests \in 0..MaxRequests /\ faults \in 0..MaxFaults
    /\ ops \in Scenarios

-----------------------------------------------------------------------------
Done ==
    [todo |-> <<>>, user |-> NoRow, mail |-> NoMail, event |-> NoEvent, import |-> NoImport,
     n |-> 0, link |-> 0, created |-> FALSE, made |-> FALSE, wasLocked |-> FALSE,
     wishes |-> <<>>, unpaid |-> <<>>, names |-> {}, kept |-> {}]
Idle(h) == job[h] = Done
Doing(h, what) == job[h].todo # <<>> /\ Head(job[h].todo) = what
Does(kinds) == kinds \cap ops # {}
When(condition, set) == IF condition THEN set ELSE {}
Past(field, more) == history' = [history EXCEPT ![field] = @ \cup more]

\* A request starts, on one of the free handlers (it makes no difference which). Without
\* "rush" it waits until all others are answered.
Request ==
    /\ "rush" \in ops \/ \A h \in Handlers : Idle(h)
    /\ requests < (IF "brief" \in ops THEN MaxBrief ELSE MaxRequests)
    /\ requests' = requests + 1
Start(h, begun) ==
    /\ Request /\ Idle(h) /\ h = CHOOSE g \in Handlers : Idle(g)
    /\ job' = [job EXCEPT ![h] = [begun EXCEPT !.n = requests + 1]]
    /\ UNCHANGED <<faults, ops>>
\* A request whose statements are as good as one.
Once == Request /\ UNCHANGED <<job, faults, ops>>
\* What is left of a request once its next statement is run.
Left(j) == [j EXCEPT !.todo = Tail(@)]
Then(h, left) ==
    /\ job' = [job EXCEPT ![h] = IF left.todo = <<>> THEN Done ELSE left]
    /\ UNCHANGED <<requests, faults, ops>>
\* A statement or a call fails that the code does not expect to.
Fail(h, left) ==
    /\ "fail" \in ops /\ faults < MaxFaults /\ faults' = faults + 1
    /\ job' = [job EXCEPT ![h] = IF left.todo = <<>> THEN Done ELSE left]
    /\ UNCHANGED <<requests, ops>>

Exists(r) == r \in Rows /\ users[r].kind \in {"guest", "account"}
Holders(mail) == {r \in Rows : mail # NoMail /\ users[r].mail = mail}
Using(j, r) == j # Done /\ j.user = r
PlacesOf(r) == {p \in places : p.user = r}
\* Another request made this guest and may still undo it.
Unsettled(h, rows) ==
    {r \in rows : \E g \in Handlers \ {h} :
        /\ job[g].created /\ job[g].user = r
        /\ ToSet(job[g].todo) \cap {"register", "undoUser"} # {}}

-----------------------------------------------------------------------------
(* Tickets *)

Booking(mail, character, last) ==
    LET found == Holders(mail)
    IN  [Done EXCEPT
           !.mail = mail,
           !.user = IF found = {} THEN NoRow ELSE CHOOSE r \in found : TRUE,
           !.todo = (IF found = {} THEN <<"insert">> ELSE <<>>)
                      \o (IF character THEN <<"character">> ELSE <<>>)
                      \o <<"register">> \o last]
\* POST guest-registration: accounts are sent to the login, guests are looked up. While
\* registration is locked only an admin may try it out, which is left out.
Ask(h, mail, character, e) ==
    /\ Does({"ask"}) /\ ~locked
    /\ \A r \in Holders(mail) : users[r].kind = "guest"
    /\ Start(h, [Booking(mail, character, <<"link", "mail">>) EXCEPT !.event = e])
    /\ Past("shared", Unsettled(h, Holders(mail)))
    /\ UNCHANGED <<guestVars, invitations, locked, imports, formVars>>

\* Mutant: whoever fails deletes the guest.
UndoAlways(j) ==
    IF j.import = NoImport THEN <<"undoUser">>
    ELSE (IF j.made THEN <<"undoCharacter">> ELSE <<>>) \o <<"undoUser", "adoptError">>
\* Mutant: the character of a guest who was there before is forgotten.
UndoUserOnly(j) ==
    (IF j.created THEN <<"undoUser">> ELSE <<>>)
      \o (IF j.import = NoImport THEN <<>> ELSE <<"adoptError">>)
\* The two catch blocks.
Undo(j) ==
    IF j.import = NoImport
    THEN IF j.created THEN <<"undoUser">>
         ELSE IF j.made THEN <<"undoCharacter">> ELSE <<>>
    ELSE (IF j.made THEN <<"undoCharacter">> ELSE <<>>)
           \o (IF j.created THEN <<"undoUser">> ELSE <<>>) \o <<"adoptError">>
GiveUp(h) == Then(h, [job[h] EXCEPT !.todo = Undo(job[h])])

NewRow(h, row) ==
    LET r == CHOOSE x \in Rows : users[x].kind = "free"
    IN  /\ users' = [users EXCEPT ![r] = row]
        /\ Then(h, [Left(job[h]) EXCEPT !.user = r, !.created = TRUE])
Taken(mail) == Holders(mail) # {}
FreeRow == \E r \in Rows : users[r].kind = "free"
\* A form may be refused here: no name, or an address that is none.
InsertGuest(h) ==
    /\ Doing(h, "insert")
    /\ \/ /\ ~Taken(job[h].mail) /\ FreeRow
          /\ NewRow(h, [kind |-> "guest", mail |-> job[h].mail, mark |-> 0])
       \/ /\ Taken(job[h].mail) \/ (job[h].import # NoImport /\ Does({"invalid"}))
          /\ GiveUp(h) /\ UNCHANGED users
    /\ UNCHANGED <<places, characters, invitations, locked, imports, formVars, history>>
\* createCharacter fails if a field is missing, or if the guest is gone.
MakeCharacter(h) ==
    /\ Doing(h, "character")
    /\ \/ /\ Exists(job[h].user)
          /\ characters' = characters \cup {[user |-> job[h].user, n |-> job[h].n]}
          /\ Then(h, [Left(job[h]) EXCEPT !.made = TRUE])
       \/ /\ Does({"invalid"}) \/ ~Exists(job[h].user)
          /\ GiveUp(h) /\ UNCHANGED characters
    /\ UNCHANGED <<users, places, invitations, locked, imports, formVars, history>>
\* registerForEvent: everybody has one place at an event; it is refused for other reasons
\* as well (no waiver, price group, lock, event not active).
RegisterForEvent(h) ==
    /\ Doing(h, "register")
    /\ LET j == job[h]
           place == [user |-> j.user, event |-> j.event, n |-> j.n, import |-> j.import,
                     link |-> 0, expired |-> FALSE]
           possible == /\ Exists(j.user) /\ \A p \in PlacesOf(j.user) : p.event # j.event
                       /\ j.made => [user |-> j.user, n |-> j.n] \in characters
       IN  \/ possible /\ places' = places \cup {place} /\ Then(h, Left(j))
           \/ /\ Does({"invalid"}) \/ ~possible
              /\ GiveUp(h) /\ UNCHANGED places
    /\ UNCHANGED <<users, characters, invitations, locked, imports, formVars, history>>

\* What goes with a registration that is deleted.
Unmailed(removed) ==
    [x \in Rows \X Events |->
        IF \E p \in removed : <<p.user, p.event>> = x THEN 0 ELSE history.mailed[x]]
\* DELETE FROM users, with all that belongs to the guest; an invitation to the guest
\* prevents it. An error is ignored.
UndoUser(h) ==
    /\ Doing(h, "undoUser")
    /\ LET u == job[h].user
           others == {c \in characters : c.user = u /\ c.n # job[h].n}
           hurt == users[u].mark # 0 \/ users[u].kind = "account" \/ PlacesOf(u) # {}
                     \/ others # {}
       IN  IF Exists(u) /\ \A i \in invitations : i.user # u
           THEN \/ /\ users' = [users EXCEPT ![u] =
                                   [kind |-> "gone", mail |-> NoMail, mark |-> 0]]
                   /\ places' = places \ PlacesOf(u)
                   /\ characters' = {c \in characters : c.user # u}
                   /\ history' = [history EXCEPT !.undone = @ \cup When(hurt, {u}),
                                                 !.mailed = Unmailed(PlacesOf(u))]
                   /\ Then(h, Left(job[h]))
                \/ /\ Fail(h, Left(job[h])) /\ Past("interrupted", {u})
                   /\ UNCHANGED guestVars
           ELSE Then(h, Left(job[h])) /\ UNCHANGED <<guestVars, history>>
    /\ UNCHANGED <<invitations, locked, imports, formVars>>
UndoCharacter(h) ==
    /\ Doing(h, "undoCharacter")
    /\ \/ /\ characters' = {c \in characters : c.user # job[h].user \/ c.n # job[h].n}
          /\ Then(h, Left(job[h])) /\ UNCHANGED history
       \/ /\ Fail(h, Left(job[h])) /\ Past("interrupted", {job[h].user})
          /\ UNCHANGED characters
    /\ UNCHANGED <<users, places, invitations, locked, imports, formVars>>

AtPlace(j, p) == j.user = p.user /\ j.event = p.event
\* The request is about to send a link to the guest.
Sends(j, u, e) ==
    \/ j.user = u /\ j.event = e /\ ToSet(j.todo) \cap {"link", "mail"} # {}
    \/ \E p \in ToSet(j.unpaid) : p.user = u /\ p.event = e
Sending(others, u, e) == When(\E g \in others : Sends(job[g], u, e), {u})
\* unregisterFromEvent, by staff; the character stays.
Withdraw(p) ==
    /\ Does({"withdraw"}) /\ Once /\ places' = places \ {p}
    /\ history' = [history EXCEPT !.withdrawn = @ \cup {p.user}, !.mailed = Unmailed({p}),
                                 !.crossed = @ \cup Sending(Handlers, p.user, p.event)]
    /\ UNCHANGED <<users, characters, invitations, locked, imports, formVars>>
\* A guest accepts an invitation and gets a password (external to these handlers).
Convert(r) ==
    /\ Does({"convert"}) /\ Once /\ users[r].kind = "guest"
    /\ \E i \in invitations : i.user = r
    /\ users' = [users EXCEPT ![r].kind = "account"]
    /\ UNCHANGED <<places, characters, invitations, locked, imports, formVars, history>>

-----------------------------------------------------------------------------
(* Links *)

\* Mutant: a link that is there is kept, though the mail has the new one.
LinkIfNone(p, n) == IF p.link = 0 THEN [p EXCEPT !.link = n, !.expired = FALSE] ELSE p
NewLink(p, n) == [p EXCEPT !.link = n, !.expired = FALSE]
\* setGuestPaymentToken
SetLink(h) ==
    /\ Doing(h, "link")
    /\ LET j == job[h]
       IN  /\ places' = {IF AtPlace(j, p) THEN NewLink(p, j.n) ELSE p : p \in places}
           /\ Past("crossed", Sending(Handlers \ {h}, j.user, j.event))
           /\ Then(h, [Left(j) EXCEPT !.link = j.n])
    /\ UNCHANGED <<users, characters, invitations, locked, imports, formVars>>
\* The mail is sent; a mail that fails is only logged. The next guest follows.
AfterMail(j) == IF j.unpaid = <<>> THEN <<>> ELSE <<"remind">>
MailLink(h) ==
    /\ Doing(h, "mail")
    /\ LET j == job[h]
           left == [j EXCEPT !.todo = AfterMail(j)]
           there == \E p \in places : AtPlace(j, p)
       IN  \/ /\ Then(h, left)
              /\ history' =
                   [history EXCEPT
                      !.mailed[<<j.user, j.event>>] = IF there THEN j.link ELSE @,
                      !.crossed = @ \cup Sending(Handlers \ {h}, j.user, j.event)]
           \/ Fail(h, left) /\ Past("crossed", {j.user})
    /\ UNCHANGED <<guestVars, invitations, locked, imports, formVars>>
\* The link is only valid for some time.
Expire(p) ==
    /\ Does({"remindUnpaid"}) /\ Once /\ p.link # 0 /\ ~p.expired
    /\ places' = (places \ {p}) \cup {[p EXCEPT !.expired = TRUE]}
    /\ UNCHANGED <<users, characters, invitations, locked, imports, formVars, history>>
\* POST payment-reminders reads who still has to pay, with the links they have (accounts
\* are sent to their page and left out)...
PaymentReminders(h, e) ==
    /\ Does({"remindUnpaid"})
    /\ LET unpaid == {p \in places : p.event = e /\ users[p.user].kind = "guest"}
       IN  /\ unpaid # {}
           /\ Start(h, [Done EXCEPT !.todo = <<"remind">>, !.event = e,
                                    !.unpaid = SetToSeq(unpaid)])
    /\ UNCHANGED <<guestVars, invitations, locked, imports, formVars, history>>
\* ... and goes through them: whoever has no valid link gets one first.
Remind(h) ==
    /\ Doing(h, "remind")
    /\ LET j == job[h]
           p == Head(j.unpaid)
           valid == p.link # 0 /\ ~p.expired
       IN  Then(h, [j EXCEPT !.unpaid = Tail(@), !.user = p.user, !.link = p.link,
                             !.todo = IF valid THEN <<"mail">> ELSE <<"link", "mail">>])
    /\ UNCHANGED <<guestVars, invitations, locked, imports, formVars, history>>

-----------------------------------------------------------------------------
(* PDF forms *)

\* POST template reads the mapping and keeps what the new form has as well...
SetTemplate(h, names) ==
    /\ Does({"form"})
    /\ Start(h, [Done EXCEPT !.todo = <<"template">>, !.names = names,
                             !.kept = mapping \cap names])
    /\ UNCHANGED <<guestVars, invitations, locked, imports, formVars, history>>
Reread(h) ==
    history' = [history EXCEPT
                  !.reread = @ \/ \E g \in Handlers \ {h} :
                                    Doing(g, "template") \/ Doing(g, "mapping")]
Kept(j) == j.kept
\* ... and writes both.
WriteTemplate(h) ==
    /\ Doing(h, "template") /\ template' = job[h].names /\ mapping' = Kept(job[h])
    /\ Reread(h) /\ Then(h, Left(job[h]))
    /\ UNCHANGED <<guestVars, invitations, locked, imports>>
ClearTemplate ==
    /\ Does({"form"}) /\ Once /\ template' = {} /\ mapping' = {}
    /\ history' = [history EXCEPT !.reread = @ \/ \E h \in Handlers : ~Idle(h)]
    /\ UNCHANGED <<guestVars, invitations, locked, imports>>
\* PUT config: the assignment is checked with the fields of the template, then written.
SetMapping(h, names) ==
    /\ Does({"form"}) /\ names \subseteq template
    /\ Start(h, [Done EXCEPT !.todo = <<"mapping">>, !.names = names])
    /\ UNCHANGED <<guestVars, invitations, locked, imports, formVars, history>>
WriteMapping(h) ==
    /\ Doing(h, "mapping") /\ mapping' = job[h].names
    /\ Reread(h) /\ Then(h, Left(job[h]))
    /\ UNCHANGED <<guestVars, invitations, locked, imports, template>>

AdoptBusy(h, i) == When(\E g \in Handlers \ {h} : job[g].import = i, {i})
\* adoptImport: accounts are refused, guests are looked up.
Adoption(i, mail, character, e) ==
    [IF \E r \in Holders(mail) : users[r].kind = "account"
     THEN [Done EXCEPT !.todo = <<"adoptError">>]
     ELSE Booking(mail, character, <<"adopted">>) EXCEPT !.import = i, !.event = e]
Upload(i, mail, character) ==
    /\ mapping # {} /\ imports[i].state = "none"
    /\ i = CHOOSE x \in Imports : imports[x].state = "none"
    /\ imports' = [imports EXCEPT ![i] = [state |-> "there", mail |-> mail,
                                          character |-> character, adopted |-> FALSE,
                                          error |-> FALSE]]
\* POST submissions, without an event...
Submit(i, mail, character) ==
    /\ Does({"import"}) /\ Once /\ Upload(i, mail, character)
    /\ UNCHANGED <<guestVars, invitations, locked, formVars, history>>
\* ... or with one, for which the form is adopted at once.
SubmitAndAdopt(h, i, mail, character, e) ==
    /\ Does({"import"}) /\ Upload(i, mail, character)
    /\ Start(h, Adoption(i, mail, character, e))
    /\ Past("shared", Unsettled(h, Holders(mail)))
    /\ UNCHANGED <<guestVars, invitations, locked, formVars>>
\* Mutant: it does not matter whether the form was adopted before.
AdoptableAgain(i) == imports[i].state = "there"
Adoptable(i) == imports[i].state = "there" /\ ~imports[i].adopted
\* POST submissions/:id/adopt
Adopt(h, i, e) ==
    /\ Does({"import"}) /\ Adoptable(i)
    /\ Start(h, Adoption(i, imports[i].mail, imports[i].character, e))
    /\ history' = [history EXCEPT
                     !.shared = @ \cup Unsettled(h, Holders(imports[i].mail)),
                     !.twice = @ \cup AdoptBusy(h, i)]
    /\ UNCHANGED <<guestVars, invitations, locked, imports, formVars>>
Mark(i, adopted) ==
    imports' = IF imports[i].state = "there"
               THEN [imports EXCEPT ![i].adopted = adopted, ![i].error = ~adopted]
               ELSE imports
\* markPdfImportAdopted
MarkAdopted(h) ==
    /\ Doing(h, "adopted")
    /\ \/ Mark(job[h].import, TRUE) /\ Then(h, Left(job[h])) /\ UNCHANGED history
       \/ /\ Fail(h, [job[h] EXCEPT !.todo = <<"adoptError">>])
          /\ Past("twice", {job[h].import}) /\ UNCHANGED imports
    /\ UNCHANGED <<guestVars, invitations, locked, formVars>>
MarkFailed(h) ==
    /\ Doing(h, "adoptError") /\ Mark(job[h].import, FALSE) /\ Then(h, Left(job[h]))
    /\ UNCHANGED <<guestVars, invitations, locked, formVars, history>>
DeleteImport(i) ==
    /\ Does({"import"}) /\ Once /\ imports[i].state = "there"
    /\ imports' = [imports EXCEPT ![i].state = "deleted"]
    /\ UNCHANGED <<guestVars, invitations, locked, formVars, history>>

-----------------------------------------------------------------------------
(* Coming soon *)

\* POST remind-me (at any time, also when registration is open)
RemindMe(h, mail) ==
    /\ Does({"soon"})
    /\ \A r \in Holders(mail) : users[r].kind = "guest" /\ users[r].mark = 0
    /\ LET found == Holders(mail)
       IN  Start(h, IF found = {}
                    THEN [Done EXCEPT !.todo = <<"insertMarked">>, !.mail = mail]
                    ELSE [Done EXCEPT !.todo = <<"mark">>,
                                      !.user = CHOOSE r \in found : TRUE])
    /\ Past("shared", Unsettled(h, Holders(mail)))
    /\ UNCHANGED <<guestVars, invitations, locked, imports, formVars>>
\* Nobody is going to look for wishes any more.
TooLate(h) ==
    When(~locked /\ \A g \in Handlers \ {h} : ~Doing(g, "select"), {job[h].n})
MarkGuest(h) ==
    /\ Doing(h, "mark")
    /\ users' = IF Exists(job[h].user) THEN [users EXCEPT ![job[h].user].mark = job[h].n]
                ELSE users
    /\ Past("late", TooLate(h)) /\ Then(h, Left(job[h]))
    /\ UNCHANGED <<places, characters, invitations, locked, imports, formVars>>
InsertMarked(h) ==
    /\ Doing(h, "insertMarked")
    /\ IF Taken(job[h].mail) THEN Then(h, Left(job[h])) /\ UNCHANGED <<users, history>>
       ELSE /\ FreeRow
            /\ users' = [users EXCEPT ![CHOOSE x \in Rows : users[x].kind = "free"] =
                           [kind |-> "guest", mail |-> job[h].mail, mark |-> job[h].n]]
            /\ Past("late", TooLate(h)) /\ Then(h, Left(job[h]))
    /\ UNCHANGED <<places, characters, invitations, locked, imports, formVars>>

LockAgain ==
    /\ Does({"soon"}) /\ Once /\ ~locked /\ locked' = TRUE
    /\ UNCHANGED <<guestVars, invitations, imports, formVars, history>>
\* PUT app-settings reads whether there was a lock and writes that there is none...
Lift(h) ==
    /\ Does({"soon"})
    /\ Start(h, [Done EXCEPT !.todo = <<"unlock">>, !.wasLocked = locked])
    /\ UNCHANGED <<guestVars, invitations, locked, imports, formVars, history>>
\* Mutant: whether there was a lock is asked after there is none any more.
AfterUnlockingNow(j) == <<>>
AfterUnlocking(j) == IF j.wasLocked THEN <<"select">> ELSE <<>>
Unlock(h) ==
    /\ Doing(h, "unlock") /\ locked' = FALSE
    /\ Then(h, [job[h] EXCEPT !.todo = AfterUnlocking(job[h])])
    \* the lock was set after this request had looked
    /\ Past("late", When(locked /\ ~job[h].wasLocked, {users[r].mark : r \in Rows} \ {0}))
    /\ UNCHANGED <<guestVars, invitations, imports, formVars>>
\* ... and sendComingSoonReminders invites one after the other who asked for it.
Reminding(j) == IF j.wishes = <<>> THEN <<>> ELSE <<"invite", "unmark">>
Inviting(j, r) == \E w \in ToSet(j.wishes) : w.user = r
SelectMarked(h) ==
    /\ Doing(h, "select")
    /\ LET marked == {r \in Rows : users[r].mark # 0 /\ users[r].kind = "guest"}
           wishes == SetToSeq({[user |-> r, mark |-> users[r].mark] : r \in marked})
           j == [job[h] EXCEPT !.wishes = wishes]
       IN  /\ Then(h, [j EXCEPT !.todo = Reminding(j)])
           /\ Past("invitedTwice", {r \in marked : \E g \in Handlers : Inviting(job[g], r)})
    /\ UNCHANGED <<guestVars, invitations, locked, imports, formVars>>
Invite(h) ==
    /\ Doing(h, "invite")
    /\ LET j == job[h]
           w == Head(j.wishes)
           rest == [j EXCEPT !.wishes = Tail(@)]
       IN  \/ /\ Exists(w.user)
              /\ invitations' =
                   invitations \cup {[user |-> w.user, mark |-> w.mark, n |-> j.n]}
              /\ Then(h, Left(j))
           \/ /\ ~Exists(w.user) /\ Then(h, [rest EXCEPT !.todo = Reminding(rest)])
              /\ UNCHANGED invitations
    /\ UNCHANGED <<guestVars, locked, imports, formVars, history>>
Unmark(h) ==
    /\ Doing(h, "unmark")
    /\ LET j == job[h]
           w == Head(j.wishes)
           rest == [j EXCEPT !.wishes = Tail(@)]
           left == [rest EXCEPT !.todo = Reminding(rest)]
       IN  \/ /\ users' = [users EXCEPT ![w.user].mark = 0]
              /\ Then(h, left) /\ UNCHANGED history
           \/ Fail(h, left) /\ Past("invitedTwice", {w.user}) /\ UNCHANGED users
    /\ UNCHANGED <<places, characters, invitations, locked, imports, formVars>>

-----------------------------------------------------------------------------
\* The process restarts.
Restart(h) ==
    /\ "restart" \in ops /\ ~Idle(h) /\ faults < MaxFaults /\ faults' = faults + 1
    /\ job' = [job EXCEPT ![h] = Done]
    /\ LET j == job[h]
       IN  history' =
             [history EXCEPT
                !.interrupted = @ \cup ({j.user} \ {NoRow}),
                !.crossed = @ \cup ({j.user} \ {NoRow}),
                !.twice = @ \cup ({j.import} \ {NoImport}),
                !.invitedTwice = @ \cup {w.user : w \in ToSet(j.wishes)},
                !.late = @ \cup When(Doing(h, "select"), {users[r].mark : r \in Rows})]
    /\ UNCHANGED <<guestVars, invitations, locked, imports, formVars, requests, ops>>

Init ==
    /\ ops \in Scenarios
    /\ users = [r \in Rows |-> [kind |-> "free", mail |-> NoMail, mark |-> 0]]
    /\ places = {} /\ characters = {} /\ invitations = {}
    /\ locked = ("locked" \in ops)
    /\ imports = [i \in Imports |-> [state |-> "none", mail |-> NoMail, character |-> FALSE,
                                     adopted |-> FALSE, error |-> FALSE]]
    /\ template = Names /\ mapping = Names
    /\ job = [h \in Handlers |-> Done]
    /\ history = [undone |-> {}, shared |-> {}, withdrawn |-> {}, interrupted |-> {},
                  twice |-> {}, invitedTwice |-> {}, late |-> {},
                  mailed |-> [x \in Rows \X Events |-> 0], crossed |-> {}, reread |-> FALSE]
    /\ requests = 0 /\ faults = 0

Continue(h) ==
    \/ InsertGuest(h) \/ MakeCharacter(h) \/ RegisterForEvent(h)
    \/ UndoUser(h) \/ UndoCharacter(h) \/ SetLink(h) \/ MailLink(h) \/ Remind(h)
    \/ WriteTemplate(h) \/ WriteMapping(h) \/ MarkAdopted(h) \/ MarkFailed(h)
    \/ MarkGuest(h) \/ InsertMarked(h) \/ Unlock(h) \/ SelectMarked(h) \/ Invite(h)
    \/ Unmark(h)
Coming(h) ==
    \/ \E mail \in Mails : RemindMe(h, mail)
    \/ \E mail \in Mails, character \in BOOLEAN, e \in Events : Ask(h, mail, character, e)
    \/ \E e \in Events : PaymentReminders(h, e)
    \/ Lift(h)
Forms(h) ==
    \/ \E names \in SUBSET Names : SetTemplate(h, names) \/ SetMapping(h, names)
    \/ \E i \in Imports, e \in Events :
         \/ Adopt(h, i, e)
         \/ \E mail \in Mails \cup {NoMail}, character \in BOOLEAN :
              SubmitAndAdopt(h, i, mail, character, e)

Next ==
    \/ \E h \in Handlers : Continue(h) \/ Coming(h) \/ Forms(h) \/ Restart(h)
    \/ \E p \in places : Withdraw(p) \/ Expire(p)
    \/ \E r \in Rows : Convert(r)
    \/ \E i \in Imports :
         \/ DeleteImport(i)
         \/ \E mail \in Mails \cup {NoMail}, character \in BOOLEAN :
              Submit(i, mail, character)
    \/ ClearTemplate \/ LockAgain

Spec == Init /\ [][Next]_gvars

-----------------------------------------------------------------------------
(* What must hold *)

\* A registration that fails takes nothing from anybody else: "an existing guest reusing
\* their email for a second event must never be deleted" (POST guest-registration,
\* adoptImport). Except if somebody used a guest whom another request had just made and
\* was still to undo.
NobodyIsUndone == history.undone \subseteq history.shared

\* A failed attempt leaves nothing behind: every guest has a place, a wish or an invitation,
\* and every character belongs to a place of its guest. Except after a restart or a failed
\* statement, or if the place was taken back later.
NothingIsLeftBehind ==
    \A r \in Rows \ (history.withdrawn \cup history.interrupted) :
        (\A h \in Handlers : ~Using(job[h], r)) =>
            /\ users[r].kind = "guest" =>
                 \/ PlacesOf(r) # {} \/ users[r].mark # 0
                 \/ \E i \in invitations : i.user = r
            /\ \A c \in characters :
                 c.user = r => \E p \in PlacesOf(r) : p.n = c.n

\* A form is adopted once, and an adopted form says so (adoptImport, markPdfImportAdopted),
\* except if it was adopted twice at the same time, or the process ended, or the database
\* refused, before that was stored. Only fields of the template are assigned
\* (setPdfTemplate), unless two changed template or assignment at the same time.
FormsAreSound ==
    /\ history.reread \/ mapping \subseteq template
    /\ \A i \in Imports \ history.twice :
         LET made == {p \in places : p.import = i}
         IN  /\ Cardinality(made) <= 1
             /\ /\ made # {} /\ imports[i].state = "there"
                /\ \A h \in Handlers : job[h].import # i
                => imports[i].adopted

\* Who asked to be reminded while registration was locked is invited when the lock is
\* lifted, once (sendComingSoonReminders). Except if two lifted it at the same time, after
\* a restart or a failed statement, or for wishes that came when nobody looked any more.
RemindedOnce ==
    /\ \A i, j \in invitations :
         i.user = j.user /\ i.mark = j.mark /\ i.user \notin history.invitedTwice => i = j
    /\ ~locked /\ (\A h \in Handlers : Idle(h)) =>
         \A r \in Rows : users[r].mark # 0 /\ users[r].kind = "guest"
                            /\ r \notin history.invitedTwice
                            => users[r].mark \in history.late

\* The link in the last mail a guest got works (setGuestPaymentToken, payment-reminders).
\* Except if two requests sent one at the same time, or a mail or the process failed
\* between the link and the mail.
LinkWorks ==
    \A p \in places :
        LET last == history.mailed[<<p.user, p.event>>]
        IN  last # 0 /\ p.user \notin history.crossed
              /\ (\A h \in Handlers : ~AtPlace(job[h], p)) => p.link = last
=============================================================================
