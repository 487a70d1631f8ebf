------------------------------- MODULE Tavern -------------------------------
(***************************************************************************)
(* The prepaid tavern accounts of one event and their ledger: top-ups,     *)
(* charges, payouts, voids, online top-ups and the accounts' numbers.      *)
(* Translated from backend/tavern/{repository,routes}.js, the Stripe       *)
(* webhook's tavern branch and frontend/js/requestKey.js.                  *)
(*                                                                         *)
(* A handler first waits for the account's row (SELECT ... FOR UPDATE),    *)
(* reads it, and then books what follows from the row AS READ and commits. *)
(* A row is locked while the job of some handler says so.                  *)
(***************************************************************************)
EXTENDS Sums, Sequences, FiniteSets

CONSTANTS
    Accounts,     \* rows tavern_accounts may get
    People,       \* people an account may be linked to
    Handlers,     \* request handlers that may run at the same time
    Keys,         \* idempotency keys the tablets may draw (request_id)
    Sessions,     \* paid Stripe checkout sessions (provider_reference)
    Amounts,      \* amounts that may be entered, in cents
    Prices,       \* prices the item on the menu may have; Inactive is none
    MaxAttempts,  \* attempts at a free account number
    TavernOps,    \* the operations that may be started
    Inactive,     \* the item is not on the menu
    Everything,   \* a payout without an amount
    NoOwner,      \* SQL NULL in tavern_accounts.user_id
    Unasked       \* a key nobody has used yet

ASSUME AccountsAssumption == IsFiniteSet(Accounts) /\ NoOwner \notin People
ASSUME AmountsAssumption ==
    /\ Amounts \subseteq Nat \ {0}
    /\ Prices \subseteq Nat \cup {Inactive}
    /\ Inactive \notin Int
    /\ Everything \notin Int
    /\ MaxAttempts \in Nat \ {0}
ASSUME KeysAssumption == Keys \cap Sessions = {} /\ Unasked \notin Keys \cup Sessions

VARIABLES
    account,   \* the table tavern_accounts; number 0 stands for no row
    ledger,    \* the table tavern_transactions, in the order of booking
    menu,      \* price of the one item, or Inactive
    asked,     \* what each key was first used for; a repeat asks the same
    job        \* what each handler is doing and has read

tvars == <<account, ledger, menu, asked, job>>

References == Keys \cup Sessions
Account == [number : Nat, owner : People \cup {NoOwner}, locked : BOOLEAN, balance : Int]
NoAccount == [number |-> 0, owner |-> NoOwner, locked |-> FALSE, balance |-> 0]
\* "amount_cents is signed": money in is positive, money out negative.
Entry ==
    [account : Accounts, type : {"topup"}, amount : Nat \ {0},
     reference : References, reverses : {0}, voided : BOOLEAN]
    \cup [account : Accounts, type : {"charge", "payout"}, amount : {n \in Int : n < 0},
          reference : References, reverses : {0}, voided : BOOLEAN]
    \cup [account : Accounts, type : {"void"}, amount : Int,
          reference : {Unasked}, reverses : Nat \ {0}, voided : {FALSE}]

\* What a tablet or Stripe may ask; items is how often the menu's item is taken.
Intent ==
    [type : {"topup"}, account : Accounts, amount : Amounts]
    \cup [type : {"charge"}, account : Accounts, amount : Amounts \cup {0}, items : {0, 1}]
    \cup [type : {"payout"}, account : Accounts, amount : Amounts \cup {Everything}]

ASSUME UnaskedAssumption == Unasked \notin Intent

Job ==
    [at : {"idle"}]
    \cup [at : {"lock"}, account : Accounts, type : {"topup", "charge", "payout"},
          amount : Nat, items : {0, 1}, reference : References]
    \cup [at : {"book"}, account : Accounts, type : {"topup", "charge", "payout"},
          amount : Nat, items : {0, 1}, reference : References,
          seen : Account, done : BOOLEAN]
    \cup [at : {"lockVoid"}, entry : Nat \ {0}]
    \cup [at : {"bookVoid"}, entry : Nat \ {0}, seen : Account]
    \cup [at : {"open"}, owner : People \cup {NoOwner}, attempt : 1..MaxAttempts]
    \cup [at : {"number"}, owner : People \cup {NoOwner}, attempt : 1..MaxAttempts,
          number : Nat \ {0}]
NoJob == [at |-> "idle"]

TypeOK ==
    /\ account \in [Accounts -> Account]
    /\ ledger \in Seq(Entry)
    /\ menu \in Nat \cup {Inactive}
    /\ asked \in [References -> Intent \cup {Unasked}]
    /\ job \in [Handlers -> Job]

-----------------------------------------------------------------------------
Opened == {a \in Accounts : account[a].number # 0}
Entries == DOMAIN ledger
EntriesOf(a) == {e \in Entries : ledger[e].account = a}
\* request_id is looked up within the account, provider_reference everywhere;
\* a key never comes with two accounts.
Booked(reference) == \E e \in Entries : ledger[e].reference = reference

Start(h, op) == op \in TavernOps /\ job[h] = NoJob
Continue(h, step) == job' = [job EXCEPT ![h] = step]
Finish(h) == Continue(h, NoJob)
\* Mutant: SELECT without FOR UPDATE.
AnyRow(a) == a \in Accounts
RowFree(a) ==
    \A h \in Handlers :
        /\ job[h].at = "book" => job[h].account # a
        /\ job[h].at = "bookVoid" => ledger[job[h].entry].account # a
EntryFree(e) ==
    \A h \in Handlers : job[h].at \in {"lockVoid", "bookVoid"} => job[h].entry # e

\* applyEntry: money that leaves the account must be there.
Covers(type, balance, amount) == amount < 0 => balance + amount >= 0
\* applyEntry: the entry, and the balance computed from the row that was read.
Apply(entry, seen) ==
    /\ ledger' = Append(ledger, entry)
    /\ account' = [account EXCEPT ![entry.account].balance = seen.balance + entry.amount]

-----------------------------------------------------------------------------
(* Booking *)

\* The job of an intent; a payout of everything takes the balance read just now.
Wanted(intent, reference) ==
    [at |-> "lock", account |-> intent.account, type |-> intent.type,
     amount |-> IF intent.amount = Everything THEN account[intent.account].balance
                                              ELSE intent.amount,
     items |-> IF intent.type = "charge" THEN intent.items ELSE 0,
     reference |-> reference]

\* A tablet sends a request, the first time or again (double tap, lost answer).
\* A payout already booked is answered at once; without money it is refused.
Press(h) ==
    /\ Start(h, "press")
    /\ \E k \in Keys, intent \in Intent :
        /\ intent.account \in Opened
        /\ asked[k] \in {intent, Unasked}
        /\ asked' = [asked EXCEPT ![k] = intent]
        /\ intent.type = "payout" => ~Booked(k) /\ Wanted(intent, k).amount > 0
        /\ Continue(h, Wanted(intent, k))
    /\ UNCHANGED <<account, ledger, menu>>

\* Stripe reports a paid session, as often as it likes.
Webhook(h) ==
    /\ Start(h, "stripe")
    /\ \E s \in Sessions, a \in Opened, amount \in Amounts :
        LET intent == [type |-> "topup", account |-> a, amount |-> amount]
        IN  /\ account[a].owner # NoOwner
            /\ asked[s] \in {intent, Unasked}
            /\ asked' = [asked EXCEPT ![s] = intent]
            /\ Continue(h, Wanted(intent, s))
    /\ UNCHANGED <<account, ledger, menu>>

\* lockAccount, then findByRequestId (or the look at provider_reference).
Lock(h) ==
    /\ job[h].at = "lock"
    /\ RowFree(job[h].account)
    /\ LET j == job[h]
       IN  Continue(h, [at |-> "book", account |-> j.account, type |-> j.type,
                        amount |-> j.amount, items |-> j.items, reference |-> j.reference,
                        seen |-> account[j.account], done |-> Booked(j.reference)])
    /\ UNCHANGED <<account, ledger, menu, asked>>

\* charge and payout are refused on a locked account, a top-up is not.
MayDebit(type, seen) == type \in {"charge", "payout"} => ~seen.locked
Signed(type, total) == IF type = "topup" THEN total ELSE -total

\* The rest of the transaction, with the item's price of this moment.
Book(h) ==
    /\ job[h].at = "book"
    /\ LET j == job[h]
           total == j.amount + (IF j.items = 0 THEN 0 ELSE menu)
       IN  IF /\ ~j.done
              /\ MayDebit(j.type, j.seen)
              /\ j.items = 1 => menu # Inactive
              /\ total > 0
              /\ Covers(j.type, j.seen.balance, Signed(j.type, total))
              /\ ~Booked(j.reference)   \* the unique indexes
           THEN Apply([account |-> j.account, type |-> j.type,
                       amount |-> Signed(j.type, total), reference |-> j.reference,
                       reverses |-> 0, voided |-> FALSE], j.seen)
           ELSE UNCHANGED <<account, ledger>>
    /\ Finish(h)
    /\ UNCHANGED <<menu, asked>>

-----------------------------------------------------------------------------
(* Storno: voidTransaction *)

Voidable(e) == ledger[e].type # "void" /\ ~ledger[e].voided

VoidStart(h) ==
    /\ Start(h, "void")
    /\ \E e \in Entries :
        /\ EntryFree(e)
        /\ Voidable(e)
        /\ Continue(h, [at |-> "lockVoid", entry |-> e])
    /\ UNCHANGED <<account, ledger, menu, asked>>

LockVoid(h) ==
    /\ job[h].at = "lockVoid"
    /\ LET a == ledger[job[h].entry].account
       IN  /\ RowFree(a)
           /\ Continue(h, [at |-> "bookVoid", entry |-> job[h].entry, seen |-> account[a]])
    /\ UNCHANGED <<account, ledger, menu, asked>>

BookVoid(h) ==
    /\ job[h].at = "bookVoid"
    /\ LET e == job[h].entry
           reversal == [account |-> ledger[e].account, type |-> "void",
                        amount |-> -ledger[e].amount, reference |-> Unasked,
                        reverses |-> e, voided |-> FALSE]
           seen == job[h].seen
       IN  IF Covers("void", seen.balance, reversal.amount)
           THEN /\ ledger' = Append([ledger EXCEPT ![e].voided = TRUE], reversal)
                /\ account' = [account EXCEPT
                                 ![reversal.account].balance = seen.balance + reversal.amount]
           ELSE UNCHANGED <<account, ledger>>
    /\ Finish(h)
    /\ UNCHANGED <<menu, asked>>

-----------------------------------------------------------------------------
(* Accounts and the menu *)

Numbers == {account[a].number : a \in Opened}
NextNumber == Max(Numbers \cup {0}) + 1
NumberTaken(n) == n \in Numbers

\* Room among the accounts of the instance, one kept for every handler opening.
AccountRoom ==
    Cardinality(Opened) + Cardinality({h \in Handlers : job[h].at \in {"open", "number"}})
        < Cardinality(Accounts)

OpenStart(h) ==
    /\ Start(h, "open")
    /\ AccountRoom
    /\ \E owner \in People \cup {NoOwner} :
        Continue(h, [at |-> "open", owner |-> owner, attempt |-> 1])
    /\ UNCHANGED <<account, ledger, menu, asked>>

ReadNumber(h) ==
    /\ job[h].at = "open"
    /\ Continue(h, [at |-> "number", owner |-> job[h].owner, attempt |-> job[h].attempt,
                    number |-> NextNumber])
    /\ UNCHANGED <<account, ledger, menu, asked>>

\* The INSERT: a number somebody took meanwhile is tried again, a person who
\* has an account by now is refused.
OpenAccount(h) ==
    /\ job[h].at = "number"
    /\ LET j == job[h]
       IN  IF NumberTaken(j.number)
           THEN /\ IF j.attempt < MaxAttempts
                   THEN Continue(h, [at |-> "open", owner |-> j.owner,
                                     attempt |-> j.attempt + 1])
                   ELSE Finish(h)
                /\ UNCHANGED account
           ELSE /\ IF j.owner # NoOwner /\ \E a \in Opened : account[a].owner = j.owner
                   THEN UNCHANGED account
                   ELSE \E a \in Accounts \ Opened :
                          account' = [account EXCEPT ![a] =
                                        [NoAccount EXCEPT !.number = j.number, !.owner = j.owner]]
                /\ Finish(h)
    /\ UNCHANGED <<ledger, menu, asked>>

\* setLocked: an UPDATE, which waits for the row.
SetLocked(a) ==
    /\ "lock" \in TavernOps
    /\ a \in Opened
    /\ RowFree(a)
    /\ account' = [account EXCEPT ![a].locked = ~@]
    /\ UNCHANGED <<ledger, menu, asked, job>>

\* createItem, updateItem, deleteItem
SaveItem(price) ==
    /\ "menu" \in TavernOps
    /\ menu' = price
    /\ UNCHANGED <<account, ledger, asked, job>>

\* The process restarts: open transactions roll back, answers are lost.
Restart ==
    /\ "restart" \in TavernOps
    /\ job' = [h \in Handlers |-> NoJob]
    /\ UNCHANGED <<account, ledger, menu, asked>>

-----------------------------------------------------------------------------
Init ==
    /\ account = [a \in Accounts |-> NoAccount]
    /\ ledger = <<>>
    /\ menu \in Prices
    /\ asked = [r \in References |-> Unasked]
    /\ job = [h \in Handlers |-> NoJob]

Proceed(h) ==
    \/ Lock(h) \/ Book(h) \/ LockVoid(h) \/ BookVoid(h) \/ ReadNumber(h) \/ OpenAccount(h)

Next ==
    \/ \E h \in Handlers :
        \/ Press(h) \/ Webhook(h) \/ VoidStart(h) \/ OpenStart(h)
        \/ Proceed(h)
    \/ \E a \in Accounts : SetLocked(a)
    \/ \E price \in Prices : SaveItem(price)
    \/ Restart

Spec == Init /\ [][Next]_tvars

-----------------------------------------------------------------------------
(* What the ledger promises *)

Sum(entries) == Total([e \in Entries |-> ledger[e].amount], entries)

\* "balance is kept in sync with the ledger": no update of a balance is lost,
\* whatever tablets, voids and webhooks do at the same time (lockAccount).
BalanceIsLedger == \A a \in Accounts : account[a].balance = Sum(EntriesOf(a))

\* No account is ever overdrawn: not by two tablets at once, not by a payout of a
\* balance read earlier, not by voiding a top-up that was spent (applyEntry).
NeverOverdrawn == \A a \in Accounts : account[a].balance >= 0

\* An entry is marked as voided exactly when one reversal of it was booked, for the
\* opposite amount on the same account (voidTransaction).
VoidedOnce ==
    \A e \in Entries :
        LET reversals == {r \in Entries : ledger[r].reverses = e}
        IN  /\ Cardinality(reversals) = IF ledger[e].voided THEN 1 ELSE 0
            /\ \A r \in reversals : /\ ledger[r].amount = -ledger[e].amount
                                    /\ ledger[r].account = ledger[e].account

\* The settlement leaves voided entries and their reversals out, and still what
\* came in less what went out is what the accounts hold (getReport).
Settled == {e \in Entries : ledger[e].type # "void" /\ ~ledger[e].voided}
ReportMatchesBalances ==
    Sum(Settled) = Total([a \in Accounts |-> account[a].balance], Accounts)

\* Once a handler has the row and found its request not booked, nobody else books
\* that request first: a repeat is answered as done and never runs into the unique
\* index ("concurrent duplicates arrive one by one", findByRequestId).
RepeatsComeOneByOne ==
    \A h \in Handlers : job[h].at = "book" /\ ~job[h].done => ~Booked(job[h].reference)

\* A tavern number belongs to one account and a person to at most one, although
\* numbers are drawn as MAX + 1 by several handlers at once (createAccount).
NumbersIdentify ==
    \A a, b \in Opened :
        a # b => /\ account[a].number # account[b].number
                 /\ account[a].owner # NoOwner => account[a].owner # account[b].owner

\* From the moment an account is locked nothing is charged to it or paid out of it,
\* even by requests that were under way when staff locked it (charge, payout).
LockedAccountKeepsMoney ==
    [][\A e \in DOMAIN ledger' \ DOMAIN ledger :
         ledger'[e].type \in {"charge", "payout"} => ~account[ledger'[e].account].locked]_tvars

=============================================================================
