------------------------------ MODULE Payments ------------------------------
(***************************************************************************)
(* How participation fees are paid, booked and refunded: online by Stripe, *)
(* SumUp or PayPal, for one person or a group; by hand; from a bank        *)
(* statement. Translated from backend/payments/{repository,routes}.js, the *)
(* provider clients and backend/bankReconcile/routes.js.                   *)
(*                                                                         *)
(* Money moves at the providers, bookings in the database, and a handler   *)
(* may stop between any two of its statements. Payments are open for the   *)
(* event and nobody is a Con-Zahler.                                       *)
(***************************************************************************)
EXTENDS Sums, Sequences, FiniteSets

CONSTANTS
    Persons,     \* people with a registration for the event
    Guests,      \* those of them who have no account and pay with a link
    Attempts,    \* payments started online: a session, a checkout or an order
    Handlers,    \* request handlers that may run at the same time
    Provider,    \* the provider of each attempt
    ListPrices,  \* list prices of the registrations; NoAmount for an event without
    Amounts,     \* amounts staff may enter, as amount due or as discount
    Bookings,    \* what extras and lodging together may cost
    Scenarios,   \* which kinds of operations may happen together in one behaviour
    MaxClicks,   \* bound on what staff does: bookings, changes and refunds together
    MaxFaults    \* bound on restarts and failing statements

NoAmount == -1   \* SQL NULL in amount_due_cents and price_list_cents
NoAttempt == "none"

ASSUME ProvidersAssumption ==
    /\ Provider \in [Attempts -> {"stripe", "sumup", "paypal"}]
    /\ NoAttempt \notin Attempts
ASSUME PeopleAssumption ==
    IsFiniteSet(Persons) /\ Guests \subseteq Persons /\ IsFiniteSet(Handlers)
ASSUME AmountsOfMoneyAssumption ==
    /\ ListPrices \subseteq Nat \cup {NoAmount}
    /\ Amounts \subseteq Nat
    /\ Bookings \subseteq Nat
    /\ MaxClicks \in Nat /\ MaxFaults \in Nat

VARIABLES
    reg,       \* what the table registrations says about money
    payments,  \* the table payments, in the order of created_at
    attempt,   \* each attempt: at the provider, and in our group_payments, paypal_orders
    overpaid,  \* the audit entries payment.overpaid: attempt and person
    transfers, \* the group_payments of kind bank: group transfers reported
    listed,    \* the suggestions of a bank statement that staff has before it
    job,       \* what each handler is doing and has read
    changed,   \* people for whom somebody changed what is due or paid
    clicks,    \* how often staff did something
    faults,    \* how often the process restarted or a statement failed
    ops        \* the kinds of operations that happen in this behaviour

bank == <<transfers, listed>>
pvars == <<reg, payments, attempt, overpaid, bank, job, changed, clicks, faults, ops>>

Due == Nat \cup {NoAmount}
MaybeAttempt == Attempts \cup {NoAttempt}
Registration ==
    [list : Due, booked : Nat, due : Due, paid : BOOLEAN, notified : BOOLEAN]
\* via: the attempt that was paid, NoAttempt for one booked by hand. receipts: audit
\* entries and mails about it. returned: the attempt whose refund was written down.
Payment ==
    [user : Persons, amount : Nat, via : MaybeAttempt, receipts : Nat,
     refunded : BOOLEAN, refund : Nat, returned : MaybeAttempt]
\* refunds: what the provider has paid back. answer: how our side dealt with it last.
Attempt ==
    [state : {"none", "open", "approved", "paid"}, who : SUBSET Persons, group : BOOLEAN,
     amount : Nat, refunds : Nat, answer : {"none", "booked", "refused", "failed"}]
NotStarted ==
    [state |-> "none", who |-> {}, group |-> FALSE, amount |-> 0, refunds |-> 0,
     answer |-> "none"]

Seen == [Persons -> Due]
Job ==
    [at : {"idle"}]
    \cup [at : {"capture", "check"}, a : Attempts]
    \cup [at : {"skipped"}, a : Attempts, seen : Seen, todo : SUBSET Persons]
    \cup [at : {"report"}, a : Attempts, seen : Seen, todo : SUBSET Persons,
          skipped : SUBSET Persons]
    \cup [at : {"record"}, a : Attempts, seen : Seen, todo : SUBSET Persons, log : Nat]
    \cup [at : {"notify"}, who : SUBSET Persons, todo : SUBSET Persons]
    \cup [at : {"book"}, todo : SUBSET Persons, log : Nat]
    \cup [at : {"locked"}, todo : SUBSET Persons, user : Persons, seen : Registration]
    \cup [at : {"refund"}, row : Nat, amount : Nat]
    \cup [at : {"select"}, user : Persons, amount : Nat, returned : MaybeAttempt]
    \cup [at : {"write"}, row : Nat, amount : Nat, returned : MaybeAttempt]
NoJob == [at |-> "idle"]

TypeOK ==
    /\ reg \in [Persons -> Registration]
    /\ payments \in Seq(Payment)
    /\ attempt \in [Attempts -> Attempt]
    /\ overpaid \subseteq Attempts \X Persons
    /\ transfers \subseteq SUBSET Persons
    /\ listed \subseteq [who : SUBSET Persons, amount : Nat]
    /\ job \in [Handlers -> Job]
    /\ changed \subseteq Persons
    /\ clicks \in Nat
    /\ faults \in Nat
    /\ ops \in Scenarios

-----------------------------------------------------------------------------
Rows == DOMAIN payments
\* A row of this payment for this person: provider_reference, for a group with #user.
RowsFor(a, p) == {i \in Rows : payments[i].via = a /\ payments[i].user = p}
Recorded(a, p) == RowsFor(a, p) # {}
Unpaid(p) == ~reg[p].paid /\ reg[p].due > 0
DuesNow == [p \in Persons |-> reg[p].due]
DuesOf(people) == [p \in Persons |-> IF p \in people THEN reg[p].due ELSE 0]

\* Mutant: SELECT without FOR UPDATE.
AnyRow(p) == p \in Persons
\* The registration's row is locked from SELECT ... FOR UPDATE to the commit.
RowFree(p) == \A h \in Handlers : job[h].at = "locked" => job[h].user # p
Idle(h) == job[h] = NoJob
Continue(h, step) == job' = [job EXCEPT ![h] = step]
Finish(h) == Continue(h, NoJob)
Click(op) ==
    /\ op \in ops /\ clicks < (IF "brief" \in ops THEN MaxClicks - 1 ELSE MaxClicks)
    /\ clicks' = clicks + 1
Fault == "restart" \in ops /\ faults < MaxFaults /\ faults' = faults + 1

NewRow(p, amount, via) ==
    [user |-> p, amount |-> amount, via |-> via, receipts |-> 0,
     refunded |-> FALSE, refund |-> 0, returned |-> NoAttempt]

-----------------------------------------------------------------------------
(* Starting a payment *)

\* All that are selected owe something.
Payable(people) == people # {} /\ \A p \in people : Unpaid(p)
SwitchedOn(provider) == provider \in ops
\* A session, checkout or order is priced when it is created.
Opened(people, group) ==
    [NotStarted EXCEPT !.state = "open", !.who = people, !.group = group,
                       !.amount = Total(DuesNow, people)]
Create(a, people, group) ==
    /\ SwitchedOn(Provider[a]) /\ attempt[a] = NotStarted
    /\ Payable(people)
    /\ attempt' = [attempt EXCEPT ![a] = Opened(people, group)]
    /\ UNCHANGED <<reg, payments, overpaid, bank, job, changed, clicks, faults>>

\* A person pays, or whoever manages them. (A price of zero is refused by the provider.)
StartSingle(a, p) == Create(a, {p}, FALSE)
\* A guest pays with the link from the mail: what is due is read once more with the token.
StartByLink(a, p) == p \in Guests /\ Create(a, {p}, FALSE)
\* PayPal's buttons in the page make the order without a redirect.
StartByButtons(a, p) == Provider[a] = "paypal" /\ Create(a, {p}, FALSE)
\* A group manager pays for several people at once; all of them must be payable.
StartGroup(a, people) == Create(a, people, TRUE)

\* The payer pays on the provider's page; a PayPal order is only approved there.
PayerPays(a) ==
    /\ attempt[a].state = "open"
    /\ attempt' = [attempt EXCEPT ![a].state =
           IF Provider[a] = "paypal" THEN "approved" ELSE "paid"]
    /\ UNCHANGED <<reg, payments, overpaid, bank, job, changed, clicks, faults>>

-----------------------------------------------------------------------------
(* Booking what was paid online *)

\* Mutant: the webhook is answered before it is worked on.
DeliverAnswered(h, a) ==
    /\ Idle(h)
    /\ attempt[a].state = "paid"
    /\ attempt' = [attempt EXCEPT ![a].answer = "booked"]
    /\ Continue(h, [at |-> "check", a |-> a])
    /\ UNCHANGED <<reg, payments, overpaid, bank, changed, clicks, faults>>
\* Stripe or SumUp call the webhook, as often as they like.
Deliver(h, a) ==
    /\ Idle(h)
    /\ Provider[a] # "paypal" /\ attempt[a].state = "paid"
    /\ Continue(h, [at |-> "check", a |-> a])
    /\ UNCHANGED <<reg, payments, attempt, overpaid, bank, changed, clicks, faults>>
\* The payer's browser comes back from PayPal, or its buttons report the approval; an
\* order booked before is answered at once.
ComeBack(h, a) ==
    /\ Idle(h)
    /\ Provider[a] = "paypal" /\ attempt[a].state \in {"approved", "paid"}
    /\ attempt[a].answer # "booked"
    /\ Continue(h, [at |-> "capture", a |-> a])
    /\ UNCHANGED <<reg, payments, attempt, overpaid, bank, changed, clicks, faults>>

\* Capturing twice is safe; PayPal may also refuse (declined, not confirmed).
Capture(h) ==
    /\ job[h].at = "capture"
    /\ LET a == job[h].a
       IN  \/ /\ attempt' = [attempt EXCEPT ![a].state = "paid"]
              /\ Continue(h, [at |-> "check", a |-> a])
           \/ attempt[a].state = "approved" /\ Finish(h) /\ UNCHANGED attempt
    /\ UNCHANGED <<reg, payments, overpaid, bank, changed, clicks, faults>>

\* Who of the attempt is booked: for a group, those still open.
ToBook(a) == IF attempt[a].group THEN {p \in attempt[a].who : Unpaid(p)} ELSE attempt[a].who
Priced(a) == attempt[a].group \/ \A p \in attempt[a].who : reg[p].due # NoAmount
\* The money must cover what is due now.
Covers(a) == Priced(a) /\ attempt[a].amount >= Total(DuesNow, ToBook(a))

\* The amounts due are read and compared with the money; too little is only logged.
Check(h) ==
    /\ job[h].at = "check"
    /\ LET a == job[h].a
           todo == ToBook(a)
       IN  \/ /\ ~Covers(a)
              /\ attempt' = [attempt EXCEPT ![a].answer = "refused"]
              /\ Finish(h)
           \/ /\ Covers(a)
              /\ IF attempt[a].group /\ todo # attempt[a].who
                 THEN Continue(h, [at |-> "skipped", a |-> a,
                                   seen |-> DuesOf(todo), todo |-> todo])
                 ELSE Continue(h, [at |-> "record", a |-> a,
                                   seen |-> DuesOf(todo), todo |-> todo, log |-> 0])
              /\ UNCHANGED attempt
    /\ UNCHANGED <<reg, payments, overpaid, bank, changed, clicks, faults>>

\* Mutant: whoever has any payment row counts as settled.
PaidWithoutRow(a, p) ==
    reg[p].paid /\ reg[p].due > 0 /\ \A i \in Rows : payments[i].user # p
\* People of the group paid by something else: their money came a second time.
PaidElsewhere(a, p) ==
    reg[p].paid /\ reg[p].due > 0 /\ ~Recorded(a, p) /\ <<a, p>> \notin overpaid
ListSkipped(h) ==
    /\ job[h].at = "skipped"
    /\ Continue(h, [at |-> "report", a |-> job[h].a,
                    seen |-> job[h].seen, todo |-> job[h].todo,
                    skipped |-> {p \in attempt[job[h].a].who : PaidElsewhere(job[h].a, p)}])
    /\ UNCHANGED <<reg, payments, attempt, overpaid, bank, changed, clicks, faults>>

\* One audit entry after the other; then the open people are booked.
ReportOverpaid(h) ==
    /\ job[h].at = "report"
    /\ \/ \E p \in job[h].skipped :
             /\ overpaid' = overpaid \cup {<<job[h].a, p>>}
             /\ Continue(h, [job[h] EXCEPT !.skipped = @ \ {p}])
       \/ /\ job[h].skipped = {}
          /\ Continue(h, [at |-> "record", a |-> job[h].a, seen |-> job[h].seen,
                          todo |-> job[h].todo, log |-> 0])
          /\ UNCHANGED overpaid
    /\ UNCHANGED <<reg, payments, attempt, bank, changed, clicks, faults>>

\* What is booked for one person: all the money, or in a group the amount read.
Share(h, p) == IF attempt[job[h].a].group THEN job[h].seen[p] ELSE attempt[job[h].a].amount
\* Mutant: no unique index, only paid_at is looked at.
ConflictsWhenPaid(a, p) == Recorded(a, p) /\ reg[p].paid
\* INSERT ... ON CONFLICT (provider_reference) DO NOTHING.
Conflicts(a, p) == Recorded(a, p)
\* The row a receipt is due for, 0 for none.
Receipt(a, p) == IF Conflicts(a, p) THEN 0 ELSE Len(payments) + 1

\* One transaction per person: the row, and paid_at if it is not set yet.
Record(h) ==
    /\ job[h].at = "record" /\ job[h].log = 0
    /\ \E p \in job[h].todo :
        LET a == job[h].a
        IN  /\ RowFree(p)
            /\ \/ Conflicts(a, p) /\ UNCHANGED <<reg, payments>>
               \/ /\ ~Conflicts(a, p)
                  /\ payments' = Append(payments, NewRow(p, Share(h, p), a))
                  /\ reg' = [reg EXCEPT ![p].paid = TRUE]
            /\ Continue(h, [job[h] EXCEPT !.todo = @ \ {p}, !.log = Receipt(a, p)])
    /\ UNCHANGED <<attempt, overpaid, bank, changed, clicks, faults>>

\* After the commit: audit entry payment.received and the mail to the person.
LogReceived(h) ==
    /\ job[h].at \in {"record", "book"} /\ job[h].log # 0
    /\ payments' = [payments EXCEPT ![job[h].log].receipts = @ + 1]
    /\ Continue(h, [job[h] EXCEPT !.log = 0])
    /\ UNCHANGED <<reg, attempt, overpaid, bank, changed, clicks, faults>>

\* The webhook answers 200; PayPal's order is marked as captured.
Answer(h) ==
    /\ job[h].at = "record" /\ job[h].todo = {} /\ job[h].log = 0
    /\ attempt' = [attempt EXCEPT ![job[h].a].answer = "booked"]
    /\ Finish(h)
    /\ UNCHANGED <<reg, payments, overpaid, bank, changed, clicks, faults>>

\* A statement fails (the registration is gone, the database is away): the error is
\* logged, and a webhook still answers 200.
Fails(h) ==
    /\ job[h].at \in {"check", "skipped", "report", "record"} /\ Fault
    /\ attempt' = [attempt EXCEPT ![job[h].a].answer = "failed"]
    /\ Finish(h)
    /\ UNCHANGED <<reg, payments, overpaid, bank, changed, clicks>>

-----------------------------------------------------------------------------
(* Booking by hand and from a bank statement *)

\* "Als bezahlt markieren" for one person.
MarkPaidStart(h, p) ==
    /\ Click("hand") /\ Idle(h)
    /\ Continue(h, [at |-> "book", todo |-> {p}, log |-> 0])
    /\ UNCHANGED <<reg, payments, attempt, overpaid, bank, changed, faults>>

\* A transfer on the statement whose purpose names somebody, or a group that reported
\* one, is suggested if its amount is what those of them who are open owe together.
Suggestion(people) ==
    LET open == {p \in people : Unpaid(p)}
    IN  [who |-> open, amount |-> Total(DuesNow, open)]
Suggest(people) ==
    /\ "bank" \in ops /\ listed = {}
    /\ Cardinality(people) = 1 \/ people \in transfers
    /\ Suggestion(people).who # {}
    /\ listed' = {Suggestion(people)}
    /\ UNCHANGED <<reg, payments, attempt, overpaid, transfers, job, changed, clicks,
                   faults>>

\* Staff confirms a suggestion, perhaps in two tabs: those paid meanwhile are left out,
\* the others must be payable and together owe exactly the amount of the transfer.
BookItem(h, item) ==
    LET open == {p \in item.who : ~reg[p].paid}
    IN  /\ Click("bank") /\ Idle(h)
        /\ Payable(open)
        /\ item.amount = Total(DuesNow, open)
        /\ Continue(h, [at |-> "book", todo |-> open, log |-> 0])
        /\ UNCHANGED <<reg, payments, attempt, overpaid, bank, changed, faults>>

\* The row is locked and read; without an amount the person is left out.
LockPerson(h) ==
    /\ job[h].at = "book" /\ job[h].log = 0
    /\ \E p \in job[h].todo :
        /\ RowFree(p)
        /\ Continue(h,
             IF reg[p].due = NoAmount
             THEN [job[h] EXCEPT !.todo = @ \ {p}]
             ELSE [at |-> "locked", todo |-> job[h].todo \ {p},
                   user |-> p, seen |-> reg[p]])
    /\ UNCHANGED <<reg, payments, attempt, overpaid, bank, changed, clicks, faults>>

\* A payment row only for somebody who was not paid; then the commit.
BookPerson(h) ==
    /\ job[h].at = "locked"
    /\ LET p == job[h].user
           again == job[h].seen.paid
       IN  /\ payments' = IF again THEN payments
                          ELSE Append(payments, NewRow(p, job[h].seen.due, NoAttempt))
           /\ reg' = [reg EXCEPT ![p].paid = TRUE]
           /\ Continue(h, [at |-> "book", todo |-> job[h].todo,
                           log |-> IF again THEN 0 ELSE Len(payments) + 1])
    /\ UNCHANGED <<attempt, overpaid, bank, changed, clicks, faults>>

BookingDone(h) ==
    /\ job[h].at = "book" /\ job[h].todo = {} /\ job[h].log = 0
    /\ Finish(h)
    /\ UNCHANGED <<reg, payments, attempt, overpaid, bank, changed, clicks, faults>>

-----------------------------------------------------------------------------
(* "Ich habe überwiesen": transfers people report *)

Reported(rows, p) == [rows EXCEPT ![p].notified = @ \/ Unpaid(p)]
\* A person, or a manager for them, reports a transfer; it never marks anything paid.
NotifyTransfer(p) ==
    /\ "notice" \in ops /\ Unpaid(p) /\ RowFree(p)
    /\ reg' = Reported(reg, p)
    /\ UNCHANGED <<payments, attempt, overpaid, bank, job, changed, clicks, faults>>
\* A guest does it with the link.
NotifyByLink(p) == p \in Guests /\ NotifyTransfer(p)
\* A group manager does it for several people, all of them payable, one after the other...
NotifyGroup(h, people) ==
    /\ "notice" \in ops /\ Idle(h) /\ transfers = {}
    /\ Payable(people)
    /\ Continue(h, [at |-> "notify", who |-> people, todo |-> people])
    /\ UNCHANGED <<reg, payments, attempt, overpaid, bank, changed, clicks, faults>>
NotifyNext(h) ==
    /\ job[h].at = "notify"
    /\ \E p \in job[h].todo :
        /\ RowFree(p)
        /\ reg' = Reported(reg, p)
        /\ Continue(h, [job[h] EXCEPT !.todo = @ \ {p}])
    /\ UNCHANGED <<payments, attempt, overpaid, bank, changed, clicks, faults>>
\* ... and the group is remembered for the statement, the same group once.
RememberTransfer(h) ==
    /\ job[h].at = "notify" /\ job[h].todo = {}
    /\ transfers' = transfers \cup {job[h].who}
    /\ Finish(h)
    /\ UNCHANGED <<reg, payments, attempt, overpaid, listed, changed, clicks, faults>>
\* No money arrived: staff takes the notice back and the person can report again.
ClearNotice(p) ==
    /\ "notice" \in ops /\ reg[p].notified /\ RowFree(p)
    /\ reg' = [reg EXCEPT ![p].notified = FALSE]
    /\ UNCHANGED <<payments, attempt, overpaid, bank, job, changed, clicks, faults>>

-----------------------------------------------------------------------------
(* What staff and the person change meanwhile; each is one statement *)

AtLeastZero(n) == IF n > 0 THEN n ELSE 0
OrZero(due) == IF due = NoAmount THEN 0 ELSE due
Change(p, row) ==
    /\ Click("edit") /\ RowFree(p)
    /\ reg' = [reg EXCEPT ![p] = row]
    /\ changed' = changed \cup {p}
    /\ UNCHANGED <<payments, attempt, overpaid, bank, job, faults>>

SetAmountDue(p, due) == Change(p, [reg[p] EXCEPT !.due = due])
SetDiscount(p, cents) ==
    Change(p, [reg[p] EXCEPT !.due =
        IF reg[p].list = NoAmount THEN @
        ELSE AtLeastZero(reg[p].list + reg[p].booked - cents)])
\* Orga and VIPs: free, and paid without a payment.
GrantComp(p) == Change(p, [reg[p] EXCEPT !.due = 0, !.paid = TRUE])
MarkUnpaid(p) == Change(p, [reg[p] EXCEPT !.paid = FALSE])
\* Extras or lodging booked or dropped, only before the payment; the manual amount stays.
ChangeBooking(p, booked) ==
    /\ ~reg[p].paid
    /\ Change(p, [reg[p] EXCEPT !.booked = booked, !.due =
           IF reg[p].due = NoAmount /\ booked = 0 THEN NoAmount
           ELSE AtLeastZero(OrZero(reg[p].due) + booked - reg[p].booked)])

-----------------------------------------------------------------------------
(* Refunds *)

RefundableRows(p) == {i \in Rows : payments[i].user = p /\ ~payments[i].refunded}
Newest(rows) == CHOOSE i \in rows : \A j \in rows : j <= i

\* The newest payment not refunded yet is read; at most its amount goes back.
RefundStart(h, p) ==
    /\ Click("refund") /\ Idle(h)
    /\ RefundableRows(p) # {}
    /\ LET row == Newest(RefundableRows(p))
           via == payments[row].via
           viaStripe == via # NoAttempt /\ Provider[via] = "stripe"
       IN  \E cents \in 1..payments[row].amount \cup {payments[row].amount} :
             Continue(h, IF viaStripe
                         THEN [at |-> "refund", row |-> row, amount |-> cents]
                         ELSE [at |-> "select", user |-> p, amount |-> cents,
                               returned |-> NoAttempt])
    /\ UNCHANGED <<reg, payments, attempt, overpaid, bank, changed, faults>>

\* Stripe pays back, never more than it received for the payment intent.
Returnable(a, cents) == attempt[a].refunds + cents <= attempt[a].amount
StripeRefund(h) ==
    /\ job[h].at = "refund"
    /\ LET row == payments[job[h].row]
       IN  \/ /\ Returnable(row.via, job[h].amount)
              /\ attempt' = [attempt EXCEPT ![row.via].refunds = @ + job[h].amount]
              /\ Continue(h, [at |-> "select", user |-> row.user, amount |-> job[h].amount,
                              returned |-> row.via])
           \/ ~Returnable(row.via, job[h].amount) /\ Finish(h) /\ UNCHANGED attempt
    /\ UNCHANGED <<reg, payments, overpaid, bank, changed, clicks, faults>>

\* UPDATE ... WHERE id = (SELECT the newest not refunded): the row is chosen from the
\* statement's snapshot, and another one may write it before this one gets to it.
SelectRefunded(h) ==
    /\ job[h].at = "select"
    /\ LET rows == RefundableRows(job[h].user)
       IN  IF rows = {} THEN Finish(h)
           ELSE Continue(h, [at |-> "write", row |-> Newest(rows),
                             amount |-> job[h].amount, returned |-> job[h].returned])
    /\ UNCHANGED <<reg, payments, attempt, overpaid, bank, changed, clicks, faults>>

\* Mutant: the whole payment is marked as refunded.
WriteFullRefund(h) ==
    /\ job[h].at = "write"
    /\ payments' = [payments EXCEPT ![job[h].row] =
           [@ EXCEPT !.refunded = TRUE, !.refund = @ + payments[job[h].row].amount,
                     !.returned = job[h].returned]]
    /\ Finish(h)
    /\ UNCHANGED <<reg, attempt, overpaid, bank, changed, clicks, faults>>
WriteRefund(h) ==
    /\ job[h].at = "write"
    /\ payments' = [payments EXCEPT ![job[h].row] =
           [@ EXCEPT !.refunded = TRUE, !.refund = job[h].amount,
                     !.returned = job[h].returned]]
    /\ Finish(h)
    /\ UNCHANGED <<reg, attempt, overpaid, bank, changed, clicks, faults>>

-----------------------------------------------------------------------------
\* The process ends between two statements and starts again.
Restart ==
    /\ Fault /\ \E h \in Handlers : ~Idle(h)
    /\ job' = [h \in Handlers |-> NoJob]
    /\ UNCHANGED <<reg, payments, attempt, overpaid, bank, changed, clicks>>

Proceed(h) ==
    \/ Capture(h) \/ Check(h) \/ ListSkipped(h) \/ ReportOverpaid(h)
    \/ Record(h) \/ LogReceived(h) \/ Answer(h)
    \/ NotifyNext(h) \/ RememberTransfer(h)
    \/ LockPerson(h) \/ BookPerson(h) \/ BookingDone(h)
    \/ StripeRefund(h) \/ SelectRefunded(h) \/ WriteRefund(h)

Init ==
    /\ \E list \in [Persons -> ListPrices] :
         reg = [p \in Persons |->
                  [list |-> list[p], booked |-> 0, due |-> list[p], paid |-> FALSE,
                   notified |-> FALSE]]
    /\ payments = <<>>
    /\ attempt = [a \in Attempts |-> NotStarted]
    /\ overpaid = {}
    /\ transfers = {} /\ listed = {}
    /\ job = [h \in Handlers |-> NoJob]
    /\ changed = {}
    /\ clicks = 0
    /\ faults = 0
    /\ ops \in Scenarios

Step ==
    \/ \E a \in Attempts :
        \/ PayerPays(a)
        \/ \E p \in Persons :
             StartSingle(a, p) \/ StartByLink(a, p) \/ StartByButtons(a, p)
        \/ \E people \in SUBSET Persons : StartGroup(a, people)
        \/ \E h \in Handlers : Deliver(h, a) \/ ComeBack(h, a)
    \/ \E h \in Handlers :
        \/ Proceed(h) \/ Fails(h)
        \/ \E p \in Persons : MarkPaidStart(h, p)
        \/ \E item \in listed : BookItem(h, item)
        \/ \E people \in SUBSET Persons : NotifyGroup(h, people)
        \/ \E p \in Persons : RefundStart(h, p)
    \/ \E p \in Persons :
        \/ \E due \in Amounts \cup {NoAmount} : SetAmountDue(p, due)
        \/ \E cents \in Amounts : SetDiscount(p, cents)
        \/ \E booked \in Bookings : ChangeBooking(p, booked)
        \/ GrantComp(p) \/ MarkUnpaid(p)
        \/ NotifyTransfer(p) \/ NotifyByLink(p) \/ ClearNotice(p)
    \/ \E people \in SUBSET Persons : Suggest(people)
    \/ Restart

Next == Step /\ UNCHANGED ops

\* A handler runs to its end, and Stripe and SumUp repeat a call that was not answered
\* until it is: however busy the handlers are, one takes it up.
Fairness ==
    /\ \A h \in Handlers : WF_pvars(Proceed(h) /\ UNCHANGED ops)
    /\ \A a \in Attempts :
        SF_pvars(/\ attempt[a].answer = "none" /\ \E h \in Handlers : Deliver(h, a)
                 /\ UNCHANGED ops)

Spec == Init /\ [][Next]_pvars
FairSpec == Spec /\ Fairness

-----------------------------------------------------------------------------
(* What must hold however deliveries, staff, refunds and restarts interleave *)

\* However often a provider reports a payment, and to how many handlers at once, it is
\* booked once for each person (payments_provider_reference_idx) and announced once to
\* them and to the audit log (recordSuccessfulStripePayment).
BookedOnce ==
    /\ \A a \in Attempts, p \in Persons : Cardinality(RowsFor(a, p)) <= 1
    /\ \A i \in Rows : payments[i].receipts <= 1

\* Money that came in for a person is booked for them or reported as paid a second
\* time; only where staff or the person changed the registration may it be neither.
Accounted(a, p) == Recorded(a, p) \/ <<a, p>> \in overpaid \/ p \in changed

\* A payment answered as booked, and a PayPal order marked as captured, left nobody
\* out; and nothing is refused unless an amount was changed (recordGroupPayment,
\* bookPaypalOrder).
AnsweredIsAccounted ==
    \A a \in Attempts :
        /\ attempt[a].answer = "booked" => \A p \in attempt[a].who : Accounted(a, p)
        /\ attempt[a].answer = "refused" => \E p \in attempt[a].who : p \in changed

\* What our books say Stripe paid back for a payment, Stripe did pay back: it is asked
\* first and written down after (POST refund, refundPayment).
BookedRefundIsReal ==
    \A a \in Attempts :
        LET returns == {i \in Rows : payments[i].returned = a}
        IN  Total([i \in Rows |-> payments[i].refund], returns) <= attempt[a].refunds

\* A row that ends an open balance covers what is due, unless the amount due was
\* changed after the handler had read it ("only a payment that covers the open amount
\* ends the open balance"); and two clicks, two tabs with the same statement or a
\* statement and a click at once book nobody by hand who is paid (markPaidManually).
BookingsAreJustified ==
    [][\A i \in DOMAIN payments' \ DOMAIN payments :
         LET row == payments'[i]
             due == reg[row.user].due
         IN  IF reg[row.user].paid THEN row.via # NoAttempt
             ELSE \/ row.amount >= due
                  \/ \E h \in Handlers : /\ job[h].at = "record" /\ row.user \in job[h].todo
                                         /\ job[h].seen[row.user] # due]_pvars

\* Money Stripe or SumUp received is in the end accounted for, or our log says why
\* not, although the process restarts while it is being booked.
MoneyIsAccounted ==
    \A a \in Attempts :
        (Provider[a] # "paypal" /\ attempt[a].state = "paid")
            ~> (\/ \A p \in attempt[a].who : Accounted(a, p)
                \/ attempt[a].answer \in {"refused", "failed"})
=============================================================================
