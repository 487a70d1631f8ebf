# Verification of QuestIn LARP Management

TLA+ models of the parts of QuestIn in which several people, requests and
services change shared data at once, their TLC runs, and theorems about them
that TLAPS checks. All paths below are relative to the repository
(`src/backend/…`). `PROJECT.json` maps every definition to the lines it stands for.

## 1. The system

QuestIn is one Node.js process (`backend/server.js`, `router.js`) in front of
PostgreSQL. An HTTP request runs an `async` handler; every `query()` of
`backend/db.js` is a statement that commits by itself, and `withTransaction`
groups statements. Between two awaits of one handler any statement of any other
handler may run, and the process may end. All state that matters is in the
database: there is no in-memory cache of registrations or balances. Serialisation
comes from three devices only: `SELECT … FOR UPDATE` on one row, a guarded
`UPDATE … WHERE status = <what was read>`, and unique indexes. Stripe, PayPal and
SumUp call back; tablets in the tavern repeat requests; timers start jobs every minute,
six hours or day; an event can be delegated to an offline laptop and merged back.

| Component | State | Operations | Talks to | What is hard | What makes it correct |
|---|---|---|---|---|---|
| registrations (`registrations/*`) | `registrations` rows: status, role, times, extras, lodging, payment | register, extras, lodging, withdraw, cancel, approve, check in/out, status by hand, change role, promote from the waitlist | events (row lock, limits), appSettings, characters, payments, mails | races for the last place, stale reads across awaits, promotion against everything else | limits and beds never exceeded; nobody stranded; fair waitlist; confirmed rows are kept; what was paid for stays |
| events (`events/*`), reminders, Con-Zahler (`registrations/conPayerAutomation.js`, `unpaidReminders.js`) | limits, special roles, prices, lock, dates; who was reminded, converted, warned | create, save, rename roles, activate, delete; two daily jobs | registrations, payments, mails | settings saved over each other, renames against registrations, a job against payments and edits, a crash between mail and mark | settings fit what is booked; a rename reaches everybody; only an empty event is deleted; one mail per occasion |
| lodging (`lodging/*`) | lodgings of an event, beds, images | replace, list | registrations | shrinking while people book | never below the occupants |
| appSettings (`appSettings/*`) | counted roles, children add-on, auto-promotion | save | registrations (promotes) | rule changes change who is counted | a place that a rule change frees is offered |
| characters (`characters/*`, `characterReviews/*`, `characterFiles/*`, `accountFiles/*`, `nscDialog/*`) | sheets, reviews of changes, files and where they are stored, talk about NSC roles | edit by owner, staff and group manager, accept, reject, link, delete, upload, move storage, write, read | registrations (the SC place), storage | reviews accepted in any order over later edits; quota and storage checked before the write; mark-as-read after the listing | the owner has the say; staff's fields stay staff's; no row names missing bytes |
| tavern (`tavern/*`, `frontend/js/requestKey.js`) | accounts, ledger, menu | top up, charge, pay out, void, online top-up, lock, report | Stripe webhook, offline guard | repeats, double taps, concurrent tablets | balance = ledger, never overdrawn, booked once |
| payments (`payments/*`, `bankReconcile/*`) | amounts due and paid, payments, group payments, PayPal orders, announced transfers, refunds | checkout, webhooks, capture, by hand, bank statement, discounts, free places, refund | providers, registrations, tavern | repeated webhooks, two clicks, refund races, crash after the provider acted | booked once per provider reference; money received is accounted for; the books claim no refund that did not happen |
| instanceAuthority, offline packages, merge (`instanceAuthority/*`, `offlinePackage/*`, `offlineMerge/*`, `offlineRoutes.js`) | role of each instance, delegated snapshot, generation, conflicts | delegate, export, import, book on site, interim and final return, merge, resolve, release, force-release | tavern, check-in, outbox | late, repeated, lost, reordered packages; writes under way at each change of role; crash after the merge | one writer; a package is applied once and never undoes a newer one; what was booked on site comes home or is asked about |
| mail outbox (`emailLog/outbox.js`) | mails written while SMTP was away | queue, flush every six hours and after a merge | SMTP | two flushers, crash between send and mark | a mail written on site is queued at home |
| members (`members/*`), managedPersons | `users` with everything that refers to it | invite, convert, import, deactivate, reactivate, delete, merge, change e-mail, claim and release persons, bulk actions | auth, registrations, groupTree | a merge against registrations and logins; deleting against reactivating | no place and no payment is lost; one account per invitation |
| auth, invitations (`auth/*`, `invitations/*`) | passwords, sessions, logins by provider, invitations, links | log in, reset, redeem, activate, sign up, link and unlink a provider | members, groupTree | a login, a reset and a deactivation at once; double redemption | an old password is out; an invitation makes one account |
| groupTree (`groupTree/*`) | parents, invitations to groups, join codes | name, invite by member or mail, accept, code, leave, remove | members, auth | two joins at once, code limit, checks overtaken by other requests | groups are flat |
| guests, PDF forms (`guestRegistrations/*`, `pdfImport/*`, the site's lock and its reminders) | guests with places and characters, forms read, the template, invitations and wishes | register in the widget, adopt a form, undo, payment link, lift the lock | registrations, characters, mails | undoing by hand what an earlier statement did, over somebody else's work; two lifts at once | a failure leaves nothing behind and undoes nobody else; one reminder; the link of the last mail works |
| backup, privacy (`backup/*`, `privacy/*`) | schedule and last run, files; personal data by category, consents | run, prune, restore, save settings; delete a category by hand or by timer | every table, storage | one JSON value written by admin and job; mark before run; read, then write back over an edit | one backup a day; settings stay; deleted data stays deleted |
| everything else | see `PROJECT.json` "components" | single-row edits, formatting, files, I/O | | | |

The hazards of all of these, each at its line, are the list "hazards" of
`PROJECT.json`; the properties below are there because of them. Smaller ones that no
property covers:

- registrations: overrides back to a place are not under the event lock
  (`registrations/repository.js:1084`); two changes of one role in a row, the first of
  which frees a place without promoting (`:630`); a cancelled registration brought back by
  hand keeps its bed and extras unchecked (`:1096`); a check-in that fails between its
  statements (`:1031`); a guardian who withdraws while a child registers (`:339`);
  settings saved between the statements of a registration (`appSettings/routes.js:182`); a
  crash between a cancellation and the promotion, after which nothing offers the place
  (`registrations/repository.js:1073`); two admins who save limits at once
  (`events/routes.js:290`).
- tavern: `createAccount` gives up after five lost races (`tavern/repository.js:106`); a
  payout of everything uses a balance read earlier (`tavern/routes.js:178`); a crash before
  an online top-up reaches the payment log (`tavern/repository.js:243`); the webhook answers
  200 although booking a top-up failed (`payments/routes.js:724`).
- payments: `rememberGroupTransfer` is an INSERT ... NOT EXISTS without a unique index; a
  group's notice of a transfer that is interrupted names only some of the group.
- offline: after the merge commits the process may end before the release
  (`offlineMerge/merge.js:237`); a later package finds the event still delegated.
- members: a member is deleted after a look at the status that a reactivation may have
  overtaken (`members/routes.js:259`); two first logins through a provider leave an
  account without a login when the second link fails; an import makes a second open
  invitation for an address that is invited meanwhile.
- characters: the quota is checked before the file is written (two uploads exceed it);
  two overlapping moves of the storage lose bytes; a deleted character's stored bytes stay.
- guests: undoing A's guest takes B's place with it when B reused the guest
  (`pdfImport/adopt.js:121`); a guest named by an invitation cannot be deleted, and the
  undo fails silently; a wish to be reminded asked while the site is open is never sent.
- backup, privacy: a crash between the mark and the run skips the day
  (`backup/schedule.js:77`); two categories deleted at once bring back each other's data;
  restoring only the participants brings back deleted data; a consent given between
  the read and the wipe is ignored; nothing keeps two deletions by the timer apart
  (`privacy/repository.js:127`).
- jobs: an unpaid reminder is repeated after a crash between mail and mark
  (`registrations/unpaidReminders.js:54`); staff's un-marking of a Con-Zahler is undone by
  the next run; who announced a transfer before the deadline is converted all the same. The
  timers of `server.js:202` start a run whether or not the last one has ended.

## 2. Modules

### `Registrations.tla` (with `MCRegistrations.tla`)

The registrations of one event with everything that decides about places.

| Variable | Code |
|---|---|
| `reg` | table `registrations`, one row per user; status `"none"` is no row |
| `limit` | the limits of the `events` row (hard limit, or else the planned places) |
| `lock` | its registration lock: roles, account groups, block or waitlist |
| `settings` | auto-promotion, counted roles, children exempt (`app_settings`) |
| `beds` | `event_lodgings.capacity` |
| `eventLock` | the request whose open transaction holds the `events` row |
| `clock` | `now()`, advanced when it is stored |
| `req` | what each running handler does next and has read so far |

An action is one statement or one transaction. A handler that awaits between
reading and writing is two actions, and what it read is kept in `req`
(`RegisterStart`/`Insert`, `AssignStart`/`Assign`, `UnregisterStart`/`Unregister`,
`OverrideStart`/`Override`, `ChangeRoleStart`/`ChangeRole`, `CheckInStart` …
`BookCash`, `SaveLimitsStart`/`SaveLimits`, `Promote`/`Promoting`). Every operation
that frees a place goes on to `Promote`, as the code calls
`maybePromoteFromWaitlist` in a transaction of its own after the commit: the
window between the two is in the model.

How the code was abstracted:

- The registration's transaction starts with the event row's lock and reads
  everything it needs below it, so it is one action that waits until the row is
  free. What is read before (guardian, registration lock, the lodging's beds) is
  in `RegisterStart`, together with the transaction's BEGIN, whose time is
  `created_at`.
- `transitionStatus` reads the status and updates `WHERE status =` what it read.
  A lost race is a refusal, which is also what happens when the status is wrong at
  the read, so the two are one step.
- A promotion is two steps: it holds the lock and has chosen; it writes. Its
  greedy oldest-first pass is stated as the condition `MoveUp` on the set chosen,
  which has exactly one solution because no two queue times are equal (`TimesApart`
  of `RegistrationsProofs`). The switch `waitlistAutoPromote` is read just before the
  transaction; the two are merged (no run varies it).
- Statements inside one locked transaction are not separated, though
  `app_settings` may change between them (section 1).
- Prices, waivers, questionnaires, NSC data, "event is active/past" gates, mails
  and the audit log are not part of the state. A person has at most one character;
  there is one bookable extra. A pitch without beds is `Unlimited`. Lodgings are not
  created or removed. Of the payments only `markPaidManually` is there (`BookCash`).
- `Restart` is a crash: every request vanishes, open transactions roll back.

`Admins` are the requests that may change limits, lock or settings. It bounds the
instances, and in one case the claim: two concurrent `PATCH /events/:id` compare the
limits with what each read before, so the second may see no change and promote
nobody (`events/routes.js:286`). Run `waiting` has one admin (section 1).

### `Tavern.tla` (with `MCTavern.tla`)

The accounts of one event and their ledger.

| Variable | Code |
|---|---|
| `account` | `tavern_accounts`: number (0 = no row), owner, locked, balance |
| `ledger` | `tavern_transactions` in the order of booking |
| `menu` | price of the one item, or `Inactive` |
| `asked` | what each `request_id` or Stripe session was first used for |
| `job` | what each handler does, and the account row it read under the lock |

`Lock` is `lockAccount` and the look at the key; `Book` is the rest of the
transaction, and computes the new balance from the row **as read**, as `applyEntry`
does. That the row cannot have changed in between is not built in: it follows from
the lock, and the proof has to show it. A payout reads the balance in two unlocked
statements before (one step, `Press`). A key is asked once and may then be repeated
with the same request any number of times, which is what `requestKey.js` does with a
double tap, a lost answer or a reload. `MaxAttempts` is the number of attempts at a free
account number. Not modelled: requests without a key (the field is optional), a menu
of several items, int4 overflow, the write guard of a delegated event (that is in
`OfflineSync`), lists and CSV export.

### `Payments.tla` (with `MCPayments.tla`)

Participation fees: what is due, what was paid and how it is booked and paid back.

| Variable | Code |
|---|---|
| `reg` | of `registrations`: `price_list_cents`, what extras and lodging cost, `amount_due_cents`, `paid_at`, whether a transfer was announced |
| `payments` | table `payments`, in the order of `created_at` |
| `attempt` | a Stripe session, SumUp checkout or PayPal order: at the provider, and in `group_payments` and `paypal_orders` |
| `overpaid` | audit entries `payment.overpaid` |
| `transfers`, `listed` | group transfers that were announced; the entries of a bank statement with the people each was matched to |
| `job` | what each handler does next and has read |
| `changed` | history: people for whom somebody changed what is due or paid |

Money moves at the provider (`PayerPays`, `Capture`, `StripeRefund`) and is booked
afterwards statement by statement: `Check` reads what is due and compares, `ListSkipped`
and `ReportOverpaid` are the audit entries about people of a group who were paid by
something else, `Record` is one transaction per person (`INSERT … ON CONFLICT`, `paid_at`),
`LogReceived` the audit entry and mail after it, `Answer` the 200 or the mark on the PayPal
order. `Deliver` may happen at any time and any number of times. By hand and from a bank
statement: `LockPerson` and `BookPerson` are the two halves of `markPaidManually`'s
transaction. A refund reads the newest row (`RefundStart`), asks Stripe, and then one
`UPDATE … WHERE id = (SELECT …)` is two steps, because PostgreSQL evaluates the subquery
on the statement's snapshot and then waits for the row.

Abstracted: an attempt is priced and created in one step; a provider never pays more or
less than the price; PayPal's refusals are one disjunct of `Capture`; a bank entry that
does not match exactly is not proposed; an announced transfer is a flag for staff; one
event, payments open, nobody a Con-Zahler; nobody loses the registration. Each edit by
staff is one statement. Whose amount changes between the check of a bank entry and
`markPaidManually` is booked at the new amount, in the code and in the model.

### `Handover.tla` and `OfflineSync.tla`

`Handover` says what delegating an event to an offline laptop is meant to be: one
holder, bookings only by the holder, returns whose generations grow, everything else only
after a review. `OfflineSync` is the protocol as it is written.

| Variable | Code |
|---|---|
| `authority`, `log` | `instance_authority`, `snapshot_log` online |
| `online` | one tavern account (ledger, balance) and one registration, online |
| `merges`, `conflicts` | `offline_merges`, `sync_conflicts` |
| `outbox` | `mail_outbox` online, and how often each mail went out |
| `laptop` | for each snapshot: the file, or the database imported from it, with its own role, generation, books and mails |
| `files` | return packages saved as files, which may be imported again and late |
| `job` | the statements each handler, online or on a laptop, still has to run |

A handler's job is a list of statements; an action runs the first (`Write`, `Export`,
`Copy`, `Seal`, `Merge`, `CommitResolution`, `Settle`, …). A statement of another handler,
a lost request (`LoseRequest`), a lost answer (`LoseAnswer`) or an end of the process
(`Restart`) may come between any two. `MergeReturnPackage` is one transaction with its four
outcomes: applied before, not acceptable, held back because of the clock, applied.

Abstracted: one account and one registration stand for the data; every booking is one
cent, so a sum is a number of entries; a snapshot is imported on one laptop, as
`docs/betrieb-offline.md:32` tells the staff; a file is imported as what it was exported
for; the package's encryption and checksums are not there. Left out: numbers of accounts
made on both sides, duplicates of people and characters, accounts deleted online, entities
the server does not know, and the audit rows.

### `People.tla` (with `MCPeople.tla`)

Accounts, guests, logins, passwords, invitations, groups, merging and deleting.

| Variable | Code |
|---|---|
| `users` | table `users`, with group name, parent, manager; the registration, the number of account files, the providers' logins (`oauth_identities`) |
| `sessions` | `sessions`, with the password the login was checked against |
| `invitations` | `invitations` (members), whom each made an account for |
| `invites`, `codes` | `group_invitations`, `group_join_codes` |
| `job` | the statements each handler still has to run |
| `history` | what the exceptions of the properties refer to |

Most requests are a check and then a write. `Start` is the check with what was read, the
second action writes (`Login`/`OpenSession`, `ResetPassword`/`SetPassword`/`EndSessions`,
`Redeem`/`Activate`, `AcceptInvitation`/`JoinGroup`, `Delete`/`DeleteRow`,
`Merge`/`MoveAll`). A bulk action is one statement per person and goes on after one that
fails. In a scenario with "rush" requests overlap, in the others they follow one another,
which allows longer histories of them.

Abstracted: a password is a number that counts changes; links are not in the state, a
request is made with a link that is valid at that moment; one registration per person; files
are a count and whether one is the profile picture; a merge holds the two rows and what
refers to them; expiry and sending again are left out.

### `Characters.tla` (with `MCCharacters.tla`)

One owner's characters: sheets, reviews, places, files, and the talk about NSC roles.

| Variable | Code |
|---|---|
| `exists`, `sheets` | `characters` with their fields, and the account's own fields as one more sheet; a value is the number of the request that sent it |
| `reviews` | `character_change_reviews`: who changed what from which value, not judged yet |
| `places` | which characters the owner's registrations name |
| `files`, `store`, `backend` | `character_files`; where bytes lie; the storage chosen in the settings |
| `messages` | the thread, and who has read it up to where |

A handler's job is again the list of its statements with what was read: an edit reads
the sheet, writes it back, and writes the review; accepting and rejecting read a review and
write; an upload counts the files, stores the bytes and inserts the row; a move of the storage
copies and deletes file by file.

Who writes is the owner, the owner with staff rights, other staff, or who looks after
the owner's group: each stores other fields (`Effective`), and what the owner writes is not
put to them for review. A stranger with staff rights and the owner with staff rights write
staffOnly fields (`IsElevated`), as `characters/routes.js:98` says and does.

Abstracted: a guardian counts as the owner; portraits and read-only listings, the NSC
questionnaire (another sheet), audit entries and mails are left out.

### `Guests.tla` (with `MCGuests.tla`)

People without an account: the public widget, PDF forms, the reminder when the site opens.

| Variable | Code |
|---|---|
| `users`, `places`, `characters` | rows that a guest gets, with the link and the number of the request that made each |
| `invitations` | invitations to make an account of a guest |
| `locked` | the site's lock (`comingSoon`) |
| `imports`, `template`, `mapping` | `pdf_imports`, the template and which of its fields mean what |

Registering a guest and adopting a form are several statements; each later one that
fails starts the undo by hand, statement by statement, as the code does. Lifting the lock is a
request that goes through those who wished to be reminded. Abstracted: what a form contains
apart from address and character; whether a place is free (`Registrations`); every guest
still has to pay; accounts that asked to be reminded get a link to the page (left out).

### `Retention.tla` (with `MCRetention.tla`)

Keeping and forgetting: the scheduled backup and the deletion of personal data.

| Variable | Code |
|---|---|
| `day`, `slot` | the date, and whether the hour of the backup has come |
| `data`, `consent`, `elsewhere` | answers, account fields and sheets by category; who agreed to keep them; who is registered for another event |
| `reviews` | `character_change_reviews` not judged yet: a value somebody else wrote over, and which it was |
| `event` | its end and `privacy_deleted`; with each deletion the moment it began and whom it spared |
| `settings` | the one value of `app_settings` with schedule, retention, last run |
| `files` | backups: what they contain, whether they were torn by writes |

The scheduler runs every minute and guards against itself in memory (`running` of
`backup/schedule.js`). The deletion runs every six hours and has no such guard: two runs may
overlap, with each other and with a deletion by hand. A backup is read, mark, dump, write, prune, read, mark;
`ReadState` and `SaveState` are the two halves of `saveScheduleState`. A deletion reads the
rows of a category and writes back one after the other. Restoring is one statement per
chosen part. Two kinds of writers change what a deletion is about: people save their own
answers, accounts and sheets (`Edit`, `WriteForm`), and those who look after a group, or staff,
save those of others, which records the old value as a review (`RecordReview`). To resolve it
is one transaction that accepts the change or writes the old value back (`ResolveReview`).
A saved value is the number of the request that saved it.

### `Events.tla` (with `MCEvents.tla`)

Settings of events and the two jobs about unpaid registrations.

| Variable | Code |
|---|---|
| `events` | `events`: code, active, special roles, limits, prices, dates |
| `regs` | registrations with role, extra, price, amount due, payment, Con-Zahler |
| `mails` | how often somebody was mailed or listed for the orga |
| `job` | the statements each handler or job still has to run, and what it has read |

Saving an event reads it, validates what was sent against what was read, renames roles in
the registrations, and writes the row. The conversion claims each person by a guarded UPDATE
before it mails; the reminder mails first and counts after, and claims nothing. Both jobs are
started by six-hour timers without a look at the last run, so any number of runs may be under
way at once. Not modelled: removed roles,
events without price groups, rules of price groups; registering is by staff.

### `Sums.tla` and the proof modules

`Sums` is the sum over a finite set; `PaymentsProofs` and `TavernProofs` begin with what
they need about it. `RegistrationsProofs` is about `Registrations`, `TavernProofs` about `Tavern`,
`PaymentsProofs` about `Payments`, `OfflineProofs` about `OfflineSync` and `Handover`,
`PeopleProofs` about `People`, `CharactersProofs` about `Characters`, `RetentionProofs` about
`Retention`, `EventsProofs` about `Events`; see section 4.

## 3. Runs

A state is explored with everything its operations allow; bounds are on people,
requests, time stamps, faults and, from `fees` on, on which kinds of operations meet
(`Scenarios`). Deadlock is checked in `places`, `waiting`, `desk` and `till` (with
`Restart` enabled that says little; `waiting` has no restart). In the other runs the
system may rightly come to rest: everything is paid, returned, used up, or the last day is
over. The "violation" run stops at the first counterexample.

| Run | Question | Bounds | Distinct states |
|---|---|---|---|
| `places` | Are limits and beds kept under register, withdraw, cancel, approve, lodging, lock, crash? | 3 people, 2 requests, total 2, SC 1, one bed, 3 timestamps | 1.07 million |
| `waiting` | Is the waitlist fair, is every freed place offered, is nobody stranded? | 3 people with a guardian and a child, 2 requests, 1 admin, growing limit, children counted or not, 4 timestamps | 139 thousand |
| `desk` | Do paid bookings stay, under every operation on registrations and beds at once? | 2 people, 2 requests, one extra, one priced lodging, 2 timestamps | 1.82 million |
| `till` | Is a balance what the ledger says under all operations of the tavern? | 2 accounts, 2 handlers, 2 keys, 1 session, crash | 1.59 million |
| `fees` | Is online money booked once and accounted for, and is nobody booked without a reason? | 2 people (one a guest), a Stripe and a PayPal attempt, 2 handlers, 2 clicks, 1 fault | 259 thousand |
| `handover` | Is there one writer, does everything booked on site come home, does the protocol implement `Handover`? | 2 snapshots, 2 handlers, 2 bookings, 1 mail, 2 returns, 1 fault | 322 thousand |
| `people` | Do passwords, groups and merges stand concurrent requests? | 3 members, a guest, 2 new rows, an invitation, a code, 2 handlers, 5 requests (4 in scenarios with "brief"), 1 fault | 199 thousand |
| `characters` | Has the owner the say over the sheets, and are links, files and read marks sound? | 2 characters, 2 events, 2 files, quota 1, 2 handlers, 5 or 3 requests, 1 fault | 425 thousand |
| `guests` | Does a failing step leave nothing behind and undo nobody else; does the last link work; is one reminder sent? | 1 address, 3 new rows, 1 event, 1 form, 2 field names, 2 handlers, 4 or 3 requests, 1 fault | 495 thousand |
| `retention` | One backup a day, settings that stay, data that stays deleted? | 2 people, 2 categories, 2 days, 2 handlers, 4 requests counting deletions (3 with forms, reviews or backups; the last saves no form), 1 fault | 546 thousand |
| `events` | Do settings fit what is booked, do renames, prices and mails come out right? | 2 people (one by PDF), 3 roles, 3 price tables, 4 days, 2 handlers, 2 requests, 2 jobs (also of one kind), 1 fault | 785 thousand |
| `rename_swap` | finding, section 5 | as `events`, renames only | stops at the violation |

All passing runs are exhausted.

Why this is enough to be of interest: a race for the last place needs two requests
and one place; a third person makes a queue behind it in which somebody can be passed
over. Three people against `total 2, sc 1` let an SC be blocked while a ticket is not, so
"oldest first" and "first who fits" differ. The clock bounds the number of
registrations and returns to the waitlist in a run; `ClockRoom` keeps a tick for each
override under way so the bound never blocks a step that has begun. In the tavern two
keys and a session give three bookings and their voids.

In `fees` two attempts for two people give the single payment of somebody in a group that
is being paid, a repeated delivery handled twice at once, and a second payment of what is
paid. In `handover` two snapshots give a second delegation while packages of the first are
still about; two returns give an older package after a newer one; two handlers overlap
any two requests. In `characters` five requests are two reviews of one sheet, both
judged, and an edit between; a quota of one is exceeded by two uploads. In `guests` three
new rows are a guest, a second one made while the first is undone, and a third. In
`retention` two days are a backup, a crash and the next day's; two categories are wiped from
one person's fields at once, or one category twice; a review is recorded before a deletion and
rejected during or after it. In `events` the days are before, on and after the end of a
price tier, and the event; two handlers may both run the reminders or both the mails. A scenario with "brief" has one booking and one return, or one or
two requests less: it combines more kinds of operations over shorter histories. The
scenarios together contain every kind of operation, and pairs that write the same rows are
together in one.

The properties, by what they are for:

- `WithinLimits`, `BedsSuffice`: counting under the event lock against
  registrations, promotions and moves.
- `NobodyStranded`, `PlacesAreOffered`: every way to free a place also offers it.
  `waiting` leaves out withdrawing, because a withdrawal overtaken by a promotion gives up a
  place that nobody is offered (section 5); and it lets staff put a pending person back in
  the queue.
- `FairQueue`: what one promotion may do, though limits, lock and waitlist change under it.
- `PaidBookingIsFixed`: stale reads across statements never change what was paid for.
- `BalanceIsLedger` (tavern): lost updates, repeats, decisions on stale rows.
- `BookedOnce`: a payment delivered again is one payment, with at most one receipt.
  `BookingsAreJustified`: who gets a booking and how it ends an open balance; by hand only
  if unpaid, online only if it covers what was due, unless the amount due was raised between
  the check and the row, which the code allows.
- `AnsweredIsAccounted`, `MoneyIsAccounted`: no money that came in is forgotten. Somebody
  counts as accounted for if booked, reported as paid twice, or changed by hand meanwhile.
- `BookedRefundIsReal`: the books never claim that Stripe paid back more than it did. The
  opposite does happen: two refunds at once, or a crash after Stripe's answer.
- `ReturnedComesHome`: late, repeated and reordered packages. Left out is what staff booked
  after making the final return (`late`), and a delegation that another one's failed
  export ended (`mistaken`). `OneWriter` is about writes, not about roles: before its final
  return is made nobody books, checks in or mails on a laptop that the event is not delegated
  to, except after a forced release or when another delegation's request exported or ended
  this one. After that return nothing stops a write on the laptop (section 5), but the laptop is
  retired, about to be, or never heard that it had to. `ImplementsHandover`: the
  refinement, in which bookings that slipped through online during a delegation
  (`slipped`: the guard looks before the write) do not count. `FinalReturnEnds`: after the last
  conflict the event is online again.
- `OldPasswordIsOut`, `GroupsAreFlat`, `MergeLosesNothing`: checks overtaken by other
  requests. Where the code does not defend itself the property names the exception: a login
  that read the old password (`late`), a crash between the new password and the end of the
  sessions, members and managers whose group changed while a request of theirs was under way
  (`overtaken`), merges and sign-ups by mail, which do make groups below groups (`merged`,
  `below`).
- `OwnerHasTheSay`, `SecretIsStaffs`: what stands on a sheet was written or accepted by the
  owner, or is in a review, and staffOnly fields were written by somebody with staff rights,
  who may be the owner (section 5), unless two requests wrote one sheet at once. `LinksAreSound`: a character has a part at one event, and no
  place is lost with a character without a warning. `FilesAreSound`: a row's bytes are where
  the row says, no others are kept, the quota holds. `ReadMeansShown`: a message marked as
  read was in a listing, or arrived between the listing and the mark.
- `NobodyIsUndone`, `NothingIsLeftBehind`: undoing by hand. `FormsAreSound`: a form counts as
  adopted exactly with what was made from it. `RemindedOnce`, `LinkWorks`: mails about one
  guest by two requests at once.
- `SlotRunsOnce`, `SettingsAreKept`: one value written by admin and job. `ForgottenIsGone`:
  a category that counts as deleted is gone, though forms are saved, deletions run twice at
  once, and backups are restored. Its exceptions are data kept on purpose, a row changed
  between the read and the write of another request, a part of a backup, and a value put back
  by a rejected review (section 5).
- `SettingsFit`, `RenamesReachEverybody`, `OnlyEmptyIsDeleted`: settings against
  registrations. `PricesAreKept`: jobs against payments and edits. `MailsAreCounted`: the
  claim gives one mail per person and deadline, also if runs overlap; only a run that stopped
  after its claim leaves somebody marked and not mailed. `RemindersAreCounted`: no reminder is
  counted that was not sent, and a difference comes only from a run that stopped between mail
  and count; each comes on its day, no more often than set, except for a person whom two
  overlapping runs had on their lists (section 5).

For some properties the very case a hazard describes is such an exception, because the code
does nothing against it; what the property then shows is that nothing else leads there. The
notes of the hazards say so one by one.

What the exceptions show is itself of use to whoever changes this code:

- payments: a double partial refund reaches Stripe twice and the second overwrites the
  first's record, or lands on an older row; a due amount raised between check and record
  ends up as paid; a PayPal order whose payer closes the browser is captured by nobody; the
  webhook answers 200 when booking failed, so nobody repeats it.
- offline: a retired laptop can still be written to (section 5); after a lost answer there
  are two writers; account fragments in a conflict are as old as the conflict
  (`offlineMerge/merge.js:258`); after a forced release an account counts as unchanged if its
  balance is (`:143`); a crash between `becomeOfflinePrimary` and the generation's
  UPDATE leaves generation 0 (`offlinePackage/snapshot.js:131`).
- people: groups below groups by mail sign-up (`auth/groupInvite.js:32`) and by merging a
  manager into a member (`members/merge.js:99`), although `groupTree/repository.js:27` says
  groups are flat; a login overtaken by a deactivation opens a session; an invitation
  cancelled while the password is hashed is still redeemed.
- characters: rejecting an earlier review under a later one brings back values that
  nobody wants any more; a rejection also overwrites what the owner entered meanwhile; an
  owner may send staffOnly fields when a character is created.
- guests: two overlapping lifts of the lock invite twice; a form deleted while it is
  adopted answers 404 although the guest was made (`pdfImport/routes.js:236`).
- retention: switching the schedule on before today's slot skips today, although
  `backup/targets.js:87` speaks of the next slot; a reopened event keeps its marks of
  deletion; reviews keep the values they could put back, also after the deletion.
- events: code and active event are checked before they are written
  (`events/repository.js:120`); a form with the old role names saved after a rename
  brings them back; whoever pays after the job's SELECT is still mailed; a crash after
  the claim leaves somebody unmailed; two runs of the reminders count one day's twice, so the
  person's next reminder is left out.

Fairness. Nothing is assumed of people and staff: what they start may never be started.

`Registrations` (`FairSpec`, run `waiting`): strong fairness of what a request does once it
has begun. PostgreSQL queues waiters for a row lock in order of arrival, so a request
that waits for the event row gets it though others take it in between; Node's event
loop runs every ready continuation.

`Payments` (run `fees`): weak fairness of each handler's next statement, for the same
reason, and strong fairness of a first delivery: Stripe and SumUp repeat a webhook until it
was answered. There is none for PayPal, where only the payer's browser comes back.

`OfflineSync` (run `handover`): weak fairness of each handler, and of the six-hourly job
that sends parked mails (`server.js`). Faults are bounded, so an SMTP server that refuses
for ever is excluded; nobody is assumed ever to return a laptop.

Symmetry is used in `places`, `desk`, `till`, `people`, `characters`, `guests` and
`retention` (no liveness there), over sets whose members the constants do not distinguish:
people without children or roles of their own, requests that are all admins, accounts,
handlers, keys, members, events, field names. No run varies the counted roles.

## 4. Theorems

All are proved by TLAPS for every value of the constants that meets the ASSUMEs of
the modules; TLC evaluates those on every run.

`RegistrationsProofs`
- `TypeCorrect`: `TypeOK`, by one lemma for what starts (`ArriveType`) and one for what
  goes on (`ContinueType`).
- `StampsCorrect`, `ConfirmedIsKeptCorrect`, `PaidBookingIsFixedCorrect`: all rest on
  `NextWrites`, which says that every step writes each row in one of nine ways
  (registered, withdrawn, character lost, at the desk, by hand, moved up, rebooked,
  noted, untouched). Each property is then checked way by way.
- `LockCorrect`: the event row is locked exactly by a request that is promoting.
- `LimitsCorrect`: `WithinLimits`, under the assumption `OnlyLockedAdmissions`, which
  excludes the operations that admit people or change the rules without the event lock:
  changing the role, changing limits and settings, and setting a status by hand from
  a status without a place to one with. Without the first the theorem is false: two changes
  of the role take one SC place (section 5). Changing limits or rules may of course put people
  above a lower limit, and the code allows that. `WithinLimits` is not inductive: a
  promotion has chosen people whom the count does not show yet. The invariant is
  `TypeOK ∧ LockHeldByPromotion ∧ NothingUnlocked ∧ TimesApart ∧ Fits`: `Fits` counts,
  with the people placed, those whom a running promotion will place, and
  `TimesApart` makes queue times distinct, so that the last of the chosen saw all
  the others when it was chosen.
- `FairQueueCorrect`: `FairQueue`, under `OnlyJoiningAtTheEnd`: no role changes, and who is put
  on the waitlist by hand comes from a place, so with a new time. TLC shows what else can
  happen: somebody cancelled is put back with the old time after a promotion has chosen, and
  stays behind a later one. The invariant is `NobodyPassed`: whom a running promotion left
  out comes after all it chose who are like them.
- `BedsCorrect`: `BedsSuffice`, under `OnlyCountedBeds`: places are not lowered, nobody cancelled
  is brought back by hand, and nobody is put back on the waitlist by hand. Both of these keep the
  lodging in the row (`setStatus`, `registrations/repository.js:1095`) while nobody counts it. TLC
  shows the consequence: the bed is given to somebody else, the promotion brings the first one
  back, and one bed has two people. The invariant says that who waits has no bed
  (`WaitersHaveNoBed`) and that the places a request read are still the lodging's (`BedsRead`).

`TavernProofs`
- `TavernTypeCorrect`, `NeverOverdrawnCorrect`, `LockedAccountCorrect`,
  `NumbersIdentifyCorrect`, `RepeatsCorrect`, `VoidedOnceCorrect`. The types
  are not inductive by themselves (a job points into the ledger). The invariant
  `TInv` has in addition: one holder per account row and per entry under way
  (`OneHolder`), what a holder read is still what is stored (`UnderWay`), and jobs
  refer to entries that exist (`EntriesKnown`).
- `BalanceIsLedgerCorrect`, `ReportMatchesBalancesCorrect`: every step of the tavern is a
  `Booking` of one entry, perhaps with another one marked as voided, or `Quiet`. A booking adds
  the same amount to a balance and to its account's entries; for the settlement, a void takes
  the voided entry out, which is the amount its reversal moves the balance by.

`PaymentsProofs`
- `PaymentsTypeCorrect`, `BookedOnceCorrect`, `AnsweredIsAccountedCorrect`,
  `BookedRefundIsRealCorrect`, `BookingsAreJustifiedCorrect`. None of the properties is
  inductive: each depends on what handlers have read and are about to write. The invariant
  `PInv` says that a payment has one row per person (`RowsUnique`, the unique index); that a row
  without a receipt has exactly one handler that will write it (`ReceiptsDue`); that whoever
  holds a registration's row has read it as it is (`RowsLocked`); that the price of an attempt
  is what its people owe, unless somebody's amount was changed (`AttemptsPriced`); that
  people whom a booking handler passes over are accounted for already (`BookingsSound`); that
  rows refer to payments that were started (`RowsStarted`); that a refund under way names its
  row (`RefundsKnown`); and that what is written as refunded, with what handlers still have
  to write, is no more than Stripe paid back (`RefundsBacked`, a sum over rows plus a sum over
  handlers).
- The argument: `StepIs` and `OneMoves` split a step into the one handler that acts and the
  others, whose view must survive; `RowAdded` and `RowWritten` are the only two ways in which
  `payments` changes; for each statement one lemma (`…Next`) says what its handler does next.

Lemmas about sums (in `PaymentsProofs`, and in `TavernProofs` those it uses)
- `TotalRemove`, `TotalAdd`, `TotalChange`, `TotalSame`, `TotalOfMore`: what the sum over a
  finite set does when an element comes, goes or changes. The library's folds come without
  theorems, and its induction principles take an operator, which the provers cannot
  instantiate; so each lemma takes a smallest set for which it would fail (`SmallestSubset`,
  from the well-foundedness of the numbers) and takes one element out of it. That the fold
  is well defined at all is `SumsExist`.

`OfflineProofs`
- `OfflineTypeCorrect`, `ReturnedComesHomeCorrect`, `OneWriterCorrect`, from
  `HandoverInvariant`. None of them is inductive: what a statement will do was decided
  when its handler read something, several statements ago. The invariant `HInv` says what is
  still true of that. `JobsInOrder`, `ExportsApart`, `ImportsApart` and `WritesApart` are
  about jobs alone: which statements may follow, and that no two handlers export or import
  the same snapshot or book under the same id. `StepsKnown`, `FilesKnown`, `ConflictsKnown`
  and `MergesKnown` say of each statement, file, conflict and merge what it may rely
  on: every package under way has nothing that is not on its laptop, and a final one
  has all that was there in time (`PackageKnown`). `ReturnedKnown` and `RetiringKnown`
  carry this on to the properties: what was returned has come home, and a laptop whose
  delegation has ended is retired, will retire, or never heard of it (`Closed`).
- `OneWriterCorrect` is about steps: what is written on a laptop, is written while it works
  (`ClosedIsEnded`). It needs one more invariant beside `HInv`: a laptop that retired, or never
  heard that it had to, has made its final return (`EndedKnown`). Only the merge of a final
  package and the making of a final file tell a laptop to retire, which `StepsKnown` says of
  the statements that have not yet done it.
- The argument: a step of one handler leaves what others rely on in place (`JobsStay`,
  `ClosedStepStays`), because the data only grows (`Advances`), a laptop is filled or put to
  work only by who was to do it (`OpensApart`), and ids stay unused (`BooksApart`). Then
  there is one lemma per action (`…Keeps`), which has to look at its own next
  statements only. A merge is split into what it does to the books, the delegation, the merges
  and the job (`MergedKeeps`).
- The attempt found two mistakes of the model, one of them a behaviour of the code that the
  runs had not met: a delegation can be exported or ended by the request for another one,
  because `transition` ends whatever delegation there is. `OneWriter` was false there, and
  names it (`mistaken`). The other was the bound `MaxReturns`, which a package built in
  a brief scenario ignored.

- `HandoverImplemented`: every step of `OfflineSync` is a step of `Handover` or
  changes nothing `Handover` sees. Bookings, top-ups and what is written on or copied to a
  laptop are `Book` and `Copy`; delegating and ending are `HandOver` and `End`; a merge is
  `TakeOver` while the delegation lasts and `AskAbout` afterwards; a resolved conflict is
  `Adopt`. The proof needs `HInv`: a returned generation is below the current one
  (`MergesKnown`), a package has only what its laptop had, and new ids are not up for
  review (`ConflictsKnown`).

`PeopleProofs`
- `TypeCorrect`, `OldPasswordCorrect`, `GroupsFlatCorrect`, `MergeCorrect`, and two properties
  no run checks, `CodesLimitedCorrect` and `InvitedOnceCorrect`, from `PInvariant`. A
  request is a check and then a write, and others come in between; `PInv` says what the check
  still means when the write comes. The row it will make is free and nobody else's
  (`NewAreFree`); whom it merges exists, is in no other merge, and has no second registration
  unless that came meanwhile (`MovesFit`); the code it redeems, locked since the check,
  counts for one more (`RedeemsFit`); the invitation it activates was sent and has made nobody
  unless it is marked (`InvitationsFit`). `KeysFit` are the foreign keys, which need the deletion
  to clear what refers to a row (`Erased`) and the merge to rename it (`Pointed`).
- Whose session stays open (`SessionsFit`): everybody's who has the password of now, and else
  somebody whose sessions some handler is about to end, which no other step can prevent
  except a restart. This needs `JobsSound`: a reset that writes the password has the end of the
  sessions as its next statement, and what follows in a job is never a first statement.
- The argument: `Carries` says once which part of `PInv` survives a step from which
  columns that step leaves alone (`SameNames`, `SameGroups`, `SamePlaces`, ...) and which
  handlers it moves on (`Calm`); each action then proves only the parts it
  disturbs. Most work are deleting (`ErasedIs`, `DeleteRowKeeps`) and merging (`MergedRows`,
  `MoveAllKeeps`), which disturb all of them.
- The attempt found a run too short to see a wrong property: a guest who was logged in by a
  provider keeps that login when an invitation is activated and gives a first password, and
  `OldPasswordIsOut` was false there. `Activate` says so now, and the run has a scenario for
  it (login by provider, conversion, reset). `Refuse` keeps the rest of a bulk action as a
  whole now; it used a filter, about which the library has no theorems.

`CharactersProofs`
- `TypeCorrect`, `OwnerHasTheSayCorrect`, `SecretCorrect`, `LinksCorrect`, `FilesCorrect`,
  `ReadCorrect`, from `CInvariant`. The invariant `Inv` has a part for each kind of work and one,
  `JobsSound`, about jobs: which statements stand in one job and in which order (`Plan`),
  and what each was given when it was planned (`SoundStep`).
- Sheets: the owner's say is not inductive, because a rejection puts an old value back.
  `Covers` asks the same of what stands on a sheet, of the old values in recorded reviews, and of
  those in reviews still to be recorded. A write adds a value that nobody has seen before
  (`NumbersFresh`): without that a stranger's value could be one the owner accepted long ago, or
  one whose review has been judged. `Born` says that an id without a sheet is in no review.
- Links: who checked that a character is free finds it so, or is listed as racing
  (`StillFree`); a deletion under way has warned of every place it will take (`Warned`).
- Files: the invariant says who answers for the bytes at each moment, a row or the head of a
  job (`Named`): an upload between the bytes and the row, a move between the copy and the row or
  between the row and the removal, a deletion between the row and the bytes. `RowsStand`, `Gone`
  and `Copied` are what each of them relies on, `Arriving` keeps others away from a file
  without a row, and `Room` keeps the place for it within the quota.
- Talk: between showing a thread and marking it (`ShownBefore`), whatever the mark will touch
  was shown or came late.
- The argument: `SheetsOnly`, `LinksOnly`, `TalkOnly` and `FilesOnly` say that a step of one kind
  of work leaves the parts about the others alone; each action (`…Keeps`) then proves its own
  part. The assumption about "legacy" says that the file which a behaviour starts with belongs
  to a character and was within the quota. No run checks `TypeOK` of this module; the theorem says it.

`RetentionProofs`
- `RetentionTypeCorrect`, `SlotRunsOnceCorrect`, `SettingsAreKeptCorrect`,
  `ForgottenIsGoneCorrect`, from `RetentionInvariant`. The invariant says what a job is at each
  place of its list (`Fits`), that scheduled backups run one at a time (`OneBackup`), that marks
  carry times that have been (`CutsPast`), and what is up for review (`ReviewsFit`). Deletions
  may overlap; nothing about them relies on there being one.
- One backup a day needs to know who will still dump: whoever has its dump before it is the
  first of its day, or the mark was overwritten (`FirstOfDay`); a day with a dump, or with
  one about to come, is marked (`DayMarked`); and nobody holds the mark of a day to come
  (`DaysPast`), whatever was read before or saved in between.
- That what is deleted stays gone needs to know what a deletion has done so far: the places
  and people it has passed hold nothing from before it began (`JobsForget`), so that the mark
  it writes at its end is true. A backup whose two halves belong together keeps the promise
  as well (`BackupsForget`), so that restoring both parts of it undoes no deletion; restoring
  a torn one, or one part, is an exception the property names, like a row written over one
  that changed after it was read. A rejected review puts back a value of any age: it is excused
  for the places and people it wrote to while the category was deleted or being deleted
  (`Returned`, `ResolveReviewKeeps`).
- The assumption `"none" \notin Categories` keeps a job without a category from looking
  like a deletion.

`EventsProofs`
- `EventsTypeCorrect`, `SettingsFitCorrect`, `RenamesReachEverybodyCorrect`,
  `OnlyEmptyIsDeletedCorrect`, `PricesAreKeptCorrect`, `MailsAreCountedCorrect`,
  `RemindersAreCountedCorrect`, from `EventsInvariant`. A job is a list of statements decided on
  when its handler read something; the invariant `EInv` says what is still true of that, however
  many runs of a job there are. `JobsFit` is about the list; `RowsFit` says a registration
  needs an event. No run checks `TypeOK` of this module; `EventsTypeCorrect` says it.
- Settings: what is saved was validated (`Validated`), and a request that writes what no
  longer fits has crossed another one (`Crossed`, `Stale`). Renaming: until the roles are
  saved everybody has one of those the request read, and after the last UPDATE one of the new ones
  (`FlagsKnown`), because each renaming left leads to a role the event is to have
  (`Renaming`); this says nothing while two such requests overlap (`Overlapping`).
- Deleting: whoever is registered while an unforced delete is under way came late
  (`DeletesFit`). Prices: a registration about to be inserted owes its price (`Registers`), and
  who never paid has paid for nothing (`PricesFit`).
- Mails: nobody is mailed about a deadline after the next one, and about the next one only
  who has its mark (`Dated`); who has no registration was never mailed (`Fresh`); who is being
  mailed has the mark and no mail yet, by the prices of the event (`Sends`), and is mailed by
  one run only, which the claim sees to (`SendApart`).
- Reminders: who is on one list only is due, and its number is the next one; who is on
  two was doubled (`Reminded`). The count goes up for each list that was mailed, so the
  proof counts the handlers between mail and count (`CountsMove`), for which the set of handlers
  has to be finite.
- The attempt changed the model and two properties. `RenamesReachEverybody` failed
  for two saves that both rename roles, with three roles: the second one had read the names the
  first one was changing. That is a crossing, and `Crossed` says so now. In return the property
  excuses a rename under way only, no longer every save (`Running("rename")`), and
  `Stale` lost a disjunct that hid nothing. A new event could get the id of a deleted one while
  a request for that one was still on its way; database ids are never given twice.

Only model-checked: `NobodyStranded`, which needs limits that the promotion can reach and is
false for some values of the constants; the properties of `Guests`; and all liveness,
which TLAPS does not prove from fairness.

## 5. Findings

One run with an expected violation shows where the code does not do what its comments say:
`rename_swap` (`events/repository.js:150`: "A renamed special role keeps its
registrations"). Two names swapped in one save are replaced one after the other in all
registrations, and everybody ends up with the same role.

Nine more were met while modelling. They have no run of their own; behind each is an
exception of a property, an operation that a run leaves out (1 and 3), or something that no
property is about (4 and 5):

1. `registrations/repository.js:607`: `setConRole` counts without the event lock; two
   changes take one SC place.
2. `registrations/repository.js:715`: when an admin removes the last limit, people whom that
   limit made wait are not moved up.
3. `registrations/repository.js:666`: withdrawing while being promoted gives up a place that
   nobody is offered.
4. `registrations/repository.js:718`: extras of waiting people are not counted and a
   promotion does not check them.
5. `members/merge.js:105`: two accounts that both have a profile picture are merged and all
   files of the dropped one are lost, because one colliding row rolls back the UPDATE of the
   whole column.
6. `characterReviews/repository.js:55`: a review keeps the value from before the change, and
   rejecting it writes that value into the account or the sheet, also after the deletion of
   personal data (`privacy/repository.js:92`) has emptied it. The deletion does not touch the
   reviews either, so the old values stay readable in them. `ForgottenIsGone` names it
   (`returned`).
7. `characters/routes.js:98`: "Staff may write staffOnly fields on any character --
   including their own", and the route passes `isElevated` for an owner with staff rights too.
   `characters/repository.js:94` says the opposite of the same call: the route "deliberately
   passes `isElevated && !isOwner`", because the owner "must never be able to write a staffOnly
   field through their own edit form". `SecretIsStaffs` follows the route.
8. `offlineRoutes.js:43`: a final return "also retires this instance (read-only afterwards)",
   and by `docs/betrieb-offline.md:34` it goes to "retired". The guard (`instanceAuthority/guard.js`)
   refuses writes while the role is `delegated` only; on a retired laptop everybody books on, and
   none of it comes home. `OneWriter` names it (the final return has been made), and
   `ReturnedComesHome` does (`late`).
9. `registrations/unpaidReminders.js:18`: the run selects who is due, mails and then counts,
   without a claim. Two runs at once, or a run that takes longer than the six hours of its
   timer, list the same people twice and count twice, so that the next reminder is skipped.
   `RemindersAreCounted` names it (`doubled`). The deadline mails are claimed first and do not
   have this.

A registration uses the number of beds read before its transaction while an admin lowers
it (`registrations/repository.js:360`); it is in the hazard list.

## 6. Not modelled, and what could come next

Not modelled:

- Reading and writing formats: PDF and CSV parsing, bank statements and how entries are
  matched to people, form schemas, QR codes, receipts, mail texts, encryption.
- The frontend: forms, lists and settings pages without a protocol of their own, except
  the request keys (`Tavern`). It is about half of the source by lines, with
  formatting, validation and CRUD routes much of the other half; the definitions here map
  30 % of the code, which is where several actors meet.
- The audit log (written after the fact), demo data, the chat integration, deployment.
- Group permissions and the settings stores: single-row edits under the middleware's checks.

Next, in order:

1. An abstract `PlacesSpec` (places are given, freed, offered) that `Registrations`
   refines under a refinement mapping, as a further property of run `places`.
2. Theorems: the safety properties of `Guests`.

No module that is proved about declares a RECURSIVE operator; sums and counts use the
folds of the community modules.

## 7. How to run

    tlasany Registrations.tla
    tlc -workers 2 -config Places.cfg MCRegistrations
    tlapm RegistrationsProofs.tla
