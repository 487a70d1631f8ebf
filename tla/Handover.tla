------------------------------ MODULE Handover ------------------------------
(***************************************************************************)
(* What handing an event over to an offline instance promises: one holder  *)
(* at a time, and the books of the event change only by what the holder    *)
(* books or returns, each return newer than the one before, or by what     *)
(* an admin has reviewed.  OfflineSync implements it.                      *)
(***************************************************************************)
EXTENDS Integers

CONSTANTS
    Snapshots,    \* hand-overs, each to one offline instance
    Entries,      \* bookings
    Online        \* the holder that is not an offline instance

VARIABLES
    holder,   \* who may book
    gone,     \* hand-overs that have ended
    copy,     \* what each offline instance has booked or was handed
    returns,  \* the returns taken over: hand-over and generation
    books,    \* bookings of the event that count
    review    \* bookings an admin has been asked about

hvars == <<holder, gone, copy, returns, books, review>>

HandoverTypeOK ==
    /\ holder \in Snapshots \cup {Online}
    /\ gone \subseteq Snapshots
    /\ copy \in [Snapshots -> SUBSET Entries]
    /\ returns \subseteq Snapshots \X Nat
    /\ books \subseteq Entries /\ review \subseteq Entries

HandoverInit ==
    /\ holder = Online
    /\ gone = {}
    /\ copy = [s \in Snapshots |-> {}]
    /\ returns = {}
    /\ books = {}
    /\ review = {}

Book(e) ==
    /\ holder = Online
    /\ books' = books \cup {e}
    /\ UNCHANGED <<holder, gone, copy, returns, review>>

HandOver(s) ==
    /\ holder = Online /\ s \notin gone
    /\ holder' = s
    /\ UNCHANGED <<gone, copy, returns, books, review>>

\* An offline instance receives the books and books on; an old one cannot be stopped.
Copy(s, entries) ==
    /\ copy' = [copy EXCEPT ![s] = @ \cup entries]
    /\ UNCHANGED <<holder, gone, returns, books, review>>

\* A return of the holder: what has no conflict is taken over, the rest is reviewed.
TakeOver(g, entries, asked) ==
    /\ holder # Online
    /\ \A r \in returns : r[1] = holder => r[2] < g
    /\ entries \cup asked \subseteq copy[holder]
    /\ returns' = returns \cup {<<holder, g>>}
    /\ books' = books \cup entries
    /\ review' = review \cup asked
    /\ UNCHANGED <<holder, gone, copy>>

\* Whatever an instance sends after its hand-over has ended is only put up for review.
AskAbout(s, asked) ==
    /\ s \in gone /\ asked \subseteq copy[s]
    /\ review' = review \cup asked
    /\ UNCHANGED <<holder, gone, copy, returns, books>>

Adopt(entries) ==
    /\ entries \subseteq review
    /\ books' = books \cup entries
    /\ UNCHANGED <<holder, gone, copy, returns, review>>

End ==
    /\ holder # Online
    /\ holder' = Online
    /\ gone' = gone \cup {holder}
    /\ UNCHANGED <<copy, returns, books, review>>

HandoverNext ==
    \/ \E e \in Entries : Book(e)
    \/ \E s \in Snapshots :
        \/ HandOver(s)
        \/ \E entries \in SUBSET Entries : Copy(s, entries) \/ AskAbout(s, entries)
    \/ \E return \in returns', entries, asked \in SUBSET Entries :
         TakeOver(return[2], entries, asked)
    \/ \E entries \in SUBSET Entries : Adopt(entries)
    \/ End

HandoverSpec == HandoverInit /\ [][HandoverNext]_hvars
=============================================================================
