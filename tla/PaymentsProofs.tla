---------------------------- MODULE PaymentsProofs ----------------------------
(* Theorems about Payments, for every number of people, payments, handlers *)
(* and faults.                                                             *)
EXTENDS Payments, FiniteSetTheorems, WellFoundedInduction, SequenceTheorems, TLAPS

-----------------------------------------------------------------------------
(* What the provers need to know about sums: they are defined, they are    *)
(* integers, and they do not depend on the order.  Induction over finite   *)
(* sets is done by a smallest counterexample.                              *)

\* Among subsets of a finite set there is one with no other below it.
LEMMA SmallestSubset ==
    ASSUME NEW S, IsFiniteSet(S), NEW Bad \in SUBSET SUBSET S, Bad # {}
    PROVE  \E T \in Bad : \A U \in Bad : U \subseteq T => U = T
<1> DEFINE Sizes == {Cardinality(T) : T \in Bad}
<1>1. \A T \in Bad : IsFiniteSet(T) /\ Cardinality(T) \in Nat
  BY FS_Subset, FS_CardinalityType
<1>2. PICK n \in Sizes : \A m \in Sizes : ~(m < n)
  <2>1. Sizes \subseteq Nat /\ Sizes # {}
    BY <1>1
  <2>2. \E n \in Sizes : \A m \in Sizes : <<m, n>> \notin OpToRel(<, Nat)
    <3> HIDE DEF Sizes
    <3> QED
      BY <2>1, NatLessThanWellFounded, WFMin
  <2> QED
    BY <2>1, <2>2 DEF OpToRel
<1>3. PICK T \in Bad : n = Cardinality(T)
  BY <1>2
<1>4. ASSUME NEW U \in Bad, U \subseteq T
      PROVE  U = T
  <2>1. Cardinality(U) \in Sizes /\ Cardinality(U) \in Nat /\ Cardinality(T) \in Nat
    BY <1>1
  <2>2. ~(Cardinality(U) < Cardinality(T))
    BY <1>2, <1>3, <2>1
  <2>3. Cardinality(U) <= Cardinality(T) /\ (Cardinality(U) = Cardinality(T) => U = T)
    BY <1>1, <1>4, FS_Subset
  <2> HIDE DEF Sizes
  <2> QED
    BY <2>1, <2>2, <2>3
<1> QED
  BY <1>4

-----------------------------------------------------------------------------
(* The recursion behind MapThenSumSet *)

Pick(s) == CHOOSE x \in s : TRUE
Sums(f, S, g) ==
    g = [s \in SUBSET S |-> IF s = {} THEN 0 ELSE f[Pick(s)] + g[s \ {Pick(s)}]]
SumsOf(f, S) == CHOOSE g : Sums(f, S, g)

\* The sum is the recursion's value for the whole set.
LEMMA TotalIsSums ==
    ASSUME NEW f, NEW S
    PROVE  Total(f, S) = SumsOf(f, S)[S]
  BY DEF Total, MapThenSumSet, MapThenFoldSet, SumsOf, Sums, Pick

\* What is picked from a set is in it.
LEMMA PickIsIn ==
    ASSUME NEW s, s # {}
    PROVE  Pick(s) \in s
  BY DEF Pick

\* Two such functions agree where both are defined.
LEMMA SumsAgree ==
    ASSUME NEW S, IsFiniteSet(S), NEW T \in SUBSET S, NEW f, NEW g, NEW h,
           Sums(f, S, g), Sums(f, T, h)
    PROVE  \A s \in SUBSET T : g[s] = h[s]
<1> DEFINE Bad == {s \in SUBSET T : g[s] # h[s]}
<1> SUFFICES ASSUME Bad # {} PROVE FALSE
  OBVIOUS
<1>1. Bad \in SUBSET SUBSET S
  OBVIOUS
<1>2. PICK s \in Bad : \A u \in Bad : u \subseteq s => u = s
  <2> HIDE DEF Bad
  <2> QED
    BY <1>1, SmallestSubset
<1>3. s \in SUBSET S /\ s \in SUBSET T /\ g[s] # h[s]
  OBVIOUS
<1>4. g[s] = IF s = {} THEN 0 ELSE f[Pick(s)] + g[s \ {Pick(s)}]
  BY <1>3 DEF Sums
<1>5. h[s] = IF s = {} THEN 0 ELSE f[Pick(s)] + h[s \ {Pick(s)}]
  BY <1>3 DEF Sums
<1>6. s # {}
  BY <1>3, <1>4, <1>5
<1>7. s \ {Pick(s)} \in SUBSET T /\ s \ {Pick(s)} # s /\ s \ {Pick(s)} \subseteq s
  BY <1>3, <1>6, PickIsIn
<1>8. g[s \ {Pick(s)}] = h[s \ {Pick(s)}]
  BY <1>2, <1>7
<1> QED
  BY <1>3, <1>4, <1>5, <1>6, <1>8

\* The recursion has a solution: one is built from those for the smaller sets.
LEMMA SumsExist ==
    ASSUME NEW S, IsFiniteSet(S), NEW f
    PROVE  Sums(f, S, SumsOf(f, S))
<1> DEFINE Bad == {T \in SUBSET S : ~ \E g : Sums(f, T, g)}
<1> SUFFICES ASSUME Bad # {} PROVE FALSE
  <2>1. S \notin Bad => \E g : Sums(f, S, g)
    OBVIOUS
  <2>2. (\E g : Sums(f, S, g)) => Sums(f, S, CHOOSE g : Sums(f, S, g))
    OBVIOUS
  <2> QED
    BY <2>1, <2>2 DEF SumsOf
<1>1. PICK T \in Bad : \A U \in Bad : U \subseteq T => U = T
  <2>1. Bad \in SUBSET SUBSET S
    OBVIOUS
  <2> HIDE DEF Bad
  <2> QED
    BY <2>1, SmallestSubset
<1>2. \A U \in SUBSET T : U # T => Sums(f, U, SumsOf(f, U))
  <2> SUFFICES ASSUME NEW U \in SUBSET T, U # T PROVE Sums(f, U, SumsOf(f, U))
    OBVIOUS
  <2>1. \E g : Sums(f, U, g)
    BY <1>1
  <2>2. Sums(f, U, CHOOSE g : Sums(f, U, g))
    BY <2>1
  <2> QED
    BY <2>2 DEF SumsOf
<1> DEFINE sub(s) == SumsOf(f, s)[s]
           h == [s \in SUBSET T |->
                   IF s = {} THEN 0
                   ELSE f[Pick(s)] + sub(s \ {Pick(s)})]
<1>3. ASSUME NEW s \in SUBSET T, s # T
      PROVE  h[s] = sub(s)
  <2>1. Sums(f, s, SumsOf(f, s))
    BY <1>2, <1>3
  <2>2. sub(s) = IF s = {} THEN 0 ELSE f[Pick(s)] + SumsOf(f, s)[s \ {Pick(s)}]
    BY <2>1 DEF Sums
  <2>3. CASE s = {}
    BY <2>2, <2>3
  <2>4. CASE s # {}
    <3> DEFINE u == s \ {Pick(s)}
    <3>1. u \in SUBSET s /\ u \in SUBSET T /\ u # T
      BY <1>3, <2>4, PickIsIn
    <3>2. Sums(f, u, SumsOf(f, u))
      BY <1>2, <3>1
    <3>3. IsFiniteSet(s)
      BY FS_Subset
    <3>4. SumsOf(f, s)[u] = SumsOf(f, u)[u]
      <4> HIDE DEF u
      <4> QED
        BY <2>1, <3>1, <3>2, <3>3, SumsAgree
    <3> QED
      BY <2>2, <2>4, <3>4
  <2> QED
    BY <2>3, <2>4
<1>4. Sums(f, T, h)
  <2>1. ASSUME NEW s \in SUBSET T, s # {}
        PROVE  sub(s \ {Pick(s)}) = h[s \ {Pick(s)}]
    <3>1. s \ {Pick(s)} \in SUBSET T /\ s \ {Pick(s)} # T
      BY <2>1, PickIsIn
    <3> HIDE DEF h, sub
    <3> QED
      BY <1>3, <3>1
  <2>2. h = [s \in SUBSET T |-> IF s = {} THEN 0 ELSE f[Pick(s)] + h[s \ {Pick(s)}]]
    <3> HIDE DEF sub
    <3> QED
      BY <2>1
  <2> HIDE DEF h
  <2> QED
    BY <2>2 DEF Sums
<1> QED
  BY <1>1, <1>4

-----------------------------------------------------------------------------
(* What is cited elsewhere *)

\* The sum of nothing is zero.
LEMMA TotalOfNothing ==
    ASSUME NEW f
    PROVE  Total(f, {}) = 0
<1>1. Sums(f, {}, SumsOf(f, {}))
  BY SumsExist, FS_EmptySet
<1> QED
  BY <1>1, TotalIsSums DEF Sums

\* One step of the recursion, on sums.
LEMMA TotalOfPick ==
    ASSUME NEW f, NEW S, IsFiniteSet(S), S # {}
    PROVE  Total(f, S) = f[Pick(S)] + Total(f, S \ {Pick(S)})
<1> DEFINE U == S \ {Pick(S)}
<1>1. Sums(f, S, SumsOf(f, S)) /\ IsFiniteSet(U) /\ U \in SUBSET S
  BY SumsExist, FS_Subset
<1>2. Sums(f, U, SumsOf(f, U))
  BY <1>1, SumsExist
<1>3. SumsOf(f, S)[S] = f[Pick(S)] + SumsOf(f, S)[U]
  BY <1>1 DEF Sums
<1>4. SumsOf(f, S)[U] = SumsOf(f, U)[U]
  <2> HIDE DEF U
  <2> QED
    BY <1>1, <1>2, SumsAgree
<1>5. Total(f, S) = SumsOf(f, S)[S] /\ Total(f, U) = SumsOf(f, U)[U]
  BY TotalIsSums
<1> QED
  BY <1>3, <1>4, <1>5

\* A sum of integers is an integer.
LEMMA TotalType ==
    ASSUME NEW f, NEW S, IsFiniteSet(S), \A x \in S : f[x] \in Int
    PROVE  Total(f, S) \in Int
<1> DEFINE Bad == {T \in SUBSET S : Total(f, T) \notin Int}
<1> SUFFICES ASSUME Bad # {} PROVE FALSE
  OBVIOUS
<1>1. PICK T \in Bad : \A U \in Bad : U \subseteq T => U = T
  <2>1. Bad \in SUBSET SUBSET S
    OBVIOUS
  <2> HIDE DEF Bad
  <2> QED
    BY <2>1, SmallestSubset
<1>2. T # {} /\ IsFiniteSet(T) /\ T \in SUBSET S
  <2>1. T \in SUBSET S /\ Total(f, T) \notin Int
    OBVIOUS
  <2>2. Total(f, {}) \in Int
    BY TotalOfNothing
  <2> HIDE DEF Bad
  <2> QED
    BY <2>1, <2>2, FS_Subset
<1>3. Total(f, T) = f[Pick(T)] + Total(f, T \ {Pick(T)}) /\ Pick(T) \in T
  BY <1>2, TotalOfPick, PickIsIn
<1>4. T \ {Pick(T)} \notin Bad
  BY <1>1, <1>3
<1>5. Total(f, T \ {Pick(T)}) \in Int
  BY <1>2, <1>4
<1> QED
  BY <1>2, <1>3, <1>5

\* Any element may be taken out first.
LEMMA TotalRemove ==
    ASSUME NEW f, NEW S, IsFiniteSet(S), \A x \in S : f[x] \in Int, NEW y \in S
    PROVE  Total(f, S) = f[y] + Total(f, S \ {y})
<1> DEFINE Bad == {T \in SUBSET S : \E z \in T : Total(f, T) # f[z] + Total(f, T \ {z})}
<1> SUFFICES ASSUME Bad # {} PROVE FALSE
  OBVIOUS
<1>1. PICK T \in Bad : \A U \in Bad : U \subseteq T => U = T
  <2>1. Bad \in SUBSET SUBSET S
    OBVIOUS
  <2> HIDE DEF Bad
  <2> QED
    BY <2>1, SmallestSubset
<1>2. PICK z \in T : Total(f, T) # f[z] + Total(f, T \ {z})
  OBVIOUS
<1> DEFINE x == Pick(T)
<1>3. T \in SUBSET S /\ IsFiniteSet(T) /\ x \in T
  BY FS_Subset, PickIsIn
<1> HIDE DEF x
<1>4. Total(f, T) = f[x] + Total(f, T \ {x})
  BY <1>3, TotalOfPick DEF x
<1>5. x # z
  BY <1>2, <1>4
<1>6. T \ {x} \notin Bad /\ T \ {z} \notin Bad
  BY <1>1, <1>3
<1>7. Total(f, T \ {x}) = f[z] + Total(f, (T \ {x}) \ {z})
  BY <1>3, <1>5, <1>6
<1> DEFINE U == (T \ {x}) \ {z}
<1>8. Total(f, T \ {z}) = f[x] + Total(f, U)
  <2>1. Total(f, T \ {z}) = f[x] + Total(f, (T \ {z}) \ {x})
    BY <1>3, <1>5, <1>6
  <2>2. (T \ {z}) \ {x} = U
    OBVIOUS
  <2> QED
    BY <2>1, <2>2
<1>9. Total(f, U) \in Int
  BY <1>3, FS_Subset, TotalType
<1>10. f[x] \in Int /\ f[z] \in Int
  BY <1>3
<1> HIDE DEF Bad, U
<1>11. f[x] + (f[z] + Total(f, U)) = f[z] + (f[x] + Total(f, U))
  BY <1>9, <1>10
<1>12. Total(f, T) = f[x] + (f[z] + Total(f, U))
  BY <1>4, <1>7 DEF U
<1> QED
  BY <1>2, <1>8, <1>11, <1>12

\* Adding one element.
LEMMA TotalAdd ==
    ASSUME NEW f, NEW S, IsFiniteSet(S), NEW y, y \notin S,
           \A x \in S \cup {y} : f[x] \in Int
    PROVE  Total(f, S \cup {y}) = Total(f, S) + f[y]
<1>1. IsFiniteSet(S \cup {y}) /\ (S \cup {y}) \ {y} = S
  BY FS_AddElement
<1>2. Total(f, S \cup {y}) = f[y] + Total(f, S)
  BY <1>1, TotalRemove
<1>3. Total(f, S) \in Int /\ f[y] \in Int
  BY TotalType
<1> QED
  BY <1>2, <1>3

\* The sum depends on the function's values in the set only.
LEMMA TotalSame ==
    ASSUME NEW f, NEW g, NEW S, IsFiniteSet(S), \A x \in S : f[x] = g[x]
    PROVE  Total(f, S) = Total(g, S)
<1> DEFINE Bad == {T \in SUBSET S : Total(f, T) # Total(g, T)}
<1> SUFFICES ASSUME Bad # {} PROVE FALSE
  OBVIOUS
<1>1. PICK T \in Bad : \A U \in Bad : U \subseteq T => U = T
  <2>1. Bad \in SUBSET SUBSET S
    OBVIOUS
  <2> HIDE DEF Bad
  <2> QED
    BY <2>1, SmallestSubset
<1>2. T # {} /\ IsFiniteSet(T) /\ T \in SUBSET S
  BY TotalOfNothing, FS_Subset
<1>3. Pick(T) \in T /\ Total(f, T) = f[Pick(T)] + Total(f, T \ {Pick(T)})
                   /\ Total(g, T) = g[Pick(T)] + Total(g, T \ {Pick(T)})
  BY <1>2, TotalOfPick, PickIsIn
<1>4. T \ {Pick(T)} \notin Bad
  BY <1>1, <1>3
<1> QED
  BY <1>2, <1>3, <1>4

\* One value changes.
LEMMA TotalChange ==
    ASSUME NEW f, NEW g, NEW S, IsFiniteSet(S), NEW y \in S,
           \A x \in S : f[x] \in Int /\ g[x] \in Int,
           \A x \in S \ {y} : f[x] = g[x]
    PROVE  Total(g, S) = Total(f, S) - f[y] + g[y]
<1> DEFINE U == S \ {y}
<1>1. IsFiniteSet(U) /\ Total(f, U) \in Int
  BY FS_Subset, TotalType
<1>2. Total(f, U) = Total(g, U)
  BY <1>1, TotalSame
<1>3. Total(f, S) = f[y] + Total(f, U) /\ Total(g, S) = g[y] + Total(g, U)
  BY TotalRemove
<1> QED
  BY <1>1, <1>2, <1>3

\* A sum of amounts that are not negative is at least the sum over fewer of them.
LEMMA TotalOfMore ==
    ASSUME NEW f, NEW S, IsFiniteSet(S), \A x \in S : f[x] \in Nat, NEW R \in SUBSET S
    PROVE  Total(f, R) \in Nat /\ Total(f, R) <= Total(f, S)
<1> DEFINE Bad == {T \in SUBSET S : \/ Total(f, T) \notin Nat
                                    \/ R \subseteq T /\ ~(Total(f, R) <= Total(f, T))}
<1>0. ASSUME Bad = {} PROVE Total(f, R) \in Nat /\ Total(f, R) <= Total(f, S)
  <2>1. R \notin Bad /\ S \notin Bad
    BY <1>0
  <2> QED
    BY <2>1
<1> SUFFICES ASSUME Bad # {} PROVE FALSE
  BY <1>0
<1>1. PICK T \in Bad : \A U \in Bad : U \subseteq T => U = T
  <2>1. Bad \in SUBSET SUBSET S
    OBVIOUS
  <2> HIDE DEF Bad
  <2> QED
    BY <2>1, SmallestSubset
<1>2. IsFiniteSet(T) /\ T \in SUBSET S
  BY FS_Subset
<1>3. ASSUME NEW y \in T
      PROVE  /\ Total(f, T) = f[y] + Total(f, T \ {y})
             /\ Total(f, T \ {y}) \in Nat /\ Total(f, T) \in Nat
             /\ R \subseteq T \ {y} => Total(f, R) <= Total(f, T \ {y})
  <2>1. \A x \in T : f[x] \in Int
    BY <1>2
  <2>2. Total(f, T) = f[y] + Total(f, T \ {y})
    BY <1>2, <2>1, TotalRemove
  <2>3. T \ {y} \notin Bad /\ T \ {y} \in SUBSET S
    BY <1>1, <1>2
  <2>4. /\ Total(f, T \ {y}) \in Nat
        /\ R \subseteq T \ {y} => Total(f, R) <= Total(f, T \ {y})
    BY <2>3
  <2>5. f[y] \in Nat
    BY <1>2
  <2> HIDE DEF Bad
  <2> QED
    BY <2>2, <2>4, <2>5
<1>4. Total(f, T) \in Nat
  <2>1. T = {} => Total(f, T) \in Nat
    BY TotalOfNothing
  <2> HIDE DEF Bad
  <2> QED
    BY <1>3, <2>1
<1>5. R \subseteq T /\ ~(Total(f, R) <= Total(f, T))
  BY <1>4
<1>6. CASE R = T
  BY <1>4, <1>5, <1>6
<1>7. CASE R # T
  <2>1. PICK y \in T : y \notin R
    BY <1>5, <1>7
  <2>2. R \subseteq T \ {y} /\ Total(f, R) <= Total(f, T \ {y})
    BY <1>3, <1>5, <2>1
  <2>3. R \notin Bad /\ Total(f, R) \in Nat
    BY <1>1, <1>5, <1>7
  <2>4. f[y] \in Nat /\ Total(f, T) = f[y] + Total(f, T \ {y}) /\ Total(f, T \ {y}) \in Nat
    BY <1>2, <1>3
  <2>5. ~(Total(f, R) <= Total(f, T))
    BY <1>5
  <2> HIDE DEF Bad
  <2> QED
    BY <2>2, <2>3, <2>4, <2>5
<1> QED
  BY <1>6, <1>7

\* A sum of zeros is zero.
LEMMA TotalOfZeros ==
    ASSUME NEW f, NEW S, IsFiniteSet(S), \A x \in S : f[x] = 0
    PROVE  Total(f, S) = 0
<1> DEFINE Bad == {T \in SUBSET S : Total(f, T) # 0}
<1> SUFFICES ASSUME Bad # {} PROVE FALSE
  OBVIOUS
<1>1. PICK T \in Bad : \A U \in Bad : U \subseteq T => U = T
  <2>1. Bad \in SUBSET SUBSET S
    OBVIOUS
  <2> HIDE DEF Bad
  <2> QED
    BY <2>1, SmallestSubset
<1>2. T # {} /\ IsFiniteSet(T) /\ T \in SUBSET S
  BY TotalOfNothing, FS_Subset
<1>3. Pick(T) \in T /\ Total(f, T) = f[Pick(T)] + Total(f, T \ {Pick(T)})
  BY <1>2, TotalOfPick, PickIsIn
<1>4. T \ {Pick(T)} \notin Bad
  BY <1>1, <1>3
<1>5. f[Pick(T)] = 0 /\ Total(f, T \ {Pick(T)}) = 0
  BY <1>2, <1>3, <1>4
<1> QED
  BY <1>3, <1>5

-----------------------------------------------------------------------------
(* The inductive invariant *)

\* The unique index on provider_reference: a row for each attempt and person.
RowsUnique ==
    \A i, j \in Rows :
        payments[i].via = payments[j].via /\ payments[i].user = payments[j].user
            => i = j \/ payments[i].via = NoAttempt

\* A row whose receipt is due has none yet, and one handler cares for it.
Announces(h) == job[h].at \in {"record", "book"} /\ job[h].log # 0
ReceiptsDue ==
    /\ \A h \in Handlers :
         Announces(h) => job[h].log \in Rows /\ payments[job[h].log].receipts = 0
    /\ \A g, h \in Handlers :
         Announces(g) /\ Announces(h) /\ job[g].log = job[h].log => g = h
    /\ \A i \in Rows : payments[i].receipts <= 1

\* A registration's row is locked by one handler, which has read it as it is.
RowsLocked ==
    /\ \A h \in Handlers :
         job[h].at = "locked" => job[h].seen = reg[job[h].user] /\ job[h].seen.due # NoAmount
    /\ \A g, h \in Handlers :
         job[g].at = "locked" /\ job[h].at = "locked" /\ job[g].user = job[h].user => g = h

\* What an attempt was priced with is still due, unless somebody changed it.
PricedAsDue(a) ==
    /\ attempt[a].state = "none" => attempt[a] = NotStarted
    /\ attempt[a].state # "none" =>
         /\ attempt[a].group \/ \E p \in Persons : attempt[a].who = {p}
         /\ \A p \in attempt[a].who \ changed : reg[p].due > 0
         /\ attempt[a].who \cap changed = {}
              => attempt[a].amount = Total(DuesNow, attempt[a].who)
AttemptsPriced == \A a \in Attempts : PricedAsDue(a)

\* Whom a handler will not book is accounted for, or it has still to look at them.
Deals(h) == job[h].at \in {"capture", "check", "skipped", "report", "record"}
Books(h) == job[h].at \in {"skipped", "report", "record"}
Sound(h) ==
    LET a == job[h].a
    IN  /\ Deals(h) => attempt[a].state # "none"
        /\ Books(h) =>
             /\ job[h].todo \subseteq attempt[a].who
             /\ \A p \in job[h].todo :
                  /\ job[h].seen[p] \in Nat
                  /\ attempt[a].group \/ job[h].seen[p] <= attempt[a].amount
        /\ job[h].at = "skipped" =>
             \A p \in attempt[a].who \ job[h].todo : p \in changed \/ reg[p].paid
        /\ job[h].at = "report" =>
             \A p \in attempt[a].who \ job[h].todo : p \in job[h].skipped \/ Accounted(a, p)
        /\ job[h].at = "record" =>
             \A p \in attempt[a].who \ job[h].todo : Accounted(a, p)
BookingsSound == \A h \in Handlers : Sound(h)

\* A refund is about a row there is; at Stripe, of a payment made there.
RefundsKnown ==
    \A h \in Handlers :
        /\ job[h].at \in {"refund", "write"} => job[h].row \in Rows
        /\ job[h].at = "refund" => payments[job[h].row].via \in Attempts

\* A row about money that came in online is about a payment that was started.
RowsStarted ==
    \A i \in Rows : payments[i].via \in Attempts => attempt[payments[i].via].state # "none"

\* What Stripe paid back for an attempt and is written down, or still to be written.
Returns(a) == {i \in Rows : payments[i].returned = a}
Refunds == [i \in Rows |-> payments[i].refund]
Owes(a) ==
    [h \in Handlers |->
        IF job[h].at \in {"select", "write"} /\ job[h].returned = a THEN job[h].amount ELSE 0]
RefundsBacked ==
    \A a \in Attempts :
        Total(Refunds, Returns(a)) + Total(Owes(a), Handlers) <= attempt[a].refunds

PInv ==
    /\ TypeOK /\ RowsUnique /\ ReceiptsDue /\ RowsLocked
    /\ AttemptsPriced /\ BookingsSound /\ RowsStarted
    /\ RefundsKnown /\ RefundsBacked
    /\ AnsweredIsAccounted

-----------------------------------------------------------------------------
(* Rows and jobs *)

\* The table is its rows, numbered from one.
LEMMA RowsAre ==
    ASSUME TypeOK
    PROVE  /\ Len(payments) \in Nat /\ Rows = 1..Len(payments)
           /\ \A i \in Rows : i \in Nat \ {0} /\ payments[i] \in Payment
<1>1. payments \in Seq(Payment)
  BY DEF TypeOK
<1> QED
  BY <1>1, LenProperties, ElementOfSeq DEF Rows

\* What a handler keeps is of the right kind at every step.
LEMMA JobFields ==
    ASSUME NEW j \in Job
    PROVE  /\ j.at \in {"capture", "check", "skipped", "report", "record"} => j.a \in Attempts
           /\ j.at \in {"skipped", "report", "record"} => j.seen \in Seen
           /\ j.at \in {"skipped", "report", "record", "notify", "book", "locked"}
                => j.todo \in SUBSET Persons
           /\ j.at = "notify" => j.who \in SUBSET Persons
           /\ j.at = "report" => j.skipped \in SUBSET Persons
           /\ j.at \in {"record", "book"} => j.log \in Nat
           /\ j.at = "locked" => j.seen \in Registration
           /\ j.at \in {"locked", "select"} => j.user \in Persons
           /\ j.at \in {"refund", "write"} => j.row \in Nat
           /\ j.at \in {"refund", "select", "write"} => j.amount \in Nat
           /\ j.at \in {"select", "write"} => j.returned \in MaybeAttempt
  BY DEF Job

\* The steps of a handler that keep a part of what it had.
RecordJob(a, seen, todo, log) ==
    [at |-> "record", a |-> a, seen |-> seen, todo |-> todo, log |-> log]
BookJob(todo, log) == [at |-> "book", todo |-> todo, log |-> log]
LEMMA RecordParts ==
    ASSUME NEW j \in Job, j.at = "record", NEW log \in Nat
    PROVE  /\ j \in [at : {"record"}, a : Attempts, seen : Seen, todo : SUBSET Persons, log : Nat]
           /\ [j EXCEPT !.log = log] = RecordJob(j.a, j.seen, j.todo, log)
<1>1. j \in [at : {"record"}, a : Attempts, seen : Seen, todo : SUBSET Persons, log : Nat]
  BY DEF Job
<1> QED
  BY <1>1 DEF RecordJob
LEMMA BookParts ==
    ASSUME NEW j \in Job, j.at = "book", NEW some \in SUBSET Persons, NEW log \in Nat
    PROVE  /\ [j EXCEPT !.todo = some] = BookJob(some, j.log)
           /\ [j EXCEPT !.log = log] = BookJob(j.todo, log)
<1>1. j \in [at : {"book"}, todo : SUBSET Persons, log : Nat]
  BY DEF Job
<1> QED
  BY <1>1 DEF BookJob
LEMMA ReportParts ==
    ASSUME NEW j \in Job, j.at = "report", NEW some \in SUBSET Persons
    PROVE  /\ [j EXCEPT !.skipped = some] \in Job
           /\ [j EXCEPT !.skipped = some] =
                [at |-> "report", a |-> j.a, seen |-> j.seen, todo |-> j.todo, skipped |-> some]
<1>1. j \in [at : {"report"}, a : Attempts, seen : Seen, todo : SUBSET Persons,
             skipped : SUBSET Persons]
  BY DEF Job
<1>2. [j EXCEPT !.skipped = some] \in [at : {"report"}, a : Attempts, seen : Seen,
                                       todo : SUBSET Persons, skipped : SUBSET Persons]
  BY <1>1
<1> QED
  BY <1>1, <1>2 DEF Job
LEMMA NotifyParts ==
    ASSUME NEW j \in Job, j.at = "notify", NEW some \in SUBSET Persons
    PROVE  [j EXCEPT !.todo = some] = [at |-> "notify", who |-> j.who, todo |-> some]
<1>1. j \in [at : {"notify"}, who : SUBSET Persons, todo : SUBSET Persons]
  BY DEF Job
<1> QED
  BY <1>1

\* The newest of some rows is one of them.
LEMMA NewestIsOne ==
    ASSUME TypeOK, NEW rows \in SUBSET Rows, rows # {}
    PROVE  Newest(rows) \in rows
<1> DEFINE Ages == {Len(payments) - i : i \in rows}
<1>1. Len(payments) \in Nat /\ Rows = 1..Len(payments)
  BY RowsAre
<1>2. PICK n \in Ages : \A m \in Ages : ~(m < n)
  <2>1. Ages \subseteq Nat /\ Ages # {}
    <3>1. \A i \in rows : Len(payments) - i \in Nat
      BY <1>1
    <3> QED
      BY <3>1
  <2>2. \E n \in Ages : \A m \in Ages : <<m, n>> \notin OpToRel(<, Nat)
    <3> HIDE DEF Ages
    <3> QED
      BY <2>1, NatLessThanWellFounded, WFMin
  <2> QED
    BY <2>1, <2>2 DEF OpToRel
<1>3. PICK i \in rows : n = Len(payments) - i
  OBVIOUS
<1>4. \A j \in rows : j <= i
  <2> SUFFICES ASSUME NEW j \in rows PROVE j <= i
    OBVIOUS
  <2>1. ~(Len(payments) - j < Len(payments) - i)
    BY <1>2, <1>3
  <2> QED
    BY <1>1, <2>1
<1> QED
  BY <1>4 DEF Newest

-----------------------------------------------------------------------------
(* What a step does to the table payments *)

\* One row more.
RowAdded(row) ==
    /\ row \in Payment
    /\ payments' \in Seq(Payment)
    /\ Len(payments) + 1 \notin Rows /\ Rows' = Rows \cup {Len(payments) + 1}
    /\ \A i \in Rows : payments'[i] = payments[i]
    /\ payments'[Len(payments) + 1] = row

\* One row changed; it stays the row of this attempt and person.
RowWritten(i, row) ==
    /\ i \in Rows /\ row \in Payment
    /\ row.via = payments[i].via /\ row.user = payments[i].user
    /\ payments' \in Seq(Payment)
    /\ Rows' = Rows
    /\ \A j \in Rows : payments'[j] = IF j = i THEN row ELSE payments[j]

\* A row is appended.
LEMMA AppendAdds ==
    ASSUME TypeOK, NEW row \in Payment, payments' = Append(payments, row)
    PROVE  RowAdded(row)
<1>1. payments \in Seq(Payment) /\ Len(payments) \in Nat /\ Rows = 1..Len(payments)
  BY RowsAre DEF TypeOK
<1>2. /\ payments' \in Seq(Payment) /\ Len(payments') = Len(payments) + 1
      /\ \A i \in 1..Len(payments) : payments'[i] = payments[i]
      /\ payments'[Len(payments) + 1] = row
  BY <1>1, AppendProperties
<1>3. Rows' = 1..(Len(payments) + 1)
  BY <1>2, LenProperties DEF Rows
<1> QED
  BY <1>1, <1>2, <1>3 DEF RowAdded

\* A row is written.
LEMMA ExceptWrites ==
    ASSUME TypeOK, NEW i \in Rows, NEW row \in Payment,
           row.via = payments[i].via, row.user = payments[i].user,
           payments' = [payments EXCEPT ![i] = row]
    PROVE  RowWritten(i, row)
<1>1. payments \in Seq(Payment) /\ Len(payments) \in Nat /\ Rows = 1..Len(payments)
  BY RowsAre DEF TypeOK
<1>2. /\ payments' \in Seq(Payment) /\ Len(payments') = Len(payments)
      /\ \A j \in 1..Len(payments) : payments'[j] = IF j = i THEN row ELSE payments[j]
  BY <1>1, ExceptSeq
<1>3. Rows' = Rows
  BY <1>1, <1>2, LenProperties DEF Rows
<1> QED
  BY <1>1, <1>2, <1>3 DEF RowWritten


-----------------------------------------------------------------------------
(* Who may take a step *)

Begins(h) ==
    \/ \E a \in Attempts : Deliver(h, a) \/ ComeBack(h, a)
    \/ \E p \in Persons : MarkPaidStart(h, p) \/ RefundStart(h, p)
    \/ \E item \in listed : BookItem(h, item)
    \/ \E people \in SUBSET Persons : NotifyGroup(h, people)
Acts(h) == Begins(h) \/ Proceed(h) \/ Fails(h)
Creates(a) ==
    \E people \in SUBSET Persons, group \in BOOLEAN :
        Create(a, people, group) /\ (group \/ \E p \in Persons : people = {p})
\* What staff and the person change, and the notices of one person.
Edits(p) == \E row \in Registration : Change(p, row)
Notifies(p) == NotifyTransfer(p) \/ ClearNotice(p)

\* What is changed by hand leaves a registration with amounts that are not negative.
LEMMA EditsAreTyped ==
    ASSUME TypeOK, NEW p \in Persons,
           \/ \E due \in Amounts \cup {NoAmount} : SetAmountDue(p, due)
           \/ \E cents \in Amounts : SetDiscount(p, cents)
           \/ \E booked \in Bookings : ChangeBooking(p, booked)
           \/ GrantComp(p)
           \/ MarkUnpaid(p)
    PROVE  Edits(p)
<1>0. reg[p] \in Registration /\ 0 \in Due /\ NoAmount \in Due
  BY DEF TypeOK, Due, NoAmount
<1>1. CASE \E due \in Amounts \cup {NoAmount} : SetAmountDue(p, due)
  <2>1. PICK due \in Due : Change(p, [reg[p] EXCEPT !.due = due])
    BY <1>1, AmountsOfMoneyAssumption DEF SetAmountDue, Due
  <2>2. [reg[p] EXCEPT !.due = due] \in Registration
    BY <1>0 DEF Registration
  <2> QED
    BY <2>1, <2>2 DEF Edits
<1>2. CASE \E cents \in Amounts : SetDiscount(p, cents)
  <2>1. PICK cents \in Nat : Change(p, [reg[p] EXCEPT !.due =
            IF reg[p].list = NoAmount THEN @
            ELSE AtLeastZero(reg[p].list + reg[p].booked - cents)])
    BY <1>2, AmountsOfMoneyAssumption DEF SetDiscount
  <2> DEFINE due == IF reg[p].list = NoAmount THEN reg[p].due
                    ELSE AtLeastZero(reg[p].list + reg[p].booked - cents)
  <2>2. due \in Due
    BY <1>0 DEF Registration, Due, AtLeastZero, NoAmount
  <2>3. [reg[p] EXCEPT !.due = due] \in Registration
    <3> HIDE DEF due
    <3> QED
      BY <1>0, <2>2 DEF Registration
  <2> QED
    BY <2>1, <2>3 DEF Edits
<1>3. CASE \E booked \in Bookings : ChangeBooking(p, booked)
  <2>1. PICK booked \in Nat : Change(p, [reg[p] EXCEPT !.booked = booked, !.due =
            IF reg[p].due = NoAmount /\ booked = 0 THEN NoAmount
            ELSE AtLeastZero(OrZero(reg[p].due) + booked - reg[p].booked)])
    BY <1>3, AmountsOfMoneyAssumption DEF ChangeBooking
  <2> DEFINE due == IF reg[p].due = NoAmount /\ booked = 0 THEN NoAmount
                    ELSE AtLeastZero(OrZero(reg[p].due) + booked - reg[p].booked)
  <2>2. due \in Due
    BY <1>0 DEF Registration, Due, AtLeastZero, OrZero, NoAmount
  <2>3. [reg[p] EXCEPT !.booked = booked, !.due = due] \in Registration
    <3> HIDE DEF due
    <3> QED
      BY <1>0, <2>2 DEF Registration
  <2> QED
    BY <2>1, <2>3 DEF Edits
<1>4. CASE GrantComp(p) \/ MarkUnpaid(p)
  <2>1. /\ [reg[p] EXCEPT !.due = 0, !.paid = TRUE] \in Registration
        /\ [reg[p] EXCEPT !.paid = FALSE] \in Registration
    BY <1>0 DEF Registration
  <2> QED
    BY <1>4, <2>1 DEF GrantComp, MarkUnpaid, Edits
<1> QED
  BY <1>1, <1>2, <1>3, <1>4

\* The steps there are.
LEMMA StepIs ==
    ASSUME TypeOK, [Next]_pvars
    PROVE  \/ \E h \in Handlers : Acts(h)
           \/ \E a \in Attempts : Creates(a) \/ PayerPays(a)
           \/ \E p \in Persons : Edits(p) \/ Notifies(p)
           \/ \E people \in SUBSET Persons : Suggest(people)
           \/ Restart
           \/ UNCHANGED pvars
<1>1. ASSUME NEW a \in Attempts, NEW p \in Persons,
             StartSingle(a, p) \/ StartByLink(a, p) \/ StartByButtons(a, p)
      PROVE  Creates(a)
  <2>1. Create(a, {p}, FALSE) /\ {p} \in SUBSET Persons /\ FALSE \in BOOLEAN
    BY <1>1 DEF StartSingle, StartByLink, StartByButtons
  <2> QED
    BY <2>1 DEF Creates
<1>2. ASSUME NEW a \in Attempts, NEW people \in SUBSET Persons, StartGroup(a, people)
      PROVE  Creates(a)
  BY <1>2 DEF StartGroup, Creates
<1>3. ASSUME NEW p \in Persons, NotifyTransfer(p) \/ NotifyByLink(p) \/ ClearNotice(p)
      PROVE  Notifies(p)
  BY <1>3 DEF NotifyByLink, Notifies
<1>4. CASE Step
  BY <1>1, <1>2, <1>3, <1>4, EditsAreTyped DEF Step, Acts, Begins
<1> QED
  BY <1>4 DEF Next

\* The others stay where they are while a handler moves.
LEMMA OneMoves ==
    ASSUME TypeOK, NEW h \in Handlers, Acts(h)
    PROVE  /\ \A g \in Handlers : g # h => job'[g] = job[g]
           /\ \E step : job' = [job EXCEPT ![h] = step]
<1>1. \E step : Continue(h, step)
  <2>1. ASSUME Begins(h) PROVE \E step : Continue(h, step)
    BY <2>1 DEF Begins, Deliver, ComeBack, MarkPaidStart, RefundStart, BookItem, NotifyGroup
  <2>2. ASSUME Fails(h) PROVE \E step : Continue(h, step)
    BY <2>2 DEF Fails, Finish
  <2>3. ASSUME \/ Capture(h) \/ Check(h) \/ ListSkipped(h) \/ ReportOverpaid(h)
               \/ Record(h) \/ LogReceived(h) \/ Answer(h)
        PROVE  \E step : Continue(h, step)
    BY <2>3 DEF Capture, Check, ListSkipped, ReportOverpaid, Record, LogReceived, Answer, Finish
  <2>4. ASSUME \/ NotifyNext(h) \/ RememberTransfer(h)
               \/ LockPerson(h) \/ BookPerson(h) \/ BookingDone(h)
               \/ StripeRefund(h) \/ SelectRefunded(h) \/ WriteRefund(h)
        PROVE  \E step : Continue(h, step)
    BY <2>4 DEF NotifyNext, RememberTransfer, LockPerson, BookPerson, BookingDone,
                StripeRefund, SelectRefunded, WriteRefund, Finish
  <2> QED
    BY <2>1, <2>2, <2>3, <2>4 DEF Acts, Proceed
<1> QED
  BY <1>1 DEF Continue, TypeOK

\* Nobody but the handlers changes what a handler does, except a restart.
LEMMA OnlyHandlersMove ==
    ASSUME TypeOK, [Next]_pvars
    PROVE  \/ \E h \in Handlers : Acts(h)
           \/ UNCHANGED job
           \/ job' = [h \in Handlers |-> NoJob] /\ UNCHANGED <<reg, payments, attempt, overpaid, changed>>
<1>1. Restart => /\ job' = [h \in Handlers |-> NoJob]
                 /\ UNCHANGED <<reg, payments, attempt, overpaid, changed>>
  BY DEF Restart
<1>2. ASSUME NEW a \in Attempts, Creates(a) \/ PayerPays(a) PROVE UNCHANGED job
  BY <1>2 DEF Creates, Create, PayerPays
<1>3. ASSUME NEW p \in Persons, Edits(p) \/ Notifies(p) PROVE UNCHANGED job
  BY <1>3 DEF Edits, Change, Notifies, NotifyTransfer, ClearNotice
<1>4. ASSUME NEW people, Suggest(people) PROVE UNCHANGED job
  BY <1>4 DEF Suggest
<1> QED
  BY <1>1, <1>2, <1>3, <1>4, StepIs DEF pvars

-----------------------------------------------------------------------------
(* Steps that write rows *)

\* A row for money that came in online: of a person who has none for this attempt.
Received(h, p) ==
    /\ job[h].at = "record" /\ job[h].log = 0 /\ p \in job[h].todo
    /\ RowFree(p)
    /\ ~Recorded(job[h].a, p)
    /\ RowAdded(NewRow(p, Share(h, p), job[h].a))
    /\ reg' = [reg EXCEPT ![p].paid = TRUE]
\* A row booked by hand, as the registration is now; none for somebody paid already.
ByHand(h) ==
    /\ job[h].at = "locked"
    /\ job[h].user \in Persons
    /\ job[h].seen = reg[job[h].user]
    /\ ~reg[job[h].user].paid
    /\ RowAdded(NewRow(job[h].user, job[h].seen.due, NoAttempt))

\* The amount booked is not negative.
LEMMA ShareType ==
    ASSUME PInv, NEW h \in Handlers, job[h].at = "record", NEW p \in job[h].todo
    PROVE  Share(h, p) \in Nat /\ p \in Persons /\ job[h].a \in Attempts
<1>1. job[h] \in Job /\ job[h].a \in Attempts /\ p \in Persons
  BY JobFields DEF PInv, TypeOK
<1>2. job[h].seen[p] \in Nat
  BY DEF PInv, BookingsSound, Sound, Books
<1>3. attempt[job[h].a].amount \in Nat
  BY <1>1 DEF PInv, TypeOK, Attempt
<1> QED
  BY <1>1, <1>2, <1>3 DEF Share

\* Recording adds a row for somebody without one, or finds one there.
LEMMA RecordReceives ==
    ASSUME PInv, NEW h \in Handlers, Record(h)
    PROVE  \E p \in job[h].todo :
             /\ p \in Persons /\ job[h].a \in Attempts /\ Receipt(job[h].a, p) \in Nat
             /\ job' = [job EXCEPT ![h] = RecordJob(job[h].a, job[h].seen, job[h].todo \ {p},
                                                    Receipt(job[h].a, p))]
             /\ \/ Recorded(job[h].a, p) /\ Receipt(job[h].a, p) = 0 /\ UNCHANGED <<reg, payments>>
                \/ Received(h, p) /\ Receipt(job[h].a, p) = Len(payments) + 1
<1>1. PICK p \in job[h].todo :
        /\ RowFree(p)
        /\ \/ Conflicts(job[h].a, p) /\ UNCHANGED <<reg, payments>>
           \/ /\ ~Conflicts(job[h].a, p)
              /\ payments' = Append(payments, NewRow(p, Share(h, p), job[h].a))
              /\ reg' = [reg EXCEPT ![p].paid = TRUE]
        /\ Continue(h, [job[h] EXCEPT !.todo = @ \ {p}, !.log = Receipt(job[h].a, p)])
  BY DEF Record
<1>2. job[h].at = "record" /\ job[h].log = 0 /\ TypeOK /\ job[h] \in Job
  BY DEF Record, PInv, TypeOK
<1>3. Share(h, p) \in Nat /\ p \in Persons /\ job[h].a \in Attempts
  BY <1>2, ShareType
<1>4. NewRow(p, Share(h, p), job[h].a) \in Payment
  BY <1>3 DEF NewRow, Payment, MaybeAttempt
<1>5. Len(payments) \in Nat /\ Receipt(job[h].a, p) \in Nat
  BY <1>2, RowsAre DEF Receipt
<1>6. job[h].todo \ {p} \in SUBSET Persons
  BY <1>2, JobFields
<1>7. job' = [job EXCEPT ![h] = RecordJob(job[h].a, job[h].seen, job[h].todo \ {p},
                                          Receipt(job[h].a, p))]
  <2>1. [job[h] EXCEPT !.todo = job[h].todo \ {p}, !.log = Receipt(job[h].a, p)]
          = RecordJob(job[h].a, job[h].seen, job[h].todo \ {p}, Receipt(job[h].a, p))
    <3> DEFINE j == job[h]
    <3> DEFINE some == job[h].todo \ {p}
    <3> DEFINE log == Receipt(job[h].a, p)
    <3>1. j \in Job /\ j.at = "record" /\ some \in SUBSET Persons /\ log \in Nat
      BY <1>2, <1>5, <1>6
    <3> HIDE DEF j, some, log
    <3>2. [j EXCEPT !.todo = some, !.log = log] = RecordJob(j.a, j.seen, some, log)
      <4>1. /\ j \in [at : {"record"}, a : Attempts, seen : Seen, todo : SUBSET Persons, log : Nat]
            /\ [j EXCEPT !.log = log] = RecordJob(j.a, j.seen, j.todo, log)
        BY <3>1, RecordParts
      <4>2. [j EXCEPT !.todo = some, !.log = log] = [[j EXCEPT !.log = log] EXCEPT !.todo = some]
        BY <4>1
      <4>3. [RecordJob(j.a, j.seen, j.todo, log) EXCEPT !.todo = some]
              = RecordJob(j.a, j.seen, some, log)
        BY DEF RecordJob
      <4> QED
        BY <4>1, <4>2, <4>3
    <3> QED
      BY <3>2 DEF j, some, log
  <2> QED
    BY <1>1, <2>1 DEF Continue
<1>8. CASE ~Conflicts(job[h].a, p)
  <2>1. RowAdded(NewRow(p, Share(h, p), job[h].a))
    BY <1>1, <1>2, <1>4, <1>8, AppendAdds
  <2> QED
    BY <1>1, <1>2, <1>3, <1>5, <1>7, <1>8, <2>1 DEF Received, Conflicts, Receipt
<1>9. CASE Conflicts(job[h].a, p)
  BY <1>1, <1>3, <1>5, <1>7, <1>9 DEF Conflicts, Receipt
<1> QED
  BY <1>8, <1>9

\* Booking by hand adds a row for somebody who is not paid, or none.
LEMMA BookPersonBooks ==
    ASSUME PInv, NEW h \in Handlers, BookPerson(h)
    PROVE  /\ job[h].user \in Persons
           /\ reg' = [reg EXCEPT ![job[h].user].paid = TRUE]
           /\ \/ /\ UNCHANGED payments
                 /\ job' = [job EXCEPT ![h] = BookJob(job[h].todo, 0)]
              \/ /\ ByHand(h)
                 /\ job' = [job EXCEPT ![h] = BookJob(job[h].todo, Len(payments) + 1)]
<1>1. /\ TypeOK /\ job[h].at = "locked" /\ job[h].user \in Persons
      /\ job[h].seen \in Registration
      /\ job[h].seen = reg[job[h].user] /\ job[h].seen.due # NoAmount
  BY JobFields DEF PInv, TypeOK, RowsLocked, BookPerson
<1>2. job[h].seen.due \in Nat
  BY <1>1 DEF Registration, Due
<1>3. NewRow(job[h].user, job[h].seen.due, NoAttempt) \in Payment
  BY <1>1, <1>2 DEF NewRow, Payment, MaybeAttempt
<1>4. CASE job[h].seen.paid
  BY <1>1, <1>4 DEF BookPerson, Continue, BookJob
<1>5. CASE ~job[h].seen.paid
  <2>1. payments' = Append(payments, NewRow(job[h].user, job[h].seen.due, NoAttempt))
    BY <1>5 DEF BookPerson
  <2>2. RowAdded(NewRow(job[h].user, job[h].seen.due, NoAttempt))
    BY <1>1, <1>3, <2>1, AppendAdds
  <2>3. ByHand(h)
    BY <1>1, <1>5, <2>2 DEF ByHand
  <2> QED
    BY <1>1, <1>5, <2>3 DEF BookPerson, Continue, BookJob
<1> QED
  BY <1>4, <1>5

\* The row whose receipt is due gets it.
LEMMA LogReceivedWrites ==
    ASSUME PInv, NEW h \in Handlers, LogReceived(h)
    PROVE  /\ Announces(h) /\ job[h].log \in Rows
           /\ RowWritten(job[h].log, [payments[job[h].log] EXCEPT !.receipts = 1])
           /\ \/ job' = [job EXCEPT ![h] = RecordJob(job[h].a, job[h].seen, job[h].todo, 0)]
                   /\ job[h].at = "record"
              \/ job' = [job EXCEPT ![h] = BookJob(job[h].todo, 0)] /\ job[h].at = "book"
<1> DEFINE i == job[h].log
<1>1. TypeOK /\ job[h].at \in {"record", "book"} /\ job[h] \in Job /\ Announces(h)
  BY DEF PInv, TypeOK, LogReceived, Announces
<1>2. i \in Rows /\ payments[i].receipts = 0
  BY <1>1 DEF PInv, ReceiptsDue
<1>3. payments[i] \in Payment
  BY <1>1, <1>2, RowsAre
<1>4. payments' = [payments EXCEPT ![i] = [payments[i] EXCEPT !.receipts = 1]]
  BY <1>2 DEF LogReceived
<1>5. [payments[i] EXCEPT !.receipts = 1] \in Payment
      /\ [payments[i] EXCEPT !.receipts = 1].via = payments[i].via
      /\ [payments[i] EXCEPT !.receipts = 1].user = payments[i].user
  BY <1>3 DEF Payment
<1>6. RowWritten(i, [payments[i] EXCEPT !.receipts = 1])
  BY <1>1, <1>2, <1>4, <1>5, ExceptWrites
<1>7. job' = [job EXCEPT ![h] = [job[h] EXCEPT !.log = 0]]
  BY DEF LogReceived, Continue
<1>8. job[h].todo \in SUBSET Persons /\ 0 \in Nat
  BY <1>1, JobFields
<1> QED
  BY <1>1, <1>2, <1>6, <1>7, <1>8, RecordParts, BookParts

\* A refund is written to the row that was chosen for it.
Refunded(h) ==
    [payments[job[h].row] EXCEPT !.refunded = TRUE, !.refund = job[h].amount,
                                 !.returned = job[h].returned]
LEMMA WriteRefundWrites ==
    ASSUME PInv, NEW h \in Handlers, WriteRefund(h)
    PROVE  /\ job[h].at = "write" /\ job[h].row \in Rows
           /\ RowWritten(job[h].row, Refunded(h))
           /\ job' = [job EXCEPT ![h] = NoJob]
<1> DEFINE i == job[h].row
<1>1. /\ TypeOK /\ job[h].at = "write" /\ job[h] \in Job /\ i \in Rows
      /\ job[h].amount \in Nat /\ job[h].returned \in MaybeAttempt
  BY JobFields DEF PInv, TypeOK, RefundsKnown, WriteRefund
<1>2. payments[i] \in Payment
  BY <1>1, RowsAre
<1>3. payments' = [payments EXCEPT ![i] = Refunded(h)]
  BY DEF WriteRefund, Refunded
<1>4. Refunded(h) \in Payment /\ Refunded(h).via = payments[i].via
      /\ Refunded(h).user = payments[i].user
  BY <1>1, <1>2 DEF Payment, Refunded
<1>5. RowWritten(i, Refunded(h))
  BY <1>1, <1>3, <1>4, ExceptWrites
<1> QED
  BY <1>1, <1>5 DEF WriteRefund, Finish, Continue


-----------------------------------------------------------------------------
(* Types *)

\* Jobs of each kind.
LEMMA JobsOfKinds ==
    /\ NoJob \in Job
    /\ \A a \in Attempts : [at |-> "check", a |-> a] \in Job /\ [at |-> "capture", a |-> a] \in Job
    /\ \A a \in Attempts, seen \in Seen, todo \in SUBSET Persons :
         /\ [at |-> "skipped", a |-> a, seen |-> seen, todo |-> todo] \in Job
         /\ \A skipped \in SUBSET Persons :
              [at |-> "report", a |-> a, seen |-> seen, todo |-> todo, skipped |-> skipped] \in Job
         /\ \A log \in Nat : RecordJob(a, seen, todo, log) \in Job
    /\ \A todo \in SUBSET Persons :
         /\ \A log \in Nat : BookJob(todo, log) \in Job
         /\ \A who \in SUBSET Persons : [at |-> "notify", who |-> who, todo |-> todo] \in Job
         /\ \A p \in Persons, seen \in Registration :
              [at |-> "locked", todo |-> todo, user |-> p, seen |-> seen] \in Job
    /\ \A n \in Nat, amount \in Nat :
         /\ [at |-> "refund", row |-> n, amount |-> amount] \in Job
         /\ \A returned \in MaybeAttempt :
              [at |-> "write", row |-> n, amount |-> amount, returned |-> returned] \in Job
    /\ \A p \in Persons, amount \in Nat, returned \in MaybeAttempt :
         [at |-> "select", user |-> p, amount |-> amount, returned |-> returned] \in Job
<1>1. /\ NoJob \in Job
      /\ \A a \in Attempts : [at |-> "check", a |-> a] \in Job /\ [at |-> "capture", a |-> a] \in Job
  BY DEF Job, NoJob
<1>2. \A a \in Attempts, seen \in Seen, todo \in SUBSET Persons :
        /\ [at |-> "skipped", a |-> a, seen |-> seen, todo |-> todo] \in Job
        /\ \A skipped \in SUBSET Persons :
             [at |-> "report", a |-> a, seen |-> seen, todo |-> todo, skipped |-> skipped] \in Job
  BY DEF Job
<1>3. \A a \in Attempts, seen \in Seen, todo \in SUBSET Persons, log \in Nat :
        RecordJob(a, seen, todo, log) \in Job
  BY DEF Job, RecordJob
<1>4. \A todo \in SUBSET Persons :
        /\ \A log \in Nat : BookJob(todo, log) \in Job
        /\ \A who \in SUBSET Persons : [at |-> "notify", who |-> who, todo |-> todo] \in Job
        /\ \A p \in Persons, seen \in Registration :
             [at |-> "locked", todo |-> todo, user |-> p, seen |-> seen] \in Job
  BY DEF Job, BookJob
<1>5. \A n \in Nat, amount \in Nat :
        /\ [at |-> "refund", row |-> n, amount |-> amount] \in Job
        /\ \A returned \in MaybeAttempt :
             [at |-> "write", row |-> n, amount |-> amount, returned |-> returned] \in Job
  BY DEF Job
<1>6. \A p \in Persons, amount \in Nat, returned \in MaybeAttempt :
        [at |-> "select", user |-> p, amount |-> amount, returned |-> returned] \in Job
  BY DEF Job
<1> QED
  BY <1>1, <1>2, <1>3, <1>4, <1>5, <1>6

\* A handler gets a job.
LEMMA JobMoves ==
    ASSUME TypeOK, NEW h \in Handlers, NEW k \in Job, job' = [job EXCEPT ![h] = k]
    PROVE  job' \in [Handlers -> Job] /\ job'[h] = k /\ \A g \in Handlers : g # h => job'[g] = job[g]
  BY DEF TypeOK

\* What is read of the amounts due.
LEMMA DuesAreRead ==
    ASSUME TypeOK, NEW people \in SUBSET Persons
    PROVE  /\ \A p \in Persons : reg[p].due \in Due /\ reg[p].due \in Int
           /\ DuesOf(people) \in Seen
           /\ \A p \in people : DuesOf(people)[p] = reg[p].due
           /\ \A p \in Persons : DuesNow[p] = reg[p].due
<1>1. \A p \in Persons : reg[p].due \in Due /\ reg[p].due \in Int
  BY DEF TypeOK, Registration, Due, NoAmount
<1> QED
  BY <1>1 DEF DuesOf, DuesNow, Seen, Due

\* The sum of what people owe who all owe something.
LEMMA OwedTogether ==
    ASSUME TypeOK, NEW people \in SUBSET Persons, \A p \in people : reg[p].due > 0
    PROVE  IsFiniteSet(people) /\ Total(DuesNow, people) \in Nat
<1>1. IsFiniteSet(people)
  BY PeopleAssumption, FS_Subset
<1>2. \A p \in people : DuesNow[p] \in Nat
  <2>1. \A p \in people : DuesNow[p] = reg[p].due /\ reg[p].due \in Due /\ reg[p].due > 0
    BY DuesAreRead
  <2> QED
    BY <2>1 DEF Due, NoAmount
<1> QED
  BY <1>1, <1>2, TotalOfMore

LEMMA BeginsType ==
    ASSUME PInv, NEW h \in Handlers, Begins(h), UNCHANGED ops
    PROVE  TypeOK'
<1>0. TypeOK
  BY DEF PInv
<1>1. ASSUME NEW a \in Attempts, Deliver(h, a) \/ ComeBack(h, a) PROVE TypeOK'
  <2>1. job' \in [Handlers -> Job]
    BY <1>0, <1>1, JobsOfKinds, JobMoves DEF Deliver, ComeBack, Continue
  <2> QED
    BY <1>0, <1>1, <2>1 DEF Deliver, ComeBack, TypeOK, bank
<1>2. ASSUME NEW p \in Persons, MarkPaidStart(h, p) PROVE TypeOK'
  <2>1. BookJob({p}, 0) \in Job
    BY JobsOfKinds
  <2>2. job' \in [Handlers -> Job]
    BY <1>0, <1>2, <2>1, JobMoves DEF MarkPaidStart, Continue, BookJob
  <2> QED
    BY <1>0, <1>2, <2>2 DEF MarkPaidStart, Click, TypeOK, bank
<1>3. ASSUME NEW item \in listed, BookItem(h, item) PROVE TypeOK'
  <2>1. {p \in item.who : ~reg[p].paid} \in SUBSET Persons
    BY <1>0 DEF TypeOK
  <2>2. BookJob({p \in item.who : ~reg[p].paid}, 0) \in Job
    BY <2>1, JobsOfKinds
  <2>3. job' \in [Handlers -> Job]
    BY <1>0, <1>3, <2>2, JobMoves DEF BookItem, Continue, BookJob
  <2> QED
    BY <1>0, <1>3, <2>3 DEF BookItem, Click, TypeOK, bank
<1>4. ASSUME NEW people \in SUBSET Persons, NotifyGroup(h, people) PROVE TypeOK'
  <2>1. job' \in [Handlers -> Job]
    BY <1>0, <1>4, JobsOfKinds, JobMoves DEF NotifyGroup, Continue
  <2> QED
    BY <1>0, <1>4, <2>1 DEF NotifyGroup, TypeOK, bank
<1>5. ASSUME NEW p \in Persons, RefundStart(h, p) PROVE TypeOK'
  <2> DEFINE row == Newest(RefundableRows(p))
  <2>1. row \in RefundableRows(p) /\ RefundableRows(p) \subseteq Rows
    <3>1. RefundableRows(p) \in SUBSET Rows /\ RefundableRows(p) # {}
      BY <1>5 DEF RefundStart, RefundableRows
    <3> QED
      BY <1>0, <3>1, NewestIsOne
  <2>2. row \in Nat /\ payments[row].amount \in Nat
    BY <1>0, <2>1, RowsAre DEF Payment
  <2>3. PICK cents \in 1..payments[row].amount \cup {payments[row].amount} :
          \/ job' = [job EXCEPT ![h] = [at |-> "refund", row |-> row, amount |-> cents]]
          \/ job' = [job EXCEPT ![h] = [at |-> "select", user |-> p, amount |-> cents,
                                        returned |-> NoAttempt]]
    BY <1>5 DEF RefundStart, Continue
  <2>4. cents \in Nat
    BY <2>2
  <2>5. /\ [at |-> "refund", row |-> row, amount |-> cents] \in Job
        /\ [at |-> "select", user |-> p, amount |-> cents, returned |-> NoAttempt] \in Job
    BY <2>2, <2>4, JobsOfKinds DEF MaybeAttempt
  <2>6. job' \in [Handlers -> Job]
    BY <1>0, <2>3, <2>5, JobMoves
  <2> QED
    BY <1>0, <1>5, <2>6 DEF RefundStart, Click, TypeOK, bank
<1> QED
  BY <1>1, <1>2, <1>3, <1>4, <1>5 DEF Begins

\* Attempts are written one at a time.
LEMMA AttemptType ==
    ASSUME TypeOK, NEW a \in Attempts, NEW x \in Attempt, attempt' = [attempt EXCEPT ![a] = x]
    PROVE  attempt' \in [Attempts -> Attempt] /\ attempt'[a] = x
           /\ \A b \in Attempts : b # a => attempt'[b] = attempt[b]
  BY DEF TypeOK

\* The fields of an attempt that a handler writes.
LEMMA AttemptFields ==
    ASSUME TypeOK, NEW a \in Attempts, NEW n \in Nat
    PROVE  /\ attempt[a] \in Attempt /\ attempt[a].amount \in Nat /\ attempt[a].refunds \in Nat
           /\ attempt[a].who \in SUBSET Persons
           /\ \A answer \in {"none", "booked", "refused", "failed"} :
                [attempt[a] EXCEPT !.answer = answer] \in Attempt
           /\ \A state \in {"none", "open", "approved", "paid"} :
                [attempt[a] EXCEPT !.state = state] \in Attempt
           /\ [attempt[a] EXCEPT !.refunds = n] \in Attempt
<1>1. attempt[a] \in Attempt
  BY DEF TypeOK
<1> QED
  BY <1>1 DEF Attempt

LEMMA BooksType ==
    ASSUME PInv, NEW h \in Handlers, UNCHANGED ops,
           Capture(h) \/ Check(h) \/ ListSkipped(h) \/ ReportOverpaid(h) \/ Answer(h) \/ Fails(h)
    PROVE  TypeOK'
<1>0. /\ TypeOK /\ job[h] \in Job
      /\ Deals(h) => job[h].a \in Attempts
      /\ job[h].at \in {"skipped", "report", "record"}
           => job[h].seen \in Seen /\ job[h].todo \in SUBSET Persons
      /\ job[h].at = "report" => job[h].skipped \in SUBSET Persons
  BY JobFields DEF PInv, TypeOK, Deals
<1>1. CASE Capture(h)
  <2>1. job[h].a \in Attempts
    BY <1>0, <1>1 DEF Capture, Deals
  <2>2. CASE /\ attempt' = [attempt EXCEPT ![job[h].a].state = "paid"]
             /\ Continue(h, [at |-> "check", a |-> job[h].a])
    <3>1. attempt' \in [Attempts -> Attempt]
      BY <1>0, <2>1, <2>2, AttemptFields, AttemptType
    <3>2. job' \in [Handlers -> Job]
      BY <1>0, <2>1, <2>2, JobsOfKinds, JobMoves DEF Continue
    <3> QED
      BY <1>0, <1>1, <3>1, <3>2 DEF Capture, TypeOK, bank
  <2>3. CASE Finish(h) /\ UNCHANGED attempt
    <3>1. job' \in [Handlers -> Job]
      BY <1>0, <2>3, JobsOfKinds, JobMoves DEF Finish, Continue
    <3> QED
      BY <1>0, <1>1, <2>3, <3>1 DEF Capture, TypeOK, bank
  <2> QED
    BY <1>1, <2>2, <2>3 DEF Capture
<1>2. CASE Check(h)
  <2> DEFINE todo == ToBook(job[h].a)
  <2>1. job[h].a \in Attempts /\ job[h].at = "check"
    BY <1>0, <1>2 DEF Check, Deals
  <2>2. todo \in SUBSET Persons
    BY <1>0, <2>1, AttemptFields DEF ToBook
  <2>3. CASE /\ attempt' = [attempt EXCEPT ![job[h].a].answer = "refused"]
             /\ Finish(h)
    <3>1. attempt' \in [Attempts -> Attempt]
      BY <1>0, <2>1, <2>3, AttemptFields, AttemptType
    <3>2. job' \in [Handlers -> Job]
      BY <1>0, <2>3, JobsOfKinds, JobMoves DEF Finish, Continue
    <3> QED
      BY <1>0, <1>2, <3>1, <3>2 DEF Check, TypeOK, bank
  <2>4. CASE /\ UNCHANGED attempt
             /\ \/ Continue(h, [at |-> "skipped", a |-> job[h].a,
                                seen |-> DuesOf(todo), todo |-> todo])
                \/ Continue(h, [at |-> "record", a |-> job[h].a,
                                seen |-> DuesOf(todo), todo |-> todo, log |-> 0])
    <3>1. DuesOf(todo) \in Seen
      BY <1>0, <2>2, DuesAreRead
    <3>2. /\ [at |-> "skipped", a |-> job[h].a, seen |-> DuesOf(todo), todo |-> todo] \in Job
          /\ RecordJob(job[h].a, DuesOf(todo), todo, 0) \in Job
      BY <2>1, <2>2, <3>1, JobsOfKinds
    <3>3. job' \in [Handlers -> Job]
      BY <1>0, <2>4, <3>2, JobMoves DEF Continue, RecordJob
    <3> QED
      BY <1>0, <1>2, <2>4, <3>3 DEF Check, TypeOK, bank
  <2> QED
    BY <1>2, <2>3, <2>4 DEF Check
<1>3. CASE ListSkipped(h)
  <2> DEFINE skipped == {p \in attempt[job[h].a].who : PaidElsewhere(job[h].a, p)}
  <2>1. job[h].a \in Attempts /\ job[h].seen \in Seen /\ job[h].todo \in SUBSET Persons
    BY <1>0, <1>3 DEF ListSkipped, Deals
  <2>2. skipped \in SUBSET Persons
    BY <1>0, <2>1, AttemptFields
  <2>3. [at |-> "report", a |-> job[h].a, seen |-> job[h].seen, todo |-> job[h].todo,
         skipped |-> skipped] \in Job
    BY <2>1, <2>2, JobsOfKinds
  <2>4. job' \in [Handlers -> Job]
    BY <1>0, <1>3, <2>3, JobMoves DEF ListSkipped, Continue
  <2> QED
    BY <1>0, <1>3, <2>4 DEF ListSkipped, TypeOK, bank
<1>4. CASE ReportOverpaid(h)
  <2>1. /\ job[h].at = "report" /\ job[h].a \in Attempts /\ job[h].seen \in Seen
        /\ job[h].todo \in SUBSET Persons /\ job[h].skipped \in SUBSET Persons
    BY <1>0, <1>4 DEF ReportOverpaid, Deals
  <2>2. CASE \E p \in job[h].skipped :
               /\ overpaid' = overpaid \cup {<<job[h].a, p>>}
               /\ Continue(h, [job[h] EXCEPT !.skipped = @ \ {p}])
    <3>1. PICK p \in job[h].skipped :
            /\ overpaid' = overpaid \cup {<<job[h].a, p>>}
            /\ job' = [job EXCEPT ![h] = [job[h] EXCEPT !.skipped = job[h].skipped \ {p}]]
      BY <2>2 DEF Continue
    <3>2. [job[h] EXCEPT !.skipped = job[h].skipped \ {p}] \in Job
      <4> DEFINE j == job[h]
      <4> DEFINE some == job[h].skipped \ {p}
      <4>1. j \in Job /\ j.at = "report" /\ some \in SUBSET Persons
        BY <1>0, <2>1
      <4> HIDE DEF j, some
      <4>2. [j EXCEPT !.skipped = some] \in Job
        BY <4>1, ReportParts
      <4> QED
        BY <4>2 DEF j, some
    <3>3. job' \in [Handlers -> Job]
      BY <1>0, <3>1, <3>2, JobMoves
    <3>4. overpaid' \subseteq Attempts \X Persons
      BY <1>0, <2>1, <3>1 DEF TypeOK
    <3> QED
      BY <1>0, <1>4, <3>3, <3>4 DEF ReportOverpaid, TypeOK, bank
  <2>3. CASE /\ Continue(h, [at |-> "record", a |-> job[h].a, seen |-> job[h].seen,
                             todo |-> job[h].todo, log |-> 0])
             /\ UNCHANGED overpaid
    <3>1. RecordJob(job[h].a, job[h].seen, job[h].todo, 0) \in Job
      BY <2>1, JobsOfKinds
    <3>2. job' \in [Handlers -> Job]
      BY <1>0, <2>3, <3>1, JobMoves DEF Continue, RecordJob
    <3> QED
      BY <1>0, <1>4, <2>3, <3>2 DEF ReportOverpaid, TypeOK, bank
  <2> QED
    BY <1>4, <2>2, <2>3 DEF ReportOverpaid
<1>5. CASE Answer(h) \/ Fails(h)
  <2>1. job[h].a \in Attempts
    BY <1>0, <1>5 DEF Answer, Fails, Deals
  <2>2. attempt' \in [Attempts -> Attempt]
    BY <1>0, <1>5, <2>1, AttemptFields, AttemptType DEF Answer, Fails
  <2>3. job' \in [Handlers -> Job]
    BY <1>0, <1>5, JobsOfKinds, JobMoves DEF Answer, Fails, Finish, Continue
  <2> QED
    BY <1>0, <1>5, <2>2, <2>3 DEF Answer, Fails, Fault, TypeOK, bank
<1> QED
  BY <1>1, <1>2, <1>3, <1>4, <1>5

\* Registrations are written one at a time.
LEMMA RegType ==
    ASSUME TypeOK, NEW p \in Persons, NEW row \in Registration, reg' = [reg EXCEPT ![p] = row]
    PROVE  reg' \in [Persons -> Registration] /\ reg'[p] = row
           /\ \A q \in Persons : q # p => reg'[q] = reg[q]
  BY DEF TypeOK
LEMMA RegFields ==
    ASSUME TypeOK, NEW p \in Persons
    PROVE  /\ reg[p] \in Registration
           /\ [reg[p] EXCEPT !.paid = TRUE] \in Registration
           /\ \A b \in BOOLEAN : [reg[p] EXCEPT !.notified = b] \in Registration
           /\ Reported(reg, p) = [reg EXCEPT ![p] = [reg[p] EXCEPT !.notified = @ \/ Unpaid(p)]]
           /\ [reg[p] EXCEPT !.notified = @ \/ Unpaid(p)] \in Registration
<1>1. reg[p] \in Registration
  BY DEF TypeOK
<1>2. /\ [reg[p] EXCEPT !.paid = TRUE] \in Registration
      /\ \A b \in BOOLEAN : [reg[p] EXCEPT !.notified = b] \in Registration
  BY <1>1 DEF Registration
<1>3. (reg[p].notified \/ Unpaid(p)) \in BOOLEAN
  BY <1>1 DEF Registration
<1>4. Reported(reg, p) = [reg EXCEPT ![p] = [reg[p] EXCEPT !.notified = @ \/ Unpaid(p)]]
  BY DEF Reported
<1> QED
  BY <1>1, <1>2, <1>3, <1>4

LEMMA RecordsType ==
    ASSUME PInv, NEW h \in Handlers, UNCHANGED ops,
           Record(h) \/ LogReceived(h) \/ LockPerson(h) \/ BookPerson(h) \/ BookingDone(h)
    PROVE  TypeOK'
<1>0. /\ TypeOK /\ job[h] \in Job
      /\ job[h].at = "record" => job[h].a \in Attempts /\ job[h].seen \in Seen
      /\ job[h].at \in {"record", "book", "locked"} => job[h].todo \in SUBSET Persons
      /\ Len(payments) \in Nat
  BY JobFields, RowsAre DEF PInv, TypeOK
<1>1. CASE Record(h)
  <2>1. PICK p \in job[h].todo :
          /\ p \in Persons /\ job[h].a \in Attempts /\ Receipt(job[h].a, p) \in Nat
          /\ job' = [job EXCEPT ![h] = RecordJob(job[h].a, job[h].seen, job[h].todo \ {p},
                                                 Receipt(job[h].a, p))]
          /\ UNCHANGED <<reg, payments>> \/ Received(h, p)
    BY <1>1, RecordReceives
  <2>2. job[h].at = "record" /\ job[h].todo \ {p} \in SUBSET Persons
    BY <1>0, <1>1 DEF Record
  <2>3. RecordJob(job[h].a, job[h].seen, job[h].todo \ {p}, Receipt(job[h].a, p)) \in Job
    BY <1>0, <2>1, <2>2, JobsOfKinds
  <2>4. job' \in [Handlers -> Job]
    BY <1>0, <2>1, <2>3, JobMoves
  <2>5. reg' \in [Persons -> Registration] /\ payments' \in Seq(Payment)
    <3>1. CASE UNCHANGED <<reg, payments>>
      BY <1>0, <3>1 DEF TypeOK
    <3>2. CASE Received(h, p)
      <4>1. reg' = [reg EXCEPT ![p] = [reg[p] EXCEPT !.paid = TRUE]] /\ payments' \in Seq(Payment)
        BY <3>2 DEF Received, RowAdded
      <4> QED
        BY <1>0, <2>1, <4>1, RegFields, RegType
    <3> QED
      BY <2>1, <3>1, <3>2
  <2> QED
    BY <1>0, <1>1, <2>4, <2>5 DEF Record, TypeOK, bank
<1>2. CASE LogReceived(h)
  <2>1. payments' \in Seq(Payment)
    BY <1>2, LogReceivedWrites DEF RowWritten
  <2>2. job' \in [Handlers -> Job]
    <3>1. job[h].at = "record" => RecordJob(job[h].a, job[h].seen, job[h].todo, 0) \in Job
      BY <1>0, JobsOfKinds
    <3>2. job[h].at = "book" => BookJob(job[h].todo, 0) \in Job
      BY <1>0, JobsOfKinds
    <3> QED
      BY <1>0, <1>2, <3>1, <3>2, LogReceivedWrites, JobMoves
  <2> QED
    BY <1>0, <1>2, <2>1, <2>2 DEF LogReceived, TypeOK, bank
<1>3. CASE LockPerson(h)
  <2>1. PICK p \in job[h].todo :
          \/ job' = [job EXCEPT ![h] = [job[h] EXCEPT !.todo = job[h].todo \ {p}]]
          \/ job' = [job EXCEPT ![h] = [at |-> "locked", todo |-> job[h].todo \ {p},
                                        user |-> p, seen |-> reg[p]]]
    BY <1>3 DEF LockPerson, Continue
  <2>2. job[h].at = "book" /\ job[h].todo \ {p} \in SUBSET Persons /\ job[h].log = 0 /\ p \in Persons
    BY <1>0, <1>3 DEF LockPerson
  <2>3. [job[h] EXCEPT !.todo = job[h].todo \ {p}] \in Job
    <3>1. BookJob(job[h].todo \ {p}, job[h].log) \in Job
      BY <2>2, JobsOfKinds
    <3> DEFINE j == job[h]
    <3> DEFINE some == job[h].todo \ {p}
    <3>2. j \in Job /\ j.at = "book" /\ some \in SUBSET Persons /\ 0 \in Nat
          /\ BookJob(some, j.log) \in Job
      BY <1>0, <2>2, <3>1
    <3> HIDE DEF j, some
    <3>3. [j EXCEPT !.todo = some] = BookJob(some, j.log)
      BY <3>2, BookParts
    <3> QED
      BY <3>2, <3>3 DEF j, some
  <2>4. [at |-> "locked", todo |-> job[h].todo \ {p}, user |-> p, seen |-> reg[p]] \in Job
    BY <1>0, <2>2, RegFields, JobsOfKinds
  <2>5. job' \in [Handlers -> Job]
    BY <1>0, <2>1, <2>3, <2>4, JobMoves
  <2> QED
    BY <1>0, <1>3, <2>5 DEF LockPerson, TypeOK, bank
<1>4. CASE BookPerson(h)
  <2>1. /\ job[h].user \in Persons
        /\ reg' = [reg EXCEPT ![job[h].user] = [reg[job[h].user] EXCEPT !.paid = TRUE]]
        /\ UNCHANGED payments \/ ByHand(h)
        /\ \/ job' = [job EXCEPT ![h] = BookJob(job[h].todo, 0)]
           \/ job' = [job EXCEPT ![h] = BookJob(job[h].todo, Len(payments) + 1)]
    BY <1>4, BookPersonBooks
  <2>2. reg' \in [Persons -> Registration]
    BY <1>0, <2>1, RegFields, RegType
  <2>3. payments' \in Seq(Payment)
    BY <1>0, <2>1 DEF ByHand, RowAdded, TypeOK
  <2>4. job' \in [Handlers -> Job]
    <3>1. job[h].at = "locked"
      BY <1>4 DEF BookPerson
    <3>2. job[h].todo \in SUBSET Persons /\ 0 \in Nat /\ Len(payments) + 1 \in Nat
      BY <1>0, <3>1
    <3>3. BookJob(job[h].todo, 0) \in Job /\ BookJob(job[h].todo, Len(payments) + 1) \in Job
      BY <3>2, JobsOfKinds
    <3> QED
      BY <1>0, <2>1, <3>3, JobMoves
  <2> QED
    BY <1>0, <1>4, <2>2, <2>3, <2>4 DEF BookPerson, TypeOK, bank
<1>5. CASE BookingDone(h)
  <2>1. job' \in [Handlers -> Job]
    BY <1>0, <1>5, JobsOfKinds, JobMoves DEF BookingDone, Finish, Continue
  <2> QED
    BY <1>0, <1>5, <2>1 DEF BookingDone, TypeOK, bank
<1> QED
  BY <1>1, <1>2, <1>3, <1>4, <1>5

\* Stripe's answer to a refund.
RefundStep(h) ==
    LET row == payments[job[h].row]
    IN  /\ attempt' = [attempt EXCEPT ![row.via] =
                          [attempt[row.via] EXCEPT !.refunds = @ + job[h].amount]]
        /\ job' = [job EXCEPT ![h] = [at |-> "select", user |-> row.user,
                                      amount |-> job[h].amount, returned |-> row.via]]
LEMMA RefundIsKnown ==
    ASSUME PInv, NEW h \in Handlers, StripeRefund(h)
    PROVE  /\ job[h].at = "refund" /\ job[h].row \in Rows /\ job[h].amount \in Nat
           /\ payments[job[h].row].via \in Attempts /\ payments[job[h].row].user \in Persons
           /\ \/ RefundStep(h)
              \/ job' = [job EXCEPT ![h] = NoJob] /\ UNCHANGED attempt
<1>1. job[h].at = "refund" /\ job[h] \in Job /\ TypeOK
  BY DEF PInv, TypeOK, StripeRefund
<1>2. job[h].row \in Rows /\ payments[job[h].row].via \in Attempts /\ job[h].amount \in Nat
  BY <1>1, JobFields DEF PInv, RefundsKnown
<1>3. payments[job[h].row].user \in Persons
  BY <1>1, <1>2, RowsAre DEF Payment
<1> QED
  BY <1>1, <1>2, <1>3 DEF StripeRefund, RefundStep, Finish, Continue

LEMMA RestType ==
    ASSUME PInv, NEW h \in Handlers, UNCHANGED ops,
           NotifyNext(h) \/ RememberTransfer(h) \/ StripeRefund(h) \/ SelectRefunded(h)
             \/ WriteRefund(h)
    PROVE  TypeOK'
<1>0. TypeOK /\ job[h] \in Job
  BY DEF PInv, TypeOK
<1>1. CASE NotifyNext(h)
  <2>1. PICK p \in job[h].todo :
          /\ reg' = Reported(reg, p)
          /\ job' = [job EXCEPT ![h] = [job[h] EXCEPT !.todo = job[h].todo \ {p}]]
    BY <1>1 DEF NotifyNext, Continue
  <2>2. /\ job[h].at = "notify" /\ job[h].who \in SUBSET Persons /\ job[h].todo \in SUBSET Persons
        /\ p \in Persons
    BY <1>0, <1>1, JobFields DEF NotifyNext
  <2>3. [job[h] EXCEPT !.todo = job[h].todo \ {p}] \in Job
    <3> DEFINE j == job[h]
    <3> DEFINE some == job[h].todo \ {p}
    <3>1. j \in Job /\ j.at = "notify" /\ some \in SUBSET Persons /\ j.who \in SUBSET Persons
      BY <1>0, <2>2
    <3> HIDE DEF j, some
    <3>2. [j EXCEPT !.todo = some] = [at |-> "notify", who |-> j.who, todo |-> some]
      BY <3>1, NotifyParts
    <3>3. [j EXCEPT !.todo = some] \in Job
      BY <3>1, <3>2, JobsOfKinds
    <3> QED
      BY <3>3 DEF j, some
  <2>4. job' \in [Handlers -> Job]
    BY <1>0, <2>1, <2>3, JobMoves
  <2>5. reg' \in [Persons -> Registration]
    BY <1>0, <2>1, <2>2, RegFields, RegType
  <2> QED
    BY <1>0, <1>1, <2>4, <2>5 DEF NotifyNext, TypeOK, bank
<1>2. CASE RememberTransfer(h)
  <2>1. job' \in [Handlers -> Job]
    BY <1>0, <1>2, JobsOfKinds, JobMoves DEF RememberTransfer, Finish, Continue
  <2>2. transfers' \subseteq SUBSET Persons
    BY <1>0, <1>2, JobFields DEF RememberTransfer, TypeOK
  <2> QED
    BY <1>0, <1>2, <2>1, <2>2 DEF RememberTransfer, TypeOK
<1>3. CASE StripeRefund(h)
  <2> DEFINE row == payments[job[h].row]
  <2>1. /\ job[h].at = "refund" /\ job[h].row \in Rows /\ job[h].amount \in Nat
        /\ row.via \in Attempts /\ row.user \in Persons
        /\ RefundStep(h) \/ (job' = [job EXCEPT ![h] = NoJob] /\ UNCHANGED attempt)
    BY <1>3, RefundIsKnown
  <2>2. CASE RefundStep(h)
    <3>1. [attempt[row.via] EXCEPT !.refunds = @ + job[h].amount] \in Attempt
      <4> DEFINE n == attempt[row.via].refunds + job[h].amount
      <4>1. n \in Nat
        <5>1. attempt[row.via] \in Attempt
          BY <1>0, <2>1 DEF TypeOK
        <5> QED
          BY <2>1, <5>1 DEF Attempt
      <4>2. [attempt[row.via] EXCEPT !.refunds = n] \in Attempt
        <5> HIDE DEF n
        <5> QED
          BY <1>0, <2>1, <4>1, AttemptFields
      <4> QED
        BY <4>2
    <3>2. attempt' \in [Attempts -> Attempt]
      BY <1>0, <2>1, <2>2, <3>1, AttemptType DEF RefundStep
    <3>3. [at |-> "select", user |-> row.user, amount |-> job[h].amount,
           returned |-> row.via] \in Job
      BY <2>1, JobsOfKinds DEF MaybeAttempt
    <3>4. job' \in [Handlers -> Job]
      BY <1>0, <2>2, <3>3, JobMoves DEF RefundStep
    <3> QED
      BY <1>0, <1>3, <3>2, <3>4 DEF StripeRefund, TypeOK, bank
  <2>3. CASE job' = [job EXCEPT ![h] = NoJob] /\ UNCHANGED attempt
    <3>1. job' \in [Handlers -> Job]
      BY <1>0, <2>3, JobsOfKinds, JobMoves
    <3> QED
      BY <1>0, <1>3, <2>3, <3>1 DEF StripeRefund, TypeOK, bank
  <2> QED
    BY <2>1, <2>2, <2>3
<1>4. CASE SelectRefunded(h)
  <2> DEFINE rows == RefundableRows(job[h].user)
  <2>1. /\ job[h].at = "select" /\ job[h].amount \in Nat /\ job[h].returned \in MaybeAttempt
        /\ \/ job' = [job EXCEPT ![h] = NoJob]
           \/ /\ rows # {}
              /\ job' = [job EXCEPT ![h] = [at |-> "write", row |-> Newest(rows),
                             amount |-> job[h].amount, returned |-> job[h].returned]]
    BY <1>0, <1>4, JobFields DEF SelectRefunded, Finish, Continue
  <2>2. rows # {} => Newest(rows) \in Nat
    <3>1. rows \in SUBSET Rows
      BY DEF RefundableRows
    <3> QED
      BY <1>0, <3>1, NewestIsOne, RowsAre
  <2>3. rows # {} => [at |-> "write", row |-> Newest(rows), amount |-> job[h].amount,
                      returned |-> job[h].returned] \in Job
    BY <2>1, <2>2, JobsOfKinds
  <2>4. job' \in [Handlers -> Job]
    BY <1>0, <2>1, <2>3, JobsOfKinds, JobMoves
  <2> QED
    BY <1>0, <1>4, <2>4 DEF SelectRefunded, TypeOK, bank
<1>5. CASE WriteRefund(h)
  <2>1. payments' \in Seq(Payment) /\ job' \in [Handlers -> Job]
    BY <1>0, <1>5, WriteRefundWrites, JobsOfKinds, JobMoves DEF RowWritten
  <2> QED
    BY <1>0, <1>5, <2>1 DEF WriteRefund, TypeOK, bank
<1> QED
  BY <1>1, <1>2, <1>3, <1>4, <1>5

\* An attempt as it is made.
LEMMA OpenedType ==
    ASSUME TypeOK, NEW people \in SUBSET Persons, NEW group \in BOOLEAN, Payable(people)
    PROVE  /\ Opened(people, group) \in Attempt
           /\ Opened(people, group) =
                [state |-> "open", who |-> people, group |-> group,
                 amount |-> Total(DuesNow, people), refunds |-> 0, answer |-> "none"]
<1>1. \A p \in people : reg[p].due > 0
  BY DEF Payable, Unpaid
<1>2. Total(DuesNow, people) \in Nat
  BY <1>1, OwedTogether
<1> DEFINE n == Total(DuesNow, people)
<1>3. Opened(people, group) =
        [NotStarted EXCEPT !.state = "open", !.who = people, !.group = group, !.amount = n]
  BY DEF Opened
<1>4. n \in Nat
  BY <1>2
<1> HIDE DEF n
<1>5. Opened(people, group) =
        [state |-> "open", who |-> people, group |-> group, amount |-> n,
         refunds |-> 0, answer |-> "none"]
  BY <1>3 DEF NotStarted
<1>6. Opened(people, group) \in Attempt
  BY <1>4, <1>5 DEF Attempt
<1> QED
  BY <1>5, <1>6 DEF n

\* Every step keeps the types.
LEMMA TypeStep ==
    ASSUME PInv, [Next]_pvars
    PROVE  TypeOK'
<1>0. TypeOK
  BY DEF PInv
<1>1. CASE UNCHANGED pvars
  BY <1>0, <1>1 DEF pvars, bank, TypeOK
<1>2. CASE UNCHANGED ops
  <2>1. ASSUME NEW h \in Handlers, Acts(h) PROVE TypeOK'
    BY <1>2, <2>1, BeginsType, BooksType, RecordsType, RestType DEF Acts, Proceed
  <2>2. ASSUME NEW a \in Attempts, Creates(a) PROVE TypeOK'
    <3>1. PICK people \in SUBSET Persons, group \in BOOLEAN : Create(a, people, group)
      BY <2>2 DEF Creates
    <3>2. Payable(people) /\ attempt' = [attempt EXCEPT ![a] = Opened(people, group)]
      BY <3>1 DEF Create
    <3>3. attempt' \in [Attempts -> Attempt]
      BY <1>0, <3>2, OpenedType, AttemptType
    <3> QED
      BY <1>0, <1>2, <3>1, <3>3 DEF Create, TypeOK, bank
  <2>3. ASSUME NEW a \in Attempts, PayerPays(a) PROVE TypeOK'
    <3>1. attempt' \in [Attempts -> Attempt]
      BY <1>0, <2>3, AttemptFields, AttemptType DEF PayerPays
    <3> QED
      BY <1>0, <1>2, <2>3, <3>1 DEF PayerPays, TypeOK, bank
  <2>4. ASSUME NEW p \in Persons, Edits(p) PROVE TypeOK'
    <3>1. PICK row \in Registration : Change(p, row)
      BY <2>4 DEF Edits
    <3>2. reg' \in [Persons -> Registration]
      BY <1>0, <3>1, RegType DEF Change
    <3> QED
      BY <1>0, <1>2, <3>1, <3>2 DEF Change, Click, TypeOK, bank
  <2>5. ASSUME NEW p \in Persons, Notifies(p) PROVE TypeOK'
    <3>1. \/ reg' = [reg EXCEPT ![p] = [reg[p] EXCEPT !.notified = @ \/ Unpaid(p)]]
          \/ reg' = [reg EXCEPT ![p] = [reg[p] EXCEPT !.notified = FALSE]]
      BY <2>5 DEF Notifies, NotifyTransfer, ClearNotice, Reported
    <3>2. reg' \in [Persons -> Registration]
      BY <1>0, <3>1, RegFields, RegType
    <3> QED
      BY <1>0, <1>2, <2>5, <3>2 DEF Notifies, NotifyTransfer, ClearNotice, TypeOK, bank
  <2>6. ASSUME NEW people \in SUBSET Persons, Suggest(people) PROVE TypeOK'
    <3> DEFINE open == {p \in people : Unpaid(p)}
    <3>1. open \in SUBSET Persons /\ \A p \in open : reg[p].due > 0
      BY DEF Unpaid
    <3>2. Total(DuesNow, open) \in Nat
      <4> HIDE DEF open
      <4> QED
        BY <1>0, <3>1, OwedTogether
    <3>3. listed' \subseteq [who : SUBSET Persons, amount : Nat]
      BY <2>6, <3>1, <3>2 DEF Suggest, Suggestion
    <3> QED
      BY <1>0, <1>2, <2>6, <3>3 DEF Suggest, TypeOK
  <2>7. CASE Restart
    <3>1. job' \in [Handlers -> Job]
      BY <2>7, JobsOfKinds DEF Restart
    <3> QED
      BY <1>0, <1>2, <2>7, <3>1 DEF Restart, Fault, TypeOK, bank
  <2> QED
    BY <1>0, <1>1, <2>1, <2>2, <2>3, <2>4, <2>5, <2>6, <2>7, StepIs
<1> QED
  BY <1>1, <1>2 DEF Next

-----------------------------------------------------------------------------
(* What a handler does next *)

LEMMA Continues ==
    ASSUME TypeOK, NEW h \in Handlers, NEW k, Continue(h, k)
    PROVE  job'[h] = k
  BY DEF TypeOK, Continue

LEMMA RefundStartNext ==
    ASSUME TypeOK, NEW h \in Handlers, NEW p \in Persons, RefundStart(h, p)
    PROVE  \E row \in Rows, cents \in Nat :
             \/ /\ payments[row].via \in Attempts
                /\ job'[h] = [at |-> "refund", row |-> row, amount |-> cents]
             \/ job'[h] = [at |-> "select", user |-> p, amount |-> cents, returned |-> NoAttempt]
<1> DEFINE row == Newest(RefundableRows(p))
<1>1. RefundableRows(p) \in SUBSET Rows /\ RefundableRows(p) # {}
  BY DEF RefundStart, RefundableRows
<1>2. row \in Rows
  BY <1>1, NewestIsOne
<1>3. payments[row].via \in MaybeAttempt /\ payments[row].amount \in Nat
  BY <1>2, RowsAre DEF Payment
<1>4. PICK cents \in 1..payments[row].amount \cup {payments[row].amount} :
        \/ /\ payments[row].via # NoAttempt
           /\ Continue(h, [at |-> "refund", row |-> row, amount |-> cents])
        \/ Continue(h, [at |-> "select", user |-> p, amount |-> cents, returned |-> NoAttempt])
  BY DEF RefundStart
<1>5. cents \in Nat
  BY <1>3
<1>6. CASE /\ payments[row].via # NoAttempt
           /\ Continue(h, [at |-> "refund", row |-> row, amount |-> cents])
  <2>1. job'[h] = [at |-> "refund", row |-> row, amount |-> cents]
    BY <1>6, Continues
  <2> QED
    BY <1>2, <1>3, <1>5, <1>6, <2>1 DEF MaybeAttempt
<1>7. CASE Continue(h, [at |-> "select", user |-> p, amount |-> cents, returned |-> NoAttempt])
  <2>1. job'[h] = [at |-> "select", user |-> p, amount |-> cents, returned |-> NoAttempt]
    BY <1>7, Continues
  <2> QED
    BY <1>2, <1>5, <2>1
<1> QED
  BY <1>4, <1>6, <1>7

LEMMA BookItemNext ==
    ASSUME TypeOK, NEW h \in Handlers, NEW item \in listed, BookItem(h, item)
    PROVE  \E todo \in SUBSET Persons : job'[h] = BookJob(todo, 0)
<1> DEFINE open == {p \in item.who : ~reg[p].paid}
<1>1. Continue(h, BookJob(open, 0))
  BY DEF BookItem, BookJob
<1>2. open \in SUBSET Persons
  BY DEF TypeOK
<1> QED
  BY <1>1, <1>2, Continues

\* Whoever begins a request has no receipt to give and holds no row, and asks about
\* a payment only if it is there.
LEMMA BeginsNext ==
    ASSUME TypeOK, NEW h \in Handlers, Begins(h)
    PROVE  \/ \E a \in Attempts : \/ Deliver(h, a) /\ job'[h] = [at |-> "check", a |-> a]
                                  \/ ComeBack(h, a) /\ job'[h] = [at |-> "capture", a |-> a]
           \/ \E todo \in SUBSET Persons : job'[h] = BookJob(todo, 0)
           \/ job'[h].at = "notify"
           \/ \E row \in Rows, cents \in Nat :
                /\ payments[row].via \in Attempts
                /\ job'[h] = [at |-> "refund", row |-> row, amount |-> cents]
           \/ \E p \in Persons, cents \in Nat :
                job'[h] = [at |-> "select", user |-> p, amount |-> cents, returned |-> NoAttempt]
<1>1. ASSUME NEW a \in Attempts, Deliver(h, a) PROVE job'[h] = [at |-> "check", a |-> a]
  BY <1>1, Continues DEF Deliver
<1>2. ASSUME NEW a \in Attempts, ComeBack(h, a) PROVE job'[h] = [at |-> "capture", a |-> a]
  BY <1>2, Continues DEF ComeBack
<1>3. ASSUME NEW p \in Persons, MarkPaidStart(h, p)
      PROVE  {p} \in SUBSET Persons /\ job'[h] = BookJob({p}, 0)
  <2>1. Continue(h, BookJob({p}, 0))
    BY <1>3 DEF MarkPaidStart, BookJob
  <2> QED
    BY <2>1, Continues
<1>4. ASSUME NEW people \in SUBSET Persons, NotifyGroup(h, people) PROVE job'[h].at = "notify"
  <2>1. Continue(h, [at |-> "notify", who |-> people, todo |-> people])
    BY <1>4 DEF NotifyGroup
  <2>2. job'[h] = [at |-> "notify", who |-> people, todo |-> people]
    BY <2>1, Continues
  <2> QED
    BY <2>2
<1>5. CASE \E a \in Attempts : Deliver(h, a) \/ ComeBack(h, a)
  BY <1>1, <1>2, <1>5
<1>6. CASE \E p \in Persons : MarkPaidStart(h, p)
  BY <1>3, <1>6
<1>7. CASE \E p \in Persons : RefundStart(h, p)
  BY <1>7, RefundStartNext
<1>8. CASE \E item \in listed : BookItem(h, item)
  BY <1>8, BookItemNext
<1>9. CASE \E people \in SUBSET Persons : NotifyGroup(h, people)
  BY <1>4, <1>9
<1> QED
  BY <1>5, <1>6, <1>7, <1>8, <1>9 DEF Begins

LEMMA CaptureNext ==
    ASSUME PInv, NEW h \in Handlers, Capture(h)
    PROVE  job'[h] = [at |-> "check", a |-> job[h].a] \/ job'[h] = NoJob
  BY Continues DEF Capture, Finish, PInv

LEMMA CheckNext ==
    ASSUME PInv, NEW h \in Handlers, Check(h)
    PROVE  \/ job'[h] = NoJob
           \/ /\ Covers(job[h].a)
              /\ IF attempt[job[h].a].group /\ ToBook(job[h].a) # attempt[job[h].a].who
                 THEN job'[h] = [at |-> "skipped", a |-> job[h].a,
                                 seen |-> DuesOf(ToBook(job[h].a)), todo |-> ToBook(job[h].a)]
                 ELSE job'[h] = RecordJob(job[h].a, DuesOf(ToBook(job[h].a)), ToBook(job[h].a), 0)
  BY Continues DEF Check, Finish, PInv, RecordJob

LEMMA ListSkippedNext ==
    ASSUME PInv, NEW h \in Handlers, ListSkipped(h)
    PROVE  job'[h] = [at |-> "report", a |-> job[h].a,
                      seen |-> job[h].seen, todo |-> job[h].todo,
                      skipped |-> {p \in attempt[job[h].a].who : PaidElsewhere(job[h].a, p)}]
  BY Continues DEF ListSkipped, PInv

LEMMA ReportOverpaidNext ==
    ASSUME PInv, NEW h \in Handlers, ReportOverpaid(h)
    PROVE  \/ \E p \in job[h].skipped :
                /\ overpaid' = overpaid \cup {<<job[h].a, p>>}
                /\ job'[h] = [at |-> "report", a |-> job[h].a, seen |-> job[h].seen,
                              todo |-> job[h].todo, skipped |-> job[h].skipped \ {p}]
           \/ /\ job[h].skipped = {}
              /\ job'[h] = RecordJob(job[h].a, job[h].seen, job[h].todo, 0)
<1>0. TypeOK /\ job[h] \in Job /\ job[h].at = "report" /\ job[h].skipped \in SUBSET Persons
  BY JobFields DEF PInv, TypeOK, ReportOverpaid
<1>1. ASSUME NEW p \in job[h].skipped, Continue(h, [job[h] EXCEPT !.skipped = @ \ {p}])
      PROVE  job'[h] = [at |-> "report", a |-> job[h].a, seen |-> job[h].seen,
                        todo |-> job[h].todo, skipped |-> job[h].skipped \ {p}]
  <2> DEFINE j == job[h]
  <2> DEFINE some == job[h].skipped \ {p}
  <2>1. j \in Job /\ j.at = "report" /\ some \in SUBSET Persons /\ job'[h] = [j EXCEPT !.skipped = some]
    BY <1>0, <1>1, Continues
  <2> HIDE DEF j, some
  <2>2. [j EXCEPT !.skipped = some] =
          [at |-> "report", a |-> j.a, seen |-> j.seen, todo |-> j.todo, skipped |-> some]
    BY <2>1, ReportParts
  <2>3. job'[h] = [at |-> "report", a |-> j.a, seen |-> j.seen, todo |-> j.todo, skipped |-> some]
    BY <2>1, <2>2
  <2> QED
    BY <2>3 DEF j, some
<1>2. CASE \E p \in job[h].skipped :
             /\ overpaid' = overpaid \cup {<<job[h].a, p>>}
             /\ Continue(h, [job[h] EXCEPT !.skipped = @ \ {p}])
  BY <1>1, <1>2
<1>3. CASE /\ job[h].skipped = {}
           /\ Continue(h, [at |-> "record", a |-> job[h].a, seen |-> job[h].seen,
                           todo |-> job[h].todo, log |-> 0])
  BY <1>0, <1>3, Continues DEF RecordJob
<1> QED
  BY <1>2, <1>3 DEF ReportOverpaid

LEMMA RecordNext ==
    ASSUME PInv, NEW h \in Handlers, Record(h)
    PROVE  \E p \in job[h].todo :
             /\ job'[h] = RecordJob(job[h].a, job[h].seen, job[h].todo \ {p}, Receipt(job[h].a, p))
             /\ \/ Recorded(job[h].a, p) /\ Receipt(job[h].a, p) = 0
                \/ Received(h, p) /\ Receipt(job[h].a, p) = Len(payments) + 1
<1>0. \A k : job' = [job EXCEPT ![h] = k] => job'[h] = k
  BY DEF PInv, TypeOK
<1> QED
  BY <1>0, RecordReceives

LEMMA LogReceivedNext ==
    ASSUME PInv, NEW h \in Handlers, LogReceived(h)
    PROVE  \/ job[h].at = "record" /\ job'[h] = RecordJob(job[h].a, job[h].seen, job[h].todo, 0)
           \/ job[h].at = "book" /\ job'[h] = BookJob(job[h].todo, 0)
<1>0. \A k : job' = [job EXCEPT ![h] = k] => job'[h] = k
  BY DEF PInv, TypeOK
<1> QED
  BY <1>0, LogReceivedWrites

LEMMA LockPersonNext ==
    ASSUME PInv, NEW h \in Handlers, LockPerson(h)
    PROVE  \/ \E todo \in SUBSET Persons : job'[h] = BookJob(todo, 0)
           \/ \E p \in Persons : /\ RowFree(p) /\ reg[p].due # NoAmount
                                 /\ job'[h] = [at |-> "locked", todo |-> job[h].todo \ {p},
                                               user |-> p, seen |-> reg[p]]
<1>0. /\ TypeOK /\ job[h] \in Job /\ job[h].at = "book" /\ job[h].log = 0
      /\ job[h].todo \in SUBSET Persons
  BY JobFields DEF PInv, TypeOK, LockPerson
<1>1. PICK p \in job[h].todo :
        /\ RowFree(p)
        /\ Continue(h, IF reg[p].due = NoAmount
                       THEN [job[h] EXCEPT !.todo = job[h].todo \ {p}]
                       ELSE [at |-> "locked", todo |-> job[h].todo \ {p},
                             user |-> p, seen |-> reg[p]])
  BY DEF LockPerson
<1>2. CASE reg[p].due = NoAmount
  <2> DEFINE j == job[h]
  <2> DEFINE some == job[h].todo \ {p}
  <2>1. /\ j \in Job /\ j.at = "book" /\ some \in SUBSET Persons /\ 0 \in Nat /\ j.log = 0
        /\ job'[h] = [j EXCEPT !.todo = some]
    BY <1>0, <1>1, <1>2, Continues
  <2> HIDE DEF j, some
  <2>2. [j EXCEPT !.todo = some] = BookJob(some, j.log)
    BY <2>1, BookParts
  <2> QED
    BY <2>1, <2>2
<1>3. CASE reg[p].due # NoAmount
  <2>1. job'[h] = [at |-> "locked", todo |-> job[h].todo \ {p}, user |-> p, seen |-> reg[p]]
    BY <1>0, <1>1, <1>3, Continues
  <2> QED
    BY <1>0, <1>1, <1>3, <2>1
<1> QED
  BY <1>2, <1>3

LEMMA BookPersonNext ==
    ASSUME PInv, NEW h \in Handlers, BookPerson(h)
    PROVE  \/ job'[h] = BookJob(job[h].todo, 0)
           \/ job'[h] = BookJob(job[h].todo, Len(payments) + 1) /\ ByHand(h)
<1>0. \A k : job' = [job EXCEPT ![h] = k] => job'[h] = k
  BY DEF PInv, TypeOK
<1> QED
  BY <1>0, BookPersonBooks

LEMMA NotifyNextNext ==
    ASSUME PInv, NEW h \in Handlers, NotifyNext(h)
    PROVE  job'[h].at = "notify"
<1>0. /\ TypeOK /\ job[h] \in Job /\ job[h].at = "notify" /\ job[h].todo \in SUBSET Persons
  BY JobFields DEF PInv, TypeOK, NotifyNext
<1>1. PICK p \in job[h].todo : Continue(h, [job[h] EXCEPT !.todo = job[h].todo \ {p}])
  BY DEF NotifyNext
<1> DEFINE j == job[h]
<1> DEFINE some == job[h].todo \ {p}
<1>2. j \in Job /\ j.at = "notify" /\ some \in SUBSET Persons /\ job'[h] = [j EXCEPT !.todo = some]
  BY <1>0, <1>1, Continues
<1> HIDE DEF j, some
<1> QED
  BY <1>2, NotifyParts

LEMMA StripeRefundNext ==
    ASSUME PInv, NEW h \in Handlers, StripeRefund(h)
    PROVE  \/ job'[h] = NoJob /\ UNCHANGED attempt
           \/ /\ RefundStep(h)
              /\ job'[h] = [at |-> "select", user |-> payments[job[h].row].user,
                            amount |-> job[h].amount, returned |-> payments[job[h].row].via]
<1>0. \A k : job' = [job EXCEPT ![h] = k] => job'[h] = k
  BY DEF PInv, TypeOK
<1> QED
  BY <1>0, RefundIsKnown DEF RefundStep

LEMMA SelectRefundedNext ==
    ASSUME PInv, NEW h \in Handlers, SelectRefunded(h)
    PROVE  \/ job'[h] = NoJob
           \/ \E row \in Rows : job'[h] = [at |-> "write", row |-> row,
                                  amount |-> job[h].amount, returned |-> job[h].returned]
<1> DEFINE rows == RefundableRows(job[h].user)
<1>0. TypeOK
  BY DEF PInv
<1>1. \/ job'[h] = NoJob
      \/ rows # {} /\ job'[h] = [at |-> "write", row |-> Newest(rows),
                                 amount |-> job[h].amount, returned |-> job[h].returned]
  BY <1>0, Continues DEF SelectRefunded, Finish
<1>2. rows \in SUBSET Rows
  BY DEF RefundableRows
<1>3. rows # {} => Newest(rows) \in Rows
  BY <1>0, <1>2, NewestIsOne
<1> QED
  BY <1>1, <1>3

LEMMA EndsNext ==
    ASSUME PInv, NEW h \in Handlers,
           Answer(h) \/ Fails(h) \/ BookingDone(h) \/ RememberTransfer(h) \/ WriteRefund(h)
    PROVE  job'[h] = NoJob
<1>1. TypeOK /\ Finish(h)
  BY DEF PInv, Answer, Fails, BookingDone, RememberTransfer, WriteRefund
<1> QED
  BY <1>1, Continues DEF Finish

-----------------------------------------------------------------------------
(* What a step writes *)

\* Rows are added by booking, and written by a receipt and by a refund.
Pays(h) ==
    \/ \E p \in job[h].todo : Record(h) /\ Received(h, p)
    \/ BookPerson(h) /\ ByHand(h)
    \/ LogReceived(h)
    \/ WriteRefund(h)
LEMMA ActsPay ==
    ASSUME PInv, NEW h \in Handlers, Acts(h)
    PROVE  UNCHANGED payments \/ Pays(h)
<1>1. ASSUME Begins(h) \/ Fails(h) PROVE UNCHANGED payments
  BY <1>1 DEF Begins, Deliver, ComeBack, MarkPaidStart, RefundStart, BookItem, NotifyGroup, Fails
<1>2. ASSUME \/ Capture(h) \/ Check(h) \/ ListSkipped(h) \/ ReportOverpaid(h) \/ Answer(h)
             \/ NotifyNext(h) \/ RememberTransfer(h) \/ LockPerson(h) \/ BookingDone(h)
             \/ StripeRefund(h) \/ SelectRefunded(h)
      PROVE  UNCHANGED payments
  BY <1>2 DEF Capture, Check, ListSkipped, ReportOverpaid, Answer, NotifyNext,
              RememberTransfer, LockPerson, BookingDone, StripeRefund, SelectRefunded
<1>3. ASSUME Record(h) PROVE UNCHANGED payments \/ \E p \in job[h].todo : Received(h, p)
  BY <1>3, RecordReceives
<1>4. ASSUME BookPerson(h) PROVE UNCHANGED payments \/ ByHand(h)
  BY <1>4, BookPersonBooks
<1> QED
  BY <1>1, <1>2, <1>3, <1>4 DEF Acts, Proceed, Pays

LEMMA PaymentsWritten ==
    ASSUME PInv, [Next]_pvars
    PROVE  UNCHANGED payments \/ \E h \in Handlers : Acts(h) /\ Pays(h)
<1>0. TypeOK
  BY DEF PInv
<1>1. ASSUME NEW a \in Attempts, Creates(a) \/ PayerPays(a) PROVE UNCHANGED payments
  BY <1>1 DEF Creates, Create, PayerPays
<1>2. ASSUME NEW p \in Persons, Edits(p) \/ Notifies(p) PROVE UNCHANGED payments
  BY <1>2 DEF Edits, Change, Notifies, NotifyTransfer, ClearNotice
<1>3. ASSUME NEW people, Suggest(people) PROVE UNCHANGED payments
  BY <1>3 DEF Suggest
<1>4. Restart => UNCHANGED payments
  BY DEF Restart
<1> QED
  BY <1>0, <1>1, <1>2, <1>3, <1>4, StepIs, ActsPay DEF pvars

\* A registration is written while its row is free, or by whoever holds it; what is
\* due, and a paid one, is only changed by hand.
RegKept(p) ==
    /\ \/ reg'[p] = reg[p]
       \/ RowFree(p)
       \/ \E h \in Handlers : BookPerson(h) /\ job[h].user = p
    /\ p \in changed' \/ (reg'[p].due = reg[p].due /\ (reg[p].paid => reg'[p].paid))
LEMMA RegWritten ==
    ASSUME PInv, [Next]_pvars, NEW p \in Persons
    PROVE  RegKept(p)
<1>0. TypeOK
  BY DEF PInv
<1>1. ASSUME UNCHANGED reg PROVE RegKept(p)
  BY <1>1 DEF RegKept
<1>2. ASSUME NEW q \in Persons, reg' = [reg EXCEPT ![q].paid = TRUE],
             RowFree(q) \/ \E h \in Handlers : BookPerson(h) /\ job[h].user = q
      PROVE  RegKept(p)
  <2>1. /\ q # p => reg'[p] = reg[p]
        /\ reg'[p].due = reg[p].due /\ (reg[p].paid => reg'[p].paid)
    BY <1>0, <1>2 DEF TypeOK, Registration
  <2> QED
    BY <1>2, <2>1 DEF RegKept
<1>3. ASSUME NEW q \in Persons, NEW b,
             reg' = [reg EXCEPT ![q] = [reg[q] EXCEPT !.notified = b]], RowFree(q)
      PROVE  RegKept(p)
  <2>1. /\ q # p => reg'[p] = reg[p]
        /\ reg'[p].due = reg[p].due /\ (reg[p].paid => reg'[p].paid)
    BY <1>0, <1>3 DEF TypeOK, Registration
  <2> QED
    BY <1>3, <2>1 DEF RegKept
<1>4. ASSUME NEW q \in Persons, Edits(q) PROVE RegKept(p)
  <2>1. PICK row \in Registration :
          /\ RowFree(q) /\ reg' = [reg EXCEPT ![q] = row] /\ changed' = changed \cup {q}
    BY <1>4 DEF Edits, Change
  <2>2. q # p => reg'[p] = reg[p]
    BY <1>0, <2>1 DEF TypeOK
  <2>3. q = p => p \in changed'
    BY <2>1
  <2> QED
    BY <2>1, <2>2, <2>3 DEF RegKept
<1>5. ASSUME NEW q \in Persons, Notifies(q) PROVE RegKept(p)
  <2>1. RowFree(q) /\ \E b : reg' = [reg EXCEPT ![q] = [reg[q] EXCEPT !.notified = b]]
    BY <1>0, <1>5, RegFields DEF Notifies, NotifyTransfer, ClearNotice
  <2> QED
    BY <1>3, <2>1
<1>6. ASSUME NEW h \in Handlers, NotifyNext(h) PROVE RegKept(p)
  <2>1. PICK q \in job[h].todo : RowFree(q) /\ reg' = Reported(reg, q)
    BY <1>6 DEF NotifyNext
  <2>2. q \in Persons
    BY <1>0, <1>6, JobFields DEF NotifyNext, TypeOK
  <2> QED
    BY <1>0, <1>3, <2>1, <2>2, RegFields
<1>7. ASSUME NEW h \in Handlers, Record(h) PROVE RegKept(p)
  <2>1. PICK q \in job[h].todo : q \in Persons /\ (UNCHANGED reg \/ Received(h, q))
    BY <1>7, RecordReceives
  <2> QED
    BY <1>1, <1>2, <2>1 DEF Received
<1>8. ASSUME NEW h \in Handlers, BookPerson(h) PROVE RegKept(p)
  BY <1>2, <1>8, BookPersonBooks
<1>9. ASSUME NEW h \in Handlers, Begins(h) \/ Fails(h) PROVE UNCHANGED reg
  BY <1>9 DEF Begins, Deliver, ComeBack, MarkPaidStart, RefundStart, BookItem, NotifyGroup, Fails
<1>10. ASSUME NEW h \in Handlers,
              \/ Capture(h) \/ Check(h) \/ ListSkipped(h) \/ ReportOverpaid(h) \/ Answer(h)
              \/ LogReceived(h) \/ RememberTransfer(h) \/ LockPerson(h) \/ BookingDone(h)
              \/ StripeRefund(h) \/ SelectRefunded(h) \/ WriteRefund(h)
       PROVE  UNCHANGED reg
  BY <1>10 DEF Capture, Check, ListSkipped, ReportOverpaid, Answer, LogReceived,
               RememberTransfer, LockPerson, BookingDone, StripeRefund, SelectRefunded, WriteRefund
<1>11. ASSUME NEW h \in Handlers, Acts(h) PROVE RegKept(p)
  BY <1>1, <1>6, <1>7, <1>8, <1>9, <1>10, <1>11 DEF Acts, Proceed
<1>12. ASSUME NEW a \in Attempts, Creates(a) \/ PayerPays(a) PROVE UNCHANGED reg
  BY <1>12 DEF Creates, Create, PayerPays
<1>13. (Restart \/ \E people \in SUBSET Persons : Suggest(people)) => UNCHANGED reg
  BY DEF Restart, Suggest
<1> QED
  BY <1>0, <1>1, <1>4, <1>5, <1>11, <1>12, <1>13, StepIs DEF pvars

\* An attempt is made, goes on at the provider, is answered or paid back.
LEMMA AttemptsWritten ==
    ASSUME PInv, [Next]_pvars
    PROVE  \/ UNCHANGED attempt
           \/ \E a \in Attempts :
                \/ Creates(a)
                \/ /\ attempt[a].state # "none"
                   /\ \E state \in {"approved", "paid"} :
                        attempt' = [attempt EXCEPT ![a] = [attempt[a] EXCEPT !.state = state]]
           \/ \E h \in Handlers :
                \/ /\ job[h].a \in Attempts /\ attempt[job[h].a].state # "none"
                   /\ \/ Answer(h)
                      \/ Check(h) /\ ~Covers(job[h].a)
                      \/ Fails(h)
                \/ StripeRefund(h) /\ RefundStep(h)
<1>0. TypeOK
  BY DEF PInv
<1>1. ASSUME NEW h \in Handlers, Deals(h)
      PROVE  job[h].a \in Attempts /\ attempt[job[h].a].state # "none"
  BY <1>0, <1>1, JobFields DEF PInv, BookingsSound, Sound, Deals, TypeOK
<1>2. ASSUME NEW h \in Handlers, Capture(h)
      PROVE  \/ UNCHANGED attempt
             \/ \E a \in Attempts :
                  /\ attempt[a].state # "none"
                  /\ attempt' = [attempt EXCEPT ![a] = [attempt[a] EXCEPT !.state = "paid"]]
  <2>1. job[h].a \in Attempts /\ attempt[job[h].a].state # "none"
    BY <1>1, <1>2 DEF Capture, Deals
  <2> QED
    BY <1>2, <2>1 DEF Capture
<1>3. ASSUME NEW h \in Handlers, Check(h) PROVE UNCHANGED attempt \/ ~Covers(job[h].a)
  BY <1>3 DEF Check
<1>4. ASSUME NEW h \in Handlers, StripeRefund(h) PROVE UNCHANGED attempt \/ RefundStep(h)
  BY <1>4, RefundIsKnown
<1>5. ASSUME NEW h \in Handlers, Begins(h) PROVE UNCHANGED attempt
  BY <1>5 DEF Begins, Deliver, ComeBack, MarkPaidStart, RefundStart, BookItem, NotifyGroup
<1>6. ASSUME NEW h \in Handlers,
             \/ ListSkipped(h) \/ ReportOverpaid(h) \/ Record(h) \/ LogReceived(h)
             \/ NotifyNext(h) \/ RememberTransfer(h) \/ LockPerson(h) \/ BookPerson(h)
             \/ BookingDone(h) \/ SelectRefunded(h) \/ WriteRefund(h)
      PROVE  UNCHANGED attempt
  BY <1>6 DEF ListSkipped, ReportOverpaid, Record, LogReceived, NotifyNext, RememberTransfer,
              LockPerson, BookPerson, BookingDone, SelectRefunded, WriteRefund
<1>7. ASSUME NEW h \in Handlers, Answer(h) \/ Fails(h) \/ Check(h) PROVE Deals(h)
  BY <1>7 DEF Answer, Fails, Check, Deals
<1>8. ASSUME NEW a \in Attempts, PayerPays(a)
      PROVE  /\ attempt[a].state # "none"
             /\ \E state \in {"approved", "paid"} :
                  attempt' = [attempt EXCEPT ![a] = [attempt[a] EXCEPT !.state = state]]
  BY <1>8 DEF PayerPays
<1>9. ASSUME NEW p \in Persons, Edits(p) \/ Notifies(p) PROVE UNCHANGED attempt
  BY <1>9 DEF Edits, Change, Notifies, NotifyTransfer, ClearNotice
<1>10. (Restart \/ \E people \in SUBSET Persons : Suggest(people)) => UNCHANGED attempt
  BY DEF Restart, Suggest
<1>11. CASE \E h \in Handlers : Acts(h)
  <2>1. PICK h \in Handlers : Begins(h) \/ Proceed(h) \/ Fails(h)
    BY <1>11 DEF Acts
  <2> QED
    BY <1>1, <1>2, <1>3, <1>4, <1>5, <1>6, <1>7, <2>1 DEF Proceed
<1>12. CASE \E a \in Attempts : Creates(a) \/ PayerPays(a)
  BY <1>8, <1>12
<1> QED
  BY <1>0, <1>9, <1>10, <1>11, <1>12, StepIs DEF pvars

-----------------------------------------------------------------------------
(* What a step leaves as it is *)

\* The steps of an attempt that is there.
SameAttempt(a) ==
    /\ attempt'[a].state # "none"
    /\ attempt'[a].who = attempt[a].who /\ attempt'[a].group = attempt[a].group
    /\ attempt'[a].amount = attempt[a].amount
    /\ attempt'[a].refunds \in Nat /\ attempt[a].refunds <= attempt'[a].refunds

LEMMA AttemptsStay ==
    ASSUME PInv, [Next]_pvars, NEW a \in Attempts, attempt[a].state # "none"
    PROVE  SameAttempt(a)
<1>0. TypeOK /\ attempt[a] \in Attempt /\ attempt[a].refunds \in Nat
  BY DEF PInv, TypeOK, Attempt
<1>1. ASSUME attempt'[a] = attempt[a] PROVE SameAttempt(a)
  BY <1>0, <1>1 DEF SameAttempt
<1>2. ASSUME NEW b \in Attempts, NEW x, attempt' = [attempt EXCEPT ![b] = x], b # a
      PROVE  SameAttempt(a)
  BY <1>0, <1>1, <1>2 DEF TypeOK
<1>3. ASSUME NEW b \in Attempts, NEW s \in {"approved", "paid"},
             attempt' = [attempt EXCEPT ![b] = [attempt[b] EXCEPT !.state = s]]
      PROVE  SameAttempt(a)
  BY <1>0, <1>2, <1>3 DEF TypeOK, Attempt, SameAttempt
<1>4. ASSUME NEW b \in Attempts, NEW s,
             attempt' = [attempt EXCEPT ![b] = [attempt[b] EXCEPT !.answer = s]]
      PROVE  SameAttempt(a)
  BY <1>0, <1>2, <1>4 DEF TypeOK, Attempt, SameAttempt
<1>5. ASSUME NEW b \in Attempts, Creates(b) PROVE SameAttempt(a)
  <2>1. attempt[b] = NotStarted /\ \E x : attempt' = [attempt EXCEPT ![b] = x]
    BY <1>5 DEF Creates, Create
  <2>2. b # a
    BY <2>1 DEF NotStarted
  <2> QED
    BY <1>2, <2>1, <2>2
<1>6. ASSUME NEW h \in Handlers, job[h].a \in Attempts,
             Answer(h) \/ Fails(h) \/ (Check(h) /\ ~Covers(job[h].a))
      PROVE  SameAttempt(a)
  <2>1. \E s : attempt' = [attempt EXCEPT ![job[h].a] = [attempt[job[h].a] EXCEPT !.answer = s]]
    BY <1>6 DEF Answer, Fails, Check
  <2> QED
    BY <1>4, <1>6, <2>1
<1>7. ASSUME NEW h \in Handlers, StripeRefund(h), RefundStep(h) PROVE SameAttempt(a)
  <2> DEFINE b == payments[job[h].row].via
  <2>1. b \in Attempts /\ job[h].amount \in Nat
    BY <1>7, RefundIsKnown
  <2>2. attempt' = [attempt EXCEPT ![b] = [attempt[b] EXCEPT !.refunds = @ + job[h].amount]]
    BY <1>7 DEF RefundStep
  <2>3. CASE b = a
    <3>1. attempt'[a] = [attempt[a] EXCEPT !.refunds = attempt[a].refunds + job[h].amount]
      BY <1>0, <2>1, <2>2, <2>3 DEF TypeOK
    <3> QED
      BY <1>0, <2>1, <3>1 DEF Attempt, SameAttempt
  <2> QED
    BY <1>2, <2>1, <2>2, <2>3
<1>8. CASE UNCHANGED attempt
  BY <1>1, <1>8
<1>9. CASE \E b \in Attempts :
             \/ Creates(b)
             \/ \E s \in {"approved", "paid"} :
                  attempt' = [attempt EXCEPT ![b] = [attempt[b] EXCEPT !.state = s]]
  BY <1>3, <1>5, <1>9
<1>10. CASE \E h \in Handlers :
              \/ /\ job[h].a \in Attempts
                 /\ Answer(h) \/ Fails(h) \/ (Check(h) /\ ~Covers(job[h].a))
              \/ StripeRefund(h) /\ RefundStep(h)
  BY <1>6, <1>7, <1>10
<1> QED
  BY <1>8, <1>9, <1>10, AttemptsWritten

\* Rows stay the rows of their attempt and person.
LEMMA RowsStay ==
    ASSUME PInv, [Next]_pvars
    PROVE  /\ Rows \subseteq Rows'
           /\ \A i \in Rows : /\ payments'[i].via = payments[i].via
                              /\ payments'[i].user = payments[i].user
<1>1. ASSUME NEW row, RowAdded(row)
      PROVE  Rows \subseteq Rows' /\ \A i \in Rows : payments'[i] = payments[i]
  BY <1>1 DEF RowAdded
<1>2. ASSUME NEW i, NEW row, RowWritten(i, row)
      PROVE  Rows = Rows' /\ \A j \in Rows : /\ payments'[j].via = payments[j].via
                                             /\ payments'[j].user = payments[j].user
  BY <1>2 DEF RowWritten
<1>3. UNCHANGED payments => Rows = Rows'
  BY DEF Rows
<1> QED
  BY <1>1, <1>2, <1>3, PaymentsWritten, LogReceivedWrites, WriteRefundWrites DEF Pays, Received, ByHand

\* What is written about people only grows.
LEMMA NotesStay ==
    ASSUME PInv, [Next]_pvars
    PROVE  changed \subseteq changed' /\ overpaid \subseteq overpaid'
<1>0. TypeOK
  BY DEF PInv
<1>1. ASSUME NEW h \in Handlers, Begins(h) \/ Fails(h) PROVE UNCHANGED <<changed, overpaid>>
  BY <1>1 DEF Begins, Deliver, ComeBack, MarkPaidStart, RefundStart, BookItem, NotifyGroup, Fails
<1>2. ASSUME NEW h \in Handlers,
             \/ Capture(h) \/ Check(h) \/ ListSkipped(h) \/ Answer(h)
             \/ NotifyNext(h) \/ RememberTransfer(h) \/ LockPerson(h) \/ BookingDone(h)
             \/ StripeRefund(h) \/ SelectRefunded(h) \/ Record(h) \/ LogReceived(h)
             \/ BookPerson(h) \/ WriteRefund(h)
      PROVE  UNCHANGED <<changed, overpaid>>
  BY <1>2 DEF Capture, Check, ListSkipped, Answer, NotifyNext, RememberTransfer, LockPerson,
              BookingDone, StripeRefund, SelectRefunded, Record, LogReceived, BookPerson, WriteRefund
<1>3. ASSUME NEW h \in Handlers, ReportOverpaid(h)
      PROVE  UNCHANGED changed /\ overpaid \subseteq overpaid'
  BY <1>3 DEF ReportOverpaid
<1>4. ASSUME NEW h \in Handlers, Acts(h)
      PROVE  changed \subseteq changed' /\ overpaid \subseteq overpaid'
  BY <1>1, <1>2, <1>3, <1>4 DEF Acts, Proceed
<1>5. ASSUME NEW a \in Attempts, Creates(a) \/ PayerPays(a) PROVE UNCHANGED <<changed, overpaid>>
  BY <1>5 DEF Creates, Create, PayerPays
<1>6. ASSUME NEW p \in Persons, Edits(p) \/ Notifies(p)
      PROVE  changed \subseteq changed' /\ UNCHANGED overpaid
  BY <1>6 DEF Edits, Change, Notifies, NotifyTransfer, ClearNotice
<1>7. (Restart \/ \E people \in SUBSET Persons : Suggest(people)) => UNCHANGED <<changed, overpaid>>
  BY DEF Restart, Suggest
<1> QED
  BY <1>0, <1>4, <1>5, <1>6, <1>7, StepIs DEF pvars

\* Who is accounted for stays so.
LEMMA AccountedStays ==
    ASSUME PInv, [Next]_pvars, NEW a, NEW p, Accounted(a, p)
    PROVE  Accounted(a, p)'
<1>1. CASE Recorded(a, p)
  <2>1. PICK i \in Rows : payments[i].via = a /\ payments[i].user = p
    BY <1>1 DEF Recorded, RowsFor
  <2>2. i \in Rows' /\ payments'[i].via = a /\ payments'[i].user = p
    BY <2>1, RowsStay
  <2> QED
    BY <2>2 DEF Accounted, Recorded, RowsFor
<1> QED
  BY <1>1, NotesStay DEF Accounted

-----------------------------------------------------------------------------
(* Rows and receipts *)

LEMMA RowsUniqueStep ==
    ASSUME PInv, [Next]_pvars
    PROVE  RowsUnique'
<1>0. RowsUnique /\ TypeOK
  BY DEF PInv
<1>1. CASE UNCHANGED payments
  BY <1>0, <1>1 DEF RowsUnique, Rows
<1>2. ASSUME NEW i, NEW row, RowWritten(i, row) PROVE RowsUnique'
  <2>1. Rows' = Rows /\ \A j \in Rows : /\ payments'[j].via = payments[j].via
                                        /\ payments'[j].user = payments[j].user
    BY <1>2 DEF RowWritten
  <2> QED
    BY <1>0, <2>1 DEF RowsUnique
<1>3. ASSUME NEW row, RowAdded(row),
             row.via = NoAttempt \/ ~Recorded(row.via, row.user)
      PROVE  RowsUnique'
  <2> DEFINE n == Len(payments) + 1
  <2>1. /\ n \notin Rows /\ Rows' = Rows \cup {n} /\ payments'[n] = row
        /\ \A i \in Rows : payments'[i] = payments[i]
    BY <1>3 DEF RowAdded
  <2>2. \A i \in Rows : payments[i].via = row.via /\ payments[i].user = row.user
                          => row.via = NoAttempt
    BY <1>3 DEF Recorded, RowsFor
  <2> HIDE DEF n
  <2> QED
    BY <1>0, <2>1, <2>2 DEF RowsUnique
<1>4. ASSUME NEW h \in Handlers, NEW p \in job[h].todo, Record(h), Received(h, p) PROVE RowsUnique'
  <2>1. /\ RowAdded(NewRow(p, Share(h, p), job[h].a))
        /\ ~Recorded(job[h].a, p)
    BY <1>4 DEF Received
  <2>2. NewRow(p, Share(h, p), job[h].a).via = job[h].a /\ NewRow(p, Share(h, p), job[h].a).user = p
    BY DEF NewRow
  <2> QED
    BY <1>3, <2>1, <2>2
<1>5. ASSUME NEW h \in Handlers, ByHand(h) PROVE RowsUnique'
  <2>1. RowAdded(NewRow(job[h].user, job[h].seen.due, NoAttempt))
    BY <1>5 DEF ByHand
  <2>2. NewRow(job[h].user, job[h].seen.due, NoAttempt).via = NoAttempt
    BY DEF NewRow
  <2> QED
    BY <1>3, <2>1, <2>2
<1> QED
  BY <1>1, <1>2, <1>4, <1>5, PaymentsWritten, LogReceivedWrites, WriteRefundWrites DEF Pays

\* A handler comes to owe a receipt only for the row it has just added.
Adds(h) ==
    \/ \E p \in job[h].todo : Record(h) /\ Received(h, p)
    \/ BookPerson(h) /\ ByHand(h)
LEMMA AnnouncesAfter ==
    ASSUME PInv, NEW h \in Handlers, Acts(h), Announces(h)'
    PROVE  job'[h].log = Len(payments) + 1 /\ Adds(h)
<1>0. TypeOK /\ (job'[h].at = "record" \/ job'[h].at = "book") /\ job'[h].log # 0
  BY DEF PInv, Announces
<1>1. ASSUME NEW todo, job'[h] = BookJob(todo, 0) PROVE FALSE
  BY <1>0, <1>1 DEF BookJob
<1>2. ASSUME NEW a, NEW seen, NEW todo, job'[h] = RecordJob(a, seen, todo, 0) PROVE FALSE
  BY <1>0, <1>2 DEF RecordJob
<1>3. job'[h] # NoJob /\ job'[h].at # "notify"
  BY <1>0 DEF NoJob
<1>4. ~Begins(h)
  <2> SUFFICES ASSUME Begins(h) PROVE FALSE
    OBVIOUS
  <2>1. ASSUME NEW a, job'[h] = [at |-> "check", a |-> a] \/ job'[h] = [at |-> "capture", a |-> a]
        PROVE  FALSE
    BY <1>0, <2>1
  <2>2. ASSUME NEW row, NEW cents, job'[h] = [at |-> "refund", row |-> row, amount |-> cents]
        PROVE  FALSE
    BY <1>0, <2>2
  <2>3. ASSUME NEW p, NEW cents,
               job'[h] = [at |-> "select", user |-> p, amount |-> cents, returned |-> NoAttempt]
        PROVE  FALSE
    BY <1>0, <2>3
  <2> QED
    BY <1>0, <1>1, <1>3, <2>1, <2>2, <2>3, BeginsNext
<1>5. ~Capture(h)
  <2>1. Capture(h) => job'[h] = [at |-> "check", a |-> job[h].a]
    BY <1>3, CaptureNext
  <2> QED
    BY <1>0, <2>1
<1>6. ~Check(h)
  <2> SUFFICES ASSUME Check(h) PROVE FALSE
    OBVIOUS
  <2>1. \E seen, todo : job'[h] = [at |-> "skipped", a |-> job[h].a, seen |-> seen, todo |-> todo]
    BY <1>2, <1>3, CheckNext
  <2> QED
    BY <1>0, <2>1
<1>7. ~ListSkipped(h)
  <2> SUFFICES ASSUME ListSkipped(h) PROVE FALSE
    OBVIOUS
  <2>1. \E seen, todo, skipped : job'[h] = [at |-> "report", a |-> job[h].a, seen |-> seen,
                                           todo |-> todo, skipped |-> skipped]
    BY ListSkippedNext
  <2> QED
    BY <1>0, <2>1
<1>8. ~ReportOverpaid(h)
  <2> SUFFICES ASSUME ReportOverpaid(h) PROVE FALSE
    OBVIOUS
  <2>1. \E seen, todo, skipped : job'[h] = [at |-> "report", a |-> job[h].a, seen |-> seen,
                                           todo |-> todo, skipped |-> skipped]
    BY <1>2, ReportOverpaidNext
  <2> QED
    BY <1>0, <2>1
<1>9. ~LogReceived(h)
  BY <1>1, <1>2, LogReceivedNext
<1>10. ~LockPerson(h)
  <2> SUFFICES ASSUME LockPerson(h) PROVE FALSE
    OBVIOUS
  <2>1. \E p, todo, seen : job'[h] = [at |-> "locked", todo |-> todo, user |-> p, seen |-> seen]
    BY <1>1, LockPersonNext
  <2> QED
    BY <1>0, <2>1
<1>11. ~StripeRefund(h)
  <2> SUFFICES ASSUME StripeRefund(h) PROVE FALSE
    OBVIOUS
  <2>1. \E p, n, a : job'[h] = [at |-> "select", user |-> p, amount |-> n, returned |-> a]
    BY <1>3, StripeRefundNext
  <2> QED
    BY <1>0, <2>1
<1>12. ~SelectRefunded(h)
  <2> SUFFICES ASSUME SelectRefunded(h) PROVE FALSE
    OBVIOUS
  <2>1. \E r, n, a : job'[h] = [at |-> "write", row |-> r, amount |-> n, returned |-> a]
    BY <1>3, SelectRefundedNext
  <2> QED
    BY <1>0, <2>1
<1>13. ~NotifyNext(h) /\ ~Answer(h) /\ ~Fails(h) /\ ~BookingDone(h) /\ ~RememberTransfer(h) /\ ~WriteRefund(h)
  BY <1>3, NotifyNextNext, EndsNext
<1>14. Record(h) \/ BookPerson(h)
  BY <1>4, <1>5, <1>6, <1>7, <1>8, <1>9, <1>10, <1>11, <1>12, <1>13 DEF Acts, Proceed
<1>15. CASE Record(h)
  <2>1. PICK p \in job[h].todo :
          /\ job'[h] = RecordJob(job[h].a, job[h].seen, job[h].todo \ {p}, Receipt(job[h].a, p))
          /\ \/ Receipt(job[h].a, p) = 0
             \/ Received(h, p) /\ Receipt(job[h].a, p) = Len(payments) + 1
    BY <1>15, RecordNext
  <2>2. job'[h].log = Receipt(job[h].a, p)
    BY <2>1 DEF RecordJob
  <2> QED
    BY <1>0, <1>15, <2>1, <2>2 DEF Adds
<1>16. CASE BookPerson(h)
  <2>1. job'[h] = BookJob(job[h].todo, Len(payments) + 1) /\ ByHand(h)
    BY <1>1, <1>16, BookPersonNext
  <2>2. job'[h].log = Len(payments) + 1
    BY <2>1 DEF BookJob
  <2> QED
    BY <1>16, <2>1, <2>2 DEF Adds
<1> QED
  BY <1>14, <1>15, <1>16

\* A handler that adds a row without a receipt.
LEMMA AddsRow ==
    ASSUME PInv, NEW h \in Handlers, Adds(h)
    PROVE  \E row : RowAdded(row) /\ row.receipts = 0 /\ row.returned = NoAttempt /\ row.refund = 0
<1>1. CASE \E p \in job[h].todo : Received(h, p)
  <2>1. PICK p \in job[h].todo : RowAdded(NewRow(p, Share(h, p), job[h].a))
    BY <1>1 DEF Received
  <2>2. /\ NewRow(p, Share(h, p), job[h].a).receipts = 0
        /\ NewRow(p, Share(h, p), job[h].a).returned = NoAttempt
        /\ NewRow(p, Share(h, p), job[h].a).refund = 0
    BY DEF NewRow
  <2> QED
    BY <2>1, <2>2
<1>2. CASE ByHand(h)
  <2>1. RowAdded(NewRow(job[h].user, job[h].seen.due, NoAttempt))
    BY <1>2 DEF ByHand
  <2>2. /\ NewRow(job[h].user, job[h].seen.due, NoAttempt).receipts = 0
        /\ NewRow(job[h].user, job[h].seen.due, NoAttempt).returned = NoAttempt
        /\ NewRow(job[h].user, job[h].seen.due, NoAttempt).refund = 0
    BY DEF NewRow
  <2> QED
    BY <2>1, <2>2
<1> QED
  BY <1>1, <1>2 DEF Adds

LEMMA ReceiptsDueStep ==
    ASSUME PInv, [Next]_pvars
    PROVE  ReceiptsDue'
<1>0. TypeOK /\ ReceiptsDue /\ \A i \in Rows : payments[i].receipts \in Nat
  BY RowsAre DEF PInv, Payment
<1> DEFINE n == Len(payments) + 1
\* Rows that are added have no receipt yet, and the others stay.
<1>1. ASSUME NEW h \in Handlers, Adds(h)
      PROVE  /\ n \notin Rows /\ Rows' = Rows \cup {n} /\ payments'[n].receipts = 0
             /\ \A i \in Rows : payments'[i].receipts = payments[i].receipts
  <2>1. PICK row : RowAdded(row) /\ row.receipts = 0
    BY <1>1, AddsRow
  <2> QED
    BY <2>1 DEF RowAdded
<1>2. ASSUME NEW h \in Handlers, Acts(h) PROVE ReceiptsDue'
  <2>2. \A g \in Handlers \ {h} : job'[g] = job[g]
    BY <1>0, <1>2, OneMoves
  <2>3. CASE Announces(h)'
    <3>1. job'[h].log = n /\ Adds(h)
      BY <1>2, <2>3, AnnouncesAfter
    <3>2. /\ n \notin Rows /\ Rows' = Rows \cup {n} /\ payments'[n].receipts = 0
          /\ \A i \in Rows : payments'[i].receipts = payments[i].receipts
      BY <1>1, <3>1
    <3> HIDE DEF n
    <3> QED
      BY <1>0, <2>2, <3>1, <3>2 DEF ReceiptsDue, Announces
  <2>4. CASE LogReceived(h)
    <3> DEFINE i == job[h].log
    <3>1. Announces(h) /\ i \in Rows /\ RowWritten(i, [payments[i] EXCEPT !.receipts = 1])
      BY <2>4, LogReceivedWrites
    <3>2. ~Announces(h)'
      <4>1. \/ \E a, seen, todo : job'[h] = RecordJob(a, seen, todo, 0)
            \/ \E todo : job'[h] = BookJob(todo, 0)
        BY <2>4, LogReceivedNext
      <4>2. job'[h].log = 0
        <5>1. CASE \E a, seen, todo : job'[h] = RecordJob(a, seen, todo, 0)
          BY <5>1 DEF RecordJob
        <5>2. CASE \E todo : job'[h] = BookJob(todo, 0)
          BY <5>2 DEF BookJob
        <5> QED
          BY <4>1, <5>1, <5>2
      <4> QED
        BY <4>2 DEF Announces
    <3>3. /\ Rows' = Rows /\ payments'[i].receipts = 1
          /\ \A k \in Rows \ {i} : payments'[k].receipts = payments[k].receipts
      <4>1. payments[i] \in Payment
        BY <1>0, <3>1, RowsAre
      <4>2. [payments[i] EXCEPT !.receipts = 1].receipts = 1
        BY <4>1 DEF Payment
      <4> QED
        BY <3>1, <4>2 DEF RowWritten
    <3> QED
      BY <1>0, <2>2, <3>1, <3>2, <3>3 DEF ReceiptsDue, Announces
  <2>5. CASE ~Announces(h)' /\ ~LogReceived(h)
    <3>1. /\ Rows \subseteq Rows'
          /\ \A i \in Rows : payments'[i].receipts = payments[i].receipts
          /\ \A i \in Rows' \ Rows : payments'[i].receipts = 0
      <4>1. CASE UNCHANGED payments
        BY <4>1 DEF Rows
      <4>2. CASE WriteRefund(h)
        <5>1. RowWritten(job[h].row, Refunded(h)) /\ payments[job[h].row] \in Payment
          <6>1. RowWritten(job[h].row, Refunded(h)) /\ job[h].row \in Rows
            BY <4>2, WriteRefundWrites
          <6> QED
            BY <1>0, <6>1, RowsAre
        <5>2. Refunded(h).receipts = payments[job[h].row].receipts
          BY <5>1 DEF Refunded, Payment
        <5> QED
          BY <5>1, <5>2 DEF RowWritten
      <4>3. CASE Adds(h)
        <5>1. /\ n \notin Rows /\ Rows' = Rows \cup {n} /\ payments'[n].receipts = 0
              /\ \A i \in Rows : payments'[i].receipts = payments[i].receipts
          BY <1>1, <4>3
        <5> HIDE DEF n
        <5> QED
          BY <5>1
      <4> QED
        BY <1>2, <2>5, <4>1, <4>2, <4>3, ActsPay DEF Pays, Adds
    <3> QED
      BY <1>0, <2>2, <2>5, <3>1 DEF ReceiptsDue, Announces
  <2> QED
    BY <2>3, <2>4, <2>5
<1>3. CASE ~(\E h \in Handlers : Acts(h))
  <2>1. UNCHANGED payments
    BY <1>3, PaymentsWritten
  <2>2. UNCHANGED job \/ job' = [h \in Handlers |-> NoJob]
    BY <1>0, <1>3, OnlyHandlersMove
  <2>3. CASE UNCHANGED job
    BY <1>0, <2>1, <2>3 DEF ReceiptsDue, Announces, Rows
  <2>4. CASE job' = [h \in Handlers |-> NoJob]
    <3>1. \A h \in Handlers : ~Announces(h)'
      BY <2>4 DEF Announces, NoJob
    <3> QED
      BY <1>0, <2>1, <3>1 DEF ReceiptsDue, Rows
  <2> QED
    BY <2>2, <2>3, <2>4
<1> QED
  BY <1>2, <1>3

-----------------------------------------------------------------------------
(* Locks on registrations *)

\* A handler comes to hold a registration's row by locking it while it is free.
LEMMA LockedAfter ==
    ASSUME PInv, NEW h \in Handlers, Acts(h), job'[h].at = "locked"
    PROVE  \E p \in Persons : /\ RowFree(p) /\ reg[p].due # NoAmount /\ UNCHANGED reg
                              /\ job'[h].user = p /\ job'[h].seen = reg[p]
<1>0. TypeOK
  BY DEF PInv
<1>1. ASSUME NEW todo, NEW log, job'[h] = BookJob(todo, log) PROVE FALSE
  BY <1>1 DEF BookJob
<1>2. ASSUME NEW a, NEW seen, NEW todo, NEW log, job'[h] = RecordJob(a, seen, todo, log) PROVE FALSE
  BY <1>2 DEF RecordJob
<1>3. job'[h] # NoJob
  BY DEF NoJob
<1>4. ~Begins(h)
  <2> SUFFICES ASSUME Begins(h) PROVE FALSE
    OBVIOUS
  <2>1. ASSUME NEW a, job'[h] = [at |-> "check", a |-> a] \/ job'[h] = [at |-> "capture", a |-> a]
        PROVE  FALSE
    BY <2>1
  <2>2. ASSUME NEW row, NEW cents, job'[h] = [at |-> "refund", row |-> row, amount |-> cents]
        PROVE  FALSE
    BY <2>2
  <2>3. ASSUME NEW p, NEW cents,
               job'[h] = [at |-> "select", user |-> p, amount |-> cents, returned |-> NoAttempt]
        PROVE  FALSE
    BY <2>3
  <2> QED
    BY <1>0, <1>1, <1>3, <2>1, <2>2, <2>3, BeginsNext
<1>5. ~Capture(h)
  <2>1. Capture(h) => job'[h] = [at |-> "check", a |-> job[h].a]
    BY <1>3, CaptureNext
  <2> QED
    BY <2>1
<1>6. ~Check(h)
  <2> SUFFICES ASSUME Check(h) PROVE FALSE
    OBVIOUS
  <2>1. job'[h] = [at |-> "skipped", a |-> job[h].a, seen |-> DuesOf(ToBook(job[h].a)),
                   todo |-> ToBook(job[h].a)]
    BY <1>2, <1>3, CheckNext
  <2> QED
    BY <2>1
<1>7. ~ListSkipped(h)
  <2> SUFFICES ASSUME ListSkipped(h) PROVE FALSE
    OBVIOUS
  <2>1. \E seen, todo, skipped : job'[h] = [at |-> "report", a |-> job[h].a, seen |-> seen,
                                           todo |-> todo, skipped |-> skipped]
    BY ListSkippedNext
  <2> QED
    BY <2>1
<1>8. ~ReportOverpaid(h)
  <2> SUFFICES ASSUME ReportOverpaid(h) PROVE FALSE
    OBVIOUS
  <2>1. \E seen, todo, skipped : job'[h] = [at |-> "report", a |-> job[h].a, seen |-> seen,
                                           todo |-> todo, skipped |-> skipped]
    BY <1>2, ReportOverpaidNext
  <2> QED
    BY <2>1
<1>9. ~Record(h) /\ ~LogReceived(h) /\ ~BookPerson(h)
  BY <1>1, <1>2, RecordNext, LogReceivedNext, BookPersonNext
<1>10. ~StripeRefund(h)
  <2> SUFFICES ASSUME StripeRefund(h) PROVE FALSE
    OBVIOUS
  <2>1. \E p, n, a : job'[h] = [at |-> "select", user |-> p, amount |-> n, returned |-> a]
    BY <1>3, StripeRefundNext
  <2> QED
    BY <2>1
<1>11. ~SelectRefunded(h)
  <2> SUFFICES ASSUME SelectRefunded(h) PROVE FALSE
    OBVIOUS
  <2>1. \E r, n, a : job'[h] = [at |-> "write", row |-> r, amount |-> n, returned |-> a]
    BY <1>3, SelectRefundedNext
  <2> QED
    BY <2>1
<1>12. ~NotifyNext(h) /\ ~Answer(h) /\ ~Fails(h) /\ ~BookingDone(h) /\ ~RememberTransfer(h) /\ ~WriteRefund(h)
  BY <1>3, NotifyNextNext, EndsNext
<1>13. LockPerson(h)
  BY <1>4, <1>5, <1>6, <1>7, <1>8, <1>9, <1>10, <1>11, <1>12 DEF Acts, Proceed
<1>14. PICK p \in Persons :
         /\ RowFree(p) /\ reg[p].due # NoAmount
         /\ job'[h] = [at |-> "locked", todo |-> job[h].todo \ {p}, user |-> p, seen |-> reg[p]]
  BY <1>1, <1>13, LockPersonNext
<1>15. UNCHANGED reg
  BY <1>13 DEF LockPerson
<1> QED
  BY <1>14, <1>15

LEMMA RowsLockedStep ==
    ASSUME PInv, [Next]_pvars
    PROVE  RowsLocked'
<1>0. TypeOK /\ RowsLocked
  BY DEF PInv
\* Who keeps a row finds it as it was.
<1>1. ASSUME NEW g \in Handlers, job[g].at = "locked", job'[g] = job[g]
      PROVE  reg'[job[g].user] = reg[job[g].user]
  <2>1. job[g].user \in Persons
    BY <1>0, <1>1, JobFields DEF TypeOK
  <2>2. ~RowFree(job[g].user)
    BY <1>1 DEF RowFree
  <2>3. ASSUME NEW h \in Handlers, BookPerson(h), job[h].user = job[g].user PROVE FALSE
    <3>1. job[h].at = "locked"
      BY <2>3 DEF BookPerson
    <3>2. g = h
      BY <1>0, <1>1, <2>3, <3>1 DEF RowsLocked
    <3>3. \E todo, log : job'[h] = BookJob(todo, log)
      BY <2>3, BookPersonNext
    <3>4. job'[h].at = "book"
      BY <3>3 DEF BookJob
    <3> QED
      BY <1>1, <3>2, <3>4
  <2> QED
    BY <2>1, <2>2, <2>3, RegWritten DEF RegKept
<1>2. ASSUME NEW h \in Handlers, Acts(h) PROVE RowsLocked'
  <2>1. \A g \in Handlers \ {h} : job'[g] = job[g]
    BY <1>0, <1>2, OneMoves
  <2>2. \A g \in Handlers \ {h} :
          job[g].at = "locked" => /\ job[g].seen = reg[job[g].user] /\ job[g].seen.due # NoAmount
                                  /\ reg'[job[g].user] = reg[job[g].user]
    BY <1>0, <1>1, <2>1 DEF RowsLocked
  <2>3. CASE job'[h].at = "locked"
    <3>1. PICK p \in Persons : /\ RowFree(p) /\ reg[p].due # NoAmount /\ UNCHANGED reg
                               /\ job'[h].user = p /\ job'[h].seen = reg[p]
      BY <1>2, <2>3, LockedAfter
    <3>2. \A g \in Handlers : job[g].at = "locked" => job[g].user # p
      BY <3>1 DEF RowFree
    <3> QED
      BY <1>0, <2>1, <2>2, <3>1, <3>2 DEF RowsLocked
  <2>4. CASE job'[h].at # "locked"
    BY <1>0, <2>1, <2>2, <2>4 DEF RowsLocked
  <2> QED
    BY <2>3, <2>4
<1>3. CASE UNCHANGED job
  <2>1. \A g \in Handlers : job[g].at = "locked" => reg'[job[g].user] = reg[job[g].user]
    BY <1>1, <1>3
  <2> QED
    BY <1>0, <1>3, <2>1 DEF RowsLocked
<1>4. CASE job' = [h \in Handlers |-> NoJob]
  BY <1>4 DEF RowsLocked, NoJob
<1> QED
  BY <1>0, <1>2, <1>3, <1>4, OnlyHandlersMove

-----------------------------------------------------------------------------
(* Attempts and their price *)

LEMMA AttemptsPricedStep ==
    ASSUME PInv, [Next]_pvars
    PROVE  AttemptsPriced'
<1>0. TypeOK /\ AttemptsPriced /\ TypeOK'
  BY TypeStep DEF PInv
<1>1. changed \subseteq changed'
  BY NotesStay
<1>2. \A p \in Persons \ changed' : reg'[p].due = reg[p].due
  BY RegWritten DEF RegKept
<1>3. ASSUME NEW people \in SUBSET Persons, people \cap changed' = {}
      PROVE  Total(DuesNow', people) = Total(DuesNow, people)
  <2>1. IsFiniteSet(people)
    BY PeopleAssumption, FS_Subset
  <2>2. \A p \in people : DuesNow'[p] = DuesNow[p]
    BY <1>2, <1>3 DEF DuesNow
  <2> QED
    BY <2>1, <2>2, TotalSame
<1> SUFFICES ASSUME NEW a \in Attempts PROVE PricedAsDue(a)'
  BY DEF AttemptsPriced
<1>4. attempt[a] \in Attempt /\ attempt[a].who \in SUBSET Persons /\ PricedAsDue(a)
  BY <1>0 DEF TypeOK, Attempt, AttemptsPriced
<1>5. CASE attempt[a].state # "none"
  <2>1. /\ attempt'[a].state # "none" /\ attempt'[a].who = attempt[a].who
        /\ attempt'[a].group = attempt[a].group /\ attempt'[a].amount = attempt[a].amount
    BY <1>5, AttemptsStay DEF SameAttempt
  <2>2. /\ attempt[a].group \/ \E p \in Persons : attempt[a].who = {p}
        /\ \A p \in attempt[a].who \ changed : reg[p].due > 0
        /\ attempt[a].who \cap changed = {} => attempt[a].amount = Total(DuesNow, attempt[a].who)
    BY <1>4, <1>5 DEF PricedAsDue
  <2>3. \A p \in attempt[a].who \ changed' : reg'[p].due > 0
    BY <1>1, <1>2, <1>4, <2>2
  <2>4. ASSUME attempt[a].who \cap changed' = {}
        PROVE  attempt[a].amount = Total(DuesNow', attempt[a].who)
    <3>1. attempt[a].who \cap changed = {}
      BY <1>1, <2>4
    <3>2. Total(DuesNow', attempt[a].who) = Total(DuesNow, attempt[a].who)
      BY <1>3, <1>4, <2>4
    <3> QED
      BY <2>2, <3>1, <3>2
  <2> QED
    BY <2>1, <2>2, <2>3, <2>4 DEF PricedAsDue
<1>6. CASE attempt[a].state = "none"
  <2>1. attempt[a] = NotStarted
    BY <1>4, <1>6 DEF PricedAsDue
  <2>2. CASE attempt'[a] = attempt[a]
    BY <1>6, <2>1, <2>2 DEF PricedAsDue
  <2>3. CASE Creates(a)
    <3>1. PICK people \in SUBSET Persons, group \in BOOLEAN :
            Create(a, people, group) /\ (group \/ \E p \in Persons : people = {p})
      BY <2>3 DEF Creates
    <3>2. Payable(people) /\ attempt'[a] = Opened(people, group) /\ UNCHANGED reg
      BY <1>0, <3>1 DEF Create, TypeOK
    <3>3. DuesNow' = DuesNow
      BY <3>2 DEF DuesNow
    <3> DEFINE n == Total(DuesNow, people)
    <3>4. attempt'[a] = [state |-> "open", who |-> people, group |-> group,
                         amount |-> n, refunds |-> 0, answer |-> "none"]
      BY <1>0, <3>2, OpenedType
    <3>5. n = Total(DuesNow', people)
      BY <3>3
    <3>6. \A p \in people : reg'[p].due > 0
      BY <3>2 DEF Payable, Unpaid
    <3> HIDE DEF n
    <3> QED
      BY <3>1, <3>4, <3>5, <3>6 DEF PricedAsDue
  <2>4. ASSUME NEW b \in Attempts, NEW x, b # a, attempt' = [attempt EXCEPT ![b] = x]
        PROVE  attempt'[a] = attempt[a]
    BY <1>0, <2>4 DEF TypeOK
  <2>5. CASE UNCHANGED attempt
    BY <2>2, <2>5
  <2>6. CASE \E b \in Attempts :
               \/ Creates(b)
               \/ /\ attempt[b].state # "none"
                  /\ \E state \in {"approved", "paid"} :
                       attempt' = [attempt EXCEPT ![b] = [attempt[b] EXCEPT !.state = state]]
    <3>1. ASSUME NEW b \in Attempts, Creates(b), b # a PROVE attempt'[a] = attempt[a]
      BY <2>4, <3>1 DEF Creates, Create
    <3>2. ASSUME NEW b \in Attempts, attempt[b].state # "none", NEW state \in {"approved", "paid"},
                 attempt' = [attempt EXCEPT ![b] = [attempt[b] EXCEPT !.state = state]]
          PROVE  attempt'[a] = attempt[a]
      BY <1>6, <2>4, <3>2
    <3> QED
      BY <2>2, <2>3, <2>6, <3>1, <3>2
  <2>7. CASE \E h \in Handlers :
               \/ /\ job[h].a \in Attempts /\ attempt[job[h].a].state # "none"
                  /\ \/ Answer(h)
                     \/ Check(h) /\ ~Covers(job[h].a)
                     \/ Fails(h)
               \/ StripeRefund(h) /\ RefundStep(h)
    <3>1. ASSUME NEW h \in Handlers, job[h].a \in Attempts, attempt[job[h].a].state # "none",
                 Answer(h) \/ (Check(h) /\ ~Covers(job[h].a)) \/ Fails(h)
          PROVE  attempt'[a] = attempt[a]
      <4>1. \E x : attempt' = [attempt EXCEPT ![job[h].a] = x]
        BY <3>1 DEF Answer, Fails, Check
      <4> QED
        BY <1>6, <2>4, <3>1, <4>1
    \* Only what was paid for is paid back.
    <3>2. ASSUME NEW h \in Handlers, StripeRefund(h), RefundStep(h) PROVE PricedAsDue(a)'
      <4> DEFINE b == payments[job[h].row].via
      <4>1. b \in Attempts /\ \E x : attempt' = [attempt EXCEPT ![b] = x]
        BY <3>2, RefundIsKnown DEF RefundStep
      <4>2. CASE b # a
        BY <2>2, <2>4, <4>1, <4>2
      <4>3. CASE b = a
        <5>1. attempt[b].state # "none"
          BY <3>2, RefundIsKnown DEF PInv, RowsStarted
        <5> QED
          BY <1>6, <4>3, <5>1
      <4> QED
        BY <4>2, <4>3
    <3> QED
      BY <2>2, <2>7, <3>1, <3>2
  <2> QED
    BY <2>5, <2>6, <2>7, AttemptsWritten
<1> QED
  BY <1>5, <1>6

LEMMA RowsStartedStep ==
    ASSUME PInv, [Next]_pvars
    PROVE  RowsStarted'
<1>0. RowsStarted /\ TypeOK /\ NoAttempt \notin Attempts
  BY ProvidersAssumption DEF PInv
<1>1. \A a \in Attempts : attempt[a].state # "none" => attempt'[a].state # "none"
  BY AttemptsStay DEF SameAttempt
<1>2. \A i \in Rows : payments'[i].via = payments[i].via
  BY RowsStay
<1>3. ASSUME NEW h \in Handlers, Adds(h), NEW i \in Rows' \ Rows, payments'[i].via \in Attempts
      PROVE  attempt[payments'[i].via].state # "none"
  <2>1. CASE \E p \in job[h].todo : Record(h) /\ Received(h, p)
    <3>1. PICK p \in job[h].todo : Received(h, p)
      BY <2>1
    <3>2. payments'[i] = NewRow(p, Share(h, p), job[h].a) /\ job[h].at = "record"
      BY <1>3, <3>1 DEF Received, RowAdded
    <3>3. payments'[i].via = job[h].a
      BY <3>2 DEF NewRow
    <3>4. attempt[job[h].a].state # "none"
      BY <3>2 DEF PInv, BookingsSound, Sound, Deals
    <3> QED
      BY <3>3, <3>4
  <2>2. CASE ByHand(h)
    <3>1. payments'[i] = NewRow(job[h].user, job[h].seen.due, NoAttempt)
      BY <1>3, <2>2 DEF ByHand, RowAdded
    <3>2. payments'[i].via = NoAttempt
      BY <3>1 DEF NewRow
    <3> QED
      BY <1>0, <1>3, <3>2
  <2> QED
    BY <1>3, <2>1, <2>2 DEF Adds
<1>4. \A i \in Rows' \ Rows : payments'[i].via \in Attempts => attempt[payments'[i].via].state # "none"
  <2>1. CASE UNCHANGED payments
    BY <2>1 DEF Rows
  <2>2. ASSUME NEW h \in Handlers, LogReceived(h) \/ WriteRefund(h) PROVE Rows' = Rows
    BY <2>2, LogReceivedWrites, WriteRefundWrites DEF RowWritten
  <2> QED
    BY <1>3, <2>1, <2>2, PaymentsWritten DEF Pays, Adds
<1> QED
  BY <1>0, <1>1, <1>2, <1>4 DEF RowsStarted

-----------------------------------------------------------------------------
(* Whom a handler books *)

\* While a handler rests, what it has read goes on to be of use.
LEMMA SoundStays ==
    ASSUME PInv, [Next]_pvars, NEW h \in Handlers, job'[h] = job[h]
    PROVE  Sound(h)'
<1> DEFINE a == job[h].a
<1>0. Sound(h) /\ TypeOK
  BY DEF PInv, BookingsSound
<1>1. CASE ~Deals(h)
  BY <1>1 DEF Sound, Deals, Books
<1>2. CASE Deals(h)
  <2>1. a \in Attempts /\ attempt[a].state # "none" /\ attempt[a].who \in SUBSET Persons
    BY <1>0, <1>2, JobFields DEF TypeOK, Attempt, Sound, Deals
  <2>2. /\ attempt'[a].state # "none" /\ attempt'[a].who = attempt[a].who
        /\ attempt'[a].group = attempt[a].group /\ attempt'[a].amount = attempt[a].amount
    BY <2>1, AttemptsStay DEF SameAttempt
  <2>3. \A p : Accounted(a, p) => Accounted(a, p)'
    BY AccountedStays
  <2>4. \A p \in Persons : p \in changed \/ reg[p].paid => p \in changed' \/ reg'[p].paid
    BY NotesStay, RegWritten DEF RegKept
  <2>5. job'[h].a = a /\ job'[h].at = job[h].at /\ job'[h].todo = job[h].todo
        /\ job'[h].seen = job[h].seen /\ job'[h].skipped = job[h].skipped
    OBVIOUS
  <2>6. Books(h) => /\ job[h].todo \subseteq attempt'[a].who
                    /\ \A p \in job[h].todo : /\ job[h].seen[p] \in Nat
                                              /\ attempt'[a].group \/ job[h].seen[p] <= attempt'[a].amount
    BY <1>0, <2>2 DEF Sound
  <2>7. job[h].at = "skipped" => \A p \in attempt'[a].who \ job[h].todo : p \in changed' \/ reg'[p].paid
    BY <1>0, <2>1, <2>2, <2>4 DEF Sound
  <2>8. job[h].at = "report" => \A p \in attempt'[a].who \ job[h].todo : p \in job[h].skipped \/ Accounted(a, p)'
    BY <1>0, <2>2, <2>3 DEF Sound
  <2>9. job[h].at = "record" => \A p \in attempt'[a].who \ job[h].todo : Accounted(a, p)'
    BY <1>0, <2>2, <2>3 DEF Sound
  <2> QED
    BY <2>2, <2>5, <2>6, <2>7, <2>8, <2>9 DEF Sound, Deals, Books, Accounted
<1> QED
  BY <1>1, <1>2

\* A handler that does not deal with an attempt books nobody.
LEMMA SoundElsewhere ==
    ASSUME NEW h, job'[h].at \notin {"capture", "check", "skipped", "report", "record"}
    PROVE  Sound(h)'
  BY DEF Sound, Deals, Books
LEMMA SoundBefore ==
    ASSUME NEW h, NEW a, attempt'[a].state # "none",
           job'[h] = [at |-> "capture", a |-> a] \/ job'[h] = [at |-> "check", a |-> a]
    PROVE  Sound(h)'
<1>1. (job'[h].at = "capture" \/ job'[h].at = "check") /\ job'[h].a = a
  OBVIOUS
<1> QED
  BY <1>1 DEF Sound, Deals, Books
LEMMA SoundRecord ==
    ASSUME NEW h, NEW a, NEW seen, NEW todo, NEW log,
           job'[h] = RecordJob(a, seen, todo, log), attempt'[a].state # "none",
           todo \subseteq attempt'[a].who,
           \A p \in todo : seen[p] \in Nat /\ (attempt'[a].group \/ seen[p] <= attempt'[a].amount),
           \A p \in attempt'[a].who \ todo : Accounted(a, p)'
    PROVE  Sound(h)'
<1>1. job'[h].at = "record" /\ job'[h].a = a /\ job'[h].seen = seen /\ job'[h].todo = todo
  BY DEF RecordJob
<1> QED
  BY <1>1 DEF Sound, Deals, Books, Accounted
LEMMA SoundReport ==
    ASSUME NEW h, NEW a, NEW seen, NEW todo, NEW skipped,
           job'[h] = [at |-> "report", a |-> a, seen |-> seen, todo |-> todo, skipped |-> skipped],
           attempt'[a].state # "none", todo \subseteq attempt'[a].who,
           \A p \in todo : seen[p] \in Nat /\ (attempt'[a].group \/ seen[p] <= attempt'[a].amount),
           \A p \in attempt'[a].who \ todo : p \in skipped \/ Accounted(a, p)'
    PROVE  Sound(h)'
<1>1. /\ job'[h].at = "report" /\ job'[h].a = a /\ job'[h].seen = seen /\ job'[h].todo = todo
      /\ job'[h].skipped = skipped
  OBVIOUS
<1> QED
  BY <1>1 DEF Sound, Deals, Books, Accounted

LEMMA SoundSkipped ==
    ASSUME NEW h, NEW a, NEW seen, NEW todo,
           job'[h] = [at |-> "skipped", a |-> a, seen |-> seen, todo |-> todo],
           attempt'[a].state # "none", attempt'[a].group, todo \subseteq attempt'[a].who,
           \A p \in todo : seen[p] \in Nat,
           \A p \in attempt'[a].who \ todo : p \in changed' \/ reg'[p].paid
    PROVE  Sound(h)'
<1>1. job'[h].at = "skipped" /\ job'[h].a = a /\ job'[h].seen = seen /\ job'[h].todo = todo
  OBVIOUS
<1> QED
  BY <1>1 DEF Sound, Deals, Books

\* What a handler has that deals with an attempt.
LEMMA DealsWith ==
    ASSUME PInv, [Next]_pvars, NEW h \in Handlers, Deals(h)
    PROVE  /\ job[h].a \in Attempts /\ attempt[job[h].a].state # "none"
           /\ attempt[job[h].a].who \in SUBSET Persons
           /\ attempt'[job[h].a].state # "none"
           /\ attempt'[job[h].a].who = attempt[job[h].a].who
           /\ attempt'[job[h].a].group = attempt[job[h].a].group
           /\ attempt'[job[h].a].amount = attempt[job[h].a].amount
           /\ \A p \in attempt[job[h].a].who \ changed : reg[p].due > 0
           /\ attempt[job[h].a].group \/ \E p \in Persons : attempt[job[h].a].who = {p}
<1>1. TypeOK /\ Sound(h) /\ AttemptsPriced
  BY DEF PInv, BookingsSound
<1>2. job[h].a \in Attempts /\ attempt[job[h].a].state # "none"
  BY <1>1, JobFields DEF TypeOK, Sound, Deals
<1>3. attempt[job[h].a].who \in SUBSET Persons
  BY <1>1, <1>2 DEF TypeOK, Attempt
<1>4. SameAttempt(job[h].a)
  BY <1>2, AttemptsStay
<1>5. PricedAsDue(job[h].a)
  BY <1>1, <1>2 DEF AttemptsPriced
<1>6. /\ attempt'[job[h].a].state # "none"
      /\ attempt'[job[h].a].who = attempt[job[h].a].who
      /\ attempt'[job[h].a].group = attempt[job[h].a].group
      /\ attempt'[job[h].a].amount = attempt[job[h].a].amount
  BY <1>4 DEF SameAttempt
<1>7. /\ \A p \in attempt[job[h].a].who \ changed : reg[p].due > 0
      /\ attempt[job[h].a].group \/ \E p \in Persons : attempt[job[h].a].who = {p}
  BY <1>2, <1>5 DEF PricedAsDue
<1> QED
  BY <1>2, <1>3, <1>6, <1>7

\* The money is compared with what is due; those left out are paid or were changed.
LEMMA SoundCheck ==
    ASSUME PInv, [Next]_pvars, NEW h \in Handlers, Check(h)
    PROVE  Sound(h)'
<1> DEFINE a == job[h].a
<1> DEFINE todo == ToBook(a)
<1>0. TypeOK /\ Deals(h)
  BY DEF PInv, Check, Deals
<1>1. /\ a \in Attempts /\ attempt[a].who \in SUBSET Persons /\ attempt'[a].state # "none"
      /\ attempt'[a].who = attempt[a].who /\ attempt'[a].group = attempt[a].group
      /\ attempt'[a].amount = attempt[a].amount
      /\ \A p \in attempt[a].who \ changed : reg[p].due > 0
      /\ attempt[a].group \/ \E p \in Persons : attempt[a].who = {p}
  BY <1>0, DealsWith
<1>2. todo \in SUBSET attempt[a].who
  BY DEF ToBook
<1>3. UNCHANGED <<reg, changed>>
  BY DEF Check
<1>4. \A p \in todo : DuesOf(todo)[p] = reg[p].due /\ reg[p].due \in Due
  <2>1. todo \in SUBSET Persons
    BY <1>1, <1>2
  <2> HIDE DEF todo
  <2> QED
    BY <1>0, <2>1, DuesAreRead
<1>5. CASE job'[h] = NoJob
  BY <1>5, SoundElsewhere DEF NoJob
<1>6. CASE attempt[a].group
  <2>1. \A p \in todo : DuesOf(todo)[p] \in Nat
    <3>1. \A p \in todo : reg[p].due > 0
      BY <1>6 DEF ToBook, Unpaid
    <3> QED
      BY <1>4, <3>1 DEF Due, NoAmount
  <2>2. CASE job'[h] = [at |-> "skipped", a |-> a, seen |-> DuesOf(todo), todo |-> todo]
    <3>1. \A p \in attempt[a].who \ todo : p \in changed' \/ reg'[p].paid
      <4>1. \A p \in attempt[a].who \ todo : ~Unpaid(p)
        BY <1>6 DEF ToBook
      <4> QED
        BY <1>1, <1>3, <4>1 DEF Unpaid
    <3> DEFINE seen == DuesOf(todo)
    <3>2. job'[h] = [at |-> "skipped", a |-> a, seen |-> seen, todo |-> todo]
      BY <2>2
    <3>3. attempt'[a].group /\ todo \subseteq attempt'[a].who /\ \A p \in todo : seen[p] \in Nat
      BY <1>1, <1>2, <1>6, <2>1
    <3>4. \A p \in attempt'[a].who \ todo : p \in changed' \/ reg'[p].paid
      BY <1>1, <3>1
    <3> HIDE DEF seen, todo, a
    <3> QED
      BY <1>1, <3>2, <3>3, <3>4, SoundSkipped
  <2>3. CASE todo = attempt[a].who /\ job'[h] = RecordJob(a, DuesOf(todo), todo, 0)
    <3> DEFINE seen == DuesOf(todo)
    <3>1. /\ job'[h] = RecordJob(a, seen, todo, 0) /\ todo \subseteq attempt'[a].who
          /\ \A p \in todo : seen[p] \in Nat /\ (attempt'[a].group \/ seen[p] <= attempt'[a].amount)
          /\ attempt'[a].who \ todo = {}
      BY <1>1, <1>2, <1>6, <2>1, <2>3
    <3> HIDE DEF seen, todo
    <3> QED
      BY <1>1, <3>1, SoundRecord
  <2> QED
    BY <1>5, <1>6, <2>2, <2>3, CheckNext
<1>7. CASE ~attempt[a].group
  <2>1. todo = attempt[a].who
    BY <1>7 DEF ToBook
  <2>2. PICK p \in Persons : todo = {p}
    BY <1>1, <1>7, <2>1
  <2>3. CASE Covers(a) /\ job'[h] = RecordJob(a, DuesOf(todo), todo, 0)
    <3>1. reg[p].due \in Nat
      <4>1. reg[p].due # NoAmount
        BY <1>7, <2>1, <2>2, <2>3 DEF Covers, Priced
      <4> QED
        BY <1>4, <2>2, <4>1 DEF Due
    <3>2. attempt[a].amount >= reg[p].due
      <4>1. attempt[a].amount >= Total(DuesNow, {p})
        BY <2>2, <2>3 DEF Covers
      <4>0. DuesNow[p] = reg[p].due
        BY <2>2 DEF DuesNow
      <4>2. Total(DuesNow, {p}) = DuesNow[p] + Total(DuesNow, {p} \ {p})
        <5>1. IsFiniteSet({p}) /\ \A x \in {p} : DuesNow[x] \in Int
          <6>1. IsFiniteSet({p})
            BY FS_Singleton
          <6> QED
            BY <3>1, <4>0, <6>1
        <5> QED
          BY <5>1, TotalRemove
      <4>3. {p} \ {p} = {}
        OBVIOUS
      <4>4. Total(DuesNow, {p}) = reg[p].due
        <5>1. Total(DuesNow, {}) = 0
          BY TotalOfNothing
        <5> QED
          BY <3>1, <4>0, <4>2, <4>3, <5>1
      <4> QED
        BY <4>1, <4>4
    <3> DEFINE seen == DuesOf(todo)
    <3>3. seen[p] = reg[p].due
      BY <1>4, <2>2
    <3>4. /\ job'[h] = RecordJob(a, seen, todo, 0) /\ todo \subseteq attempt'[a].who
          /\ \A q \in todo : seen[q] \in Nat /\ (attempt'[a].group \/ seen[q] <= attempt'[a].amount)
          /\ attempt'[a].who \ todo = {}
      <4>1. job'[h] = RecordJob(a, seen, todo, 0) /\ todo \subseteq attempt'[a].who
            /\ attempt'[a].who \ todo = {}
        BY <1>1, <2>1, <2>3
      <4>2. seen[p] \in Nat /\ seen[p] <= attempt'[a].amount
        <5>1. attempt[a].amount \in Nat
          BY <1>0, <1>1 DEF TypeOK, Attempt
        <5> HIDE DEF seen
        <5> QED
          BY <1>1, <3>1, <3>2, <3>3, <5>1
      <4> QED
        BY <2>2, <4>1, <4>2
    <3> HIDE DEF seen, todo
    <3> QED
      BY <1>1, <3>4, SoundRecord
  <2> QED
    BY <1>5, <1>7, <2>3, CheckNext
<1> QED
  BY <1>6, <1>7

\* The attempt a handler deals with, under a name of its own.
LEMMA DealsWithOne ==
    ASSUME PInv, [Next]_pvars, NEW h \in Handlers, Deals(h), NEW a, a = job[h].a
    PROVE  /\ a \in Attempts /\ attempt[a].state # "none" /\ attempt[a].who \in SUBSET Persons
           /\ attempt'[a].state # "none" /\ attempt'[a].who = attempt[a].who
           /\ attempt'[a].group = attempt[a].group /\ attempt'[a].amount = attempt[a].amount
           /\ \A p : Accounted(a, p) => Accounted(a, p)'
           /\ \A p \in attempt[a].who \ changed : reg[p].due > 0
<1>1. \A p : Accounted(a, p) => Accounted(a, p)'
  <2> SUFFICES ASSUME NEW p, Accounted(a, p) PROVE Accounted(a, p)'
    OBVIOUS
  <2> QED
    BY AccountedStays
<1> QED
  BY <1>1, DealsWith

\* What a handler that books has, under names of its own.
LEMMA BooksSoundly ==
    ASSUME PInv, NEW h \in Handlers, Books(h), NEW a, a = job[h].a,
           NEW seen, seen = job[h].seen, NEW todo, todo = job[h].todo
    PROVE  /\ todo \subseteq attempt[a].who
           /\ \A p \in todo : seen[p] \in Nat /\ (attempt[a].group \/ seen[p] <= attempt[a].amount)
           /\ job[h].at = "skipped" => \A p \in attempt[a].who \ todo : p \in changed \/ reg[p].paid
           /\ job[h].at = "report" =>
                \A p \in attempt[a].who \ todo : p \in job[h].skipped \/ Accounted(a, p)
           /\ job[h].at = "record" => \A p \in attempt[a].who \ todo : Accounted(a, p)
<1>1. Sound(h)
  BY DEF PInv, BookingsSound
<1> QED
  BY <1>1 DEF Sound

\* Requests begin with money that came in, or have nothing to do with it.
LEMMA SoundBegins ==
    ASSUME PInv, [Next]_pvars, NEW h \in Handlers, Begins(h)
    PROVE  Sound(h)'
<1>0. TypeOK
  BY DEF PInv
<1>1. ASSUME NEW a \in Attempts, Deliver(h, a), job'[h] = [at |-> "check", a |-> a] PROVE Sound(h)'
  <2>1. attempt'[a].state # "none"
    BY <1>1 DEF Deliver
  <2> QED
    BY <1>1, <2>1, SoundBefore
<1>2. ASSUME NEW a \in Attempts, ComeBack(h, a), job'[h] = [at |-> "capture", a |-> a]
      PROVE  Sound(h)'
  <2>1. attempt'[a].state # "none"
    BY <1>2 DEF ComeBack
  <2> QED
    BY <1>2, <2>1, SoundBefore
<1>3. ASSUME NEW todo \in SUBSET Persons, job'[h] = BookJob(todo, 0) PROVE Sound(h)'
  BY <1>3, SoundElsewhere DEF BookJob
<1>4. ASSUME job'[h].at = "notify" PROVE Sound(h)'
  BY <1>4, SoundElsewhere
<1>5. ASSUME NEW row \in Rows, NEW cents \in Nat,
             job'[h] = [at |-> "refund", row |-> row, amount |-> cents]
      PROVE  Sound(h)'
  BY <1>5, SoundElsewhere
<1>6. ASSUME NEW p \in Persons, NEW cents \in Nat,
             job'[h] = [at |-> "select", user |-> p, amount |-> cents, returned |-> NoAttempt]
      PROVE  Sound(h)'
  BY <1>6, SoundElsewhere
<1> QED
  BY <1>0, <1>1, <1>2, <1>3, <1>4, <1>5, <1>6, BeginsNext

LEMMA SoundCapture ==
    ASSUME PInv, [Next]_pvars, NEW h \in Handlers, Capture(h)
    PROVE  Sound(h)'
<1>1. PICK a : a = job[h].a
  OBVIOUS
<1>2. attempt'[a].state # "none"
  <2>1. Deals(h)
    BY DEF Capture, Deals
  <2> QED
    BY <1>1, <2>1, DealsWithOne
<1>3. CASE job'[h] = NoJob
  BY <1>3, SoundElsewhere DEF NoJob
<1>4. CASE job'[h] = [at |-> "check", a |-> a]
  BY <1>2, <1>4, SoundBefore
<1> QED
  BY <1>1, <1>3, <1>4, CaptureNext

\* Those who are not booked and were paid by something else are listed.
LEMMA SoundListSkipped ==
    ASSUME PInv, [Next]_pvars, NEW h \in Handlers, ListSkipped(h)
    PROVE  Sound(h)'
<1>0. job[h].at = "skipped" /\ Deals(h) /\ Books(h)
  BY DEF ListSkipped, Deals, Books
<1>1. PICK a, seen, todo : a = job[h].a /\ seen = job[h].seen /\ todo = job[h].todo
  OBVIOUS
<1> DEFINE skipped == {p \in attempt[a].who : PaidElsewhere(a, p)}
<1>2. job'[h] = [at |-> "report", a |-> a, seen |-> seen, todo |-> todo, skipped |-> skipped]
  BY <1>1, ListSkippedNext
<1>3. /\ attempt'[a].state # "none" /\ attempt'[a].who = attempt[a].who
      /\ attempt'[a].group = attempt[a].group /\ attempt'[a].amount = attempt[a].amount
      /\ \A p : Accounted(a, p) => Accounted(a, p)'
      /\ \A p \in attempt[a].who \ changed : reg[p].due > 0
  BY <1>0, <1>1, DealsWithOne
<1>4. /\ todo \subseteq attempt[a].who
      /\ \A p \in todo : seen[p] \in Nat /\ (attempt[a].group \/ seen[p] <= attempt[a].amount)
      /\ \A p \in attempt[a].who \ todo : p \in changed \/ reg[p].paid
  BY <1>0, <1>1, BooksSoundly
<1>5. \A p \in attempt[a].who \ todo : p \in skipped \/ Accounted(a, p)
  BY <1>3, <1>4 DEF PaidElsewhere, Accounted
<1> HIDE DEF skipped
<1>6. \A p \in attempt'[a].who \ todo : p \in skipped \/ Accounted(a, p)'
  BY <1>3, <1>5
<1> QED
  BY <1>2, <1>3, <1>4, <1>6, SoundReport

\* One of them is reported; after the last one the open people are booked.
LEMMA SoundReportOverpaid ==
    ASSUME PInv, [Next]_pvars, NEW h \in Handlers, ReportOverpaid(h)
    PROVE  Sound(h)'
<1>0. job[h].at = "report" /\ Deals(h) /\ Books(h)
  BY DEF ReportOverpaid, Deals, Books
<1>1. PICK a, seen, todo : a = job[h].a /\ seen = job[h].seen /\ todo = job[h].todo
  OBVIOUS
<1>2. /\ attempt'[a].state # "none" /\ attempt'[a].who = attempt[a].who
      /\ attempt'[a].group = attempt[a].group /\ attempt'[a].amount = attempt[a].amount
      /\ \A p : Accounted(a, p) => Accounted(a, p)'
  BY <1>0, <1>1, DealsWithOne
<1>3. /\ todo \subseteq attempt[a].who
      /\ \A p \in todo : seen[p] \in Nat /\ (attempt[a].group \/ seen[p] <= attempt[a].amount)
      /\ \A p \in attempt[a].who \ todo : p \in job[h].skipped \/ Accounted(a, p)
  BY <1>0, <1>1, BooksSoundly
<1>4. ASSUME NEW q \in job[h].skipped, overpaid' = overpaid \cup {<<a, q>>},
             job'[h] = [at |-> "report", a |-> a, seen |-> seen, todo |-> todo,
                        skipped |-> job[h].skipped \ {q}]
      PROVE  Sound(h)'
  <2> DEFINE skipped == job[h].skipped \ {q}
  <2>1. Accounted(a, q)'
    BY <1>4 DEF Accounted
  <2>2. PICK some : some = skipped
    OBVIOUS
  <2>3. \A p \in attempt'[a].who \ todo : p \in some \/ Accounted(a, p)'
    BY <1>2, <1>3, <2>1, <2>2
  <2>4. job'[h] = [at |-> "report", a |-> a, seen |-> seen, todo |-> todo, skipped |-> some]
    BY <1>4, <2>2
  <2> QED
    BY <1>2, <1>3, <2>3, <2>4, SoundReport
<1>5. CASE job[h].skipped = {} /\ job'[h] = RecordJob(a, seen, todo, 0)
  <2>1. \A p \in attempt'[a].who \ todo : Accounted(a, p)'
    BY <1>2, <1>3, <1>5
  <2> QED
    BY <1>2, <1>3, <1>5, <2>1, SoundRecord
<1> QED
  BY <1>1, <1>4, <1>5, ReportOverpaidNext

\* Whoever is booked has a row.
LEMMA SoundRecords ==
    ASSUME PInv, [Next]_pvars, NEW h \in Handlers, Record(h)
    PROVE  Sound(h)'
<1>0. job[h].at = "record" /\ Deals(h) /\ Books(h)
  BY DEF Record, Deals, Books
<1>1. PICK a, seen, todo : a = job[h].a /\ seen = job[h].seen /\ todo = job[h].todo
  OBVIOUS
<1>2. /\ attempt'[a].state # "none" /\ attempt'[a].who = attempt[a].who
      /\ attempt'[a].group = attempt[a].group /\ attempt'[a].amount = attempt[a].amount
      /\ \A p : Accounted(a, p) => Accounted(a, p)'
  BY <1>0, <1>1, DealsWithOne
<1>3. /\ todo \subseteq attempt[a].who
      /\ \A p \in todo : seen[p] \in Nat /\ (attempt[a].group \/ seen[p] <= attempt[a].amount)
      /\ \A p \in attempt[a].who \ todo : Accounted(a, p)
  BY <1>0, <1>1, BooksSoundly
<1>4. PICK q \in todo :
        /\ job'[h] = RecordJob(a, seen, todo \ {q}, Receipt(a, q))
        /\ Recorded(a, q) \/ Received(h, q)
  BY <1>1, RecordNext
<1>5. Accounted(a, q)'
  <2>1. CASE Recorded(a, q)
    BY <1>2, <2>1 DEF Accounted
  <2>2. CASE Received(h, q)
    <3> DEFINE n == Len(payments) + 1
    <3>1. n \in Rows' /\ payments'[n] = NewRow(q, Share(h, q), a)
      BY <1>1, <2>2 DEF Received, RowAdded
    <3>2. payments'[n].via = a /\ payments'[n].user = q
      BY <3>1 DEF NewRow
    <3> HIDE DEF n
    <3>3. n \in RowsFor(a, q)'
      BY <3>1, <3>2 DEF RowsFor
    <3> QED
      BY <3>3 DEF Accounted, Recorded
  <2> QED
    BY <1>4, <2>1, <2>2
<1>6. PICK some, log : some = todo \ {q} /\ log = Receipt(a, q)
  OBVIOUS
<1>7. \A p \in attempt'[a].who \ some : Accounted(a, p)'
  BY <1>2, <1>3, <1>5, <1>6
<1>8. job'[h] = RecordJob(a, seen, some, log)
  BY <1>4, <1>6
<1>9. /\ some \subseteq attempt'[a].who
      /\ \A p \in some : seen[p] \in Nat /\ (attempt'[a].group \/ seen[p] <= attempt'[a].amount)
  BY <1>2, <1>3, <1>6
<1> QED
  BY <1>2, <1>7, <1>8, <1>9, SoundRecord

\* A receipt changes nothing of what a handler has still to book.
LEMMA SoundLogs ==
    ASSUME PInv, [Next]_pvars, NEW h \in Handlers, LogReceived(h)
    PROVE  Sound(h)'
<1>1. ASSUME job'[h] = BookJob(job[h].todo, 0) PROVE Sound(h)'
  BY <1>1, SoundElsewhere DEF BookJob
<1>2. ASSUME job[h].at = "record", job'[h] = RecordJob(job[h].a, job[h].seen, job[h].todo, 0)
      PROVE  Sound(h)'
  <2>0. Deals(h) /\ Books(h)
    BY <1>2 DEF Deals, Books
  <2>1. PICK a, seen, todo : a = job[h].a /\ seen = job[h].seen /\ todo = job[h].todo
    OBVIOUS
  <2>2. /\ attempt'[a].state # "none" /\ attempt'[a].who = attempt[a].who
        /\ attempt'[a].group = attempt[a].group /\ attempt'[a].amount = attempt[a].amount
        /\ \A p : Accounted(a, p) => Accounted(a, p)'
    BY <2>0, <2>1, DealsWithOne
  <2>3. /\ todo \subseteq attempt[a].who
        /\ \A p \in todo : seen[p] \in Nat /\ (attempt[a].group \/ seen[p] <= attempt[a].amount)
        /\ \A p \in attempt[a].who \ todo : Accounted(a, p)
    BY <1>2, <2>0, <2>1, BooksSoundly
  <2>4. job'[h] = RecordJob(a, seen, todo, 0)
    BY <1>2, <2>1
  <2> QED
    BY <2>2, <2>3, <2>4, SoundRecord
<1> QED
  BY <1>1, <1>2, LogReceivedNext

\* The other steps book nothing that came in online.
LEMMA SoundRest ==
    ASSUME PInv, [Next]_pvars, NEW h \in Handlers,
           \/ Answer(h) \/ Fails(h) \/ BookingDone(h) \/ RememberTransfer(h) \/ WriteRefund(h)
           \/ LockPerson(h) \/ BookPerson(h) \/ NotifyNext(h)
           \/ StripeRefund(h) \/ SelectRefunded(h)
    PROVE  Sound(h)'
<1>1. ASSUME NEW todo, NEW log, job'[h] = BookJob(todo, log) PROVE Sound(h)'
  BY <1>1, SoundElsewhere DEF BookJob
<1>2. ASSUME job'[h] = NoJob PROVE Sound(h)'
  BY <1>2, SoundElsewhere DEF NoJob
<1>3. CASE Answer(h) \/ Fails(h) \/ BookingDone(h) \/ RememberTransfer(h) \/ WriteRefund(h)
  BY <1>2, <1>3, EndsNext
<1>4. CASE LockPerson(h)
  <2>1. ASSUME NEW p \in Persons,
               job'[h] = [at |-> "locked", todo |-> job[h].todo \ {p}, user |-> p, seen |-> reg[p]]
        PROVE  Sound(h)'
    BY <2>1, SoundElsewhere
  <2>2. ASSUME NEW todo \in SUBSET Persons, job'[h] = BookJob(todo, 0) PROVE Sound(h)'
    BY <1>1, <2>2
  <2>3. \/ \E todo \in SUBSET Persons : job'[h] = BookJob(todo, 0)
        \/ \E p \in Persons : job'[h] = [at |-> "locked", todo |-> job[h].todo \ {p},
                                         user |-> p, seen |-> reg[p]]
    BY <1>4, LockPersonNext
  <2> QED
    BY <2>1, <2>2, <2>3
<1>5. CASE BookPerson(h)
  BY <1>1, <1>5, BookPersonNext
<1>6. CASE NotifyNext(h)
  BY <1>6, NotifyNextNext, SoundElsewhere
<1>7. CASE StripeRefund(h)
  <2>1. ASSUME job'[h] = [at |-> "select", user |-> payments[job[h].row].user,
                          amount |-> job[h].amount, returned |-> payments[job[h].row].via]
        PROVE  Sound(h)'
    BY <2>1, SoundElsewhere
  <2> QED
    BY <1>2, <1>7, <2>1, StripeRefundNext
<1>8. CASE SelectRefunded(h)
  <2>1. ASSUME NEW row \in Rows,
               job'[h] = [at |-> "write", row |-> row, amount |-> job[h].amount,
                          returned |-> job[h].returned]
        PROVE  Sound(h)'
    BY <2>1, SoundElsewhere
  <2> QED
    BY <1>2, <1>8, <2>1, SelectRefundedNext
<1> QED
  BY <1>3, <1>4, <1>5, <1>6, <1>7, <1>8

LEMMA SoundActs ==
    ASSUME PInv, [Next]_pvars, NEW h \in Handlers, Acts(h)
    PROVE  Sound(h)'
<1>1. CASE Begins(h)
  BY <1>1, SoundBegins
<1>2. CASE Capture(h)
  BY <1>2, SoundCapture
<1>3. CASE Check(h)
  BY <1>3, SoundCheck
<1>4. CASE ListSkipped(h)
  BY <1>4, SoundListSkipped
<1>5. CASE ReportOverpaid(h)
  BY <1>5, SoundReportOverpaid
<1>6. CASE Record(h)
  BY <1>6, SoundRecords
<1>7. CASE LogReceived(h)
  BY <1>7, SoundLogs
<1>8. CASE \/ Answer(h) \/ Fails(h) \/ BookingDone(h) \/ RememberTransfer(h) \/ WriteRefund(h)
           \/ LockPerson(h) \/ BookPerson(h) \/ NotifyNext(h)
           \/ StripeRefund(h) \/ SelectRefunded(h)
  BY <1>8, SoundRest
<1> QED
  BY <1>1, <1>2, <1>3, <1>4, <1>5, <1>6, <1>7, <1>8 DEF Acts, Proceed

LEMMA BookingsSoundStep ==
    ASSUME PInv, [Next]_pvars
    PROVE  BookingsSound'
<1>0. TypeOK
  BY DEF PInv
<1>1. ASSUME NEW g \in Handlers, Acts(g) PROVE \A h \in Handlers : Sound(h)'
  <2> TAKE h \in Handlers
  <2>1. CASE g = h
    BY <1>1, <2>1, SoundActs
  <2>2. CASE g # h
    BY <1>0, <1>1, <2>2, OneMoves, SoundStays
  <2> QED
    BY <2>1, <2>2
<1>2. ASSUME UNCHANGED job PROVE \A h \in Handlers : Sound(h)'
  BY <1>2, SoundStays
<1>3. ASSUME job' = [h \in Handlers |-> NoJob] PROVE \A h \in Handlers : Sound(h)'
  <2> TAKE h \in Handlers
  <2>1. job'[h].at = "idle"
    BY <1>3 DEF NoJob
  <2> QED
    BY <2>1, SoundElsewhere
<1>4. \A h \in Handlers : Sound(h)'
  BY <1>0, <1>1, <1>2, <1>3, OnlyHandlersMove
<1> QED
  BY <1>4 DEF BookingsSound

-----------------------------------------------------------------------------
(* Answers *)

\* Nothing is refused unless somebody's amount was changed: what an attempt was
\* priced with is what is due.
LEMMA RefusedIsChanged ==
    ASSUME PInv, NEW a \in Attempts, attempt[a].state # "none",
           attempt[a].who \cap changed = {}
    PROVE  Covers(a)
<1> DEFINE who == attempt[a].who
<1>0. TypeOK /\ PricedAsDue(a)
  BY DEF PInv, AttemptsPriced
<1>1. /\ who \in SUBSET Persons /\ attempt[a].amount = Total(DuesNow, who)
      /\ \A p \in who : reg[p].due > 0
  <2>1. who \in SUBSET Persons
    BY <1>0 DEF TypeOK, Attempt
  <2>2. /\ attempt[a].amount = Total(DuesNow, who)
        /\ \A p \in who \ changed : reg[p].due > 0
    BY <1>0 DEF PricedAsDue
  <2> QED
    BY <2>1, <2>2
<1>2. IsFiniteSet(who)
  BY <1>1, FS_Subset, PeopleAssumption
<1>3. \A p \in who : DuesNow[p] \in Nat
  <2> TAKE p \in who
  <2>1. DuesNow[p] = reg[p].due /\ reg[p].due \in Int
    BY <1>0, <1>1, DuesAreRead
  <2> QED
    BY <1>1, <2>1
<1>4. ToBook(a) \in SUBSET who
  BY DEF ToBook
<1>5. Total(DuesNow, ToBook(a)) <= Total(DuesNow, who)
  <2>1. PICK all, some : all = who /\ some = ToBook(a)
    OBVIOUS
  <2> HIDE DEF who
  <2> QED
    BY <1>2, <1>3, <1>4, <2>1, TotalOfMore
<1>6. attempt[a].amount >= Total(DuesNow, ToBook(a))
  <2> DEFINE n == Total(DuesNow, who)
  <2> DEFINE m == Total(DuesNow, ToBook(a))
  <2>1. n \in Nat /\ m \in Nat
    <3>1. n \in Nat
      BY <1>2, <1>3, TotalOfMore
    <3>2. m \in Nat
      BY <1>2, <1>3, <1>4, TotalOfMore
    <3> QED
      BY <3>1, <3>2
  <2>2. m <= n /\ attempt[a].amount = n
    BY <1>1, <1>5
  <2> HIDE DEF n, m
  <2>3. attempt[a].amount >= m
    BY <2>1, <2>2
  <2> QED
    BY <2>3 DEF m
<1>7. Priced(a)
  BY <1>1 DEF Priced, NoAmount
<1> QED
  BY <1>6, <1>7 DEF Covers

\* What is answered as booked left nobody out, and only what was changed is refused.
LEMMA AnsweredStep ==
    ASSUME PInv, [Next]_pvars
    PROVE  AnsweredIsAccounted'
<1> DEFINE Told(x, a) ==
      /\ x.answer = "booked" => \A p \in x.who : Accounted(a, p)
      /\ x.answer = "refused" => \E p \in x.who : p \in changed
<1>0. TypeOK /\ \A a \in Attempts : Told(attempt[a], a)
  BY DEF PInv, AnsweredIsAccounted
<1> SUFFICES ASSUME NEW a \in Attempts
             PROVE  /\ attempt'[a].answer = "booked" => \A p \in attempt'[a].who : Accounted(a, p)'
                    /\ attempt'[a].answer = "refused" => \E p \in attempt'[a].who : p \in changed'
  BY DEF AnsweredIsAccounted
<1>1. CASE attempt'[a].who = attempt[a].who /\ attempt'[a].answer = attempt[a].answer
  <2>1. \A p : Accounted(a, p) => Accounted(a, p)'
    BY AccountedStays
  <2> QED
    BY <1>0, <1>1, <2>1, NotesStay
<1>2. CASE attempt'[a].answer \in {"none", "failed"}
  BY <1>2
<1>3. ASSUME NEW b \in Attempts, NEW x, attempt' = [attempt EXCEPT ![b] = x],
             b = a => \/ x.answer \in {"none", "failed"}
                      \/ x.who = attempt[a].who /\ x.answer = attempt[a].answer
      PROVE  \/ attempt'[a].answer \in {"none", "failed"}
             \/ attempt'[a].who = attempt[a].who /\ attempt'[a].answer = attempt[a].answer
  <2>1. attempt'[b] = x /\ (b # a => attempt'[a] = attempt[a])
    BY <1>0, <1>3 DEF TypeOK
  <2> QED
    BY <1>3, <2>1
<1>4. CASE UNCHANGED attempt
  BY <1>1, <1>4
<1>5. ASSUME NEW b \in Attempts, Creates(b)
      PROVE  \/ attempt'[a].answer \in {"none", "failed"}
             \/ attempt'[a].who = attempt[a].who /\ attempt'[a].answer = attempt[a].answer
  <2>1. PICK people \in SUBSET Persons, group \in BOOLEAN : Create(b, people, group)
    BY <1>5 DEF Creates
  <2>2. attempt' = [attempt EXCEPT ![b] = Opened(people, group)] /\ Payable(people)
    BY <2>1 DEF Create
  <2>3. Opened(people, group).answer = "none"
    BY <1>0, <2>2, OpenedType
  <2> QED
    BY <1>3, <2>2, <2>3
<1>6. ASSUME NEW b \in Attempts, NEW state,
             attempt' = [attempt EXCEPT ![b] = [attempt[b] EXCEPT !.state = state]]
      PROVE  \/ attempt'[a].answer \in {"none", "failed"}
             \/ attempt'[a].who = attempt[a].who /\ attempt'[a].answer = attempt[a].answer
  <2> DEFINE x == [attempt[b] EXCEPT !.state = state]
  <2>1. x.who = attempt[b].who /\ x.answer = attempt[b].answer
    BY <1>0 DEF TypeOK, Attempt
  <2>2. attempt' = [attempt EXCEPT ![b] = x]
    BY <1>6
  <2> HIDE DEF x
  <2> QED
    BY <1>3, <2>1, <2>2
<1>7. ASSUME NEW h \in Handlers, StripeRefund(h), RefundStep(h)
      PROVE  \/ attempt'[a].answer \in {"none", "failed"}
             \/ attempt'[a].who = attempt[a].who /\ attempt'[a].answer = attempt[a].answer
  <2>1. payments[job[h].row].via \in Attempts
    BY <1>7, RefundIsKnown
  <2>2. PICK b \in Attempts : b = payments[job[h].row].via
    BY <2>1
  <2> DEFINE x == [attempt[b] EXCEPT !.refunds = @ + job[h].amount]
  <2>3. attempt' = [attempt EXCEPT ![b] = x]
    BY <1>7, <2>2 DEF RefundStep
  <2>4. x.who = attempt[b].who /\ x.answer = attempt[b].answer
    BY <1>0 DEF TypeOK, Attempt
  <2> HIDE DEF x
  <2> QED
    BY <1>3, <2>3, <2>4
\* The handler that answers.
<1>8. ASSUME NEW h \in Handlers, NEW b \in Attempts, b = job[h].a, attempt[b].state # "none",
             NEW answer, attempt' = [attempt EXCEPT ![b].answer = answer]
      PROVE  /\ a # b => attempt'[a] = attempt[a]
             /\ a = b => attempt'[a].answer = answer /\ attempt'[a].who = attempt[a].who
  BY <1>0, <1>8 DEF TypeOK, Attempt
<1>9. ASSUME NEW h \in Handlers, job[h].a \in Attempts, attempt[job[h].a].state # "none", Fails(h)
      PROVE  \/ attempt'[a].answer \in {"none", "failed"}
             \/ attempt'[a].who = attempt[a].who /\ attempt'[a].answer = attempt[a].answer
  <2>1. PICK b \in Attempts : b = job[h].a
    BY <1>9
  <2>2. attempt' = [attempt EXCEPT ![b].answer = "failed"] /\ attempt[b].state # "none"
    BY <1>9, <2>1 DEF Fails
  <2> QED
    BY <1>8, <2>1, <2>2
<1>10. CASE \E h \in Handlers : /\ job[h].a \in Attempts /\ attempt[job[h].a].state # "none"
                                /\ Check(h) /\ ~Covers(job[h].a)
  <2>1. PICK h \in Handlers : /\ job[h].a \in Attempts /\ attempt[job[h].a].state # "none"
                              /\ Check(h) /\ ~Covers(job[h].a)
    BY <1>10
  <2>2. PICK b \in Attempts : b = job[h].a
    BY <2>1
  <2>3. attempt' = [attempt EXCEPT ![b].answer = "refused"] /\ UNCHANGED changed
    BY <2>1, <2>2 DEF Check
  <2>4. attempt[b].state # "none" /\ ~Covers(b)
    BY <2>1, <2>2
  <2>5. \E p \in attempt[b].who : p \in changed
    BY <2>4, RefusedIsChanged
  <2>6. CASE a = b
    <3>1. attempt'[a].answer = "refused" /\ attempt'[a].who = attempt[a].who
      BY <1>8, <2>1, <2>2, <2>3, <2>4, <2>6
    <3>2. \E p \in attempt'[a].who : p \in changed'
      BY <2>3, <2>5, <2>6, <3>1
    <3> QED
      BY <3>1, <3>2
  <2>7. CASE a # b
    BY <1>1, <1>8, <2>1, <2>2, <2>3, <2>4, <2>7
  <2> QED
    BY <2>6, <2>7
<1>11. CASE \E h \in Handlers : /\ job[h].a \in Attempts /\ attempt[job[h].a].state # "none"
                                /\ Answer(h)
  <2>1. PICK h \in Handlers : /\ job[h].a \in Attempts /\ attempt[job[h].a].state # "none"
                              /\ Answer(h)
    BY <1>11
  <2>2. PICK b, seen, todo : /\ b \in Attempts
                             /\ b = job[h].a /\ seen = job[h].seen /\ todo = job[h].todo
    BY <2>1
  <2>3. /\ attempt' = [attempt EXCEPT ![b].answer = "booked"]
        /\ job[h].at = "record" /\ todo = {}
    BY <2>1, <2>2 DEF Answer
  <2>4. \A p \in attempt[b].who : Accounted(b, p)
    <3>1. Books(h)
      BY <2>3 DEF Books
    <3>2. job[h].at = "record" => \A p \in attempt[b].who \ todo : Accounted(b, p)
      BY <2>2, <3>1, BooksSoundly
    <3> QED
      BY <2>3, <3>2
  <2>5. CASE a = b
    <3>1. attempt'[a].answer = "booked" /\ attempt'[a].who = attempt[a].who
      BY <1>8, <2>1, <2>2, <2>3, <2>5
    <3>2. \A p : Accounted(a, p) => Accounted(a, p)'
      BY AccountedStays
    <3> QED
      BY <2>4, <2>5, <3>1, <3>2
  <2>6. CASE a # b
    BY <1>1, <1>8, <2>1, <2>2, <2>3, <2>6
  <2> QED
    BY <2>5, <2>6
<1> HIDE DEF Told
<1>12. CASE \E h \in Handlers : job[h].a \in Attempts /\ attempt[job[h].a].state # "none" /\ Fails(h)
  BY <1>1, <1>2, <1>9, <1>12
<1>13. CASE \E h \in Handlers : StripeRefund(h) /\ RefundStep(h)
  BY <1>1, <1>2, <1>7, <1>13
<1>14. CASE \E b \in Attempts : Creates(b)
  BY <1>1, <1>2, <1>5, <1>14
<1>15. CASE \E b \in Attempts : \E state \in {"approved", "paid"} :
              attempt' = [attempt EXCEPT ![b] = [attempt[b] EXCEPT !.state = state]]
  BY <1>1, <1>2, <1>6, <1>15
<1> QED
  BY <1>4, <1>10, <1>11, <1>12, <1>13, <1>14, <1>15, AttemptsWritten

-----------------------------------------------------------------------------
(* Refunds *)

\* A refund is begun by staff, and goes on from there.
LEMMA KindsOfJobs ==
    /\ NoJob.at = "idle"
    /\ \A a, seen, todo, log : RecordJob(a, seen, todo, log).at = "record"
    /\ \A todo, log : BookJob(todo, log).at = "book"
  BY DEF NoJob, RecordJob, BookJob
LEMMA NoRefundBegins ==
    ASSUME PInv, NEW h \in Handlers, Acts(h), ~Begins(h), ~SelectRefunded(h)
    PROVE  job'[h].at \notin {"refund", "write"} /\ (job'[h].at = "select" => StripeRefund(h))
<1>1. CASE Capture(h)
  <2>1. job'[h] = [at |-> "check", a |-> job[h].a] => job'[h].at = "check"
    OBVIOUS
  <2> QED
    BY <1>1, <2>1, CaptureNext, KindsOfJobs
<1>2. CASE Check(h)
  <2> DEFINE a == job[h].a
  <2> DEFINE todo == ToBook(job[h].a)
  <2> DEFINE seen == DuesOf(todo)
  <2>1. \/ job'[h] = NoJob
        \/ job'[h] = [at |-> "skipped", a |-> a, seen |-> seen, todo |-> todo]
        \/ job'[h] = RecordJob(a, seen, todo, 0)
    BY <1>2, CheckNext
  <2> HIDE DEF a, todo, seen
  <2>2. job'[h] = [at |-> "skipped", a |-> a, seen |-> seen, todo |-> todo] => job'[h].at = "skipped"
    OBVIOUS
  <2> QED
    BY <2>1, <2>2, KindsOfJobs
<1>3. CASE ListSkipped(h)
  <2> DEFINE skipped == {p \in attempt[job[h].a].who : PaidElsewhere(job[h].a, p)}
  <2>1. job'[h] = [at |-> "report", a |-> job[h].a, seen |-> job[h].seen, todo |-> job[h].todo,
                   skipped |-> skipped]
    BY <1>3, ListSkippedNext
  <2> HIDE DEF skipped
  <2>2. job'[h].at = "report"
    BY <2>1
  <2> QED
    BY <2>2
<1>4. CASE ReportOverpaid(h)
  <2>1. ASSUME NEW p, job'[h] = [at |-> "report", a |-> job[h].a, seen |-> job[h].seen,
                                 todo |-> job[h].todo, skipped |-> job[h].skipped \ {p}]
        PROVE  job'[h].at = "report"
    BY <2>1
  <2>2. \/ \E p \in job[h].skipped :
             job'[h] = [at |-> "report", a |-> job[h].a, seen |-> job[h].seen,
                        todo |-> job[h].todo, skipped |-> job[h].skipped \ {p}]
        \/ job'[h] = RecordJob(job[h].a, job[h].seen, job[h].todo, 0)
    BY <1>4, ReportOverpaidNext
  <2>3. job'[h] = RecordJob(job[h].a, job[h].seen, job[h].todo, 0) => job'[h].at = "record"
    BY KindsOfJobs
  <2> QED
    BY <2>1, <2>2, <2>3
<1>5. CASE Record(h)
  <2>1. \E a, seen, todo, log : job'[h] = RecordJob(a, seen, todo, log)
    BY <1>5, RecordNext
  <2> QED
    BY <2>1, KindsOfJobs
<1>6. CASE LogReceived(h)
  BY <1>6, LogReceivedNext, KindsOfJobs
<1>7. CASE Answer(h) \/ Fails(h) \/ BookingDone(h) \/ RememberTransfer(h) \/ WriteRefund(h)
  BY <1>7, EndsNext, KindsOfJobs
<1>8. CASE LockPerson(h)
  <2>1. \/ \E todo \in SUBSET Persons : job'[h] = BookJob(todo, 0)
        \/ \E p \in Persons : job'[h] = [at |-> "locked", todo |-> job[h].todo \ {p},
                                         user |-> p, seen |-> reg[p]]
    BY <1>8, LockPersonNext
  <2>2. ASSUME NEW p \in Persons, job'[h] = [at |-> "locked", todo |-> job[h].todo \ {p},
                                             user |-> p, seen |-> reg[p]]
        PROVE  job'[h].at = "locked"
    BY <2>2
  <2> QED
    BY <2>1, <2>2, KindsOfJobs
<1>9. CASE BookPerson(h)
  BY <1>9, BookPersonNext, KindsOfJobs
<1>10. CASE NotifyNext(h)
  BY <1>10, NotifyNextNext
<1>11. CASE StripeRefund(h)
  <2>1. ASSUME job'[h] = [at |-> "select", user |-> payments[job[h].row].user,
                          amount |-> job[h].amount, returned |-> payments[job[h].row].via]
        PROVE  job'[h].at = "select"
    BY <2>1
  <2> QED
    BY <1>11, <2>1, StripeRefundNext, KindsOfJobs
<1> QED
  BY <1>1, <1>2, <1>3, <1>4, <1>5, <1>6, <1>7, <1>8, <1>9, <1>10, <1>11 DEF Acts, Proceed

\* A refund is about a row that stays.
LEMMA RefundsKnownStep ==
    ASSUME PInv, [Next]_pvars
    PROVE  RefundsKnown'
<1> DEFINE Known(j) == /\ j.at \in {"refund", "write"} => j.row \in Rows
                       /\ j.at = "refund" => payments[j.row].via \in Attempts
<1>0. TypeOK /\ \A h \in Handlers : Known(job[h])
  BY DEF PInv, RefundsKnown
<1>1. \A i \in Rows : i \in Rows' /\ payments'[i].via = payments[i].via
  BY RowsStay
<1>2. ASSUME NEW h \in Handlers, Known(job'[h])
      PROVE  /\ job'[h].at \in {"refund", "write"} => job'[h].row \in Rows'
             /\ job'[h].at = "refund" => payments'[job'[h].row].via \in Attempts
  BY <1>1, <1>2
<1>3. ASSUME NEW h \in Handlers, job'[h].at \notin {"refund", "write"} PROVE Known(job'[h])
  BY <1>3
<1>4. ASSUME NEW h \in Handlers, Acts(h) PROVE Known(job'[h])
  <2>1. CASE Begins(h)
    <3>1. ASSUME NEW row \in Rows, NEW cents \in Nat, payments[row].via \in Attempts,
                 job'[h] = [at |-> "refund", row |-> row, amount |-> cents]
          PROVE  Known(job'[h])
      BY <3>1
    <3>2. ASSUME NEW todo \in SUBSET Persons, job'[h] = BookJob(todo, 0) PROVE Known(job'[h])
      BY <3>2 DEF BookJob
    <3>3. ASSUME NEW a \in Attempts, job'[h] = [at |-> "check", a |-> a]
                                     \/ job'[h] = [at |-> "capture", a |-> a]
          PROVE  Known(job'[h])
      BY <3>3
    <3>4. ASSUME NEW p \in Persons, NEW cents \in Nat,
                 job'[h] = [at |-> "select", user |-> p, amount |-> cents, returned |-> NoAttempt]
          PROVE  Known(job'[h])
      BY <3>4
    <3>5. ASSUME job'[h].at = "notify" PROVE Known(job'[h])
      BY <3>5
    <3> HIDE DEF Known
    <3> QED
      BY <1>0, <2>1, <3>1, <3>2, <3>3, <3>4, <3>5, BeginsNext
  <2>2. CASE SelectRefunded(h)
    <3>1. ASSUME NEW row \in Rows, job'[h] = [at |-> "write", row |-> row,
                                  amount |-> job[h].amount, returned |-> job[h].returned]
          PROVE  Known(job'[h])
      BY <3>1
    <3>2. ASSUME job'[h] = NoJob PROVE Known(job'[h])
      BY <3>2 DEF NoJob
    <3> HIDE DEF Known
    <3> QED
      BY <2>2, <3>1, <3>2, SelectRefundedNext
  <2>3. CASE ~Begins(h) /\ ~SelectRefunded(h)
    <3>1. job'[h].at \notin {"refund", "write"}
      BY <2>3, <1>4, NoRefundBegins
    <3> QED
      BY <1>3, <3>1
  <2> HIDE DEF Known
  <2> QED
    BY <2>1, <2>2, <2>3
<1>5. \A h \in Handlers : Known(job'[h])
  <2>1. ASSUME NEW g \in Handlers, Acts(g) PROVE \A h \in Handlers : Known(job'[h])
    <3> TAKE h \in Handlers
    <3>1. g # h => job'[h] = job[h]
      BY <1>0, <2>1, OneMoves
    <3> HIDE DEF Known
    <3> QED
      BY <1>0, <1>4, <2>1, <3>1
  <2>2. ASSUME UNCHANGED job PROVE \A h \in Handlers : Known(job'[h])
    BY <1>0, <2>2
  <2>3. ASSUME job' = [h \in Handlers |-> NoJob] PROVE \A h \in Handlers : Known(job'[h])
    BY <2>3 DEF NoJob
  <2> HIDE DEF Known
  <2> QED
    BY <1>0, <2>1, <2>2, <2>3, OnlyHandlersMove
<1> HIDE DEF Known
<1>6. \A h \in Handlers :
        /\ job'[h].at \in {"refund", "write"} => job'[h].row \in Rows'
        /\ job'[h].at = "refund" => payments'[job'[h].row].via \in Attempts
  BY <1>2, <1>5
<1> QED
  BY <1>6 DEF RefundsKnown

\* What a job owes of what was paid back for an attempt.
OwedBy(j, a) == IF j.at \in {"select", "write"} /\ j.returned = a THEN j.amount ELSE 0

\* Nothing is owed by a handler that is not about to write a refund down.
LEMMA OwesNothing ==
    ASSUME NEW j, NEW a, j.at \notin {"select", "write"} \/ j.returned # a
    PROVE  OwedBy(j, a) = 0
  BY DEF OwedBy
LEMMA OwesType ==
    ASSUME TypeOK
    PROVE  \A h \in Handlers, a \in Attempts : OwedBy(job[h], a) \in Nat
<1> SUFFICES ASSUME NEW h \in Handlers, NEW a \in Attempts PROVE OwedBy(job[h], a) \in Nat
  OBVIOUS
<1>1. job[h] \in Job
  BY DEF TypeOK
<1> QED
  BY <1>1, JobFields DEF OwedBy
LEMMA RefundTypes ==
    ASSUME TypeOK
    PROVE  \A a \in Attempts :
             /\ Returns(a) \in SUBSET Rows /\ IsFiniteSet(Returns(a))
             /\ \A i \in Rows : Refunds[i] = payments[i].refund /\ payments[i].refund \in Nat
             /\ Total(Refunds, Returns(a)) \in Nat
             /\ Total(Owes(a), Handlers) \in Nat
             /\ \A h \in Handlers : Owes(a)[h] = OwedBy(job[h], a)
<1> SUFFICES ASSUME NEW a \in Attempts
             PROVE  /\ Returns(a) \in SUBSET Rows /\ IsFiniteSet(Returns(a))
                    /\ \A i \in Rows : Refunds[i] = payments[i].refund /\ payments[i].refund \in Nat
                    /\ Total(Refunds, Returns(a)) \in Nat
                    /\ Total(Owes(a), Handlers) \in Nat
                    /\ \A h \in Handlers : Owes(a)[h] = OwedBy(job[h], a)
  OBVIOUS
<1>1. Returns(a) \in SUBSET Rows
  BY DEF Returns
<1>2. IsFiniteSet(Returns(a))
  <2>1. Len(payments) \in Nat /\ Rows = 1..Len(payments)
    BY RowsAre
  <2>2. IsFiniteSet(Rows)
    BY <2>1, FS_Interval
  <2> QED
    BY <1>1, <2>2, FS_Subset
<1>3. \A i \in Rows : Refunds[i] = payments[i].refund /\ payments[i].refund \in Nat
  BY RowsAre DEF Refunds, Payment
<1>4. \A h \in Handlers : Owes(a)[h] = OwedBy(job[h], a)
  BY DEF Owes, OwedBy
<1>5. \A h \in Handlers : Owes(a)[h] \in Nat
  BY <1>4, OwesType
<1>6. Total(Refunds, Returns(a)) \in Nat
  BY <1>1, <1>2, <1>3, TotalOfMore
<1>7. Total(Owes(a), Handlers) \in Nat
  BY <1>5, PeopleAssumption, TotalOfMore
<1> QED
  BY <1>1, <1>2, <1>3, <1>4, <1>6, <1>7

\* What the others owe stays while a handler moves.
LEMMA OwesChange ==
    ASSUME PInv, [Next]_pvars, NEW h \in Handlers, Acts(h), NEW a \in Attempts
    PROVE  Total(Owes(a)', Handlers) =
             Total(Owes(a), Handlers) - OwedBy(job[h], a) + OwedBy(job'[h], a)
<1>0. TypeOK /\ TypeOK'
  BY TypeStep DEF PInv
<1> DEFINE f == Owes(a)
<1> DEFINE g == Owes(a)'
<1>1. \A x \in Handlers : f[x] = OwedBy(job[x], a) /\ g[x] = OwedBy(job'[x], a)
  BY DEF Owes, OwedBy
<1>2. \A x \in Handlers : f[x] \in Int /\ g[x] \in Int
  <2>1. \A x \in Handlers : OwedBy(job[x], a) \in Nat
    BY <1>0, OwesType
  <2>2. \A x \in Handlers : OwedBy(job'[x], a) \in Nat
    <3> TAKE x \in Handlers
    <3>1. job'[x] \in Job
      BY <1>0 DEF TypeOK
    <3> QED
      BY <3>1, JobFields DEF OwedBy
  <2> HIDE DEF f, g
  <2> QED
    BY <1>1, <2>1, <2>2
<1>3. \A x \in Handlers \ {h} : f[x] = g[x]
  <2>1. \A x \in Handlers \ {h} : job'[x] = job[x]
    BY <1>0, OneMoves
  <2> HIDE DEF f, g
  <2> QED
    BY <1>1, <2>1
<1>4. f[h] = OwedBy(job[h], a) /\ g[h] = OwedBy(job'[h], a)
  BY <1>1
<1> HIDE DEF f, g
<1>5. Total(g, Handlers) = Total(f, Handlers) - f[h] + g[h]
  BY <1>2, <1>3, PeopleAssumption, TotalChange
<1>6. Total(g, Handlers) = Total(f, Handlers) - OwedBy(job[h], a) + OwedBy(job'[h], a)
  BY <1>4, <1>5
<1> QED
  BY <1>6 DEF f, g

\* A handler comes to owe only what Stripe has just paid back, or owed already.
LEMMA OwesAfter ==
    ASSUME PInv, [Next]_pvars, NEW h \in Handlers, Acts(h), ~(StripeRefund(h) /\ RefundStep(h)),
           NEW a \in Attempts
    PROVE  OwedBy(job'[h], a) = 0 \/ OwedBy(job'[h], a) = OwedBy(job[h], a)
<1>1. CASE SelectRefunded(h)
  <2>1. job[h].at = "select"
    BY <1>1 DEF SelectRefunded
  <2>2. ASSUME NEW row \in Rows, job'[h] = [at |-> "write", row |-> row,
                                  amount |-> job[h].amount, returned |-> job[h].returned]
        PROVE  OwedBy(job'[h], a) = OwedBy(job[h], a)
    BY <2>1, <2>2 DEF OwedBy
  <2>3. ASSUME job'[h] = NoJob PROVE OwedBy(job'[h], a) = 0
    BY <2>3, KindsOfJobs, OwesNothing
  <2> QED
    BY <1>1, <2>2, <2>3, SelectRefundedNext
<1>2. CASE Begins(h)
  <2>0. TypeOK /\ NoAttempt # a
    BY ProvidersAssumption DEF PInv
  <2>1. ASSUME NEW row \in Rows, NEW cents \in Nat,
               job'[h] = [at |-> "refund", row |-> row, amount |-> cents]
        PROVE  OwedBy(job'[h], a) = 0
    BY <2>1, OwesNothing
  <2>2. ASSUME NEW todo \in SUBSET Persons, job'[h] = BookJob(todo, 0)
        PROVE  OwedBy(job'[h], a) = 0
    BY <2>2, KindsOfJobs, OwesNothing
  <2>3. ASSUME NEW b \in Attempts, job'[h] = [at |-> "check", a |-> b]
                                   \/ job'[h] = [at |-> "capture", a |-> b]
        PROVE  OwedBy(job'[h], a) = 0
    BY <2>3, OwesNothing
  <2>4. ASSUME NEW p \in Persons, NEW cents \in Nat,
               job'[h] = [at |-> "select", user |-> p, amount |-> cents, returned |-> NoAttempt]
        PROVE  OwedBy(job'[h], a) = 0
    BY <2>0, <2>4, OwesNothing
  <2>5. ASSUME job'[h].at = "notify" PROVE OwedBy(job'[h], a) = 0
    BY <2>5, OwesNothing
  <2> QED
    BY <1>2, <2>0, <2>1, <2>2, <2>3, <2>4, <2>5, BeginsNext
<1>3. CASE StripeRefund(h)
  <2>1. job'[h] = NoJob
    BY <1>3, StripeRefundNext
  <2> QED
    BY <2>1, KindsOfJobs, OwesNothing
<1>4. CASE ~SelectRefunded(h) /\ ~Begins(h) /\ ~StripeRefund(h)
  <2>1. job'[h].at \notin {"select", "write"}
    BY <1>4, NoRefundBegins
  <2> QED
    BY <2>1, OwesNothing
<1> QED
  BY <1>1, <1>2, <1>3, <1>4

\* What is written down stays while rows keep their refund, and new ones have none.
LEMMA ReturnsSame ==
    ASSUME PInv, NEW a \in Attempts, Rows \subseteq Rows',
           \A i \in Rows : payments'[i].refund = payments[i].refund
                           /\ payments'[i].returned = payments[i].returned,
           \A i \in Rows' \ Rows : payments'[i].returned # a
    PROVE  Total(Refunds', Returns(a)') = Total(Refunds, Returns(a))
<1>0. TypeOK
  BY DEF PInv
<1>1. Returns(a)' = Returns(a)
  BY DEF Returns
<1> DEFINE f == Refunds
<1> DEFINE g == Refunds'
<1>2. \A i \in Returns(a) : g[i] = f[i]
  <2> TAKE i \in Returns(a)
  <2>1. i \in Rows /\ i \in Rows'
    BY DEF Returns
  <2> QED
    BY <2>1 DEF Refunds
<1>3. IsFiniteSet(Returns(a))
  BY <1>0, RefundTypes
<1> HIDE DEF f, g
<1>4. Total(g, Returns(a)) = Total(f, Returns(a))
  BY <1>2, <1>3, TotalSame
<1> QED
  BY <1>1, <1>4 DEF f, g

\* A refund is written to one row; what another refund had written there is lost.
LEMMA ReturnsWritten ==
    ASSUME PInv, [Next]_pvars, NEW h \in Handlers, WriteRefund(h), NEW a \in Attempts
    PROVE  /\ Total(Refunds', Returns(a)') \in Int
           /\ Total(Refunds', Returns(a)') <= Total(Refunds, Returns(a)) + OwedBy(job[h], a)
<1>0. TypeOK /\ TypeOK'
  BY TypeStep DEF PInv
<1>1. /\ job[h].at = "write" /\ job[h].row \in Rows
      /\ RowWritten(job[h].row, Refunded(h))
  BY WriteRefundWrites
<1>2. PICK i, r, n : i = job[h].row /\ r = job[h].returned /\ n = job[h].amount
  OBVIOUS
<1>3. n \in Nat /\ OwedBy(job[h], a) = IF r = a THEN n ELSE 0
  BY <1>0, <1>1, <1>2, JobFields DEF TypeOK, OwedBy
<1>4. Refunded(h).returned = r /\ Refunded(h).refund = n
  <2>1. payments[i] \in Payment
    BY <1>0, <1>1, <1>2, RowsAre
  <2> QED
    BY <1>2, <2>1 DEF Refunded, Payment
<1>5. /\ Rows' = Rows /\ i \in Rows /\ payments'[i].returned = r /\ payments'[i].refund = n
      /\ \A j \in Rows \ {i} : payments'[j] = payments[j]
  BY <1>1, <1>2, <1>4 DEF RowWritten
<1> DEFINE f == Refunds
<1> DEFINE g == Refunds'
<1> DEFINE S == Returns(a)
<1> DEFINE T == S \ {i}
<1>6. /\ \A j \in S : f[j] \in Nat
      /\ IsFiniteSet(S) /\ IsFiniteSet(T)
  <2>1. S \in SUBSET Rows /\ IsFiniteSet(S) /\ \A j \in Rows : f[j] \in Nat
    BY <1>0, RefundTypes
  <2>2. IsFiniteSet(T)
    BY <2>1, FS_Subset
  <2> QED
    BY <2>1, <2>2
<1>7. \A j \in T : g[j] = f[j]
  BY <1>5 DEF Refunds, Returns
<1>8. g[i] = n
  BY <1>5 DEF Refunds
<1>9. Returns(a)' = IF r = a THEN T \cup {i} ELSE T
  BY <1>5 DEF Returns
<1> HIDE DEF f, g, S
<1>10. /\ Total(f, S) \in Nat /\ Total(f, T) \in Nat /\ Total(f, T) <= Total(f, S)
  <2>1. Total(f, S) \in Nat
    BY <1>6, TotalOfMore
  <2>2. T \in SUBSET S
    OBVIOUS
  <2> HIDE DEF T
  <2> QED
    BY <1>6, <2>1, <2>2, TotalOfMore
<1>11. Total(g, T) = Total(f, T)
  BY <1>6, <1>7, TotalSame
<1>12. Total(g, T \cup {i}) = Total(g, T) + n
  <2>1. i \notin T /\ \A j \in T \cup {i} : g[j] \in Int
    BY <1>3, <1>6, <1>7, <1>8
  <2> HIDE DEF T
  <2> QED
    BY <1>6, <1>8, <2>1, TotalAdd
<1> DEFINE x == Total(f, S)
<1> DEFINE y == Total(f, T)
<1> DEFINE z == Total(g, Returns(a)')
<1>13. x \in Nat /\ y \in Nat /\ y <= x /\ z = IF r = a THEN y + n ELSE y
  BY <1>9, <1>10, <1>11, <1>12
<1> HIDE DEF x, y, z
<1>14. z \in Int /\ z <= x + OwedBy(job[h], a)
  BY <1>3, <1>13
<1> QED
  BY <1>14 DEF x, z, f, g, S

\* A handler writes down only what it owes.
LEMMA RefundsWritten ==
    ASSUME PInv, [Next]_pvars, NEW h \in Handlers, Acts(h),
           ~(StripeRefund(h) /\ RefundStep(h)), NEW a \in Attempts
    PROVE  /\ Total(Refunds', Returns(a)') \in Int
           /\ Total(Refunds', Returns(a)') + OwedBy(job'[h], a)
                <= Total(Refunds, Returns(a)) + OwedBy(job[h], a)
<1>0. TypeOK
  BY DEF PInv
<1> DEFINE x == Total(Refunds, Returns(a))
<1> DEFINE z == Total(Refunds', Returns(a)')
<1> DEFINE m == OwedBy(job[h], a)
<1> DEFINE n == OwedBy(job'[h], a)
<1>1. x \in Nat /\ m \in Nat /\ (n = 0 \/ n = m)
  <2>1. x \in Nat
    BY <1>0, RefundTypes
  <2>2. m \in Nat
    BY <1>0, OwesType
  <2>3. n = 0 \/ n = m
    BY OwesAfter
  <2> QED
    BY <2>1, <2>2, <2>3
<1>2. ASSUME z = x PROVE z \in Int /\ z + n <= x + m
  <2> HIDE DEF x, z, m, n
  <2> QED
    BY <1>1, <1>2
<1>3. CASE UNCHANGED payments
  <2>1. z = x
    BY <1>3 DEF Refunds, Returns, Rows
  <2> QED
    BY <1>2, <2>1
<1>4. CASE Adds(h)
  <2>1. PICK row : RowAdded(row) /\ row.returned = NoAttempt
    BY <1>4, AddsRow
  <2>2. NoAttempt # a
    BY ProvidersAssumption
  <2>3. z = x
    <3>1. Rows \subseteq Rows' /\ \A i \in Rows : payments'[i] = payments[i]
      BY <2>1 DEF RowAdded
    <3>2. \A i \in Rows' \ Rows : payments'[i].returned # a
      BY <2>1, <2>2 DEF RowAdded
    <3> QED
      BY <3>1, <3>2, ReturnsSame
  <2> QED
    BY <1>2, <2>3
<1>5. CASE LogReceived(h)
  <2>1. PICK i \in Rows : RowWritten(i, [payments[i] EXCEPT !.receipts = 1])
    BY <1>5, LogReceivedWrites
  <2>2. \A j \in Rows : payments'[j].refund = payments[j].refund
                        /\ payments'[j].returned = payments[j].returned
    <3> DEFINE row == [payments[i] EXCEPT !.receipts = 1]
    <3>1. payments[i] \in Payment
      BY <1>0, RowsAre
    <3>2. row.refund = payments[i].refund /\ row.returned = payments[i].returned
      BY <3>1 DEF Payment
    <3>3. \A j \in Rows : payments'[j] = IF j = i THEN row ELSE payments[j]
      BY <2>1 DEF RowWritten
    <3> HIDE DEF row
    <3> QED
      BY <3>2, <3>3
  <2>3. z = x
    BY <2>1, <2>2, ReturnsSame DEF RowWritten
  <2> QED
    BY <1>2, <2>3
<1>6. CASE WriteRefund(h)
  <2>1. z \in Int /\ z <= x + m
    BY <1>6, ReturnsWritten
  <2>2. n = 0
    <3>1. job'[h] = NoJob
      BY <1>6, EndsNext
    <3> QED
      BY <3>1, KindsOfJobs, OwesNothing
  <2> HIDE DEF x, z, m, n
  <2>3. z \in Int /\ z + n <= x + m
    BY <1>1, <2>1, <2>2
  <2> QED
    BY <2>3 DEF x, z, m, n
<1>7. UNCHANGED payments \/ Adds(h) \/ LogReceived(h) \/ WriteRefund(h)
  BY ActsPay DEF Pays, Adds
<1> QED
  BY <1>3, <1>4, <1>5, <1>6, <1>7

\* What Stripe has paid back is never taken back.
LEMMA RefundsGrow ==
    ASSUME PInv, [Next]_pvars, NEW a \in Attempts
    PROVE  attempt[a].refunds \in Nat /\ attempt'[a].refunds \in Nat
           /\ attempt[a].refunds <= attempt'[a].refunds
<1>0. TypeOK /\ TypeOK' /\ PricedAsDue(a)
  BY TypeStep DEF PInv, AttemptsPriced
<1>1. attempt[a].refunds \in Nat /\ attempt'[a].refunds \in Nat
  BY <1>0 DEF TypeOK, Attempt
<1>2. CASE attempt[a].state = "none"
  <2>1. attempt[a].refunds = 0
    BY <1>0, <1>2 DEF PricedAsDue, NotStarted
  <2> QED
    BY <1>1, <2>1
<1>3. CASE attempt[a].state # "none"
  BY <1>1, <1>3, AttemptsStay DEF SameAttempt
<1> QED
  BY <1>2, <1>3

\* What is written down, or still to be written, was paid back before.
LEMMA RefundsBackedStep ==
    ASSUME PInv, [Next]_pvars
    PROVE  RefundsBacked'
<1>0. TypeOK /\ RefundsBacked
  BY DEF PInv
<1> SUFFICES ASSUME NEW a \in Attempts
             PROVE  Total(Refunds', Returns(a)') + Total(Owes(a)', Handlers) <= attempt'[a].refunds
  BY DEF RefundsBacked
<1> DEFINE s == Total(Refunds, Returns(a))
<1> DEFINE t == Total(Refunds', Returns(a)')
<1> DEFINE o == Total(Owes(a), Handlers)
<1> DEFINE q == Total(Owes(a)', Handlers)
<1>1. s \in Nat /\ o \in Nat /\ s + o <= attempt[a].refunds
  BY <1>0, RefundTypes DEF RefundsBacked
<1>2. attempt[a].refunds \in Nat /\ attempt'[a].refunds \in Nat
      /\ attempt[a].refunds <= attempt'[a].refunds
  BY RefundsGrow
<1>3. ASSUME NEW h \in Handlers, Acts(h), ~(StripeRefund(h) /\ RefundStep(h))
      PROVE  t + q <= attempt'[a].refunds
  <2> DEFINE m == OwedBy(job[h], a)
  <2> DEFINE n == OwedBy(job'[h], a)
  <2>1. q = o - m + n
    BY <1>3, OwesChange
  <2>2. t \in Int /\ t + n <= s + m
    BY <1>3, RefundsWritten
  <2>3. m \in Nat /\ n \in Nat
    <3>1. m \in Nat
      BY <1>0, OwesType
    <3> QED
      BY <1>3, <3>1, OwesAfter
  <2> HIDE DEF s, t, o, q, m, n
  <2> QED
    BY <1>1, <1>2, <2>1, <2>2, <2>3
<1>4. ASSUME NEW h \in Handlers, Acts(h), StripeRefund(h), RefundStep(h)
      PROVE  t + q <= attempt'[a].refunds
  <2> DEFINE m == OwedBy(job[h], a)
  <2> DEFINE n == OwedBy(job'[h], a)
  <2>1. q = o - m + n
    BY <1>4, OwesChange
  <2>2. /\ job[h].at = "refund" /\ job[h].amount \in Nat /\ payments[job[h].row].via \in Attempts
    BY <1>4, RefundIsKnown
  <2>3. PICK b, c : b \in Attempts /\ b = payments[job[h].row].via /\ c = job[h].amount
    BY <2>2
  <2>4. m = 0
    BY <2>2, OwesNothing
  <2>5. t = s
    BY <1>4 DEF StripeRefund, Refunds, Returns, Rows
  <2>6. n = IF b = a THEN c ELSE 0
    <3>1. job'[h] = [at |-> "select", user |-> payments[job[h].row].user, amount |-> c, returned |-> b]
      BY <1>0, <1>4, <2>3 DEF RefundStep, TypeOK
    <3> QED
      BY <3>1 DEF OwedBy
  <2>7. attempt'[a].refunds = IF b = a THEN attempt[a].refunds + c ELSE attempt[a].refunds
    <3>0. attempt' = [attempt EXCEPT ![payments[job[h].row].via] =
                        [attempt[payments[job[h].row].via] EXCEPT !.refunds = @ + job[h].amount]]
      BY <1>4 DEF RefundStep
    <3>1. attempt' = [attempt EXCEPT ![b] = [attempt[b] EXCEPT !.refunds = @ + c]]
      BY ONLY <2>3, <3>0
    <3> QED
      BY <1>0, <3>1 DEF TypeOK, Attempt
  <2> HIDE DEF s, t, o, q, m, n
  <2> QED
    BY <1>1, <1>2, <2>1, <2>2, <2>3, <2>4, <2>5, <2>6, <2>7
<1>5. ASSUME UNCHANGED payments, UNCHANGED job \/ job' = [h \in Handlers |-> NoJob]
      PROVE  t + q <= attempt'[a].refunds
  <2>1. t = s
    BY <1>5 DEF Refunds, Returns, Rows
  <2>2. CASE UNCHANGED job
    <3>1. q = o
      BY <2>2 DEF Owes
    <3> HIDE DEF s, t, o, q
    <3> QED
      BY <1>1, <1>2, <2>1, <3>1
  <2>3. CASE job' = [h \in Handlers |-> NoJob]
    <3> DEFINE f == Owes(a)'
    <3>1. \A h \in Handlers : f[h] = 0
      BY <2>3 DEF Owes, NoJob
    <3> HIDE DEF f
    <3>2. Total(f, Handlers) = 0
      BY <3>1, PeopleAssumption, TotalOfZeros
    <3>3. q = 0
      BY <3>2 DEF f
    <3> HIDE DEF s, t, o, q
    <3> QED
      BY <1>1, <1>2, <2>1, <3>3
  <2> QED
    BY <1>5, <2>2, <2>3
<1>6. ASSUME NEW h \in Handlers, Acts(h) PROVE t + q <= attempt'[a].refunds
  BY <1>3, <1>4, <1>6
<1> HIDE DEF t, q
<1>7. t + q <= attempt'[a].refunds
  BY <1>0, <1>5, <1>6, OnlyHandlersMove, PaymentsWritten
<1> QED
  BY <1>7 DEF t, q

-----------------------------------------------------------------------------
(* The theorems *)

\* The invariant holds at the start.
LEMMA PInvStarts ==
    ASSUME Init
    PROVE  PInv
<1>1. PICK list \in [Persons -> ListPrices] :
        reg = [p \in Persons |-> [list |-> list[p], booked |-> 0, due |-> list[p], paid |-> FALSE,
                                  notified |-> FALSE]]
  BY DEF Init
<1>2. /\ payments = <<>> /\ overpaid = {} /\ transfers = {} /\ listed = {} /\ changed = {}
      /\ clicks = 0 /\ faults = 0 /\ ops \in Scenarios
      /\ job = [h \in Handlers |-> NoJob]
      /\ \A a \in Attempts : attempt[a] = NotStarted
  BY DEF Init
<1>3. \A h \in Handlers : job[h] = NoJob /\ job[h].at = "idle"
  BY <1>2 DEF NoJob
<1>4. Rows = {} /\ Len(payments) = 0
  BY <1>2, EmptySeq DEF Rows
<1>5. TypeOK
  <2>1. reg \in [Persons -> Registration]
    <3>1. \A p \in Persons : list[p] \in Due
      BY <1>1, AmountsOfMoneyAssumption DEF Due
    <3> QED
      BY <1>1, <3>1 DEF Registration
  <2>2. payments \in Seq(Payment)
    BY <1>2, EmptySeq
  <2>3. attempt \in [Attempts -> Attempt]
    BY DEF Init, Attempt, NotStarted
  <2>4. job \in [Handlers -> Job]
    BY <1>2, JobsOfKinds
  <2> QED
    BY <1>2, <2>1, <2>2, <2>3, <2>4 DEF TypeOK
<1>6. RowsUnique /\ RowsStarted
  BY <1>4 DEF RowsUnique, RowsStarted
<1>7. ReceiptsDue
  BY <1>3, <1>4 DEF ReceiptsDue, Announces
<1>8. RowsLocked
  BY <1>3 DEF RowsLocked
<1>9. AttemptsPriced
  BY <1>2 DEF AttemptsPriced, PricedAsDue, NotStarted
<1>10. BookingsSound
  BY <1>3 DEF BookingsSound, Sound, Deals, Books
<1>11. RefundsKnown
  BY <1>3 DEF RefundsKnown
<1>12. RefundsBacked
  <2> SUFFICES ASSUME NEW a \in Attempts
               PROVE  Total(Refunds, Returns(a)) + Total(Owes(a), Handlers) <= attempt[a].refunds
    BY DEF RefundsBacked
  <2>1. Total(Refunds, Returns(a)) = 0
    <3>1. Returns(a) = {}
      BY <1>4 DEF Returns
    <3> QED
      BY <3>1, TotalOfNothing
  <2>2. Total(Owes(a), Handlers) = 0
    <3>1. \A h \in Handlers : Owes(a)[h] = 0
      BY <1>3 DEF Owes
    <3> QED
      BY <3>1, PeopleAssumption, TotalOfZeros
  <2>3. attempt[a].refunds = 0
    BY <1>2 DEF NotStarted
  <2> QED
    BY <2>1, <2>2, <2>3
<1>13. AnsweredIsAccounted
  BY <1>2 DEF AnsweredIsAccounted, NotStarted
<1> QED
  BY <1>5, <1>6, <1>7, <1>8, <1>9, <1>10, <1>11, <1>12, <1>13 DEF PInv

\* And after every step.
LEMMA PInvSteps ==
    ASSUME PInv, [Next]_pvars
    PROVE  PInv'
  BY TypeStep, RowsUniqueStep, ReceiptsDueStep, RowsLockedStep, AttemptsPricedStep,
     BookingsSoundStep, RowsStartedStep, RefundsKnownStep, RefundsBackedStep, AnsweredStep
  DEF PInv

LEMMA PInvAlways == Spec => []PInv
<1>1. Init => PInv
  BY PInvStarts
<1>2. PInv /\ [Next]_pvars => PInv'
  BY PInvSteps
<1> QED
  BY <1>1, <1>2, PTL DEF Spec

\* Amounts are never negative, and every handler knows what it is doing: in particular
\* no amount due is booked or reduced below zero (setDiscount, setRegistrationAmountDue).
THEOREM PaymentsTypeCorrect == Spec => []TypeOK
<1>1. PInv => TypeOK
  BY DEF PInv
<1> QED
  BY <1>1, PInvAlways, PTL

\* A payment is booked once for each person and announced once, however often it is
\* reported and by however many handlers (payments_provider_reference_idx,
\* recordSuccessfulStripePayment).
THEOREM BookedOnceCorrect == Spec => []BookedOnce
<1>1. ASSUME PInv PROVE BookedOnce
  <2>1. ASSUME NEW a \in Attempts, NEW p \in Persons PROVE Cardinality(RowsFor(a, p)) <= 1
    <3>1. RowsFor(a, p) \in SUBSET Rows
      BY DEF RowsFor
    <3>2. \A i, j \in RowsFor(a, p) : i = j
      BY <1>1, ProvidersAssumption DEF PInv, RowsUnique, RowsFor
    <3>3. CASE RowsFor(a, p) = {}
      <4>1. Cardinality({}) = 0
        BY FS_EmptySet
      <4> QED
        BY <3>3, <4>1
    <3>4. CASE RowsFor(a, p) # {}
      <4>1. PICK i : RowsFor(a, p) = {i}
        BY <3>2, <3>4
      <4>2. Cardinality({i}) = 1
        BY FS_Singleton
      <4> QED
        BY <4>1, <4>2
    <3> QED
      BY <3>3, <3>4
  <2>2. \A i \in Rows : payments[i].receipts <= 1
    BY <1>1 DEF PInv, ReceiptsDue
  <2> QED
    BY <2>1, <2>2 DEF BookedOnce
<1> QED
  BY <1>1, PInvAlways, PTL

\* A payment answered as booked left nobody out, and only a changed amount lets one be
\* refused (recordGroupPayment, bookPaypalOrder).
THEOREM AnsweredIsAccountedCorrect == Spec => []AnsweredIsAccounted
<1>1. PInv => AnsweredIsAccounted
  BY DEF PInv
<1> QED
  BY <1>1, PInvAlways, PTL

\* What the books say Stripe paid back, it paid back (POST refund, refundPayment).
THEOREM BookedRefundIsRealCorrect == Spec => []BookedRefundIsReal
<1>1. ASSUME PInv PROVE BookedRefundIsReal
  <2> SUFFICES ASSUME NEW a \in Attempts
               PROVE  Total(Refunds, Returns(a)) <= attempt[a].refunds
    BY DEF BookedRefundIsReal, Refunds, Returns
  <2>1. TypeOK /\ Total(Refunds, Returns(a)) + Total(Owes(a), Handlers) <= attempt[a].refunds
    BY <1>1 DEF PInv, RefundsBacked
  <2>2. Total(Refunds, Returns(a)) \in Nat /\ Total(Owes(a), Handlers) \in Nat
    BY <2>1, RefundTypes
  <2>3. attempt[a].refunds \in Nat
    BY <2>1 DEF TypeOK, Attempt
  <2> QED
    BY <2>1, <2>2, <2>3
<1> QED
  BY <1>1, PInvAlways, PTL

\* A row that is added is justified, as BookingsAreJustified says.
Justified(i) ==
    LET row == payments'[i]
        due == reg[row.user].due
    IN  IF reg[row.user].paid THEN row.via # NoAttempt
        ELSE \/ row.amount >= due
             \/ \E h \in Handlers : /\ job[h].at = "record" /\ row.user \in job[h].todo
                                    /\ job[h].seen[row.user] # due

\* Money that came in online covers what was read before it was booked.
LEMMA ReceivedIsJustified ==
    ASSUME PInv, NEW h \in Handlers, NEW p \in job[h].todo, Received(h, p),
           NEW i \in Rows' \ Rows
    PROVE  Justified(i)
<1>0. TypeOK /\ job[h].at = "record" /\ Books(h)
  BY DEF PInv, Received, Books
<1>1. PICK a, seen, todo : a = job[h].a /\ seen = job[h].seen /\ todo = job[h].todo
  OBVIOUS
<1>2. p \in Persons /\ a \in Attempts
  BY <1>0, <1>1, ShareType
<1>3. payments'[i] = NewRow(p, Share(h, p), a)
  BY <1>1 DEF Received, RowAdded
<1>4. payments'[i].user = p /\ payments'[i].via = a /\ payments'[i].amount = Share(h, p)
  BY <1>3 DEF NewRow
<1>5. a # NoAttempt
  BY <1>2, ProvidersAssumption
<1>6. ASSUME seen[p] = reg[p].due PROVE Share(h, p) >= reg[p].due
  <2>1. seen[p] \in Nat /\ (attempt[a].group \/ seen[p] <= attempt[a].amount)
    BY <1>0, <1>1, BooksSoundly
  <2>2. Share(h, p) = IF attempt[a].group THEN seen[p] ELSE attempt[a].amount
    BY <1>1 DEF Share
  <2>3. attempt[a].amount \in Nat
    BY <1>0, <1>2 DEF TypeOK, Attempt
  <2> QED
    BY <1>6, <2>1, <2>2, <2>3
<1>7. CASE reg[p].paid
  BY <1>4, <1>5, <1>7 DEF Justified
<1>8. CASE ~reg[p].paid /\ seen[p] # reg[p].due
  BY <1>0, <1>1, <1>4, <1>8 DEF Justified
<1>9. CASE ~reg[p].paid /\ seen[p] = reg[p].due
  BY <1>4, <1>6, <1>9 DEF Justified
<1> QED
  BY <1>7, <1>8, <1>9

\* Whoever is booked by hand was locked as they are.
LEMMA ByHandIsJustified ==
    ASSUME PInv, NEW h \in Handlers, ByHand(h), NEW i \in Rows' \ Rows
    PROVE  Justified(i)
<1>1. PICK p \in Persons : p = job[h].user
  BY DEF ByHand
<1>2. job[h].seen = reg[p] /\ ~reg[p].paid
  BY <1>1 DEF ByHand
<1>3. payments'[i] = NewRow(p, reg[p].due, NoAttempt)
  BY <1>1, <1>2 DEF ByHand, RowAdded
<1>4. payments'[i].user = p /\ payments'[i].amount = reg[p].due
  BY <1>3 DEF NewRow
<1>5. reg[p].due \in Int
  BY DuesAreRead DEF PInv
<1>6. reg[p].due >= reg[p].due
  BY <1>5
<1> QED
  BY <1>2, <1>4, <1>6 DEF Justified

\* A row that ends an open balance covers what is due, unless that was changed after
\* it was read; and nobody is booked by hand who is paid (markPaidManually, bookItem).
THEOREM BookingsAreJustifiedCorrect == Spec => BookingsAreJustified
<1>1. ASSUME PInv, [Next]_pvars PROVE \A i \in DOMAIN payments' \ DOMAIN payments : Justified(i)
  <2> SUFFICES ASSUME NEW i \in Rows' \ Rows PROVE Justified(i)
    BY DEF Rows
  <2>1. CASE UNCHANGED payments
    BY <2>1 DEF Rows
  <2>2. ASSUME NEW h \in Handlers, Acts(h), Pays(h) PROVE Justified(i)
    <3>1. CASE \E p \in job[h].todo : Received(h, p)
      BY <1>1, <3>1, ReceivedIsJustified
    <3>2. CASE ByHand(h)
      BY <1>1, <3>2, ByHandIsJustified
    <3>3. CASE LogReceived(h) \/ WriteRefund(h)
      BY <1>1, <3>3, LogReceivedWrites, WriteRefundWrites DEF RowWritten
    <3> QED
      BY <2>2, <3>1, <3>2, <3>3 DEF Pays
  <2> QED
    BY <1>1, <2>1, <2>2, PaymentsWritten
<1>2. ASSUME PInv, [Next]_pvars
      PROVE  [\A i \in DOMAIN payments' \ DOMAIN payments : Justified(i)]_pvars
  BY <1>1, <1>2
<1> QED
  BY <1>2, PInvAlways, PTL DEF Spec, BookingsAreJustified, Justified
=============================================================================
