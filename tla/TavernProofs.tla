----------------------------- MODULE TavernProofs -----------------------------
(* Theorems about Tavern, for every value of its constants.                *)
EXTENDS Tavern, FiniteSetTheorems, WellFoundedInduction, SequenceTheorems, TLAPS

-----------------------------------------------------------------------------
(* What the provers need to know about sums: they are defined, they are    *)
(* integers, and they do not depend on the order.  Induction over finite   *)
(* sets is done by a smallest counterexample.                              *)

\* Among subsets of a finite set there is one with no other below it.
LEMMA SmallestSubset ==
    ASSUME NEW S, IsFiniteSet(S), NEW Bad \in SUBSET SUBSET S, Bad # {}
    PROVE  \E T \in Bad : \A U \in Bad : U \subseteq T => U = T
<1> DEFINE Sizes == {Cardinality(T) : T \in Bad}
<1>1. \A T \in Bad : IsFiniteSet(T) /\ Cardinality(T) \in Nat
  BY FS_Subset, FS_CardinalityType
<1>2. PICK n \in Sizes : \A m \in Sizes : ~(m < n)
  <2>1. Sizes \subseteq Nat /\ Sizes # {}
    BY <1>1
  <2>2. \E n \in Sizes : \A m \in Sizes : <<m, n>> \notin OpToRel(<, Nat)
    <3> HIDE DEF Sizes
    <3> QED
      BY <2>1, NatLessThanWellFounded, WFMin
  <2> QED
    BY <2>1, <2>2 DEF OpToRel
<1>3. PICK T \in Bad : n = Cardinality(T)
  BY <1>2
<1>4. ASSUME NEW U \in Bad, U \subseteq T
      PROVE  U = T
  <2>1. Cardinality(U) \in Sizes /\ Cardinality(U) \in Nat /\ Cardinality(T) \in Nat
    BY <1>1
  <2>2. ~(Cardinality(U) < Cardinality(T))
    BY <1>2, <1>3, <2>1
  <2>3. Cardinality(U) <= Cardinality(T) /\ (Cardinality(U) = Cardinality(T) => U = T)
    BY <1>1, <1>4, FS_Subset
  <2> HIDE DEF Sizes
  <2> QED
    BY <2>1, <2>2, <2>3
<1> QED
  BY <1>4

-----------------------------------------------------------------------------
(* The recursion behind MapThenSumSet *)

Pick(s) == CHOOSE x \in s : TRUE
Sums(f, S, g) ==
    g = [s \in SUBSET S |-> IF s = {} THEN 0 ELSE f[Pick(s)] + g[s \ {Pick(s)}]]
SumsOf(f, S) == CHOOSE g : Sums(f, S, g)

\* The sum is the recursion's value for the whole set.
LEMMA TotalIsSums ==
    ASSUME NEW f, NEW S
    PROVE  Total(f, S) = SumsOf(f, S)[S]
  BY DEF Total, MapThenSumSet, MapThenFoldSet, SumsOf, Sums, Pick

\* What is picked from a set is in it.
LEMMA PickIsIn ==
    ASSUME NEW s, s # {}
    PROVE  Pick(s) \in s
  BY DEF Pick

\* Two such functions agree where both are defined.
LEMMA SumsAgree ==
    ASSUME NEW S, IsFiniteSet(S), NEW T \in SUBSET S, NEW f, NEW g, NEW h,
           Sums(f, S, g), Sums(f, T, h)
    PROVE  \A s \in SUBSET T : g[s] = h[s]
<1> DEFINE Bad == {s \in SUBSET T : g[s] # h[s]}
<1> SUFFICES ASSUME Bad # {} PROVE FALSE
  OBVIOUS
<1>1. Bad \in SUBSET SUBSET S
  OBVIOUS
<1>2. PICK s \in Bad : \A u \in Bad : u \subseteq s => u = s
  <2> HIDE DEF Bad
  <2> QED
    BY <1>1, SmallestSubset
<1>3. s \in SUBSET S /\ s \in SUBSET T /\ g[s] # h[s]
  OBVIOUS
<1>4. g[s] = IF s = {} THEN 0 ELSE f[Pick(s)] + g[s \ {Pick(s)}]
  BY <1>3 DEF Sums
<1>5. h[s] = IF s = {} THEN 0 ELSE f[Pick(s)] + h[s \ {Pick(s)}]
  BY <1>3 DEF Sums
<1>6. s # {}
  BY <1>3, <1>4, <1>5
<1>7. s \ {Pick(s)} \in SUBSET T /\ s \ {Pick(s)} # s /\ s \ {Pick(s)} \subseteq s
  BY <1>3, <1>6, PickIsIn
<1>8. g[s \ {Pick(s)}] = h[s \ {Pick(s)}]
  BY <1>2, <1>7
<1> QED
  BY <1>3, <1>4, <1>5, <1>6, <1>8

\* The recursion has a solution: one is built from those for the smaller sets.
LEMMA SumsExist ==
    ASSUME NEW S, IsFiniteSet(S), NEW f
    PROVE  Sums(f, S, SumsOf(f, S))
<1> DEFINE Bad == {T \in SUBSET S : ~ \E g : Sums(f, T, g)}
<1> SUFFICES ASSUME Bad # {} PROVE FALSE
  <2>1. S \notin Bad => \E g : Sums(f, S, g)
    OBVIOUS
  <2>2. (\E g : Sums(f, S, g)) => Sums(f, S, CHOOSE g : Sums(f, S, g))
    OBVIOUS
  <2> QED
    BY <2>1, <2>2 DEF SumsOf
<1>1. PICK T \in Bad : \A U \in Bad : U \subseteq T => U = T
  <2>1. Bad \in SUBSET SUBSET S
    OBVIOUS
  <2> HIDE DEF Bad
  <2> QED
    BY <2>1, SmallestSubset
<1>2. \A U \in SUBSET T : U # T => Sums(f, U, SumsOf(f, U))
  <2> SUFFICES ASSUME NEW U \in SUBSET T, U # T PROVE Sums(f, U, SumsOf(f, U))
    OBVIOUS
  <2>1. \E g : Sums(f, U, g)
    BY <1>1
  <2>2. Sums(f, U, CHOOSE g : Sums(f, U, g))
    BY <2>1
  <2> QED
    BY <2>2 DEF SumsOf
<1> DEFINE sub(s) == SumsOf(f, s)[s]
           h == [s \in SUBSET T |->
                   IF s = {} THEN 0
                   ELSE f[Pick(s)] + sub(s \ {Pick(s)})]
<1>3. ASSUME NEW s \in SUBSET T, s # T
      PROVE  h[s] = sub(s)
  <2>1. Sums(f, s, SumsOf(f, s))
    BY <1>2, <1>3
  <2>2. sub(s) = IF s = {} THEN 0 ELSE f[Pick(s)] + SumsOf(f, s)[s \ {Pick(s)}]
    BY <2>1 DEF Sums
  <2>3. CASE s = {}
    BY <2>2, <2>3
  <2>4. CASE s # {}
    <3> DEFINE u == s \ {Pick(s)}
    <3>1. u \in SUBSET s /\ u \in SUBSET T /\ u # T
      BY <1>3, <2>4, PickIsIn
    <3>2. Sums(f, u, SumsOf(f, u))
      BY <1>2, <3>1
    <3>3. IsFiniteSet(s)
      BY FS_Subset
    <3>4. SumsOf(f, s)[u] = SumsOf(f, u)[u]
      <4> HIDE DEF u
      <4> QED
        BY <2>1, <3>1, <3>2, <3>3, SumsAgree
    <3> QED
      BY <2>2, <2>4, <3>4
  <2> QED
    BY <2>3, <2>4
<1>4. Sums(f, T, h)
  <2>1. ASSUME NEW s \in SUBSET T, s # {}
        PROVE  sub(s \ {Pick(s)}) = h[s \ {Pick(s)}]
    <3>1. s \ {Pick(s)} \in SUBSET T /\ s \ {Pick(s)} # T
      BY <2>1, PickIsIn
    <3> HIDE DEF h, sub
    <3> QED
      BY <1>3, <3>1
  <2>2. h = [s \in SUBSET T |-> IF s = {} THEN 0 ELSE f[Pick(s)] + h[s \ {Pick(s)}]]
    <3> HIDE DEF sub
    <3> QED
      BY <2>1
  <2> HIDE DEF h
  <2> QED
    BY <2>2 DEF Sums
<1> QED
  BY <1>1, <1>4

-----------------------------------------------------------------------------
(* What is cited elsewhere *)

\* The sum of nothing is zero.
LEMMA TotalOfNothing ==
    ASSUME NEW f
    PROVE  Total(f, {}) = 0
<1>1. Sums(f, {}, SumsOf(f, {}))
  BY SumsExist, FS_EmptySet
<1> QED
  BY <1>1, TotalIsSums DEF Sums

\* One step of the recursion, on sums.
LEMMA TotalOfPick ==
    ASSUME NEW f, NEW S, IsFiniteSet(S), S # {}
    PROVE  Total(f, S) = f[Pick(S)] + Total(f, S \ {Pick(S)})
<1> DEFINE U == S \ {Pick(S)}
<1>1. Sums(f, S, SumsOf(f, S)) /\ IsFiniteSet(U) /\ U \in SUBSET S
  BY SumsExist, FS_Subset
<1>2. Sums(f, U, SumsOf(f, U))
  BY <1>1, SumsExist
<1>3. SumsOf(f, S)[S] = f[Pick(S)] + SumsOf(f, S)[U]
  BY <1>1 DEF Sums
<1>4. SumsOf(f, S)[U] = SumsOf(f, U)[U]
  <2> HIDE DEF U
  <2> QED
    BY <1>1, <1>2, SumsAgree
<1>5. Total(f, S) = SumsOf(f, S)[S] /\ Total(f, U) = SumsOf(f, U)[U]
  BY TotalIsSums
<1> QED
  BY <1>3, <1>4, <1>5

\* A sum of integers is an integer.
LEMMA TotalType ==
    ASSUME NEW f, NEW S, IsFiniteSet(S), \A x \in S : f[x] \in Int
    PROVE  Total(f, S) \in Int
<1> DEFINE Bad == {T \in SUBSET S : Total(f, T) \notin Int}
<1> SUFFICES ASSUME Bad # {} PROVE FALSE
  OBVIOUS
<1>1. PICK T \in Bad : \A U \in Bad : U \subseteq T => U = T
  <2>1. Bad \in SUBSET SUBSET S
    OBVIOUS
  <2> HIDE DEF Bad
  <2> QED
    BY <2>1, SmallestSubset
<1>2. T # {} /\ IsFiniteSet(T) /\ T \in SUBSET S
  <2>1. T \in SUBSET S /\ Total(f, T) \notin Int
    OBVIOUS
  <2>2. Total(f, {}) \in Int
    BY TotalOfNothing
  <2> HIDE DEF Bad
  <2> QED
    BY <2>1, <2>2, FS_Subset
<1>3. Total(f, T) = f[Pick(T)] + Total(f, T \ {Pick(T)}) /\ Pick(T) \in T
  BY <1>2, TotalOfPick, PickIsIn
<1>4. T \ {Pick(T)} \notin Bad
  BY <1>1, <1>3
<1>5. Total(f, T \ {Pick(T)}) \in Int
  BY <1>2, <1>4
<1> QED
  BY <1>2, <1>3, <1>5

\* Any element may be taken out first.
LEMMA TotalRemove ==
    ASSUME NEW f, NEW S, IsFiniteSet(S), \A x \in S : f[x] \in Int, NEW y \in S
    PROVE  Total(f, S) = f[y] + Total(f, S \ {y})
<1> DEFINE Bad == {T \in SUBSET S : \E z \in T : Total(f, T) # f[z] + Total(f, T \ {z})}
<1> SUFFICES ASSUME Bad # {} PROVE FALSE
  OBVIOUS
<1>1. PICK T \in Bad : \A U \in Bad : U \subseteq T => U = T
  <2>1. Bad \in SUBSET SUBSET S
    OBVIOUS
  <2> HIDE DEF Bad
  <2> QED
    BY <2>1, SmallestSubset
<1>2. PICK z \in T : Total(f, T) # f[z] + Total(f, T \ {z})
  OBVIOUS
<1> DEFINE x == Pick(T)
<1>3. T \in SUBSET S /\ IsFiniteSet(T) /\ x \in T
  BY FS_Subset, PickIsIn
<1> HIDE DEF x
<1>4. Total(f, T) = f[x] + Total(f, T \ {x})
  BY <1>3, TotalOfPick DEF x
<1>5. x # z
  BY <1>2, <1>4
<1>6. T \ {x} \notin Bad /\ T \ {z} \notin Bad
  BY <1>1, <1>3
<1>7. Total(f, T \ {x}) = f[z] + Total(f, (T \ {x}) \ {z})
  BY <1>3, <1>5, <1>6
<1> DEFINE U == (T \ {x}) \ {z}
<1>8. Total(f, T \ {z}) = f[x] + Total(f, U)
  <2>1. Total(f, T \ {z}) = f[x] + Total(f, (T \ {z}) \ {x})
    BY <1>3, <1>5, <1>6
  <2>2. (T \ {z}) \ {x} = U
    OBVIOUS
  <2> QED
    BY <2>1, <2>2
<1>9. Total(f, U) \in Int
  BY <1>3, FS_Subset, TotalType
<1>10. f[x] \in Int /\ f[z] \in Int
  BY <1>3
<1> HIDE DEF Bad, U
<1>11. f[x] + (f[z] + Total(f, U)) = f[z] + (f[x] + Total(f, U))
  BY <1>9, <1>10
<1>12. Total(f, T) = f[x] + (f[z] + Total(f, U))
  BY <1>4, <1>7 DEF U
<1> QED
  BY <1>2, <1>8, <1>11, <1>12

\* Adding one element.
LEMMA TotalAdd ==
    ASSUME NEW f, NEW S, IsFiniteSet(S), NEW y, y \notin S,
           \A x \in S \cup {y} : f[x] \in Int
    PROVE  Total(f, S \cup {y}) = Total(f, S) + f[y]
<1>1. IsFiniteSet(S \cup {y}) /\ (S \cup {y}) \ {y} = S
  BY FS_AddElement
<1>2. Total(f, S \cup {y}) = f[y] + Total(f, S)
  BY <1>1, TotalRemove
<1>3. Total(f, S) \in Int /\ f[y] \in Int
  BY TotalType
<1> QED
  BY <1>2, <1>3

\* The sum depends on the function's values in the set only.
LEMMA TotalSame ==
    ASSUME NEW f, NEW g, NEW S, IsFiniteSet(S), \A x \in S : f[x] = g[x]
    PROVE  Total(f, S) = Total(g, S)
<1> DEFINE Bad == {T \in SUBSET S : Total(f, T) # Total(g, T)}
<1> SUFFICES ASSUME Bad # {} PROVE FALSE
  OBVIOUS
<1>1. PICK T \in Bad : \A U \in Bad : U \subseteq T => U = T
  <2>1. Bad \in SUBSET SUBSET S
    OBVIOUS
  <2> HIDE DEF Bad
  <2> QED
    BY <2>1, SmallestSubset
<1>2. T # {} /\ IsFiniteSet(T) /\ T \in SUBSET S
  BY TotalOfNothing, FS_Subset
<1>3. Pick(T) \in T /\ Total(f, T) = f[Pick(T)] + Total(f, T \ {Pick(T)})
                   /\ Total(g, T) = g[Pick(T)] + Total(g, T \ {Pick(T)})
  BY <1>2, TotalOfPick, PickIsIn
<1>4. T \ {Pick(T)} \notin Bad
  BY <1>1, <1>3
<1> QED
  BY <1>2, <1>3, <1>4

\* One value changes.
LEMMA TotalChange ==
    ASSUME NEW f, NEW g, NEW S, IsFiniteSet(S), NEW y \in S,
           \A x \in S : f[x] \in Int /\ g[x] \in Int,
           \A x \in S \ {y} : f[x] = g[x]
    PROVE  Total(g, S) = Total(f, S) - f[y] + g[y]
<1> DEFINE U == S \ {y}
<1>1. IsFiniteSet(U) /\ Total(f, U) \in Int
  BY FS_Subset, TotalType
<1>2. Total(f, U) = Total(g, U)
  BY <1>1, TotalSame
<1>3. Total(f, S) = f[y] + Total(f, U) /\ Total(g, S) = g[y] + Total(g, U)
  BY TotalRemove
<1> QED
  BY <1>1, <1>2, <1>3

\* A sum of zeros is zero.
LEMMA TotalOfZeros ==
    ASSUME NEW f, NEW S, IsFiniteSet(S), \A x \in S : f[x] = 0
    PROVE  Total(f, S) = 0
<1> DEFINE Bad == {T \in SUBSET S : Total(f, T) # 0}
<1> SUFFICES ASSUME Bad # {} PROVE FALSE
  OBVIOUS
<1>1. PICK T \in Bad : \A U \in Bad : U \subseteq T => U = T
  <2>1. Bad \in SUBSET SUBSET S
    OBVIOUS
  <2> HIDE DEF Bad
  <2> QED
    BY <2>1, SmallestSubset
<1>2. T # {} /\ IsFiniteSet(T) /\ T \in SUBSET S
  BY TotalOfNothing, FS_Subset
<1>3. Pick(T) \in T /\ Total(f, T) = f[Pick(T)] + Total(f, T \ {Pick(T)})
  BY <1>2, TotalOfPick, PickIsIn
<1>4. T \ {Pick(T)} \notin Bad
  BY <1>1, <1>3
<1>5. f[Pick(T)] = 0 /\ Total(f, T \ {Pick(T)}) = 0
  BY <1>2, <1>3, <1>4
<1> QED
  BY <1>3, <1>5

-----------------------------------------------------------------------------
(***************************************************************************)
(* The inductive invariant.  Types alone are not inductive: a reversal is  *)
(* well typed only because the entry it reverses is still open, and a      *)
(* balance is right only because the row it was computed from is current.  *)
(***************************************************************************)
Holds(h, a) ==
    \/ job[h].at = "book" /\ job[h].account = a
    \/ job[h].at = "bookVoid" /\ ledger[job[h].entry].account = a
Voids(h, e) == job[h].at \in {"lockVoid", "bookVoid"} /\ job[h].entry = e

\* A row of tavern_accounts or tavern_transactions is locked by one handler.
OneHolder ==
    \A g, h \in Handlers : g # h =>
        /\ \A a \in Accounts : ~(Holds(g, a) /\ Holds(h, a))
        /\ \A e \in Entries : ~(Voids(g, e) /\ Voids(h, e))

\* What handlers under way have read is still so.
UnderWay ==
    \A h \in Handlers :
        /\ job[h].at \in {"lock", "book"} =>
             /\ job[h].account \in Opened
             /\ asked[job[h].reference] \in Intent
             /\ asked[job[h].reference].account = job[h].account
        /\ job[h].at = "book" => job[h].seen = account[job[h].account]
        /\ job[h].at \in {"lockVoid", "bookVoid"} =>
             job[h].entry \in Entries /\ Voidable(job[h].entry)
        /\ job[h].at = "bookVoid" => job[h].seen = account[ledger[job[h].entry].account]

\* Entries belong to accounts there are, and reverse earlier entries.
EntriesKnown ==
    \A e \in Entries :
        /\ ledger[e].account \in Opened
        /\ ledger[e].reverses # 0 => ledger[e].reverses \in 1..(e - 1)

TInv == TypeOK /\ OneHolder /\ UnderWay /\ EntriesKnown

-----------------------------------------------------------------------------
(* Lemmas about the operators *)

\* Some element of a finite set of numbers is the largest.
LEMMA MaxOfFiniteSet ==
    ASSUME NEW S, S \subseteq Nat, IsFiniteSet(S), S # {}
    PROVE  Max(S) \in S /\ \A y \in S : Max(S) >= y
<1> DEFINE Above(x) == {y \in S : y > x}
           Sizes == {Cardinality(Above(x)) : x \in S}
<1>1. \A x \in S : IsFiniteSet(Above(x)) /\ Cardinality(Above(x)) \in Nat
  BY FS_Subset, FS_CardinalityType
<1>2. PICK n \in Sizes : \A m \in Sizes : ~(m < n)
  <2>1. Sizes \subseteq Nat /\ Sizes # {}
    BY <1>1
  <2>2. \E n \in Sizes : \A m \in Sizes : <<m, n>> \notin OpToRel(<, Nat)
    BY <2>1, NatLessThanWellFounded, WFMin
  <2> QED
    BY <2>1, <2>2 DEF OpToRel
<1>3. PICK x \in S : n = Cardinality(Above(x))
  BY <1>2
<1>4. \A y \in S : x >= y
  <2> SUFFICES ASSUME NEW y \in S, ~(x >= y) PROVE FALSE
    OBVIOUS
  <2>0. x \in Nat /\ y \in Nat /\ y > x /\ \A z \in S : z \in Nat
    OBVIOUS
  <2>1. Above(y) \subseteq Above(x) /\ y \in Above(x) \ Above(y)
    <3>1. \A z \in S : z > y => z > x
      BY <2>0
    <3>2. ~(y > y)
      BY <2>0
    <3> QED
      BY <2>0, <3>1, <3>2
  <2>2. Cardinality(Above(y)) < Cardinality(Above(x))
    <3>1. Cardinality(Above(y)) <= Cardinality(Above(x))
      BY <1>1, <2>1, FS_Subset
    <3>2. Cardinality(Above(y)) # Cardinality(Above(x))
      BY <1>1, <2>1, FS_Subset
    <3>3. Cardinality(Above(y)) \in Nat /\ Cardinality(Above(x)) \in Nat
      BY <1>1
    <3> HIDE DEF Above
    <3> QED
      BY <3>1, <3>2, <3>3
  <2>3. Cardinality(Above(y)) \in Sizes
    OBVIOUS
  <2> HIDE DEF Above, Sizes
  <2> QED
    BY <1>2, <1>3, <2>2, <2>3
<1> QED
  BY <1>4 DEF Max

\* The number drawn for a new account is positive (COALESCE(MAX(number), 0) + 1).
LEMMA NextNumberType ==
    ASSUME TypeOK
    PROVE  NextNumber \in Nat \ {0}
<1> DEFINE S == Numbers \cup {0}
<1>1. S \in SUBSET Nat /\ S # {}
  BY DEF TypeOK, Account, Numbers, Opened
<1>2. IsFiniteSet(S)
  <2>1. IsFiniteSet(Opened)
    BY AccountsAssumption, FS_Subset DEF Opened
  <2>2. IsFiniteSet(Numbers)
    <3>1. [a \in Opened |-> account[a].number] \in Surjection(Opened, Numbers)
      BY DEF Numbers, Surjection
    <3> QED
      BY <2>1, <3>1, FS_Surjection
  <2> QED
    BY <2>2, FS_AddElement
<1> HIDE DEF S
<1>3. Max(S) \in S
  BY <1>1, <1>2, MaxOfFiniteSet
<1>4. Max(S) \in Nat
  BY <1>1, <1>3
<1> QED
  BY <1>4 DEF NextNumber, S

\* What a handler keeps is of the right kind at every step.
LEMMA JobFields ==
    ASSUME NEW j \in Job
    PROVE  /\ j.at \in {"lock", "book"} => /\ j.account \in Accounts
                                           /\ j.type \in {"topup", "charge", "payout"}
                                           /\ j.amount \in Nat
                                           /\ j.items \in {0, 1}
                                           /\ j.reference \in References
           /\ j.at = "book" => j.seen \in Account /\ j.done \in BOOLEAN
           /\ j.at \in {"lockVoid", "bookVoid"} => j.entry \in Nat \ {0}
           /\ j.at = "bookVoid" => j.seen \in Account
           /\ j.at \in {"open", "number"} => /\ j.owner \in People \cup {NoOwner}
                                             /\ j.attempt \in 1..MaxAttempts
           /\ j.at = "number" => j.number \in Nat \ {0}
  BY DEF Job

\* The fields of an entry by its type.
LEMMA EntryFields ==
    ASSUME NEW e \in Entry
    PROVE  /\ e.account \in Accounts
           /\ e.amount \in Int
           /\ e.type \in {"topup", "charge", "payout", "void"}
           /\ e.type = "topup" => e.amount > 0
           /\ e.type # "void" => /\ [e EXCEPT !.voided = TRUE] \in Entry
                                 /\ e.reference \in References
                                 /\ e.reverses = 0
           /\ e.type = "void" => e.reverses # 0 /\ e.reference = Unasked /\ ~e.voided
           /\ e.reverses \in Nat
           /\ e.voided \in BOOLEAN
<1> DEFINE In == [account : Accounts, type : {"topup"}, amount : Nat \ {0},
                  reference : References, reverses : {0}, voided : BOOLEAN]
           Out == [account : Accounts, type : {"charge", "payout"}, amount : {n \in Int : n < 0},
                   reference : References, reverses : {0}, voided : BOOLEAN]
           Back == [account : Accounts, type : {"void"}, amount : Int,
                    reference : {Unasked}, reverses : Nat \ {0}, voided : {FALSE}]
<1>1. Entry = In \cup Out \cup Back
  BY DEF Entry
<1>2. CASE e \in In
  <2>1. [e EXCEPT !.voided = TRUE] \in In
    BY <1>2
  <2>2. e.amount \in Nat \ {0} /\ e.type = "topup"
    BY <1>2
  <2>3. e.account \in Accounts /\ e.reference \in References /\ e.reverses = 0 /\ e.voided \in BOOLEAN
    BY <1>2
  <2>4. [e EXCEPT !.voided = TRUE] \in Entry
    BY <1>1, <2>1
  <2> HIDE DEF In, Out, Back
  <2> QED
    BY <2>2, <2>3, <2>4
<1>3. CASE e \in Out
  <2>1. [e EXCEPT !.voided = TRUE] \in Out
    BY <1>3
  <2>2. e.amount \in Int /\ e.type \in {"charge", "payout"}
    BY <1>3
  <2>3. e.account \in Accounts /\ e.reference \in References /\ e.reverses = 0 /\ e.voided \in BOOLEAN
    BY <1>3
  <2>4. [e EXCEPT !.voided = TRUE] \in Entry
    BY <1>1, <2>1
  <2> HIDE DEF In, Out, Back
  <2> QED
    BY <2>2, <2>3, <2>4
<1>4. CASE e \in Back
  <2>1. e.amount \in Int /\ e.type = "void"
    BY <1>4
  <2>2. e.account \in Accounts /\ e.reference = Unasked /\ e.reverses \in Nat \ {0} /\ e.voided = FALSE
    BY <1>4
  <2> HIDE DEF In, Out, Back
  <2> QED
    BY <2>1, <2>2
<1> QED
  BY <1>1, <1>2, <1>3, <1>4

\* Marking an entry as voided changes nothing else of it.
LEMMA MarkedFields ==
    ASSUME NEW e \in Entry
    PROVE  /\ [e EXCEPT !.voided = TRUE].account = e.account
           /\ [e EXCEPT !.voided = TRUE].type = e.type
           /\ [e EXCEPT !.voided = TRUE].amount = e.amount
           /\ [e EXCEPT !.voided = TRUE].reference = e.reference
           /\ [e EXCEPT !.voided = TRUE].reverses = e.reverses
<1>1. {"account", "type", "amount", "reference", "reverses", "voided"} = DOMAIN e
  BY DEF Entry
<1> QED
  BY <1>1

\* The ledger is its entries, numbered from one.
LEMMA LedgerLength ==
    ASSUME TypeOK
    PROVE  /\ Len(ledger) \in Nat
           /\ Entries = 1..Len(ledger)
           /\ \A e \in Entries : e \in Nat \ {0} /\ ledger[e] \in Entry
<1>1. ledger \in Seq(Entry)
  BY DEF TypeOK
<1> QED
  BY <1>1, LenProperties, ElementOfSeq DEF Entries

-----------------------------------------------------------------------------
(* What a step does to the ledger and the balances *)

\* One entry more, and v (0 is none) marked as voided.
Grown(entry, v) ==
    /\ ledger' \in Seq(Entry)
    /\ Entries' = 1..(Len(ledger) + 1)
    /\ \A e \in Entries :
         ledger'[e] = IF e = v THEN [ledger[e] EXCEPT !.voided = TRUE] ELSE ledger[e]
    /\ ledger'[Len(ledger) + 1] = entry

\* The entry is booked on a row there is, whose balance moves by its amount.
Booking(entry, v) ==
    /\ entry \in Entry
    /\ Grown(entry, v)
    /\ entry.account \in Opened
    /\ account' = [account EXCEPT ![entry.account].balance = @ + entry.amount]
    /\ entry.amount < 0 => account[entry.account].balance + entry.amount >= 0

\* An entry booked last leaves the entries before it as they were.
LEMMA AppendedLast ==
    ASSUME NEW entries \in Seq(Entry), NEW entry \in Entry
    PROVE  /\ Append(entries, entry) \in Seq(Entry)
           /\ Len(Append(entries, entry)) = Len(entries) + 1
           /\ \A i \in 1..Len(entries) : Append(entries, entry)[i] = entries[i]
           /\ Append(entries, entry)[Len(entries) + 1] = entry
  BY AppendProperties

\* An entry of a request is appended.
LEMMA AppendGrows ==
    ASSUME TypeOK, NEW entry \in Entry, ledger' = Append(ledger, entry)
    PROVE  Grown(entry, 0)
<1>1. ledger \in Seq(Entry)
  BY DEF TypeOK
<1>2. ledger' \in Seq(Entry) /\ Len(ledger') = Len(ledger) + 1
  BY <1>1, AppendProperties
<1>3. Entries' = 1..(Len(ledger) + 1)
  BY <1>2, LenProperties DEF Entries
<1>4. \A e \in Entries : e # 0 /\ ledger'[e] = ledger[e]
  BY <1>1, LedgerLength, AppendProperties
<1>5. ledger'[Len(ledger) + 1] = entry
  BY <1>1, AppendProperties
<1> QED
  BY <1>2, <1>3, <1>4, <1>5 DEF Grown

\* A reversal is appended and the entry it reverses marked.
LEMMA VoidGrows ==
    ASSUME TypeOK, NEW entry \in Entry, NEW v \in Entries, ledger[v].type # "void",
           ledger' = Append([ledger EXCEPT ![v].voided = TRUE], entry)
    PROVE  Grown(entry, v)
<1> DEFINE marked == [ledger[v] EXCEPT !.voided = TRUE]
           L == [ledger EXCEPT ![v] = marked]
<1>1. ledger \in Seq(Entry) /\ v \in 1..Len(ledger) /\ ledger[v] \in Entry
  BY LedgerLength DEF TypeOK
<1>2. marked \in Entry
  BY <1>1, EntryFields
<1> HIDE DEF marked
<1>0. Entries = 1..Len(ledger)
  BY LedgerLength
<1>3. /\ L \in Seq(Entry)
      /\ Len(L) = Len(ledger)
      /\ \A j \in 1..Len(ledger) : L[j] = IF j = v THEN marked ELSE ledger[j]
  BY <1>1, <1>2, ExceptSeq
<1>4. ledger' = Append(L, entry)
  BY DEF marked
<1> HIDE DEF L
<1>5. /\ Append(L, entry) \in Seq(Entry)
      /\ Len(Append(L, entry)) = Len(L) + 1
      /\ \A i \in 1..Len(L) : Append(L, entry)[i] = L[i]
      /\ Append(L, entry)[Len(L) + 1] = entry
  <2>1. L \in Seq(Entry)
    BY <1>3
  <2> QED
    BY <2>1, AppendedLast
<1>6. Entries' = 1..(Len(ledger) + 1)
  <2>1. DOMAIN Append(L, entry) = 1..Len(Append(L, entry))
    BY <1>5, LenProperties, Zenon
  <2> QED
    BY <1>3, <1>4, <1>5, <2>1 DEF Entries
<1>7. \A e \in Entries : ledger'[e] = IF e = v THEN marked ELSE ledger[e]
  BY <1>0, <1>3, <1>4, <1>5
<1> QED
  BY <1>3, <1>4, <1>5, <1>6, <1>7 DEF Grown, marked

\* The entry of a request: only what the row as it is now allows.
Requested(h, entry) ==
    /\ Booking(entry, 0)
    /\ entry.type = job[h].type
    /\ entry.account = job[h].account
    /\ entry.reference = job[h].reference
    /\ entry.reverses = 0
    /\ entry.voided = FALSE
    /\ ~Booked(entry.reference)
    /\ entry.type # "topup" => ~account[entry.account].locked

\* A request books its entry from the current row, or nothing.
LEMMA BookBooks ==
    ASSUME TInv, NEW h \in Handlers, Book(h)
    PROVE  UNCHANGED <<account, ledger>> \/ \E entry : Requested(h, entry)
<1> DEFINE j == job[h]
           total == j.amount + (IF j.items = 0 THEN 0 ELSE menu)
           signed == Signed(j.type, total)
           entry == [account |-> j.account, type |-> j.type, amount |-> signed,
                     reference |-> j.reference, reverses |-> 0, voided |-> FALSE]
<1>1. j \in Job /\ j.at = "book"
  BY DEF Book, TInv, TypeOK
<1>2. /\ j.account \in Opened
      /\ j.seen = account[j.account]
  BY <1>1 DEF TInv, UnderWay
<1>3. /\ j.account \in Accounts
      /\ j.type \in {"topup", "charge", "payout"}
      /\ j.amount \in Nat
      /\ j.items \in {0, 1}
      /\ j.reference \in References
  BY <1>1, JobFields
<1>4. SUFFICES ASSUME ~ UNCHANGED <<account, ledger>> PROVE Requested(h, entry)
  OBVIOUS
<1>5. /\ MayDebit(j.type, j.seen)
      /\ j.items = 1 => menu # Inactive
      /\ total > 0
      /\ Covers(j.type, j.seen.balance, signed)
      /\ ~Booked(j.reference)
      /\ Apply(entry, j.seen)
  BY <1>4 DEF Book
<1>6. total \in Nat \ {0}
  <2>1. menu \in Nat \cup {Inactive}
    BY DEF TInv, TypeOK
  <2>2. total \in Nat
    BY <1>3, <1>5, <2>1
  <2> HIDE DEF total
  <2> QED
    BY <1>5, <2>2
<1> HIDE DEF total
<1>7. /\ signed \in Int
      /\ j.type = "topup" => signed \in Nat \ {0}
      /\ j.type # "topup" => signed < 0
  BY <1>6 DEF Signed
<1> HIDE DEF signed
<1>8. entry \in Entry
  <2>1. CASE j.type = "topup"
    BY <1>3, <1>7, <2>1 DEF Entry
  <2>2. CASE j.type \in {"charge", "payout"}
    BY <1>3, <1>7, <2>2 DEF Entry
  <2> QED
    BY <1>3, <2>1, <2>2
<1>9. Grown(entry, 0)
  BY <1>5, <1>8, AppendGrows DEF Apply, TInv
<1>10. account' = [account EXCEPT ![j.account].balance = account[j.account].balance + signed]
  BY <1>2, <1>5 DEF Apply
<1>11. signed < 0 => account[j.account].balance + signed >= 0
  BY <1>2, <1>5 DEF Covers
<1>12. Booking(entry, 0)
  BY <1>2, <1>8, <1>9, <1>10, <1>11 DEF Booking
<1>13. j.type # "topup" => ~account[j.account].locked
  BY <1>2, <1>3, <1>5 DEF MayDebit
<1> QED
  BY <1>5, <1>12, <1>13 DEF Requested

\* The reversal of an entry that is still open.
Reversal(h, entry) ==
    /\ Booking(entry, job[h].entry)
    /\ job[h].entry \in Entries
    /\ Voidable(job[h].entry)
    /\ entry.type = "void"
    /\ entry.account = ledger[job[h].entry].account
    /\ entry.amount = -ledger[job[h].entry].amount
    /\ entry.reference = Unasked
    /\ entry.reverses = job[h].entry
    /\ entry.voided = FALSE

\* A void books the reversal on the current row, or nothing.
LEMMA BookVoidBooks ==
    ASSUME TInv, NEW h \in Handlers, BookVoid(h)
    PROVE  UNCHANGED <<account, ledger>> \/ \E entry : Reversal(h, entry)
<1> DEFINE e == job[h].entry
           seen == job[h].seen
           entry == [account |-> ledger[e].account, type |-> "void",
                     amount |-> -ledger[e].amount, reference |-> Unasked,
                     reverses |-> e, voided |-> FALSE]
<1>1. job[h].at = "bookVoid"
  BY DEF BookVoid
<1>2. e \in Entries /\ Voidable(e) /\ seen = account[ledger[e].account]
  BY <1>1 DEF TInv, UnderWay
<1>3. e \in Nat \ {0} /\ ledger[e] \in Entry /\ ledger[e].account \in Opened
  BY <1>2, LedgerLength DEF TInv, EntriesKnown
<1>4. ledger[e].account \in Accounts /\ ledger[e].amount \in Int
  BY <1>3, EntryFields
<1>5. entry \in Entry
  BY <1>3, <1>4 DEF Entry
<1>6. SUFFICES ASSUME ~ UNCHANGED <<account, ledger>> PROVE Reversal(h, entry)
  OBVIOUS
<1>7. /\ Covers("void", seen.balance, entry.amount)
      /\ ledger' = Append([ledger EXCEPT ![e].voided = TRUE], entry)
      /\ account' = [account EXCEPT ![entry.account].balance = seen.balance + entry.amount]
  BY <1>6 DEF BookVoid
<1>8. Grown(entry, e)
  BY <1>2, <1>5, <1>7, VoidGrows DEF TInv, Voidable
<1>9. Booking(entry, e)
  BY <1>2, <1>3, <1>5, <1>7, <1>8 DEF Booking, Covers
<1> QED
  BY <1>2, <1>9 DEF Reversal

\* The lock of an account is set or lifted while no handler has its row.
Switched(a) ==
    /\ a \in Opened
    /\ RowFree(a)
    /\ account' = [account EXCEPT ![a].locked = ~@]

\* A new account, with a number and an owner nobody has.
Added(a, n, owner) ==
    /\ a \in Accounts \ Opened
    /\ n \in Nat \ {0}
    /\ owner \in People \cup {NoOwner}
    /\ ~NumberTaken(n)
    /\ owner # NoOwner => \A b \in Opened : account[b].owner # owner
    /\ account' = [account EXCEPT ![a] = [NoAccount EXCEPT !.number = n, !.owner = owner]]

\* Steps that book nothing.
Quiet ==
    /\ UNCHANGED ledger
    /\ \/ UNCHANGED account
       \/ \E a \in Accounts : Switched(a)
       \/ \E a \in Accounts, n \in Nat, owner \in People \cup {NoOwner} : Added(a, n, owner)

\* Steps in which handler h reads or asks, and writes no account and no entry.
Reads(h) ==
    \/ Press(h) \/ Webhook(h) \/ Lock(h) \/ VoidStart(h) \/ LockVoid(h)
    \/ OpenStart(h) \/ ReadNumber(h)

\* A new account gets a free number and an owner without one.
LEMMA OpenAccountAdds ==
    ASSUME TypeOK, NEW h \in Handlers, OpenAccount(h)
    PROVE  \/ UNCHANGED account
           \/ \E a \in Accounts, n \in Nat, owner \in People \cup {NoOwner} : Added(a, n, owner)
<1>1. job[h] \in Job /\ job[h].at = "number"
  BY DEF OpenAccount, TypeOK
<1>2. job[h].number \in Nat \ {0} /\ job[h].owner \in People \cup {NoOwner}
  BY <1>1, JobFields
<1>3. SUFFICES ASSUME account' # account
               PROVE  \E a \in Accounts : Added(a, job[h].number, job[h].owner)
  BY <1>2
<1>4. PICK a \in Accounts \ Opened :
        account' = [account EXCEPT ![a] = [NoAccount EXCEPT !.number = job[h].number,
                                                            !.owner = job[h].owner]]
  BY <1>3 DEF OpenAccount
<1>5. /\ ~NumberTaken(job[h].number)
      /\ job[h].owner # NoOwner => \A b \in Opened : account[b].owner # job[h].owner
  BY <1>3 DEF OpenAccount
<1> QED
  BY <1>2, <1>4, <1>5 DEF Added

\* A step books a request, books a reversal, or books nothing.
LEMMA StepBooks ==
    ASSUME TInv, [Next]_tvars
    PROVE  \/ \E h \in Handlers : Book(h) /\ \E entry : Requested(h, entry)
           \/ \E h \in Handlers : BookVoid(h) /\ \E entry : Reversal(h, entry)
           \/ Quiet
<1>1. CASE \E h \in Handlers : Book(h)
  BY <1>1, BookBooks DEF Quiet
<1>2. CASE \E h \in Handlers : BookVoid(h)
  BY <1>2, BookVoidBooks DEF Quiet
<1>3. CASE \E h \in Handlers : OpenAccount(h)
  <2>1. UNCHANGED ledger
    BY <1>3 DEF OpenAccount
  <2> QED
    BY <1>3, <2>1, OpenAccountAdds DEF Quiet, TInv
<1>4. CASE \E h \in Handlers : Reads(h)
  BY <1>4 DEF Quiet, Reads, Press, Webhook, Lock, VoidStart, LockVoid, OpenStart, ReadNumber
<1>5. CASE \E a \in Accounts : SetLocked(a)
  BY <1>5 DEF SetLocked, Switched, Quiet
<1>6. CASE \/ \E price \in Prices : SaveItem(price)
           \/ Restart
           \/ UNCHANGED tvars
  BY <1>6 DEF SaveItem, Restart, tvars, Quiet
<1> QED
  BY <1>1, <1>2, <1>3, <1>4, <1>5, <1>6 DEF Next, Proceed, Reads

\* A step moves one handler on, or ends all, or none.
LEMMA StepMoves ==
    ASSUME TypeOK, [Next]_tvars
    PROVE  \/ UNCHANGED job
           \/ job' = [h \in Handlers |-> NoJob]
           \/ \E h \in Handlers :
                /\ \A g \in Handlers : g # h => job'[g] = job[g]
                /\ \/ job'[h] = NoJob
                   \/ Reads(h)
                   \/ OpenAccount(h)
<1>1. CASE \E h \in Handlers : Reads(h) \/ OpenAccount(h) \/ Book(h) \/ BookVoid(h)
  <2>1. PICK h \in Handlers : Reads(h) \/ OpenAccount(h) \/ Book(h) \/ BookVoid(h)
    BY <1>1
  <2>2. \E step : Continue(h, step)
    BY <2>1 DEF Reads, OpenAccount, Book, BookVoid, Finish, Press, Webhook, Lock, VoidStart,
                LockVoid, OpenStart, ReadNumber
  <2>3. \A g \in Handlers : g # h => job'[g] = job[g]
    BY <2>2 DEF Continue, TypeOK
  <2>4. Book(h) \/ BookVoid(h) => job'[h] = NoJob
    BY DEF Book, BookVoid, Finish, Continue, TypeOK
  <2> QED
    BY <2>1, <2>3, <2>4
<1>2. CASE ~ \E h \in Handlers : Reads(h) \/ OpenAccount(h) \/ Book(h) \/ BookVoid(h)
  BY <1>2 DEF Next, Proceed, Reads, SetLocked, SaveItem, Restart, tvars
<1> QED
  BY <1>1, <1>2

-----------------------------------------------------------------------------
(* Types *)

\* What a request waits to book is well formed.
LEMMA WantedType ==
    ASSUME TypeOK, NEW intent \in Intent, NEW r \in References, intent.account \in Opened,
           intent.type = "payout" => Wanted(intent, r).amount > 0
    PROVE  Wanted(intent, r) \in Job
<1>1. /\ intent.account \in Accounts
      /\ intent.type \in {"topup", "charge", "payout"}
      /\ intent.type = "charge" => intent.items \in {0, 1}
      /\ intent.type # "payout" => intent.amount \in Amounts \cup {0}
      /\ intent.amount \in Amounts \cup {0, Everything}
  BY DEF Intent
<1>2. account[intent.account].balance \in Int
  BY <1>1 DEF TypeOK, Account
<1> DEFINE amount == IF intent.amount = Everything THEN account[intent.account].balance
                                                   ELSE intent.amount
           items == IF intent.type = "charge" THEN intent.items ELSE 0
<1>3. amount \in Nat
  <2>1. Wanted(intent, r).amount = amount
    BY DEF Wanted
  <2>2. \A n \in Amounts \cup {0} : n \in Nat /\ n # Everything
    BY AmountsAssumption
  <2>3. CASE intent.amount = Everything
    <3>1. intent.type = "payout"
      BY <1>1, <2>2, <2>3
    <3>2. amount > 0 /\ amount \in Int
      BY <1>2, <2>1, <2>3, <3>1
    <3> HIDE DEF amount
    <3> QED
      BY <3>2
  <2>4. CASE intent.amount # Everything
    BY <1>1, <2>2, <2>4
  <2> QED
    BY <2>3, <2>4
<1>4. items \in {0, 1}
  BY <1>1
<1>5. Wanted(intent, r) = [at |-> "lock", account |-> intent.account, type |-> intent.type,
                           amount |-> amount, items |-> items, reference |-> r]
  BY DEF Wanted
<1> HIDE DEF amount, items
<1> QED
  BY <1>1, <1>3, <1>4, <1>5 DEF Job

\* A tablet's or Stripe's request leaves a job of its own, and its key taken.
LEMMA AskedFor ==
    ASSUME TypeOK, NEW h \in Handlers, Press(h) \/ Webhook(h)
    PROVE  \E intent \in Intent, r \in References :
             /\ intent.account \in Opened
             /\ asked[r] \in {intent, Unasked}
             /\ asked' = [asked EXCEPT ![r] = intent]
             /\ job' = [job EXCEPT ![h] = Wanted(intent, r)]
             /\ Wanted(intent, r) \in Job
<1>1. CASE Press(h)
  BY <1>1, WantedType DEF Press, Continue, References
<1>2. CASE Webhook(h)
  <2>1. PICK s \in Sessions, a \in Opened, amount \in Amounts :
          LET intent == [type |-> "topup", account |-> a, amount |-> amount]
          IN  /\ asked[s] \in {intent, Unasked}
              /\ asked' = [asked EXCEPT ![s] = intent]
              /\ Continue(h, Wanted(intent, s))
    BY <1>2 DEF Webhook
  <2>2. [type |-> "topup", account |-> a, amount |-> amount] \in Intent
    BY DEF Intent, Opened
  <2> QED
    BY <2>1, <2>2, WantedType DEF Continue, References
<1> QED
  BY <1>1, <1>2

\* The other steps that read leave a well-formed job.
LEMMA ReadsType ==
    ASSUME TInv, NEW h \in Handlers,
           Lock(h) \/ VoidStart(h) \/ LockVoid(h) \/ OpenStart(h) \/ ReadNumber(h) \/ OpenAccount(h)
    PROVE  job' \in [Handlers -> Job]
<1>0. TypeOK /\ job[h] \in Job /\ NoJob \in Job
  BY DEF TInv, TypeOK, Job, NoJob
<1>1. CASE Lock(h)
  <2>1. job[h].at = "lock" /\ job[h].account \in Accounts
    BY <1>0, <1>1, JobFields DEF Lock
  <2>2. account[job[h].account] \in Account /\ Booked(job[h].reference) \in BOOLEAN
    BY <2>1, <1>0 DEF TypeOK, Booked
  <2>3. [at |-> "book", account |-> job[h].account, type |-> job[h].type,
         amount |-> job[h].amount, items |-> job[h].items, reference |-> job[h].reference,
         seen |-> account[job[h].account], done |-> Booked(job[h].reference)] \in Job
    <3> HIDE DEF Booked
    <3> QED
      BY <1>0, <2>1, <2>2, JobFields DEF Job
  <2> QED
    BY <1>0, <1>1, <2>3 DEF Lock, Continue, TypeOK
<1>2. CASE VoidStart(h)
  <2>1. PICK e \in Entries : Continue(h, [at |-> "lockVoid", entry |-> e])
    BY <1>2 DEF VoidStart
  <2>2. [at |-> "lockVoid", entry |-> e] \in Job
    BY <1>0, LedgerLength DEF Job
  <2> QED
    BY <1>0, <2>1, <2>2 DEF Continue, TypeOK
<1>3. CASE LockVoid(h)
  <2>1. job[h].entry \in Entries /\ job[h].entry \in Nat \ {0}
    BY <1>0, <1>3, JobFields DEF LockVoid, TInv, UnderWay
  <2>2. ledger[job[h].entry].account \in Accounts
    BY <1>0, <2>1, LedgerLength, EntryFields
  <2>3. account[ledger[job[h].entry].account] \in Account
    BY <1>0, <2>2 DEF TypeOK
  <2>4. [at |-> "bookVoid", entry |-> job[h].entry,
         seen |-> account[ledger[job[h].entry].account]] \in Job
    BY <2>1, <2>3 DEF Job
  <2> QED
    BY <1>0, <1>3, <2>4 DEF LockVoid, Continue, TypeOK
<1>4. CASE OpenStart(h)
  <2>1. PICK owner \in People \cup {NoOwner} :
          Continue(h, [at |-> "open", owner |-> owner, attempt |-> 1])
    BY <1>4 DEF OpenStart
  <2>2. [at |-> "open", owner |-> owner, attempt |-> 1] \in Job
    BY AmountsAssumption DEF Job
  <2> QED
    BY <1>0, <2>1, <2>2 DEF Continue, TypeOK
<1>5. CASE ReadNumber(h)
  <2>1. job[h].owner \in People \cup {NoOwner} /\ job[h].attempt \in 1..MaxAttempts
    BY <1>0, <1>5, JobFields DEF ReadNumber
  <2>2. [at |-> "number", owner |-> job[h].owner, attempt |-> job[h].attempt,
         number |-> NextNumber] \in Job
    BY <1>0, <2>1, NextNumberType DEF Job
  <2> QED
    BY <1>0, <1>5, <2>2 DEF ReadNumber, Continue, TypeOK
<1>6. CASE OpenAccount(h)
  <2>1. job[h].owner \in People \cup {NoOwner} /\ job[h].attempt \in 1..MaxAttempts
    BY <1>0, <1>6, JobFields DEF OpenAccount
  <2>2. ASSUME job[h].attempt < MaxAttempts
        PROVE  [at |-> "open", owner |-> job[h].owner, attempt |-> job[h].attempt + 1] \in Job
    <3>1. job[h].attempt + 1 \in 1..MaxAttempts
      BY <2>1, <2>2, AmountsAssumption
    <3> QED
      BY <2>1, <3>1 DEF Job
  <2>3. \/ Finish(h)
        \/ /\ job[h].attempt < MaxAttempts
           /\ Continue(h, [at |-> "open", owner |-> job[h].owner, attempt |-> job[h].attempt + 1])
    BY <1>6 DEF OpenAccount
  <2> QED
    BY <1>0, <2>2, <2>3 DEF Continue, Finish, TypeOK
<1> QED
  BY <1>1, <1>2, <1>3, <1>4, <1>5, <1>6

\* No step breaks a type.
LEMMA TypeStep ==
    ASSUME TInv, [Next]_tvars
    PROVE  TypeOK'
<1>0. TypeOK
  BY DEF TInv
<1>1. ledger' \in Seq(Entry)
  BY <1>0, StepBooks DEF Requested, Reversal, Booking, Grown, Quiet, TypeOK
<1>2. account' \in [Accounts -> Account]
  <2>1. ASSUME NEW entry, NEW v, Booking(entry, v) PROVE account' \in [Accounts -> Account]
    <3>1. entry.account \in Accounts /\ entry.amount \in Int
      BY <2>1, EntryFields DEF Booking
    <3>2. account[entry.account] \in Account
      BY <1>0, <3>1 DEF TypeOK
    <3>3. [account[entry.account] EXCEPT !.balance = @ + entry.amount] \in Account
      BY <3>1, <3>2 DEF Account
    <3> QED
      BY <1>0, <2>1, <3>1, <3>3 DEF Booking, TypeOK
  <2>2. ASSUME Quiet PROVE account' \in [Accounts -> Account]
    <3>1. ASSUME NEW a \in Accounts, Switched(a) PROVE account' \in [Accounts -> Account]
      BY <1>0, <3>1 DEF Switched, TypeOK, Account
    <3>2. ASSUME NEW a \in Accounts, NEW n \in Nat, NEW owner \in People \cup {NoOwner},
                 Added(a, n, owner)
          PROVE account' \in [Accounts -> Account]
      <4>1. [NoAccount EXCEPT !.number = n, !.owner = owner] \in Account
        <5>1. NoAccount \in Account
          BY DEF Account, NoAccount
        <5> QED
          BY <5>1 DEF Account
      <4> QED
        BY <1>0, <3>2, <4>1 DEF Added, TypeOK
    <3> QED
      BY <1>0, <2>2, <3>1, <3>2 DEF Quiet, TypeOK
  <2> QED
    BY <2>1, <2>2, StepBooks DEF Requested, Reversal
<1>3. menu' \in Nat \cup {Inactive}
  BY <1>0, AmountsAssumption
     DEF TypeOK, Next, Proceed, Press, Webhook, Lock, Book, VoidStart, LockVoid, BookVoid,
         OpenStart, ReadNumber, OpenAccount, SetLocked, SaveItem, Restart, tvars
<1>4. asked' \in [References -> Intent \cup {Unasked}]
  <2>1. CASE \E h \in Handlers : Press(h) \/ Webhook(h)
    BY <1>0, <2>1, AskedFor DEF TypeOK
  <2>2. CASE ~ \E h \in Handlers : Press(h) \/ Webhook(h)
    BY <1>0, <2>2
       DEF TypeOK, Next, Proceed, Lock, Book, VoidStart, LockVoid, BookVoid,
           OpenStart, ReadNumber, OpenAccount, SetLocked, SaveItem, Restart, tvars
  <2> QED
    BY <2>1, <2>2
<1>5. job' \in [Handlers -> Job]
  <2>0. NoJob \in Job
    BY DEF NoJob, Job
  <2>1. CASE \E h \in Handlers : Press(h) \/ Webhook(h)
    BY <1>0, <2>1, AskedFor DEF TypeOK
  <2>2. CASE \E h \in Handlers : Lock(h) \/ VoidStart(h) \/ LockVoid(h) \/ OpenStart(h)
                                  \/ ReadNumber(h) \/ OpenAccount(h)
    BY <2>2, ReadsType
  <2>3. CASE \E h \in Handlers : Book(h) \/ BookVoid(h)
    BY <1>0, <2>0, <2>3 DEF Book, BookVoid, Finish, Continue, TypeOK
  <2>4. CASE \/ \E a \in Accounts : SetLocked(a)
             \/ \E price \in Prices : SaveItem(price)
             \/ Restart
             \/ UNCHANGED tvars
    BY <1>0, <2>0, <2>4 DEF SetLocked, SaveItem, Restart, tvars, TypeOK
  <2> QED
    BY <2>1, <2>2, <2>3, <2>4 DEF Next, Proceed
<1> QED
  BY <1>1, <1>2, <1>3, <1>4, <1>5 DEF TypeOK

-----------------------------------------------------------------------------
(* Rows that are held, entries and requests under way *)

\* Accounts and entries stay; an entry keeps its account, and only the reversal
\* of an entry ends its being open.
LEMMA RecordsStay ==
    ASSUME TInv, [Next]_tvars
    PROVE  /\ Opened \subseteq Opened'
           /\ Entries \subseteq Entries'
           /\ \A e \in Entries : ledger'[e].account = ledger[e].account
           /\ \A e \in Entries : Voidable(e) => \/ Voidable(e)'
                                                \/ \E h \in Handlers : BookVoid(h) /\ Voids(h, e)
<1>0. TypeOK
  BY DEF TInv
<1>1. ASSUME NEW entry, NEW v, Booking(entry, v)
      PROVE  /\ Opened \subseteq Opened'
             /\ Entries \subseteq Entries'
             /\ \A e \in Entries : /\ ledger'[e].account = ledger[e].account
                                   /\ e # v => ledger'[e] = ledger[e]
  <2>1. entry.account \in Accounts /\ account \in [Accounts -> Account]
    BY <1>0, <1>1, EntryFields DEF Booking, TypeOK
  <2>2. \A a \in Accounts : account'[a].number = account[a].number
    BY <1>1, <2>1 DEF Booking, Account
  <2>3. Entries \subseteq Entries'
    BY <1>0, <1>1, LedgerLength DEF Booking, Grown
  <2>4. \A e \in Entries : /\ ledger'[e].account = ledger[e].account
                           /\ ledger'[e].type = ledger[e].type
                           /\ e # v => ledger'[e] = ledger[e]
    <3>1. \A e \in Entries :
             ledger'[e] = IF e = v THEN [ledger[e] EXCEPT !.voided = TRUE] ELSE ledger[e]
      BY <1>1 DEF Booking, Grown
    <3> QED
      BY <1>0, <3>1, LedgerLength, MarkedFields
  <2>5. Opened \subseteq Opened'
    BY <2>2 DEF Opened
  <2> QED
    BY <2>3, <2>4, <2>5
<1>2. CASE \E h \in Handlers : Book(h) /\ \E entry : Requested(h, entry)
  <2>1. PICK entry : Booking(entry, 0)
    BY <1>2 DEF Requested
  <2>2. \A e \in Entries : e # 0
    BY <1>0, LedgerLength
  <2> QED
    BY <1>1, <2>1, <2>2 DEF Voidable
<1>3. CASE \E h \in Handlers : BookVoid(h) /\ \E entry : Reversal(h, entry)
  <2>1. PICK h \in Handlers : BookVoid(h) /\ \E entry : Booking(entry, job[h].entry)
    BY <1>3 DEF Reversal
  <2>2. Voids(h, job[h].entry)
    BY <2>1 DEF BookVoid, Voids
  <2>3. PICK entry : Booking(entry, job[h].entry)
    BY <2>1
  <2>4. \A e \in Entries : e = job[h].entry => BookVoid(h) /\ Voids(h, e)
    BY <2>1, <2>2
  <2> QED
    BY <1>1, <2>3, <2>4 DEF Voidable
<1>4. CASE Quiet
  <2>1. Opened \subseteq Opened'
    BY <1>0, <1>4 DEF Quiet, Opened, Switched, Added, TypeOK, Account
  <2> QED
    BY <1>4, <2>1 DEF Quiet, Entries, Voidable
<1> QED
  BY <1>2, <1>3, <1>4, StepBooks

\* A row that is held does not change while its handler stays where it is.
LEMMA HeldRowsStay ==
    ASSUME TInv, [Next]_tvars, NEW g \in Handlers, NEW a \in Opened, Holds(g, a),
           job'[g] = job[g]
    PROVE  account'[a] = account[a]
<1>0. TypeOK /\ a \in Accounts /\ job[g] # NoJob
  BY DEF TInv, Opened, Holds, NoJob
<1>1. ASSUME NEW h \in Handlers, NEW entry, NEW v, Booking(entry, v), Holds(h, entry.account),
             job'[h] = NoJob
      PROVE  account'[a] = account[a]
  <2>1. entry.account \in Accounts /\ h # g
    BY <1>0, <1>1, EntryFields DEF Booking
  <2>2. entry.account # a
    BY <1>0, <1>1, <2>1 DEF TInv, OneHolder
  <2> QED
    BY <1>0, <1>1, <2>1, <2>2 DEF Booking, TypeOK
<1>2. CASE \E h \in Handlers : Book(h) /\ \E entry : Requested(h, entry)
  <2>0. PICK h \in Handlers : Book(h) /\ \E entry : Requested(h, entry)
    BY <1>2
  <2>1. PICK entry : Book(h) /\ Requested(h, entry)
    BY <2>0
  <2>2. Holds(h, entry.account) /\ job'[h] = NoJob
    BY <1>0, <2>1 DEF Book, Requested, Holds, Finish, Continue, TypeOK
  <2> QED
    BY <1>1, <2>1, <2>2 DEF Requested
<1>3. CASE \E h \in Handlers : BookVoid(h) /\ \E entry : Reversal(h, entry)
  <2>0. PICK h \in Handlers : BookVoid(h) /\ \E entry : Reversal(h, entry)
    BY <1>3
  <2>1. PICK entry : BookVoid(h) /\ Reversal(h, entry)
    BY <2>0
  <2>2. Holds(h, entry.account) /\ job'[h] = NoJob
    BY <1>0, <2>1 DEF BookVoid, Reversal, Holds, Finish, Continue, TypeOK
  <2> QED
    BY <1>1, <2>1, <2>2 DEF Reversal
<1>4. CASE Quiet
  <2>1. ASSUME NEW b \in Accounts, Switched(b) PROVE account'[a] = account[a]
    <3>1. a # b
      BY <2>1 DEF Switched, RowFree, Holds
    <3> QED
      BY <1>0, <2>1, <3>1 DEF Switched, TypeOK
  <2>2. ASSUME NEW b \in Accounts, NEW n \in Nat, NEW owner \in People \cup {NoOwner},
               Added(b, n, owner)
        PROVE  account'[a] = account[a]
    BY <1>0, <2>2 DEF Added, TypeOK
  <2> QED
    BY <1>4, <2>1, <2>2 DEF Quiet
<1> QED
  BY <1>2, <1>3, <1>4, StepBooks

\* Requests keep what they ask: a key that is taken keeps its intent.
LEMMA KeysStay ==
    ASSUME TypeOK, [Next]_tvars, NEW r \in References, asked[r] \in Intent
    PROVE  asked'[r] = asked[r]
<1>1. CASE \E h \in Handlers : Press(h) \/ Webhook(h)
  <2>1. PICK intent \in Intent, k \in References :
          asked[k] \in {intent, Unasked} /\ asked' = [asked EXCEPT ![k] = intent]
    BY <1>1, AskedFor
  <2> QED
    BY <2>1, UnaskedAssumption DEF TypeOK
<1>2. CASE ~ \E h \in Handlers : Press(h) \/ Webhook(h)
  BY <1>2
     DEF Next, Proceed, Lock, Book, VoidStart, LockVoid, BookVoid,
         OpenStart, ReadNumber, OpenAccount, SetLocked, SaveItem, Restart, tvars
<1> QED
  BY <1>1, <1>2

\* What holds of one handler under way (the body of UnderWay).
Current(h) ==
    /\ job[h].at \in {"lock", "book"} =>
         /\ job[h].account \in Opened
         /\ asked[job[h].reference] \in Intent
         /\ asked[job[h].reference].account = job[h].account
    /\ job[h].at = "book" => job[h].seen = account[job[h].account]
    /\ job[h].at \in {"lockVoid", "bookVoid"} =>
         job[h].entry \in Entries /\ Voidable(job[h].entry)
    /\ job[h].at = "bookVoid" => job[h].seen = account[ledger[job[h].entry].account]

\* A handler that stays where it is finds everything as it read it.
LEMMA StayingIsCurrent ==
    ASSUME TInv, [Next]_tvars, NEW g \in Handlers, job'[g] = job[g]
    PROVE  Current(g)'
<1> DEFINE j == job[g]
<1>0. TypeOK /\ j \in Job /\ Current(g)
  BY DEF TInv, TypeOK, UnderWay, Current
<1>1. ASSUME j.at \in {"lock", "book"}
      PROVE  /\ j.account \in Opened'
             /\ asked'[j.reference] \in Intent
             /\ asked'[j.reference].account = j.account
  <2>1. j.reference \in References
    BY <1>0, <1>1, JobFields
  <2>2. asked'[j.reference] = asked[j.reference]
    BY <1>0, <1>1, <2>1, KeysStay DEF Current
  <2> QED
    BY <1>0, <1>1, <2>2, RecordsStay DEF Current
<1>2. ASSUME j.at = "book" PROVE j.seen = account'[j.account]
  <2>1. j.account \in Opened /\ j.seen = account[j.account]
    BY <1>0, <1>2 DEF Current
  <2> QED
    BY <1>2, <2>1, HeldRowsStay DEF Holds
<1>3. ASSUME j.at \in {"lockVoid", "bookVoid"}
      PROVE  j.entry \in Entries' /\ Voidable(j.entry)'
  <2>1. j.entry \in Entries /\ Voidable(j.entry)
    BY <1>0, <1>3 DEF Current
  <2>2. ASSUME NEW h \in Handlers, BookVoid(h), Voids(h, j.entry) PROVE FALSE
    <3>1. job'[h] = NoJob
      BY <1>0, <2>2 DEF BookVoid, Finish, Continue, TypeOK
    <3>2. h # g
      BY <1>3, <3>1 DEF NoJob
    <3> QED
      BY <1>3, <2>1, <2>2, <3>2 DEF TInv, OneHolder, Voids
  <2>3. j.entry \in Entries'
    BY <2>1, RecordsStay
  <2>4. Voidable(j.entry)'
    BY <2>1, <2>2, RecordsStay DEF Voidable
  <2> QED
    BY <2>3, <2>4
<1>4. ASSUME j.at = "bookVoid" PROVE j.seen = account'[ledger'[j.entry].account]
  <2>1. j.entry \in Entries /\ j.seen = account[ledger[j.entry].account]
    BY <1>0, <1>4 DEF Current
  <2>2. ledger[j.entry].account \in Opened /\ Holds(g, ledger[j.entry].account)
    BY <1>4, <2>1 DEF TInv, EntriesKnown, Holds
  <2>3. ledger'[j.entry].account = ledger[j.entry].account
    BY <2>1, RecordsStay
  <2> QED
    BY <2>1, <2>2, <2>3, HeldRowsStay
<1> QED
  BY <1>1, <1>2, <1>3, <1>4 DEF Current

\* A handler that starts or reads finds what it wrote down.
LEMMA ReadingIsCurrent ==
    ASSUME TInv, NEW h \in Handlers, Reads(h) \/ OpenAccount(h)
    PROVE  Current(h)'
<1>0. TypeOK /\ job[h] \in Job /\ Current(h)
  BY DEF TInv, TypeOK, UnderWay, Current
<1>1. CASE Press(h) \/ Webhook(h)
  <2>1. PICK intent \in Intent, r \in References :
          /\ intent.account \in Opened
          /\ asked' = [asked EXCEPT ![r] = intent]
          /\ job' = [job EXCEPT ![h] = Wanted(intent, r)]
    BY <1>0, <1>1, AskedFor
  <2>2. job'[h] = Wanted(intent, r) /\ asked'[r] = intent /\ UNCHANGED <<account, ledger>>
    BY <1>0, <1>1, <2>1 DEF TypeOK, Press, Webhook
  <2> QED
    BY <2>1, <2>2 DEF Wanted, Current, Opened
<1>2. CASE Lock(h)
  <2>1. job[h].at = "lock" /\ job[h].account \in Opened
    BY <1>0, <1>2 DEF Lock, Current
  <2>2. job'[h] = [at |-> "book", account |-> job[h].account, type |-> job[h].type,
                   amount |-> job[h].amount, items |-> job[h].items,
                   reference |-> job[h].reference,
                   seen |-> account[job[h].account], done |-> Booked(job[h].reference)]
    BY <1>0, <1>2 DEF Lock, Continue, TypeOK
  <2>3. UNCHANGED <<account, ledger, asked>>
    BY <1>2 DEF Lock
  <2> QED
    BY <1>0, <2>1, <2>2, <2>3 DEF Current, Opened
<1>3. CASE VoidStart(h)
  <2>1. PICK e \in Entries : Voidable(e) /\ Continue(h, [at |-> "lockVoid", entry |-> e])
    BY <1>3 DEF VoidStart
  <2>2. job'[h] = [at |-> "lockVoid", entry |-> e] /\ UNCHANGED ledger
    BY <1>0, <1>3, <2>1 DEF VoidStart, Continue, TypeOK
  <2> QED
    BY <2>1, <2>2 DEF Current, Entries, Voidable
<1>4. CASE LockVoid(h)
  <2>1. /\ job'[h] = [at |-> "bookVoid", entry |-> job[h].entry,
                      seen |-> account[ledger[job[h].entry].account]]
        /\ UNCHANGED <<account, ledger>>
    BY <1>0, <1>4 DEF LockVoid, Continue, TypeOK
  <2>2. job[h].entry \in Entries /\ Voidable(job[h].entry)
    BY <1>0, <1>4 DEF LockVoid, Current
  <2> QED
    BY <2>1, <2>2 DEF Current, Entries, Voidable
<1>5. CASE OpenStart(h) \/ ReadNumber(h) \/ OpenAccount(h)
  <2>1. job'[h].at \in {"open", "number", "idle"}
    BY <1>0, <1>5 DEF OpenStart, ReadNumber, OpenAccount, Continue, Finish, NoJob, TypeOK
  <2> QED
    BY <2>1 DEF Current
<1> QED
  BY <1>1, <1>2, <1>3, <1>4, <1>5 DEF Reads

\* Whatever a handler under way has read is still so after any step.
LEMMA UnderWayStep ==
    ASSUME TInv, [Next]_tvars
    PROVE  UnderWay'
<1> SUFFICES ASSUME NEW g \in Handlers PROVE Current(g)'
  BY DEF UnderWay, Current
<1>0. TypeOK
  BY DEF TInv
<1>1. CASE job'[g] = job[g]
  BY <1>1, StayingIsCurrent
<1>2. CASE job'[g] = NoJob
  BY <1>2 DEF Current, NoJob
<1>3. CASE Reads(g) \/ OpenAccount(g)
  BY <1>3, ReadingIsCurrent
<1> QED
  BY <1>0, <1>1, <1>2, <1>3, StepMoves

\* A handler that stays where it is holds no new row and no new entry.
LEMMA StayingHoldsTheSame ==
    ASSUME TInv, [Next]_tvars, NEW g \in Handlers, job'[g] = job[g]
    PROVE  /\ \A a : Holds(g, a)' => Holds(g, a)
           /\ \A e : Voids(g, e)' => Voids(g, e) /\ e \in Entries
<1>1. job[g].at \in {"lockVoid", "bookVoid"} => job[g].entry \in Entries
  BY DEF TInv, UnderWay
<1>2. job[g].at = "bookVoid" => ledger'[job[g].entry].account = ledger[job[g].entry].account
  BY <1>1, RecordsStay
<1> QED
  BY <1>1, <1>2 DEF Holds, Voids

\* Rows and entries are taken only while nobody has them.
LEMMA TakenWhenFree ==
    ASSUME TInv, NEW h \in Handlers, Reads(h) \/ OpenAccount(h)
    PROVE  /\ \A a : Holds(h, a)' => RowFree(a)
           /\ \A e : Voids(h, e)' => e \in Entries /\ (EntryFree(e) \/ Voids(h, e))
<1>0. TypeOK
  BY DEF TInv
<1>1. CASE Press(h) \/ Webhook(h)
  <2>1. PICK intent \in Intent, r \in References : job' = [job EXCEPT ![h] = Wanted(intent, r)]
    BY <1>0, <1>1, AskedFor
  <2>2. job'[h].at = "lock"
    BY <1>0, <2>1 DEF Wanted, TypeOK
  <2> QED
    BY <2>2 DEF Holds, Voids
<1>2. CASE Lock(h)
  <2>1. /\ job'[h].at = "book"
        /\ job'[h].account = job[h].account
        /\ RowFree(job[h].account)
    BY <1>0, <1>2 DEF Lock, Continue, TypeOK
  <2> QED
    BY <2>1 DEF Holds, Voids
<1>3. CASE VoidStart(h)
  <2>1. PICK e \in Entries : EntryFree(e) /\ Continue(h, [at |-> "lockVoid", entry |-> e])
    BY <1>3 DEF VoidStart
  <2>2. job'[h] = [at |-> "lockVoid", entry |-> e]
    BY <1>0, <2>1 DEF Continue, TypeOK
  <2> QED
    BY <2>1, <2>2 DEF Holds, Voids
<1>4. CASE LockVoid(h)
  <2>1. /\ job[h].at = "lockVoid"
        /\ job'[h].at = "bookVoid"
        /\ job'[h].entry = job[h].entry
        /\ RowFree(ledger[job[h].entry].account)
        /\ UNCHANGED ledger
    BY <1>0, <1>4 DEF LockVoid, Continue, TypeOK
  <2>2. job[h].entry \in Entries
    BY <2>1 DEF TInv, UnderWay
  <2> QED
    BY <2>1, <2>2 DEF Holds, Voids
<1>5. CASE OpenStart(h) \/ ReadNumber(h) \/ OpenAccount(h)
  <2>1. job'[h].at \in {"open", "number", "idle"}
    BY <1>0, <1>5 DEF OpenStart, ReadNumber, OpenAccount, Continue, Finish, NoJob, TypeOK
  <2> QED
    BY <2>1 DEF Holds, Voids
<1> QED
  BY <1>1, <1>2, <1>3, <1>4, <1>5 DEF Reads

\* No two handlers ever have the same row or the same entry.
LEMMA OneHolderStep ==
    ASSUME TInv, [Next]_tvars
    PROVE  OneHolder'
<1> SUFFICES ASSUME NEW g \in Handlers, NEW h \in Handlers, g # h
             PROVE  /\ \A a : ~(Holds(g, a)' /\ Holds(h, a)')
                    /\ \A e : ~(Voids(g, e)' /\ Voids(h, e)')
  BY DEF OneHolder
<1>0. TypeOK /\ OneHolder
  BY DEF TInv
<1>1. \A k \in Handlers : job'[k] = NoJob => \A x : ~Holds(k, x)' /\ ~Voids(k, x)'
  BY DEF NoJob, Holds, Voids
<1>2. ASSUME job'[g] = job[g], job'[h] = job[h]
      PROVE  /\ \A a : ~(Holds(g, a)' /\ Holds(h, a)')
             /\ \A e : ~(Voids(g, e)' /\ Voids(h, e)')
  <2>1. \A a : Holds(g, a) => a \in Accounts
    <3>1. job[g] \in Job
      BY <1>0 DEF TypeOK
    <3>2. job[g].at = "book" => job[g].account \in Accounts
      BY <3>1, JobFields
    <3>3. job[g].at = "bookVoid" => job[g].entry \in Entries
      BY DEF TInv, UnderWay
    <3>4. \A e \in Entries : ledger[e].account \in Accounts
      BY DEF TInv, EntriesKnown, Opened
    <3> QED
      BY <3>2, <3>3, <3>4 DEF Holds
  <2> QED
    BY <1>0, <1>2, <2>1, StayingHoldsTheSame DEF OneHolder
<1>3. ASSUME NEW k \in Handlers, NEW l \in Handlers, k # l, job'[l] = job[l],
             Reads(k) \/ OpenAccount(k)
      PROVE  /\ \A a : ~(Holds(k, a)' /\ Holds(l, a)')
             /\ \A e : ~(Voids(k, e)' /\ Voids(l, e)')
  <2>1. \A a : Holds(k, a)' => ~Holds(l, a)
    BY <1>3, TakenWhenFree DEF RowFree, Holds
  <2>2. \A e : Voids(k, e)' => ~Voids(l, e)
    BY <1>0, <1>3, TakenWhenFree DEF EntryFree, Voids, OneHolder
  <2> QED
    BY <1>3, <2>1, <2>2, StayingHoldsTheSame
<1>4. CASE UNCHANGED job
  BY <1>2, <1>4
<1>5. CASE job' = [k \in Handlers |-> NoJob]
  BY <1>1, <1>5
<1>6. CASE \E k \in Handlers :
             /\ \A l \in Handlers : l # k => job'[l] = job[l]
             /\ \/ job'[k] = NoJob
                \/ Reads(k)
                \/ OpenAccount(k)
  <2>1. PICK k \in Handlers : /\ \A l \in Handlers : l # k => job'[l] = job[l]
                              /\ \/ job'[k] = NoJob
                                 \/ Reads(k)
                                 \/ OpenAccount(k)
    BY <1>6
  <2>2. CASE k = g
    BY <1>1, <1>3, <2>1, <2>2
  <2>3. CASE k = h
    BY <1>1, <1>3, <2>1, <2>3
  <2>4. CASE k # g /\ k # h
    BY <1>2, <2>1, <2>4
  <2> QED
    BY <2>2, <2>3, <2>4
<1> QED
  BY <1>0, <1>4, <1>5, <1>6, StepMoves

\* Entries stay on accounts there are and reverse earlier entries only.
LEMMA EntriesKnownStep ==
    ASSUME TInv, [Next]_tvars
    PROVE  EntriesKnown'
<1>0. TypeOK /\ EntriesKnown
  BY DEF TInv
<1>1. ASSUME NEW entry, NEW v, Booking(entry, v), entry.reverses \in {0} \cup Entries
      PROVE  EntriesKnown'
  <2>1. ASSUME NEW e \in Entries'
        PROVE  /\ ledger'[e].account \in Opened'
               /\ ledger'[e].reverses # 0 => ledger'[e].reverses \in 1..(e - 1)
    <3>1. CASE e \in Entries
      <4>1. ledger[e] \in Entry
        BY <1>0, <3>1, LedgerLength
      <4>2. ledger'[e].account = ledger[e].account /\ ledger'[e].reverses = ledger[e].reverses
        BY <1>1, <3>1, <4>1 DEF Booking, Grown, Entry
      <4> QED
        BY <1>0, <3>1, <4>2, RecordsStay DEF EntriesKnown
    <3>2. CASE e \notin Entries
      <4>1. e = Len(ledger) + 1 /\ ledger'[e] = entry
        BY <1>0, <1>1, <2>1, <3>2, LedgerLength DEF Booking, Grown
      <4>2. entry.account \in Opened'
        BY <1>1, RecordsStay DEF Booking
      <4>3. entry.reverses # 0 => entry.reverses \in 1..(e - 1)
        BY <1>0, <1>1, <4>1, LedgerLength
      <4> QED
        BY <4>1, <4>2, <4>3
    <3> QED
      BY <3>1, <3>2
  <2> QED
    BY <2>1 DEF EntriesKnown
<1>2. CASE \E h \in Handlers : Book(h) /\ \E entry : Requested(h, entry)
  BY <1>1, <1>2 DEF Requested
<1>3. CASE \E h \in Handlers : BookVoid(h) /\ \E entry : Reversal(h, entry)
  BY <1>1, <1>3 DEF Reversal
<1>4. CASE Quiet
  BY <1>0, <1>4, RecordsStay DEF Quiet, EntriesKnown, Entries
<1> QED
  BY <1>2, <1>3, <1>4, StepBooks

-----------------------------------------------------------------------------
(* The theorems *)

\* The inductive invariant: types, current reads, one holder per row and entry.
LEMMA InvariantHolds == Spec => []TInv
<1>1. Init => TInv
  <2> SUFFICES ASSUME Init PROVE TInv
    OBVIOUS
  <2>1. account \in [Accounts -> Account]
    BY DEF Init, Account, NoAccount
  <2>2. ledger \in Seq(Entry) /\ Entries = {}
    BY EmptySeq DEF Init, Entries
  <2>3. menu \in Nat \cup {Inactive}
    BY AmountsAssumption DEF Init
  <2>4. job \in [Handlers -> Job] /\ \A h \in Handlers : job[h].at = "idle"
    BY DEF Init, NoJob, Job
  <2>5. asked \in [References -> Intent \cup {Unasked}]
    BY DEF Init
  <2>6. OneHolder /\ UnderWay /\ EntriesKnown
    BY <2>2, <2>4 DEF OneHolder, UnderWay, EntriesKnown, Holds, Voids
  <2> QED
    BY <2>1, <2>2, <2>3, <2>4, <2>5, <2>6 DEF TInv, TypeOK
<1>2. TInv /\ [Next]_tvars => TInv'
  BY TypeStep, OneHolderStep, UnderWayStep, EntriesKnownStep DEF TInv
<1> QED
  BY <1>1, <1>2, PTL DEF Spec

\* Accounts, ledger, keys and handlers always have the types the tables declare.
THEOREM TavernTypeCorrect == Spec => []TypeOK
  BY InvariantHolds, PTL DEF TInv

\* No account is ever overdrawn, whatever handlers do at the same time (applyEntry
\* checks the balance of the row its handler has locked).
THEOREM NeverOverdrawnCorrect == Spec => []NeverOverdrawn
<1>1. Init => NeverOverdrawn
  BY DEF Init, NeverOverdrawn, NoAccount
<1>2. TInv /\ NeverOverdrawn /\ [Next]_tvars => NeverOverdrawn'
  <2> SUFFICES ASSUME TInv, NeverOverdrawn, [Next]_tvars, NEW a \in Accounts
               PROVE  account'[a].balance >= 0
    BY DEF NeverOverdrawn
  <2>0. account \in [Accounts -> Account] /\ account[a].balance \in Nat
    BY DEF TInv, TypeOK, Account, NeverOverdrawn
  <2>1. ASSUME NEW entry, NEW v, Booking(entry, v)
        PROVE  account'[a].balance >= 0
    <3>1. entry.account \in Accounts /\ entry.amount \in Int
      BY <2>1, EntryFields DEF Booking
    <3>2. CASE a = entry.account
      <4>1. account'[a].balance = account[a].balance + entry.amount
        BY <2>0, <2>1, <3>1, <3>2 DEF Booking, Account
      <4> QED
        BY <2>0, <2>1, <3>1, <3>2, <4>1 DEF Booking
    <3>3. CASE a # entry.account
      BY <2>0, <2>1, <3>1, <3>3 DEF Booking
    <3> QED
      BY <3>2, <3>3
  <2>2. CASE Quiet
    <3>1. ASSUME NEW b \in Accounts, Switched(b) PROVE account'[a].balance = account[a].balance
      BY <2>0, <3>1 DEF Switched, Account
    <3>2. ASSUME NEW b \in Accounts, NEW n \in Nat, NEW owner \in People \cup {NoOwner},
                 Added(b, n, owner)
          PROVE  account'[a].balance \in {0, account[a].balance}
      BY <2>0, <3>2 DEF Added, NoAccount
    <3> QED
      BY <2>0, <2>2, <3>1, <3>2 DEF Quiet
  <2> QED
    BY <2>1, <2>2, StepBooks DEF Requested, Reversal
<1> QED
  BY <1>1, <1>2, InvariantHolds, PTL DEF Spec

\* From the moment an account is locked nothing is charged to it or paid out of it:
\* the UPDATE of setLocked waits for the row, so the lock a handler reads is current.
THEOREM LockedAccountCorrect == Spec => LockedAccountKeepsMoney
<1>1. ASSUME TInv, [Next]_tvars, NEW e \in DOMAIN ledger' \ DOMAIN ledger,
             ledger'[e].type \in {"charge", "payout"}
      PROVE  ~account[ledger'[e].account].locked
  <2>1. ASSUME NEW entry, NEW v, Booking(entry, v)
        PROVE  ledger'[e] = entry
    BY <1>1, <2>1, LedgerLength DEF Booking, Grown, Entries, TInv
  <2>2. CASE \E h \in Handlers : \E entry : Requested(h, entry)
    BY <1>1, <2>1, <2>2 DEF Requested
  <2>3. CASE \E h \in Handlers : \E entry : Reversal(h, entry)
    BY <1>1, <2>1, <2>3 DEF Reversal
  <2>4. CASE Quiet
    BY <1>1, <2>4 DEF Quiet
  <2> QED
    BY <1>1, <2>2, <2>3, <2>4, StepBooks
<1>2. TInv /\ [Next]_tvars =>
        [\A e \in DOMAIN ledger' \ DOMAIN ledger :
           ledger'[e].type \in {"charge", "payout"} => ~account[ledger'[e].account].locked]_tvars
  BY <1>1
<1> QED
  BY <1>2, InvariantHolds, PTL DEF Spec, LockedAccountKeepsMoney

\* A number belongs to one account and a person has at most one: the INSERT meets the
\* unique indexes, however old the MAX + 1 its handler read.
THEOREM NumbersIdentifyCorrect == Spec => []NumbersIdentify
<1>1. Init => NumbersIdentify
  BY DEF Init, NumbersIdentify, Opened, NoAccount
<1>2. TInv /\ NumbersIdentify /\ [Next]_tvars => NumbersIdentify'
  <2> SUFFICES ASSUME TInv, NumbersIdentify, [Next]_tvars,
                      NEW a \in Opened', NEW b \in Opened', a # b
               PROVE  /\ account'[a].number # account'[b].number
                      /\ account'[a].owner # NoOwner => account'[a].owner # account'[b].owner
    BY DEF NumbersIdentify
  <2>0. account \in [Accounts -> Account] /\ a \in Accounts /\ b \in Accounts
    BY DEF TInv, TypeOK, Opened
  <2>1. ASSUME \A c \in Accounts : /\ account'[c].number = account[c].number
                                   /\ account'[c].owner = account[c].owner
        PROVE  /\ account'[a].number # account'[b].number
               /\ account'[a].owner # NoOwner => account'[a].owner # account'[b].owner
    BY <2>0, <2>1 DEF NumbersIdentify, Opened
  <2>2. ASSUME NEW entry, NEW v, Booking(entry, v)
        PROVE  /\ account'[a].number # account'[b].number
               /\ account'[a].owner # NoOwner => account'[a].owner # account'[b].owner
    BY <2>0, <2>1, <2>2 DEF Booking, Account
  <2>3. ASSUME NEW c \in Accounts, Switched(c)
        PROVE  /\ account'[a].number # account'[b].number
               /\ account'[a].owner # NoOwner => account'[a].owner # account'[b].owner
    BY <2>0, <2>1, <2>3 DEF Switched, Account
  <2>4. ASSUME NEW c \in Accounts, NEW n \in Nat, NEW owner \in People \cup {NoOwner},
               Added(c, n, owner)
        PROVE  /\ account'[a].number # account'[b].number
               /\ account'[a].owner # NoOwner => account'[a].owner # account'[b].owner
    <3>1. /\ account'[c].number = n /\ account'[c].owner = owner
          /\ \A d \in Accounts : d # c => account'[d] = account[d]
      BY <2>0, <2>4 DEF Added, NoAccount
    <3>2. \A d \in Opened : account[d].number # n
      BY <2>4 DEF Added, NumberTaken, Numbers
    <3>3. \A d \in {a, b} : d # c => d \in Opened
      BY <2>0, <3>1 DEF Opened
    <3>4. owner # NoOwner => \A d \in Opened : account[d].owner # owner
      BY <2>4 DEF Added
    <3>5. CASE a = c
      BY <2>0, <3>1, <3>2, <3>3, <3>4, <3>5
    <3>6. CASE b = c
      BY <2>0, <3>1, <3>2, <3>3, <3>4, <3>6
    <3>7. CASE a # c /\ b # c
      BY <2>0, <3>1, <3>3, <3>7 DEF NumbersIdentify
    <3> QED
      BY <3>5, <3>6, <3>7
  <2>5. CASE Quiet
    BY <2>1, <2>3, <2>4, <2>5 DEF Quiet
  <2> QED
    BY <2>2, <2>5, StepBooks DEF Requested, Reversal
<1> QED
  BY <1>1, <1>2, InvariantHolds, PTL DEF Spec

\* A handler that has the row and did not find its request books it first: requests
\* with one key are about one account, whose row only one handler has.
THEOREM RepeatsCorrect == Spec => []RepeatsComeOneByOne
<1>1. Init => RepeatsComeOneByOne
  BY DEF Init, RepeatsComeOneByOne, NoJob
<1>2. TInv /\ RepeatsComeOneByOne /\ [Next]_tvars => RepeatsComeOneByOne'
  <2> SUFFICES ASSUME TInv, RepeatsComeOneByOne, [Next]_tvars, NEW g \in Handlers,
                      job'[g].at = "book", ~job'[g].done, NEW r, r = job'[g].reference
               PROVE  ~Booked(r)'
    BY DEF RepeatsComeOneByOne, Booked
  <2>0. TypeOK /\ job'[g] # NoJob
    BY DEF TInv, NoJob
  <2>1. CASE job'[g] = job[g]
    <3>0. /\ r = job[g].reference
          /\ r \in References /\ ~Booked(r)
          /\ job[g].account \in Accounts
          /\ job[g].account = asked[r].account
      BY <2>0, <2>1, JobFields DEF TypeOK, TInv, UnderWay, RepeatsComeOneByOne
    <3>1. ASSUME NEW entry, NEW v, Booking(entry, v), Booked(r)'
          PROVE  entry.reference = r
      <4>1. \A e \in Entries : ledger'[e].reference = ledger[e].reference
        <5>1. \A e \in Entries :
                 ledger'[e] = IF e = v THEN [ledger[e] EXCEPT !.voided = TRUE] ELSE ledger[e]
          BY <3>1 DEF Booking, Grown
        <5> QED
          BY <2>0, <5>1, LedgerLength, MarkedFields
      <4>2. PICK e \in Entries' : ledger'[e].reference = r
        BY <3>1 DEF Booked
      <4>3. Entries = 1..Len(ledger) /\ Entries' = 1..(Len(ledger) + 1) /\ Len(ledger) \in Nat
        BY <2>0, <3>1, LedgerLength DEF Booking, Grown
      <4>4. e \notin Entries
        BY <3>0, <4>1, <4>2 DEF Booked
      <4> QED
        BY <3>1, <4>2, <4>3, <4>4 DEF Booking, Grown
    <3>2. ASSUME NEW h \in Handlers, Book(h), NEW entry, Requested(h, entry)
          PROVE  entry.reference # r
      <4>1. SUFFICES ASSUME job[h].reference = r PROVE FALSE
        BY <3>2 DEF Requested
      <4>2. job[h].at = "book" /\ job'[h] = NoJob
        BY <2>0, <3>2 DEF Book, Finish, Continue, TypeOK
      <4>3. h # g /\ job[h].account = job[g].account
        BY <2>0, <2>1, <3>0, <4>1, <4>2 DEF TInv, UnderWay
      <4> QED
        BY <2>1, <3>0, <4>2, <4>3 DEF TInv, OneHolder, Holds
    <3>3. CASE \E h \in Handlers : Book(h) /\ \E entry : Requested(h, entry)
      BY <2>1, <3>1, <3>2, <3>3 DEF Requested
    <3>4. CASE \E h \in Handlers : \E entry : Reversal(h, entry)
      BY <2>1, <3>0, <3>1, <3>4, KeysAssumption DEF Reversal, References
    <3>5. CASE Quiet
      BY <2>1, <3>0, <3>5 DEF Quiet, Booked, Entries
    <3> QED
      BY <3>3, <3>4, <3>5, StepBooks
  <2>2. CASE Reads(g)
    <3>1. Lock(g)
      BY <2>0, <2>2 DEF Reads, Press, Webhook, Wanted, VoidStart, LockVoid, OpenStart, ReadNumber,
                        Continue, TypeOK
    <3> QED
      BY <2>0, <3>1 DEF Lock, Continue, Booked, Entries, TypeOK
  <2>3. CASE OpenAccount(g)
    BY <2>0, <2>3 DEF OpenAccount, Finish, Continue, TypeOK
  <2> QED
    BY <2>0, <2>1, <2>2, <2>3, StepMoves
<1> QED
  BY <1>1, <1>2, InvariantHolds, PTL DEF Spec

-----------------------------------------------------------------------------
(* Voids *)

Reversals(e) == {r \in Entries : ledger[r].reverses = e}

\* An entry has finitely many reversals, all of them booked after it.
LEMMA ReversalsFollow ==
    ASSUME TInv, NEW e \in Entries
    PROVE  /\ IsFiniteSet(Reversals(e))
           /\ Cardinality(Reversals(e)) = 0 => Reversals(e) = {}
           /\ \A r \in Reversals(e) : r > e
<1>1. Len(ledger) \in Nat /\ Entries = 1..Len(ledger) /\ e \in Nat \ {0}
  BY LedgerLength DEF TInv
<1>2. IsFiniteSet(Reversals(e))
  <2>1. IsFiniteSet(1..Len(ledger))
    BY <1>1, FS_Interval
  <2> QED
    BY <1>1, <2>1, FS_Subset DEF Reversals
<1>3. \A r \in Reversals(e) : r > e
  <2> SUFFICES ASSUME NEW r \in Entries, ledger[r].reverses = e PROVE r > e
    BY DEF Reversals
  <2>1. e \in 1..(r - 1) /\ r \in Nat
    BY <1>1 DEF TInv, EntriesKnown
  <2> QED
    BY <1>1, <2>1
<1> QED
  BY <1>2, <1>3, FS_EmptySet

\* An entry is marked as voided exactly when one reversal of it was booked: whoever
\* has the entry's row found it open, and marks it when the reversal is booked.
THEOREM VoidedOnceCorrect == Spec => []VoidedOnce
<1> DEFINE Fine(e) ==
      /\ Cardinality(Reversals(e)) = IF ledger[e].voided THEN 1 ELSE 0
      /\ \A r \in Reversals(e) : /\ ledger[r].amount = -ledger[e].amount
                                 /\ ledger[r].account = ledger[e].account
<1>0. VoidedOnce <=> \A e \in Entries : Fine(e)
  BY DEF VoidedOnce, Reversals
<1>1. Init => VoidedOnce
  BY DEF Init, VoidedOnce, Entries
<1>2. TInv /\ VoidedOnce /\ [Next]_tvars => VoidedOnce'
  <2> SUFFICES ASSUME TInv, VoidedOnce, [Next]_tvars PROVE VoidedOnce'
    OBVIOUS
  <2>0. TypeOK /\ TInv' /\ EntriesKnown' /\ Len(ledger) \in Nat /\ Entries = 1..Len(ledger)
    BY TypeStep, OneHolderStep, UnderWayStep, EntriesKnownStep, LedgerLength DEF TInv
  <2>1. ASSUME NEW entry, NEW v, Booking(entry, v),
               v = 0 => entry.reverses = 0 /\ entry.voided = FALSE,
               v # 0 => /\ v \in Entries
                        /\ ~ledger[v].voided
                        /\ entry.reverses = v
                        /\ entry.voided = FALSE
                        /\ entry.amount = -ledger[v].amount
                        /\ entry.account = ledger[v].account,
               NEW e \in Entries'
        PROVE  Fine(e)'
    <3> DEFINE new == Len(ledger) + 1
    <3>1. Entries' = Entries \cup {new} /\ new \notin Entries /\ ledger'[new] = entry
      BY <2>0, <2>1 DEF Booking, Grown
    <3>2. \A r \in Entries : /\ ledger'[r].reverses = ledger[r].reverses
                             /\ ledger'[r].amount = ledger[r].amount
                             /\ ledger'[r].account = ledger[r].account
                             /\ ledger'[r].voided = IF r = v THEN TRUE ELSE ledger[r].voided
      <4> SUFFICES ASSUME NEW r \in Entries
                   PROVE  /\ ledger'[r].reverses = ledger[r].reverses
                          /\ ledger'[r].amount = ledger[r].amount
                          /\ ledger'[r].account = ledger[r].account
                          /\ ledger'[r].voided = IF r = v THEN TRUE ELSE ledger[r].voided
        OBVIOUS
      <4>1. ledger[r] \in Entry
        BY <2>0, LedgerLength
      <4>2. ledger'[r] = IF r = v THEN [ledger[r] EXCEPT !.voided = TRUE] ELSE ledger[r]
        BY <2>1 DEF Booking, Grown
      <4>3. [ledger[r] EXCEPT !.voided = TRUE].voided = TRUE
        BY <4>1 DEF Entry
      <4> QED
        BY <4>1, <4>2, <4>3 DEF Entry
    <3>3. \A r \in Entries : r # 0
      BY <2>0
    <3>4. CASE e = new
      <4>1. Reversals(e)' = {}
        <5>1. \A r \in Entries' : ~(ledger'[r].reverses = e)
          BY <2>0, <2>1, <3>1, <3>2, <3>4 DEF EntriesKnown
        <5> QED
          BY <5>1 DEF Reversals
      <4>2. ledger'[e].voided = FALSE
        BY <2>1, <3>1, <3>4
      <4> QED
        BY <4>1, <4>2, FS_EmptySet
    <3>5. CASE e \in Entries /\ e # v
      <4>1. Reversals(e)' = Reversals(e)
        BY <2>1, <3>1, <3>2, <3>3, <3>5 DEF Reversals
      <4>2. \A r \in Reversals(e) : r \in Entries
        BY DEF Reversals
      <4>3. Fine(e)
        BY <1>0, <3>5
      <4> QED
        BY <3>2, <3>5, <4>1, <4>2, <4>3
    <3>6. CASE e \in Entries /\ e = v
      <4>1. Reversals(e) = {}
        <5>1. Cardinality(Reversals(e)) = 0
          BY <1>0, <2>1, <3>3, <3>6
        <5> QED
          BY <3>6, <5>1, ReversalsFollow
      <4>2. Reversals(e)' = {new}
        <5>1. \A r \in Entries : ledger[r].reverses # e
          BY <4>1 DEF Reversals
        <5>2. \A r \in Entries' : ledger'[r].reverses = e <=> r = new
          <6>1. ledger'[new].reverses = e
            BY <2>1, <3>1, <3>3, <3>6
          <6>2. \A r \in Entries : ledger'[r].reverses # e /\ r # new
            BY <3>1, <3>2, <5>1
          <6> HIDE DEF new
          <6> QED
            BY <3>1, <6>1, <6>2
        <5> QED
          BY <3>1, <5>2 DEF Reversals
      <4>3. ledger'[e].voided = TRUE
        BY <3>2, <3>6
      <4>4. ledger'[new].amount = -ledger'[e].amount /\ ledger'[new].account = ledger'[e].account
        BY <2>1, <3>1, <3>2, <3>3, <3>6
      <4> QED
        BY <4>2, <4>3, <4>4, FS_Singleton
    <3> QED
      BY <3>1, <3>4, <3>5, <3>6
  <2>2. CASE \E h \in Handlers : \E entry : Requested(h, entry)
    <3>1. PICK entry : /\ Booking(entry, 0)
                       /\ entry.reverses = 0
                       /\ entry.voided = FALSE
      BY <2>2 DEF Requested
    <3> QED
      BY <2>1, <3>1 DEF VoidedOnce, Reversals
  <2>3. CASE \E h \in Handlers : \E entry : Reversal(h, entry)
    <3>0. PICK h \in Handlers : \E entry : Reversal(h, entry)
      BY <2>3
    <3>1. PICK entry : Reversal(h, entry)
      BY <3>0
    <3>2. job[h].entry # 0
      BY <2>0, <3>1 DEF Reversal
    <3> QED
      BY <2>1, <3>1, <3>2 DEF Reversal, Voidable, VoidedOnce, Reversals
  <2>4. CASE Quiet
    BY <2>4 DEF Quiet, VoidedOnce, Entries
  <2> QED
    BY <2>2, <2>3, <2>4, StepBooks
<1> QED
  BY <1>1, <1>2, InvariantHolds, PTL DEF Spec

-----------------------------------------------------------------------------
(* Ledger and balances *)

AmountOf == [e \in Entries |-> ledger[e].amount]
BalanceOf == [a \in Accounts |-> account[a].balance]

\* A sum over some of the entries is one of finitely many integers.
LEMMA EntriesAdd ==
    ASSUME TypeOK, NEW entries \in SUBSET Entries
    PROVE  /\ IsFiniteSet(entries)
           /\ \A e \in entries : AmountOf[e] \in Int
           /\ Sum(entries) = Total(AmountOf, entries)
           /\ Sum(entries) \in Int
<1>1. IsFiniteSet(entries)
  <2>1. IsFiniteSet(Entries)
    BY LedgerLength, FS_Interval
  <2> QED
    BY <2>1, FS_Subset
<1>2. \A e \in Entries : ledger[e].amount \in Int
  BY LedgerLength, EntryFields
<1>3. \A e \in entries : AmountOf[e] \in Int
  BY <1>2 DEF AmountOf
<1>4. Sum(entries) = Total(AmountOf, entries)
  BY DEF Sum, AmountOf
<1> QED
  BY <1>1, <1>3, <1>4, TotalType

\* What a booking does to the entries: one more, and no amount changes.
LEMMA BookingAdds ==
    ASSUME TypeOK, NEW entry, NEW v, Booking(entry, v)
    PROVE  /\ Len(ledger) + 1 \notin Entries /\ Entries' = Entries \cup {Len(ledger) + 1}
           /\ ledger'[Len(ledger) + 1] = entry
           /\ \A e \in Entries : /\ ledger'[e].amount = ledger[e].amount
                                 /\ ledger'[e].account = ledger[e].account
                                 /\ ledger'[e].type = ledger[e].type
                                 /\ e # v => ledger'[e] = ledger[e]
           /\ v \in Entries => ledger'[v].voided = TRUE
<1> DEFINE new == Len(ledger) + 1
<1>1. Len(ledger) \in Nat /\ Entries = 1..Len(ledger) /\ \A e \in Entries : ledger[e] \in Entry
  BY LedgerLength
<1>2. new \notin Entries /\ Entries' = Entries \cup {new} /\ ledger'[new] = entry
  BY <1>1 DEF Booking, Grown
<1>3. \A e \in Entries :
         ledger'[e] = IF e = v THEN [ledger[e] EXCEPT !.voided = TRUE] ELSE ledger[e]
  BY DEF Booking, Grown
<1>4. ASSUME NEW e \in Entries
      PROVE  /\ ledger'[e].amount = ledger[e].amount
             /\ ledger'[e].account = ledger[e].account
             /\ ledger'[e].type = ledger[e].type
  BY <1>1, <1>3, MarkedFields
<1>5. ASSUME v \in Entries PROVE ledger'[v].voided = TRUE
  BY <1>1, <1>3, <1>5 DEF Entry
<1>6. \A e \in Entries : e # v => ledger'[e] = ledger[e]
  BY <1>3
<1> QED
  BY <1>2, <1>4, <1>5, <1>6

\* Sums over entries that were there before do not change.
LEMMA OldSumsStay ==
    ASSUME TypeOK, TypeOK', NEW entry, NEW v, Booking(entry, v),
           NEW entries \in SUBSET Entries
    PROVE  /\ Total(AmountOf', entries) = Sum(entries)
           /\ Total(AmountOf', entries \cup {Len(ledger) + 1}) = Sum(entries) + entry.amount
<1> DEFINE new == Len(ledger) + 1
           S == entries \cup {new}
<1>1. /\ new \notin entries /\ entries \in SUBSET Entries' /\ S \in SUBSET Entries'
      /\ new \in Entries' /\ ledger'[new] = entry
      /\ \A e \in entries : ledger'[e].amount = ledger[e].amount
  BY BookingAdds
<1>2. \A e \in entries : AmountOf'[e] = AmountOf[e]
  BY <1>1 DEF AmountOf
<1>3. AmountOf'[new] = entry.amount
  BY <1>1 DEF AmountOf
<1>4. /\ IsFiniteSet(entries) /\ \A e \in entries : AmountOf[e] \in Int
      /\ Sum(entries) = Total(AmountOf, entries)
  BY EntriesAdd
<1>6. entry.amount \in Int
  BY EntryFields DEF Booking
<1>7. \A e \in S : AmountOf'[e] \in Int
  BY <1>2, <1>3, <1>4, <1>6
<1>8. Total(AmountOf', entries) = Total(AmountOf, entries)
  BY <1>2, <1>4, TotalSame
<1>9. Total(AmountOf', S) = Total(AmountOf', entries) + AmountOf'[new]
  BY <1>1, <1>4, <1>7, TotalAdd
<1> QED
  BY <1>3, <1>4, <1>8, <1>9

\* "balance is kept in sync with the ledger": every booking moves the balance of the
\* row its handler has locked, so no update is lost (lockAccount, applyEntry).
THEOREM BalanceIsLedgerCorrect == Spec => []BalanceIsLedger
<1>1. Init => BalanceIsLedger
  <2> SUFFICES ASSUME Init, NEW a \in Accounts PROVE account[a].balance = Sum(EntriesOf(a))
    BY DEF BalanceIsLedger
  <2>1. EntriesOf(a) = {} /\ account[a].balance = 0
    BY DEF Init, EntriesOf, Entries, NoAccount
  <2> QED
    BY <2>1, TotalOfNothing DEF Sum
<1>2. TInv /\ TInv' /\ BalanceIsLedger /\ [Next]_tvars => BalanceIsLedger'
  <2> SUFFICES ASSUME TInv, TInv', BalanceIsLedger, [Next]_tvars, NEW a \in Accounts
               PROVE  account'[a].balance = Sum(EntriesOf(a))'
    BY DEF BalanceIsLedger
  <2>0. /\ TypeOK /\ TypeOK' /\ account \in [Accounts -> Account]
        /\ account[a].balance = Sum(EntriesOf(a)) /\ account[a].balance \in Int
    BY DEF TInv, TypeOK, BalanceIsLedger, Account
  <2>1. EntriesOf(a) \in SUBSET Entries
    BY DEF EntriesOf
  <2>2. ASSUME NEW entry, NEW v, Booking(entry, v)
        PROVE  account'[a].balance = Sum(EntriesOf(a))'
    <3> DEFINE new == Len(ledger) + 1
    <3>1. entry.account \in Accounts /\ entry.amount \in Int
      BY <2>2, EntryFields DEF Booking
    <3>2. /\ Sum(EntriesOf(a)) \in Int
          /\ Total(AmountOf', EntriesOf(a)) = Sum(EntriesOf(a))
          /\ Total(AmountOf', EntriesOf(a) \cup {new}) = Sum(EntriesOf(a)) + entry.amount
      BY <2>0, <2>1, <2>2, OldSumsStay, EntriesAdd
    <3>3. Sum(EntriesOf(a))' = Total(AmountOf', EntriesOf(a)')
      BY DEF Sum, AmountOf
    <3>6. /\ Entries' = Entries \cup {new} /\ ledger'[new] = entry
          /\ \A e \in Entries : ledger'[e].account = ledger[e].account
      BY <2>0, <2>2, BookingAdds
    <3> HIDE DEF new
    <3>4. CASE a = entry.account
      <4>1. EntriesOf(a)' = EntriesOf(a) \cup {new}
        BY <3>4, <3>6 DEF EntriesOf
      <4>2. account'[a].balance = account[a].balance + entry.amount
        BY <2>0, <2>2, <3>1, <3>4 DEF Booking, Account
      <4> QED
        BY <2>0, <3>2, <3>3, <4>1, <4>2
    <3>5. CASE a # entry.account
      <4>1. EntriesOf(a)' = EntriesOf(a)
        BY <3>5, <3>6 DEF EntriesOf
      <4>2. account'[a].balance = account[a].balance
        BY <2>0, <2>2, <3>1, <3>5 DEF Booking
      <4> QED
        BY <2>0, <3>2, <3>3, <4>1, <4>2
    <3> QED
      BY <3>4, <3>5
  <2>3. CASE Quiet
    <3>1. EntriesOf(a)' = EntriesOf(a) /\ Sum(EntriesOf(a))' = Sum(EntriesOf(a))
      BY <2>3 DEF Quiet, EntriesOf, Entries, Sum
    <3>2. ASSUME NEW b \in Accounts, Switched(b) PROVE account'[a].balance = account[a].balance
      BY <2>0, <3>2 DEF Switched, Account
    <3>3. ASSUME NEW b \in Accounts, NEW n \in Nat, NEW owner \in People \cup {NoOwner},
                 Added(b, n, owner)
          PROVE  account'[a].balance = account[a].balance
      <4>1. CASE a = b
        <5>1. EntriesOf(a) = {}
          BY <3>3, <4>1 DEF Added, TInv, EntriesKnown, EntriesOf
        <5>2. account[a].balance = 0
          BY <2>0, <5>1, TotalOfNothing DEF Sum
        <5> QED
          BY <2>0, <3>3, <4>1, <5>2 DEF Added, NoAccount
      <4> QED
        BY <2>0, <3>3, <4>1 DEF Added
    <3> QED
      BY <2>0, <2>3, <3>1, <3>2, <3>3 DEF Quiet
  <2> QED
    BY <2>2, <2>3, StepBooks DEF Requested, Reversal
<1>3. Spec => []TInv
  BY InvariantHolds
<1> QED
  BY <1>1, <1>2, <1>3, PTL DEF Spec

\* What leaving an entry and its reversal out of the settlement amounts to.
LEMMA SettledAfter ==
    ASSUME TInv, TInv', NEW entry, NEW v, Booking(entry, v), entry.voided = FALSE,
           \/ v = 0 /\ entry.type # "void"
           \/ v \in Entries /\ Voidable(v) /\ entry.type = "void"
                            /\ entry.amount = -ledger[v].amount
    PROVE  Sum(Settled)' = Sum(Settled) + entry.amount
<1> DEFINE new == Len(ledger) + 1
<1>1. /\ new \notin Entries /\ Entries' = Entries \cup {new} /\ ledger'[new] = entry
      /\ \A e \in Entries : /\ ledger'[e].type = ledger[e].type
                            /\ e # v => ledger'[e] = ledger[e]
      /\ v \in Entries => ledger'[v].voided = TRUE
  <2>1. TypeOK
    BY DEF TInv
  <2>2. /\ new \notin Entries /\ Entries' = Entries \cup {new} /\ ledger'[new] = entry
        /\ \A e \in Entries : ledger'[e].type = ledger[e].type
    BY <2>1, BookingAdds
  <2>3. \A e \in Entries : e # v => ledger'[e] = ledger[e]
    BY <2>1, BookingAdds
  <2>4. v \in Entries => ledger'[v].voided = TRUE
    BY <2>1, BookingAdds
  <2> QED
    BY <2>2, <2>3, <2>4
<1>2. Sum(Settled)' = Total(AmountOf', Settled')
  BY DEF Sum, AmountOf
<1>3. Settled \in SUBSET Entries
  BY DEF Settled
<1>4. CASE v = 0 /\ entry.type # "void"
  <2>0. \A e \in Entries : e # v
    BY <1>4, LedgerLength DEF TInv
  <2>1. Settled' = Settled \cup {new}
    <3> HIDE DEF new
    <3> QED
      BY <1>1, <1>4, <2>0 DEF Settled
  <2>2. Total(AmountOf', Settled \cup {new}) = Sum(Settled) + entry.amount
    BY <1>3, OldSumsStay DEF TInv
  <2> QED
    BY <1>2, <2>1, <2>2
<1>5. CASE v \in Entries /\ Voidable(v) /\ entry.type = "void" /\ entry.amount = -ledger[v].amount
  <2>1. Settled' = Settled \ {v}
    <3> HIDE DEF new
    <3> QED
      BY <1>1, <1>5 DEF Settled
  <2>2. v \in Settled
    <3>1. ledger[v].voided \in BOOLEAN
      BY <1>5, LedgerLength DEF TInv, Entry
    <3> QED
      BY <1>5, <3>1 DEF Settled, Voidable
  <2>3. Settled \ {v} \in SUBSET Entries
    BY <1>3
  <2>4. Total(AmountOf', Settled \ {v}) = Sum(Settled \ {v})
    BY <2>3, OldSumsStay DEF TInv
  <2>5. /\ IsFiniteSet(Settled) /\ \A e \in Settled : AmountOf[e] \in Int
        /\ Sum(Settled) = Total(AmountOf, Settled)
        /\ Sum(Settled \ {v}) = Total(AmountOf, Settled \ {v})
        /\ Sum(Settled \ {v}) \in Int
    BY <1>3, <2>3, EntriesAdd DEF TInv
  <2>6. Sum(Settled) = AmountOf[v] + Sum(Settled \ {v})
    BY <2>2, <2>5, TotalRemove
  <2>7. AmountOf[v] = ledger[v].amount /\ ledger[v].amount \in Int
    BY <1>5, <2>2, <2>5 DEF AmountOf
  <2> QED
    BY <1>2, <1>5, <2>1, <2>4, <2>5, <2>6, <2>7
<1> QED
  BY <1>4, <1>5

\* The settlement balances: voided entries and their reversals cancel out, so leaving
\* them out leaves what the accounts hold (getReport).
THEOREM ReportMatchesBalancesCorrect == Spec => []ReportMatchesBalances
<1>1. Init => ReportMatchesBalances
  <2> SUFFICES ASSUME Init PROVE ReportMatchesBalances
    OBVIOUS
  <2>1. Sum(Settled) = 0
    <3>1. Settled = {}
      BY DEF Init, Settled, Entries
    <3> QED
      BY <3>1, TotalOfNothing DEF Sum
  <2>2. \A a \in Accounts : BalanceOf[a] = 0
    BY DEF Init, BalanceOf, NoAccount
  <2>3. Total(BalanceOf, Accounts) = 0
    BY <2>2, AccountsAssumption, TotalOfZeros
  <2> QED
    BY <2>1, <2>3 DEF ReportMatchesBalances, BalanceOf
<1>2. TInv /\ TInv' /\ BalanceIsLedger /\ ReportMatchesBalances /\ [Next]_tvars
        => ReportMatchesBalances'
  <2> SUFFICES ASSUME TInv, TInv', BalanceIsLedger, ReportMatchesBalances, [Next]_tvars
               PROVE  ReportMatchesBalances'
    OBVIOUS
  <2>0. /\ TypeOK /\ TypeOK' /\ account \in [Accounts -> Account]
        /\ Sum(Settled) = Total(BalanceOf, Accounts)
        /\ ReportMatchesBalances' <=> Sum(Settled)' = Total(BalanceOf', Accounts)
    BY DEF TInv, TypeOK, ReportMatchesBalances, BalanceOf
  <2>1. \A a \in Accounts : /\ BalanceOf[a] = account[a].balance /\ BalanceOf[a] \in Int
                            /\ BalanceOf'[a] = account'[a].balance /\ BalanceOf'[a] \in Int
    BY <2>0 DEF TypeOK, Account, BalanceOf
  <2>2. Total(BalanceOf, Accounts) \in Int
    BY <2>1, AccountsAssumption, TotalType
  <2>3. ASSUME NEW entry, NEW v, Booking(entry, v),
               Sum(Settled)' = Sum(Settled) + entry.amount
        PROVE  ReportMatchesBalances'
    <3> DEFINE a == entry.account
    <3>1. a \in Accounts /\ entry.amount \in Int
      BY <2>3, EntryFields DEF Booking
    <3>2. /\ \A b \in Accounts \ {a} : BalanceOf[b] = BalanceOf'[b]
          /\ BalanceOf'[a] = BalanceOf[a] + entry.amount
      BY <2>0, <2>1, <2>3, <3>1 DEF Booking, Account
    <3> HIDE DEF a
    <3>3. Total(BalanceOf', Accounts) = Total(BalanceOf, Accounts) - BalanceOf[a] + BalanceOf'[a]
      BY <2>1, <3>1, <3>2, AccountsAssumption, TotalChange
    <3>4. BalanceOf[a] \in Int
      BY <2>1, <3>1
    <3> QED
      BY <2>0, <2>2, <2>3, <3>1, <3>2, <3>3, <3>4
  <2>4. CASE Quiet
    <3>1. Sum(Settled)' = Sum(Settled)
      BY <2>4 DEF Quiet, Settled, Entries, Sum
    <3>2. \A a \in Accounts : BalanceOf[a] = BalanceOf'[a]
      <4> SUFFICES ASSUME NEW a \in Accounts PROVE account'[a].balance = account[a].balance
        BY <2>1
      <4>1. ASSUME NEW b \in Accounts, Switched(b)
            PROVE  account'[a].balance = account[a].balance
        BY <2>0, <4>1 DEF Switched, Account
      <4>2. ASSUME NEW b \in Accounts, NEW n \in Nat, NEW owner \in People \cup {NoOwner},
                   Added(b, n, owner)
            PROVE  account'[a].balance = account[a].balance
        <5>1. CASE a = b
          <6>1. EntriesOf(a) = {}
            BY <4>2, <5>1 DEF Added, TInv, EntriesKnown, EntriesOf
          <6>2. account[a].balance = 0
            BY <6>1, TotalOfNothing DEF Sum, BalanceIsLedger
          <6> QED
            BY <2>0, <4>2, <5>1, <6>2 DEF Added, NoAccount
        <5> QED
          BY <2>0, <4>2, <5>1 DEF Added
      <4> QED
        BY <2>4, <4>1, <4>2 DEF Quiet
    <3>3. Total(BalanceOf, Accounts) = Total(BalanceOf', Accounts)
      BY <3>2, AccountsAssumption, TotalSame
    <3> QED
      BY <2>0, <3>1, <3>3
  <2>5. CASE \E h \in Handlers : Book(h) /\ \E entry : Requested(h, entry)
    <3>1. PICK entry : /\ Booking(entry, 0) /\ entry.voided = FALSE
                       /\ entry.type \in {"topup", "charge", "payout"}
      <4>1. PICK h \in Handlers : Book(h) /\ \E entry : Requested(h, entry)
        BY <2>5
      <4>2. PICK entry : Requested(h, entry)
        BY <4>1
      <4> QED
        BY <4>1, <4>2, JobFields DEF Requested, Book, TInv, TypeOK
    <3> QED
      BY <2>3, <3>1, SettledAfter
  <2>6. CASE \E h \in Handlers : \E entry : Reversal(h, entry)
    <3>0. PICK h \in Handlers : \E entry : Reversal(h, entry)
      BY <2>6
    <3>1. PICK entry : Reversal(h, entry)
      BY <3>0
    <3>2. Booking(entry, job[h].entry)
      BY <3>1 DEF Reversal
    <3>3. Sum(Settled)' = Sum(Settled) + entry.amount
      BY <3>1, <3>2, SettledAfter DEF Reversal
    <3> QED
      BY <2>3, <3>2, <3>3
  <2> QED
    BY <2>4, <2>5, <2>6, StepBooks
<1>3. Spec => []TInv /\ []BalanceIsLedger
  BY InvariantHolds, BalanceIsLedgerCorrect
<1> QED
  BY <1>1, <1>2, <1>3, PTL DEF Spec

=============================================================================
