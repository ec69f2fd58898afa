-------------------------- MODULE UseCount_proofs ---------------------------
(* Theorems about the use count, for any number of threads and any width    *)
(* of the word that can count them.                                         *)
EXTENDS UseCount, FiniteSetTheorems, TLAPS

(* The remainder of a number by the size of the word.                       *)
LEMMA ModType == ASSUME NEW n \in Int PROVE n % Word \in 0 .. Word - 1
<1>1. Word \in Nat /\ Word > 0
  BY WordAssumption, FS_CardinalityType
<1> QED BY <1>1

(* A value of the word is its own remainder: no wrap-around.                *)
LEMMA ModSmall == ASSUME NEW n \in 0 .. Word - 1 PROVE n % Word = n
<1>1. Word \in Nat /\ Word > 0
  BY WordAssumption
<1> QED BY <1>1

-----------------------------------------------------------------------------
(* Counting a set of threads: what one more and one less make of it.        *)
LEMMA Counted ==
    ASSUME NEW S \in SUBSET Threads, NEW t \in Threads
    PROVE  /\ Cardinality(S) \in 0 .. Word - 1
           /\ Cardinality(S \cup {t}) \in 0 .. Word - 1
           /\ t \notin S => Cardinality(S \cup {t}) = Cardinality(S) + 1
           /\ t \in S => Cardinality(S \ {t}) = Cardinality(S) - 1 /\ Cardinality(S) > 0
           /\ Cardinality(S \ {t}) \in Nat
           /\ Cardinality(S \ {t}) >= Cardinality(S) - 1
<1>1. /\ IsFiniteSet(S) /\ Cardinality(S) <= Cardinality(Threads)
      /\ IsFiniteSet(S \cup {t}) /\ Cardinality(S \cup {t}) <= Cardinality(Threads)
  <2>1. S \cup {t} \in SUBSET Threads
    OBVIOUS
  <2> QED BY <2>1, WordAssumption, FS_Subset
<1>2. /\ Cardinality(S) \in Nat /\ Cardinality(Threads) \in Nat
      /\ Cardinality(S \cup {t}) \in Nat
  BY <1>1, WordAssumption, FS_CardinalityType
<1>3. t \notin S => Cardinality(S \cup {t}) = Cardinality(S) + 1
  BY <1>1, FS_AddElement
<1>4. t \in S => Cardinality(S \ {t}) = Cardinality(S) - 1
  BY <1>1, FS_RemoveElement
<1>5. t \in S => Cardinality(S) # 0
  BY <1>1, FS_EmptySet
<1>6. t \notin S => S \ {t} = S
  OBVIOUS
<1>7. IsFiniteSet(S \ {t})
  BY <1>1, FS_RemoveElement
<1>8. Cardinality(S \ {t}) \in Nat
  BY <1>7, FS_CardinalityType
<1>9. Cardinality(S \ {t}) >= Cardinality(S) - 1
  <2>1. CASE t \in S
    BY <2>1, <1>4, <1>2
  <2>2. CASE t \notin S
    BY <2>2, <1>6, <1>2
  <2> QED BY <2>1, <2>2
<1> QED BY <1>1, <1>2, <1>3, <1>4, <1>5, <1>8, <1>9, WordAssumption

-----------------------------------------------------------------------------
(* The types hold at first.                                                 *)
LEMMA TypeOKInit == Init => TypeOK
BY DEF Init, TypeOK

(* Each step of a thread keeps the count a word and the threads threads.    *)
LEMMA TypeOKStep == TypeOK /\ [Next]_vars => TypeOK'
<1> SUFFICES ASSUME TypeOK, [Next]_vars PROVE TypeOK'
  OBVIOUS
<1> USE DEF TypeOK
<1>1. ASSUME NEW t \in Threads, increment_use_count(t) PROVE TypeOK'
  <2>1. (useCount + 1) % Word \in 0 .. Word - 1
    BY ModType, WordAssumption
  <2> QED BY <1>1, <2>1 DEF increment_use_count
<1>2. ASSUME NEW t \in Threads, test_use_count(t) PROVE TypeOK'
  BY <1>2 DEF test_use_count
<1>3. ASSUME NEW t \in Threads, decrement_use_count(t) PROVE TypeOK'
  <2>1. (useCount - 1) % Word \in 0 .. Word - 1
    BY ModType, WordAssumption
  <2> QED BY <1>3, <2>1 DEF decrement_use_count
<1>4. CASE UNCHANGED vars
  BY <1>4 DEF vars
<1> QED BY <1>1, <1>2, <1>3, <1>4 DEF Next

(* use_count_ is a word and the threads are threads.                        *)
THEOREM UseCountTypeCorrect == Spec => []TypeOK
BY TypeOKInit, TypeOKStep, PTL DEF Spec

-----------------------------------------------------------------------------
(***************************************************************************)
(* CountIsUsers is not inductive: it does not say that a thread between    *)
(* test and subtraction is still counted.                                  *)
(***************************************************************************)
CountInv ==
    initial = 0 /\ ~surplus => useCount = Cardinality(users) /\ passed \subseteq users

(* Every step preserves that the count is exact and that a thread past the  *)
(* test of decrement_use_count is still counted.                            *)
LEMMA CountInvStep == TypeOK /\ CountInv /\ [Next]_vars => CountInv'
<1> SUFFICES ASSUME TypeOK, CountInv, [Next]_vars, initial' = 0, ~surplus'
             PROVE  useCount' = Cardinality(users') /\ passed' \subseteq users'
  BY DEF CountInv
<1>0. CASE UNCHANGED vars
  BY <1>0 DEF vars, CountInv
<1>a. SUFFICES ASSUME NEW t \in Threads,
                      increment_use_count(t) \/ test_use_count(t) \/ decrement_use_count(t)
               PROVE  useCount' = Cardinality(users') /\ passed' \subseteq users'
  BY <1>0 DEF Next
<1>b. initial = 0 /\ ~surplus
  BY <1>a DEF increment_use_count, test_use_count, decrement_use_count, TypeOK
<1>c. useCount = Cardinality(users) /\ passed \subseteq users
  BY <1>b DEF CountInv
<1>d. users \in SUBSET Threads /\ useCount \in 0 .. Word - 1
  BY DEF TypeOK
<1>1. CASE increment_use_count(t)
  <2>1. t \notin users /\ users' = users \cup {t} /\ passed' = passed
    BY <1>1 DEF increment_use_count
  <2>2. useCount' = (useCount + 1) % Word
    BY <1>1 DEF increment_use_count
  <2>3. useCount + 1 = Cardinality(users') /\ useCount + 1 \in 0 .. Word - 1
    BY <2>1, <1>c, <1>d, Counted
  <2>4. useCount' = useCount + 1
    BY <2>2, <2>3, ModSmall
  <2> QED BY <2>1, <2>3, <2>4, <1>c
<1>2. CASE test_use_count(t)
  <2>1. t \in users
    BY <1>2 DEF test_use_count, TypeOK
  <2>2. useCount # 0
    <3>1. Cardinality(users) \in 0 .. Word - 1 /\ Cardinality(users) > 0
      BY <2>1, <1>d, Counted
    <3> QED BY <3>1, <1>c
  <2> QED BY <1>2, <2>1, <2>2, <1>c DEF test_use_count
<1>3. CASE decrement_use_count(t)
  <2>1. t \in users /\ users' = users \ {t} /\ passed' = passed \ {t}
    BY <1>3, <1>c DEF decrement_use_count
  <2>2. useCount' = (useCount - 1) % Word
    BY <1>3 DEF decrement_use_count
  <2>3. useCount - 1 = Cardinality(users') /\ useCount - 1 \in 0 .. Word - 1
    BY <2>1, <1>c, <1>d, Counted
  <2>4. useCount' = useCount - 1
    BY <2>2, <2>3, ModSmall
  <2> QED BY <2>1, <2>3, <2>4, <1>c
<1> QED BY <1>a, <1>1, <1>2, <1>3

(* A count that began at 0 and that only its users decrement is the number  *)
(* of its users, for any number of threads, although decrement_use_count    *)
(* tests and subtracts in two steps.                                        *)
THEOREM CountIsUsersHolds == Spec => []CountIsUsers
<1>1. Init => CountInv
  BY FS_EmptySet DEF Init, CountInv
<1>2. CountInv => CountIsUsers
  BY DEF CountInv, CountIsUsers
<1> QED BY <1>1, <1>2, TypeOKInit, TypeOKStep, CountInvStep, PTL DEF Spec

-----------------------------------------------------------------------------
(***************************************************************************)
(* NoUnderflow needs that the threads between test and subtraction do not  *)
(* outnumber what there is to subtract from.                               *)
(***************************************************************************)
UnderflowInv ==
    initial = 0 /\ ~raced =>
        useCount <= Cardinality(users) /\ Cardinality(passed) <= useCount

(* Every step preserves that the count covers the threads that have passed  *)
(* the test of decrement_use_count and is covered by the users.             *)
LEMMA UnderflowInvStep == TypeOK /\ UnderflowInv /\ [Next]_vars => UnderflowInv'
<1> DEFINE Goal == useCount' <= Cardinality(users') /\ Cardinality(passed') <= useCount'
<1> SUFFICES ASSUME TypeOK, UnderflowInv, [Next]_vars, initial' = 0, ~raced'
             PROVE  Goal
  BY DEF UnderflowInv
<1>0. CASE UNCHANGED vars
  BY <1>0 DEF vars, UnderflowInv
<1>a. SUFFICES ASSUME NEW t \in Threads,
                      increment_use_count(t) \/ test_use_count(t) \/ decrement_use_count(t)
               PROVE  Goal
  BY <1>0 DEF Next
<1>b. initial = 0 /\ ~raced
  BY <1>a DEF increment_use_count, test_use_count, decrement_use_count, TypeOK
<1>c. useCount <= Cardinality(users) /\ Cardinality(passed) <= useCount
  BY <1>b DEF UnderflowInv
<1>d. /\ users \in SUBSET Threads /\ passed \in SUBSET Threads /\ useCount \in 0 .. Word - 1
      /\ Cardinality(users) \in 0 .. Word - 1 /\ Cardinality(passed) \in 0 .. Word - 1
  BY Counted DEF TypeOK
<1>1. CASE increment_use_count(t)
  <2>1. t \notin users /\ users' = users \cup {t} /\ passed' = passed
    BY <1>1 DEF increment_use_count
  <2>2. useCount' = (useCount + 1) % Word
    BY <1>1 DEF increment_use_count
  <2>3. /\ Cardinality(users') = Cardinality(users) + 1
        /\ Cardinality(users') \in 0 .. Word - 1
    BY <2>1, <1>d, Counted
  <2>4. useCount + 1 \in 0 .. Word - 1
    BY <2>3, <1>c, <1>d, WordAssumption
  <2>5. useCount' = useCount + 1
    BY <2>2, <2>4, ModSmall
  <2> QED BY <2>1, <2>3, <2>5, <1>c, <1>d
<1>2. CASE test_use_count(t)
  <2>1. CASE useCount > 0
    <3>1. /\ t \notin passed /\ passed' = passed \cup {t}
          /\ users' = users /\ useCount' = useCount /\ raced' = (raced \/ Races)
      BY <1>2, <2>1 DEF test_use_count, TypeOK
    <3>2. ~Races
      BY <3>1, Zenon
    <3>3. Cardinality(passed) + 1 <= useCount
      BY <2>1, <3>2, <1>d DEF Races
    <3>4. Cardinality(passed') = Cardinality(passed) + 1
      BY <3>1, <1>d, Counted
    <3> QED BY <3>1, <3>3, <3>4, <1>c
  <2>2. CASE useCount = 0
    <3>1. passed' = passed /\ users' = users \ {t} /\ useCount' = 0
      BY <1>2, <2>2 DEF test_use_count
    <3>2. Cardinality(users') \in Nat
      BY <3>1, <1>d, Counted
    <3> QED BY <3>1, <3>2, <2>2, <1>c
  <2> QED BY <2>1, <2>2, <1>d
<1>3. CASE decrement_use_count(t)
  <2>1. t \in passed /\ users' = users \ {t} /\ passed' = passed \ {t}
    BY <1>3 DEF decrement_use_count
  <2>2. useCount' = (useCount - 1) % Word
    BY <1>3 DEF decrement_use_count
  <2>3. Cardinality(passed') = Cardinality(passed) - 1 /\ Cardinality(passed) > 0
    BY <2>1, <1>d, Counted
  <2>4. useCount' = useCount - 1
    <3>1. useCount - 1 \in 0 .. Word - 1
      BY <2>3, <1>c, <1>d, WordAssumption
    <3> QED BY <3>1, <2>2, ModSmall
  <2>5. Cardinality(users') \in Nat /\ Cardinality(users') >= Cardinality(users) - 1
    BY <2>1, <1>d, Counted
  <2> QED BY <2>3, <2>4, <2>5, <1>c, <1>d
<1> QED BY <1>a, <1>1, <1>2, <1>3

(* A count that began at 0 does not wrap round, surplus decrements and      *)
(* overlapping ones or not, unless a thread passes the test on a count that *)
(* those inside are already about to use up: for any number of threads.     *)
THEOREM NoUnderflowHolds == Spec => []NoUnderflow
<1>1. Init => UnderflowInv
  BY FS_EmptySet DEF Init, UnderflowInv
<1>2. UnderflowInv => NoUnderflow
  BY DEF UnderflowInv, NoUnderflow
<1> QED BY <1>1, <1>2, TypeOKInit, TypeOKStep, UnderflowInvStep, PTL DEF Spec
=============================================================================
