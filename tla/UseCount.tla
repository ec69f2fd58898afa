------------------------------ MODULE UseCount ------------------------------
(***************************************************************************)
(* endpoint_impl: the use count of one endpoint.                           *)
(*                                                                         *)
(* use_count_ is an atomic 32 bit word that the constructor does not       *)
(* initialize.  The increment is one atomic step; the decrement tests the  *)
(* word and subtracts from it in two, with no lock around them, so another *)
(* thread may come in between.  A user is a thread that counted itself in  *)
(* and not yet out again.  Nothing keeps a thread from calling             *)
(* decrement_use_count() without being a user: such a call is a surplus    *)
(* one.                                                                    *)
(***************************************************************************)
EXTENDS Integers, FiniteSets

CONSTANTS Threads,  (* threads that use the endpoint                       *)
          Word      (* 2^32 in the code: the values of use_count_ are      *)
                    (* 0 .. Word - 1                                       *)

ASSUME WordAssumption ==
    IsFiniteSet(Threads) /\ Word \in Nat /\ Cardinality(Threads) < Word

VARIABLES useCount,   (* use_count_                                        *)
          users,      (* the threads counted in                            *)
          passed,     (* the threads inside decrement_use_count() that     *)
                      (* have found use_count_ > 0                         *)
          initial,    (* history: the value the constructor left           *)
          surplus,    (* history: a surplus decrement was made             *)
          raced       (* history: a thread passed the test on a count that *)
                      (* the threads inside were already about to use up   *)

vars == <<useCount, users, passed, initial, surplus, raced>>

TypeOK ==
    /\ useCount \in 0 .. Word - 1
    /\ users \in SUBSET Threads
    /\ passed \in SUBSET Threads
    /\ initial \in 0 .. Word - 1
    /\ surplus \in BOOLEAN
    /\ raced \in BOOLEAN

Init ==
    /\ useCount \in 0 .. Word - 1
    /\ initial = useCount
    /\ users = {}
    /\ passed = {}
    /\ surplus = FALSE
    /\ raced = FALSE

-----------------------------------------------------------------------------
increment_use_count_saturating(t) ==
    /\ t \notin users \cup passed
    /\ useCount' = IF useCount > 0 THEN useCount ELSE 1
    /\ users' = users \cup {t}
    /\ UNCHANGED <<passed, initial, surplus, raced>>

increment_use_count(t) ==
    /\ t \notin users \cup passed
    /\ useCount' = (useCount + 1) % Word
    /\ users' = users \cup {t}
    /\ UNCHANGED <<passed, initial, surplus, raced>>

Races == useCount > 0 /\ Cardinality(passed) >= useCount

(* The test.  The call of a user ends its use whatever the test says.      *)
test_use_count_skipped(t) ==
    /\ t \notin passed
    /\ surplus' = (surplus \/ t \notin users)
    /\ passed' = passed \cup {t}
    /\ raced' = (raced \/ Races)
    /\ UNCHANGED <<useCount, users, initial>>

test_use_count(t) ==
    /\ t \notin passed
    /\ surplus' = (surplus \/ t \notin users)
    /\ \/ /\ useCount > 0
          /\ passed' = passed \cup {t}
          /\ raced' = (raced \/ Races)
          /\ UNCHANGED users
       \/ /\ useCount = 0
          /\ users' = users \ {t}
          /\ UNCHANGED <<passed, raced>>
    /\ UNCHANGED <<useCount, initial>>

(* The subtraction, on whatever the word is by then.                       *)
decrement_use_count(t) ==
    /\ t \in passed
    /\ useCount' = (useCount - 1) % Word
    /\ passed' = passed \ {t}
    /\ users' = users \ {t}
    /\ UNCHANGED <<initial, surplus, raced>>

Next == \E t \in Threads :
    increment_use_count(t) \/ test_use_count(t) \/ decrement_use_count(t)

Spec == Init /\ [][Next]_vars

-----------------------------------------------------------------------------
(* A counter that began at 0 counts its users exactly, although test and    *)
(* subtraction are two steps, as long as only users decrement it: whoever   *)
(* passed the test is still counted, so no interleaving makes the word      *)
(* wrap and no decrement is swallowed by the test.                          *)
CountIsUsers ==
    initial = 0 /\ ~surplus => useCount = Cardinality(users)

(* A surplus decrement is caught by the test, or takes away the count of    *)
(* another user, but does not wrap the word round to Word - 1, from where   *)
(* the endpoint could never be removed, however many threads are between    *)
(* test and subtraction at once: unless one of them passed the test on a    *)
(* count that the others were already about to use up.                      *)
NoUnderflow ==
    initial = 0 /\ ~raced => useCount <= Cardinality(users)
=============================================================================
