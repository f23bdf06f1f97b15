------------------------------ MODULE CatMouse ------------------------------
(***************************************************************************)
(* The cats and mice of kern/asst2/catsem.c, who share two bowls under     *)
(* three semaphores and an array of flags.                                 *)
(*                                                                         *)
(* Every animal turns interrupts off when it starts and never on again, so *)
(* it runs without interruption until it yields, sleeps in P, or sleeps in *)
(* catmouse_eat: one action is what an animal does between two of those    *)
(* points.  The driver's own loop of thread_yield runs with interrupts on  *)
(* and lets the clock end the sleeps.                                      *)
(***************************************************************************)
EXTENDS Integers, FiniteSets

CONSTANTS
  Cats, Mice,   \* NCATS and NMICE threads
  NMeals        \* NMEALS

\* There are finitely many animals.
ASSUME CatAssumption == IsFiniteSet(Cats) /\ IsFiniteSet(Mice) /\ NMeals \in Nat

Animals == Cats \cup Mice
Kind(a) == IF a \in Cats THEN "cat" ELSE "mouse"
Other(a) == IF a \in Cats THEN "mouse" ELSE "cat"
Full(kind) == IF kind = "cat" THEN Cardinality(Cats) ELSE Cardinality(Mice)

VARIABLES
  c_pc,         \* where an animal is: see the actions
  c_count,      \* the counts of the semaphores "cat", "mouse" and "bowl"
  bowl_status,  \* bowl_status[0..1]: 1 means occupied
  meals         \* the meals of each animal

c_vars == <<c_pc, c_count, bowl_status, meals>>

\* (Mutant: the semaphore admits one animal more than there are bowls.)
BowlSemaphore_three == 3

BowlSemaphore == 2

\* catmousesem creates the semaphores and forks all the animals.
catmousesem ==
  /\ c_pc = [a \in Animals |-> <<"looks">>]
  /\ c_count = [s \in {"cat", "mouse", "bowl"} |->
                  IF s = "bowl" THEN BowlSemaphore ELSE Full(s)]
  /\ bowl_status = [b \in 0..1 |-> 0]
  /\ meals = [a \in Animals |-> 0]

CatGoes(a, where) == c_pc' = [c_pc EXCEPT ![a] = where]

CatLeaves == 2
CatSpins == 3

\* What an animal that has had m meals and comes to the test of bowl b does
\* next: eat from a bowl, leave the loop, or go round it for ever.
NextBowl(b, st, m) ==
  IF b = 0 /\ m >= NMeals THEN CatLeaves
  ELSE IF st[b] = 0 THEN b
  ELSE IF b = 1 /\ m >= NMeals THEN CatLeaves
  ELSE IF st[1 - b] = 0 THEN 1 - b
  ELSE CatSpins

\* The animal goes on from the test of bowl b until it sleeps or is done; c are
\* the counts and st the flags at that point.
Seek(a, b, c, st, m) ==
  LET next == NextBowl(b, st, m)
  IN /\ meals' = [meals EXCEPT ![a] = m]
     /\ CatGoes(a, IF next \in 0..1 THEN <<"eats", next>>
                   ELSE IF next = CatLeaves THEN <<"done">> ELSE <<"spins">>)
     /\ bowl_status' = IF next \in 0..1 THEN [st EXCEPT ![next] = 1] ELSE st
     /\ c_count' = IF next = CatLeaves
                   THEN [c EXCEPT ![Kind(a)] = @ + 1, !["bowl"] = @ + 1] ELSE c

\* catsem and mousesem up to their first sleep: wait with thread_yield until
\* none of the other kind eats, then P(_bowl) and P(cat) or P(mouse).  An animal
\* that sleeps in P(_bowl) does not look again when it wakes up.
Approach(a) ==
  /\ \/ c_pc[a] = <<"looks">> /\ c_count[Other(a)] >= Full(Other(a))
     \/ c_pc[a] = <<"sleeps">> /\ c_count["bowl"] > 0
  /\ IF c_count["bowl"] = 0
     THEN CatGoes(a, <<"sleeps">>) /\ UNCHANGED <<c_count, bowl_status, meals>>
     ELSE Seek(a, 0, [c_count EXCEPT !["bowl"] = @ - 1, ![Kind(a)] = @ - 1],
               bowl_status, 0)

\* catmouse_eat returns from its sleep, the bowl is free again, and the animal
\* goes on with the loop.
Ate(a) ==
  /\ c_pc[a][1] = "eats"
  /\ LET b == c_pc[a][2]
     IN Seek(a, (b + 1) % 2, c_count, [bowl_status EXCEPT ![b] = 0], meals[a] + 1)

\* An animal that spins has interrupts off: nothing else ever happens.
CatStep(a) == (\A o \in Animals : c_pc[o] # <<"spins">>) /\ (Approach(a) \/ Ate(a))

CatNext == \E a \in Animals : CatStep(a)

CatSpec == catmousesem /\ [][CatNext]_c_vars
-----------------------------------------------------------------------------
\* The flags mean what they say: a bowl is marked occupied exactly while one
\* animal, and only one, eats from it.  No animal ever finds both bowls taken,
\* where it would go round its loop with interrupts off and stop the machine;
\* and none eats more than one meal beyond NMEALS (the flags of catsem.c are
\* tested and set with no lock but the interrupt level).
BowlsSound ==
  /\ \A b \in 0..1 :
       bowl_status[b] = Cardinality({a \in Animals : c_pc[a] = <<"eats", b>>})
  /\ \A a \in Animals : c_pc[a] # <<"spins">> /\ meals[a] <= NMeals + 1
=============================================================================
