----------------------------- MODULE ThreadLists -----------------------------
(***************************************************************************)
(* What kern/thread expects of queue.c and array.c: a first-come           *)
(* first-served run queue and two lists of threads.  Running out of memory *)
(* where the callers assert that it cannot happen stops everything         *)
(* (panicked).                                                             *)
(***************************************************************************)
EXTENDS Sequences

CONSTANTS Threads, None

VARIABLES cur, ready, sleeping, dead, panicked

\* thread_fork: the new thread queues up.
Fork == /\ \E t \in Threads : ready' = Append(ready, t)
        /\ UNCHANGED <<cur, sleeping, dead, panicked>>

\* The processor goes to the thread at the head, or to nobody.
Next1(q) == IF q = <<>> THEN cur' = None /\ ready' = q
                        ELSE cur' = Head(q) /\ ready' = Tail(q)

Yield == /\ Next1(Append(ready, cur))
         /\ UNCHANGED <<sleeping, dead, panicked>>
Sleep == /\ sleeping' = Append(sleeping, cur) /\ Next1(ready)
         /\ UNCHANGED <<dead, panicked>>
Exit == /\ dead' = Append(dead, cur) /\ Next1(ready)
        /\ UNCHANGED <<sleeping, panicked>>

\* The sleepers on one address, in the order they went to sleep.
Wakeup ==
  /\ \E S \in SUBSET Threads :
       /\ ready' = ready \o SelectSeq(sleeping, LAMBDA t : t \in S)
       /\ sleeping' = SelectSeq(sleeping, LAMBDA t : t \notin S)
  /\ UNCHANGED <<cur, dead, panicked>>

Exorcise == dead' = <<>> /\ UNCHANGED <<cur, ready, sleeping, panicked>>
Dispatch == cur = None /\ Next1(ready) /\ UNCHANGED <<sleeping, dead, panicked>>

Panic == panicked' = TRUE /\ UNCHANGED <<ready, sleeping, dead>>

Init == /\ cur \in Threads /\ ready = <<>> /\ sleeping = <<>> /\ dead = <<>>
        /\ panicked = FALSE

Next == /\ ~panicked
        /\ \/ Fork \/ Yield \/ Sleep \/ Exit \/ Wakeup \/ Exorcise \/ Dispatch \/ Panic

Spec == Init /\ [][Next]_<<cur, ready, sleeping, dead, panicked>>

=============================================================================
