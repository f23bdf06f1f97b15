-------------------------------- MODULE Synch --------------------------------
(***************************************************************************)
(* kern/thread/synch.c: a semaphore, a lock and a condition variable used  *)
(* with that lock, and threads that call them in any order the rules of    *)
(* kern/include/synch.h allow.                                             *)
(*                                                                         *)
(* Every operation runs with interrupts off from its first test to its     *)
(* return or to thread_sleep, so each is one step; a thread that was woken *)
(* runs again at any later time and tests again.  The order in which ready *)
(* threads run is left open here (module Process has the run queue).       *)
(***************************************************************************)
EXTENDS Naturals

CONSTANTS
    Threads,       \* the threads
    NULL,          \* no thread
    InitialCount,  \* the count sem_create was given
    MaxCount       \* bound: the semaphore is not counted up beyond it

ASSUME NullAssumption == NULL \notin Threads
ASSUME CountAssumption == InitialCount \in Nat /\ MaxCount \in Nat

VARIABLES
    count,         \* sem->count
    lock,          \* lock->count and lock->lock_thread
    sleepaddr,     \* t_sleepaddr: what each thread sleeps on, "none" if awake
    pc             \* out, in P, in lock_acquire, or between acquire and release

vars == <<count, lock, sleepaddr, pc>>

TypeOK ==
    /\ count \in Nat
    /\ lock \in [count : Nat, lock_thread : Threads \cup {NULL}]
    /\ sleepaddr \in [Threads -> {"none", "sem", "lock", "cv"}]
    /\ pc \in [Threads -> {"out", "P", "acquire", "in"}]

\* sem_create, lock_create and cv_create.  lock_create leaves lock_thread
\* uninitialised; freed memory is filled with a pattern that is no thread.
Init ==
    /\ count = InitialCount
    /\ lock = [count |-> 1, lock_thread |-> NULL]
    /\ sleepaddr = [t \in Threads |-> "none"]
    /\ pc = [t \in Threads |-> "out"]

\* thread_sleep and thread_wakeup on an address: every sleeper is woken.
thread_sleep(t, addr, asleep) == [asleep EXCEPT ![t] = addr]
thread_wakeup(addr, asleep) ==
    [t \in Threads |-> IF asleep[t] = addr THEN "none" ELSE asleep[t]]

lock_do_i_hold(t) == lock.lock_thread = t

\* P, on entry and after every wakeup.
P(t) ==
    /\ sleepaddr[t] = "none" /\ pc[t] \in {"out", "P"}
    /\ \/ /\ count = 0
          /\ sleepaddr' = thread_sleep(t, "sem", sleepaddr)
          /\ pc' = [pc EXCEPT ![t] = "P"]
          /\ UNCHANGED <<count, lock>>
       \/ /\ count > 0
          /\ count' = count - 1
          /\ pc' = [pc EXCEPT ![t] = "out"]
          /\ UNCHANGED <<lock, sleepaddr>>

\* (Mutant: wakes the sleepers only when the count was 0 before the last V.)
V_late ==
    /\ count < MaxCount
    /\ count' = count + 1
    /\ sleepaddr' = IF count > 0 THEN thread_wakeup("sem", sleepaddr) ELSE sleepaddr
    /\ UNCHANGED <<lock, pc>>

\* V, by a thread or an interrupt handler.
V ==
    /\ count < MaxCount
    /\ count' = count + 1
    /\ sleepaddr' = thread_wakeup("sem", sleepaddr)
    /\ UNCHANGED <<lock, pc>>

\* (Mutant: tests the lock once, not again after the wakeup.)
lock_acquire_once(t) ==
    /\ sleepaddr[t] = "none" /\ pc[t] \in {"out", "acquire"}
    /\ \/ /\ lock.count = 0 /\ pc[t] = "out"
          /\ sleepaddr' = thread_sleep(t, "lock", sleepaddr)
          /\ pc' = [pc EXCEPT ![t] = "acquire"]
          /\ UNCHANGED <<count, lock>>
       \/ /\ lock.count > 0 \/ pc[t] = "acquire"
          /\ lock' = [count |-> 0, lock_thread |-> t]
          /\ pc' = [pc EXCEPT ![t] = "in"]
          /\ UNCHANGED <<count, sleepaddr>>

\* lock_acquire, on entry, after every wakeup, and at the end of cv_wait.
lock_acquire(t) ==
    /\ sleepaddr[t] = "none" /\ pc[t] \in {"out", "acquire"}
    /\ \/ /\ lock.count = 0
          /\ sleepaddr' = thread_sleep(t, "lock", sleepaddr)
          /\ pc' = [pc EXCEPT ![t] = "acquire"]
          /\ UNCHANGED <<count, lock>>
       \/ /\ lock.count > 0
          /\ lock' = [count |-> lock.count - 1, lock_thread |-> t]
          /\ pc' = [pc EXCEPT ![t] = "in"]
          /\ UNCHANGED <<count, sleepaddr>>

\* What lock_release does to the lock.
released == [count |-> lock.count + 1, lock_thread |-> NULL]

lock_release(t) ==
    /\ sleepaddr[t] = "none" /\ pc[t] = "in"
    /\ lock' = released
    /\ sleepaddr' = thread_wakeup("lock", sleepaddr)
    /\ pc' = [pc EXCEPT ![t] = "out"]
    /\ UNCHANGED count

\* (Mutant: sleeps on the condition variable without waking those who sleep
\* on the lock.)
cv_wait_quiet(t) ==
    /\ sleepaddr[t] = "none" /\ pc[t] = "in"
    /\ lock' = released
    /\ sleepaddr' = thread_sleep(t, "cv", sleepaddr)
    /\ pc' = [pc EXCEPT ![t] = "acquire"]
    /\ UNCHANGED count

\* cv_wait: release, sleep, and acquire again.
cv_wait(t) ==
    /\ sleepaddr[t] = "none" /\ pc[t] = "in"
    /\ lock' = released
    /\ sleepaddr' = thread_sleep(t, "cv", thread_wakeup("lock", sleepaddr))
    /\ pc' = [pc EXCEPT ![t] = "acquire"]
    /\ UNCHANGED count

\* cv_signal releases the lock and wakes every waiter, although synch.h has it
\* wake one.  then is where the caller takes itself to be: "out", if it knows
\* that the lock is released, or still "in".
cv_signal(t, then) ==
    /\ sleepaddr[t] = "none" /\ pc[t] = "in"
    /\ lock' = released
    /\ sleepaddr' = thread_wakeup("cv", thread_wakeup("lock", sleepaddr))
    /\ pc' = [pc EXCEPT ![t] = then]
    /\ UNCHANGED count

\* (Mutant: wakes one waiter.)
cv_broadcast_one(t, then) ==
    /\ sleepaddr[t] = "none" /\ pc[t] = "in"
    /\ lock' = released
    /\ LET asleep == thread_wakeup("lock", sleepaddr)
       IN IF \E u \in Threads : sleepaddr[u] = "cv"
          THEN \E u \in Threads :
                 sleepaddr[u] = "cv" /\ sleepaddr' = [asleep EXCEPT ![u] = "none"]
          ELSE sleepaddr' = asleep
    /\ pc' = [pc EXCEPT ![t] = then]
    /\ UNCHANGED count

\* cv_broadcast has the same body.
cv_broadcast(t, then) ==
    /\ sleepaddr[t] = "none" /\ pc[t] = "in"
    /\ lock' = released
    /\ sleepaddr' = thread_wakeup("cv", thread_wakeup("lock", sleepaddr))
    /\ pc' = [pc EXCEPT ![t] = then]
    /\ UNCHANGED count

Next ==
    \/ V
    \/ \E t \in Threads :
        \/ P(t) \/ lock_acquire(t) \/ lock_release(t) \/ cv_wait(t)
        \/ cv_signal(t, "out") \/ cv_broadcast(t, "out")

Spec == Init /\ [][Next]_vars

(***************************************************************************)
(* The caller of kern/test/synchtest.c: cvtestthread calls cv_broadcast    *)
(* and then lock_release, as synch.h prescribes.                           *)
(***************************************************************************)
cvtestthread(t) ==
    lock_acquire(t) \/ cv_wait(t) \/ cv_broadcast(t, "in") \/ lock_release(t)

CvtestSpec == Init /\ [][\E t \in Threads : cvtestthread(t)]_vars

(***************************************************************************)
(* Fairness: a thread that is ready runs again (module Process, ReadyRuns),*)
(* and whoever holds the lock gives it up.                                 *)
(***************************************************************************)
Leave(t) ==
    lock_release(t) \/ cv_wait(t) \/ cv_signal(t, "out") \/ cv_broadcast(t, "out")

FairSpec ==
    /\ Spec
    /\ \A t \in Threads :
        /\ WF_vars(pc[t] = "acquire" /\ lock_acquire(t))
        /\ WF_vars(pc[t] = "P" /\ P(t))
        /\ WF_vars(Leave(t))

(***************************************************************************)
(* Properties                                                              *)
(***************************************************************************)

\* "Only one thread can hold the lock at the same time."
LockExclusive == \A t, u \in Threads : pc[t] = "in" /\ pc[u] = "in" => t = u

\* lock_do_i_hold, on which vfslist.c and emu.c rely, tells the truth to
\* everybody, whatever was signalled or waited for in between.
HolderKnown == \A t \in Threads : lock_do_i_hold(t) <=> pc[t] = "in"

\* No lost wakeup: nobody sleeps on the semaphore while it has a count, or on
\* the lock while it is free.
NoLostWakeup ==
    \A t \in Threads :
        /\ sleepaddr[t] = "sem" => count = 0
        /\ sleepaddr[t] = "lock" => lock.count = 0

waiting == {t \in Threads : sleepaddr[t] = "cv"}

M == INSTANCE Monitor WITH holder <- lock.lock_thread

\* The lock and the condition variable implement a monitor: cv_wait gives the
\* lock up and starts to wait in one step, only the holder waits or notifies,
\* a waiter comes back only through a notification and the lock, and every
\* notification, cv_broadcast's as well as cv_signal's, leaves no one waiting.
ImplementsMonitor == M!Spec

\* A lock somebody wants does not stay free: of the threads a release wakes,
\* one gets it.
LockTaken ==
    (\E t \in Threads : pc[t] = "acquire" /\ sleepaddr[t] # "cv")
        ~> (\E t \in Threads : pc[t] = "in")

\* A count is taken as long as there is a thread in P.
CountTaken ==
    (count > 0 /\ \E t \in Threads : pc[t] = "P")
        ~> (count = 0 \/ \A t \in Threads : pc[t] # "P")
==============================================================================
