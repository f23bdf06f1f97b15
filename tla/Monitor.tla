------------------------------- MODULE Monitor -------------------------------
(***************************************************************************)
(* What a lock and its condition variable promise (kern/include/synch.h),  *)
(* with Mesa semantics: at most one holder; waiting gives the lock up and  *)
(* joins the waiters in one step; a notification lets every waiter compete *)
(* for the lock again.  That is the promise of cv_broadcast.  synch.h      *)
(* promises of cv_signal that it wakes one thread; in the kernel it wakes  *)
(* all, like cv_broadcast, and the monitor has no other notification.      *)
(* Both also give the lock up, which synch.h does not say.                 *)
(***************************************************************************)
CONSTANTS Threads, NULL

VARIABLES holder, waiting

Init == holder = NULL /\ waiting = {}

Acquire(t) ==
    /\ holder = NULL /\ t \notin waiting
    /\ holder' = t
    /\ UNCHANGED waiting

Release(t) ==
    /\ holder = t
    /\ holder' = NULL
    /\ UNCHANGED waiting

Wait(t) ==
    /\ holder = t
    /\ holder' = NULL
    /\ waiting' = waiting \cup {t}

Notify(t) ==
    /\ holder = t
    /\ holder' = NULL
    /\ waiting' = {}

Next == \E t \in Threads : Acquire(t) \/ Release(t) \/ Wait(t) \/ Notify(t)

Spec == Init /\ [][Next]_<<holder, waiting>>
==============================================================================
