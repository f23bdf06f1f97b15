---------------------------- MODULE PidLifecycle ----------------------------
(***************************************************************************)
(* What the pid system promises the rest of the kernel: a pid is free,     *)
(* then live, then exited, then free again.  It is handed out only when it *)
(* is free, it becomes free only after its process has exited, and the set *)
(* of pids grows only when every one is taken.                             *)
(***************************************************************************)
EXTENDS Naturals, Sequences

VARIABLE state   \* state[p] for the pids 1 .. Len(state)

States == {"free", "live", "exited"}

TypeOK == state \in Seq(States)

\* The boot thread's pid 1.
Init == state = <<"live">>

\* fork takes a free pid.
Take(p) ==
    /\ state[p] = "free"
    /\ state' = [state EXCEPT ![p] = "live"]

\* fork finds none free.
Grow ==
    /\ \A p \in DOMAIN state : state[p] # "free"
    /\ state' = Append(state, "live")

Exit(p) ==
    /\ p # 1
    /\ state[p] = "live"
    /\ state' = [state EXCEPT ![p] = "exited"]

\* exorcise frees the pids of all the threads that have exited.
ReleaseAll ==
    state' = [p \in DOMAIN state |->
                 IF state[p] = "exited" THEN "free" ELSE state[p]]

Next ==
    \/ \E p \in DOMAIN state : Take(p) \/ Exit(p)
    \/ Grow
    \/ ReleaseAll

Spec == Init /\ [][Next]_state
==============================================================================
