------------------------------ MODULE PidSystem ------------------------------
(***************************************************************************)
(* The pid list of kern/userprog/pid_system.c as operators on a value.     *)
(*                                                                         *)
(* create_pid_list gives the head the pidValue 1 and append_pid gives the  *)
(* entry it adds the pidValue of the last entry plus one, so pidValue is   *)
(* the position in the list and the list is a sequence of entries.  An     *)
(* entry is never unlinked while the system runs: release_pid only clears  *)
(* isUsed.  The semaphore parentSem of an entry is represented by its      *)
(* count.                                                                  *)
(***************************************************************************)
EXTENDS Naturals, Sequences

CONSTANTS
    Threads,      \* thread structures
    NULL,         \* the null thread pointer
    ExitCodes     \* values a process may pass to _exit

ASSUME NullAssumption == NULL \notin Threads
ASSUME ExitCodesAssumption == 0 \in ExitCodes

\* struct pid.  pPid is 0 for the head and for a released entry.
PidEntry == [isUsed : {0, 1}, pPid : Nat, didExit : {0, 1},
             exitCode : ExitCodes, myThread : Threads \cup {NULL},
             parentSem : Nat]

\* The head: the entry of the boot thread, made before there is a current
\* thread, so that myThread is null.  Its parentSem is a null pointer in the
\* code; nobody can wait for pid 1 (pPid is 0) and the boot thread never
\* exits, so its count 0 is never looked at.
create_pid_list ==
    << [isUsed |-> 1, pPid |-> 0, didExit |-> 0, exitCode |-> 0,
        myThread |-> NULL, parentSem |-> 0] >>

\* append_pid: a fresh entry at the end, its semaphore created with count 1.
\* exitCode is not initialised; it is only read once didExit or the semaphore
\* says that thread_exit has set it.
append_pid(list, ppid, t) ==
    Append(list, [isUsed |-> 1, pPid |-> ppid, didExit |-> 0,
                  exitCode |-> 0, myThread |-> t, parentSem |-> 1])

\* (Mutant: looks at didExit instead of isUsed.)
FirstFree_exited(list, p) ==
    /\ p \in 2 .. Len(list)
    /\ list[p].didExit = 1
    /\ \A q \in 2 .. (p - 1) : list[q].didExit = 0

\* assign_pid walks from the entry after the head and takes the first one
\* that is not in use; at the end of the list it appends.
FirstFree(list, p) ==
    /\ p \in 2 .. Len(list)
    /\ list[p].isUsed = 0
    /\ \A q \in 2 .. (p - 1) : list[q].isUsed = 1

assignsPid(list, p) ==
    \/ FirstFree(list, p)
    \/ /\ \A q \in 2 .. Len(list) : list[q].isUsed = 1
       /\ p = Len(list) + 1

\* (Mutant: a reused entry is still marked as exited.)
assign_pid_exited(list, p, ppid, t) ==
    IF p = Len(list) + 1
    THEN append_pid(list, ppid, t)
    ELSE [list EXCEPT ![p] = [@ EXCEPT !.isUsed = 1, !.pPid = ppid,
                                       !.myThread = t]]

\* The list after assign_pid handed out p.  Reuse leaves exitCode and the
\* semaphore as the previous owner left them.
assign_pid(list, p, ppid, t) ==
    IF p = Len(list) + 1
    THEN append_pid(list, ppid, t)
    ELSE [list EXCEPT ![p] = [@ EXCEPT !.isUsed = 1, !.pPid = ppid,
                                       !.didExit = 0, !.myThread = t]]

\* (Mutant: clears the exit status as well.)
release_pid_clears(list, ps) ==
    [p \in DOMAIN list |->
        IF p \in ps
        THEN [list[p] EXCEPT !.isUsed = 0, !.pPid = 0, !.myThread = NULL,
                             !.exitCode = 0]
        ELSE list[p]]

\* release_pid for every pid of the set ps (exorcise calls it once per zombie).
release_pid(list, ps) ==
    [p \in DOMAIN list |->
        IF p \in ps
        THEN [list[p] EXCEPT !.isUsed = 0, !.pPid = 0, !.myThread = NULL]
        ELSE list[p]]

\* (Mutant: forgets didExit.)
exited_silently(e, code) ==
    [e EXCEPT !.exitCode = code, !.parentSem = e.parentSem + 1]

\* What thread_exit writes into the entry of its process: the status, then V on
\* the semaphore.
exited(e, code) ==
    [e EXCEPT !.didExit = 1, !.exitCode = code, !.parentSem = e.parentSem + 1]

\* pid_search finds an entry whether or not it is in use.
pid_search(list, p) == p \in DOMAIN list
==============================================================================
