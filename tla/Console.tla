------------------------------- MODULE Console -------------------------------
(***************************************************************************)
(* The console kern/dev/generic/console.c on the serial port               *)
(* kern/dev/lamebus/lser.c, with kprintf (kern/lib/kprintf.c) and the      *)
(* device's con_io as its users, and output polled by interrupt handlers   *)
(* and by code that runs with interrupts off.                              *)
(*                                                                         *)
(* Threads run with interrupts on and are preempted between any two steps; *)
(* lser_irq, lser_write and lser_writepolled run with interrupts off and   *)
(* are one step each.  P, V, lock_acquire and lock_release are the atomic  *)
(* operations module Synch shows them to be.  A character sent carries the *)
(* number of the call that sent it; characters typed are numbered.         *)
(***************************************************************************)
EXTENDS Naturals, Sequences, FiniteSets

CONSTANTS
    Threads,      \* threads that use the console
    NULL,         \* no thread, no character
    Lines,        \* what is written or printed: sequences over {"x", "nl"}
    Keys,         \* the keys that will be typed: a sequence over {"x", "cr"}
    MaxCalls,     \* bound: calls of con_io and kprintf
    MaxPolled     \* bound: characters sent by polling

ASSUME ConsoleAssumption ==
    /\ NULL \notin Threads /\ NULL \notin [id : Nat, ch : {"x", "cr", "nl"}]
    /\ MaxCalls \in Nat /\ MaxPolled \in Nat
    /\ Lines \subseteq Seq({"x", "nl"}) /\ Keys \in Seq({"x", "cr"})

VARIABLES
    pc,           \* where each thread is
    job,          \* its call: id, kind, what is left to move and to putch
    holder,       \* who holds con_userlock_read, con_userlock_write, kprintf_lock
    wsem, rsem,   \* counts of cs_wsem and cs_rsem
    gotchar,      \* cs_gotchar: the number of the key
    ls_wbusy,     \* the port has been given a character by lser_write
    tx,           \* the character being sent, NULL if none
    wirq,         \* the write interrupt is active
    rirq,         \* the number of the key in the port, 0 if none
    typed,        \* keys typed so far
    out,          \* the characters sent
    read,         \* the keys returned by getch, in order
    calls, polled \* calls and polled characters so far

vars == <<pc, job, holder, wsem, rsem, gotchar, ls_wbusy, tx, wirq, rirq, typed,
          out, read, calls, polled>>
\* (Parts of the state that steps leave alone together.)
input == <<rsem, gotchar, rirq, typed, read>>
port == <<ls_wbusy, tx, wirq, out>>
count == <<calls, polled>>

Locks == {"read", "write", "kprintf"}
NoJob == [id |-> 0, kind |-> "read", line |-> <<>>, left |-> <<>>, putch |-> <<>>]

\* (Mutant: two characters may be given to the port.)
config_con_two ==
    /\ wsem = 2 /\ rsem = 0 /\ gotchar = 0
    /\ holder = [l \in Locks |-> NULL]

\* config_con: the semaphores and the locks.
config_con ==
    /\ wsem = 1 /\ rsem = 0 /\ gotchar = 0
    /\ holder = [l \in Locks |-> NULL]

\* config_lser, and a port at rest.
config_lser == ls_wbusy = 0 /\ tx = NULL /\ wirq = FALSE /\ rirq = 0

Init ==
    /\ config_con /\ config_lser
    /\ pc = [t \in Threads |-> "idle"]
    /\ job = [t \in Threads |-> NoJob]
    /\ typed = 0 /\ out = <<>> /\ read = <<>> /\ calls = 0 /\ polled = 0

\* A call of con_io, for reading or writing, or of kprintf.
Call(t, kind, line) ==
    /\ pc[t] = "idle" /\ calls < MaxCalls
    /\ calls' = calls + 1
    /\ job' = [job EXCEPT ![t] = [id |-> calls + 1, kind |-> kind, line |-> line,
                                  left |-> line, putch |-> <<>>]]
    /\ pc' = [pc EXCEPT ![t] = "lock"]
    /\ UNCHANGED <<holder, wsem, polled, input, port>>

\* (Mutant: does not wait for the lock.)
Acquire_barge(t) ==
    /\ pc[t] = "lock"
    /\ holder' = [holder EXCEPT ![job[t].kind] = t]
    /\ pc' = [pc EXCEPT ![t] = "loop"]
    /\ UNCHANGED <<job, wsem, input, port, count>>

\* lock_acquire of the lock of the call.
Acquire(t) ==
    /\ pc[t] = "lock" /\ holder[job[t].kind] = NULL
    /\ holder' = [holder EXCEPT ![job[t].kind] = t]
    /\ pc' = [pc EXCEPT ![t] = "loop"]
    /\ UNCHANGED <<job, wsem, input, port, count>>

Release(t) ==
    /\ pc[t] = "unlock"
    /\ holder' = [holder EXCEPT ![job[t].kind] = NULL]
    /\ pc' = [pc EXCEPT ![t] = "idle"]
    /\ UNCHANGED <<job, wsem, input, port, count>>

\* What con_io sends for a character (a newline is preceded by a return);
\* kprintf sends it as it is.
Cooked(kind, ch) == IF kind = "write" /\ ch = "nl" THEN <<"cr", "nl">> ELSE <<ch>>

\* The head of the loop of con_io, and of console_send: fetch the next
\* character, wait for one, or leave.  The caller's memory may turn out
\* unreadable.
Loop(t) ==
    /\ pc[t] = "loop"
    /\ LET left == job[t].left
       IN  \/ /\ left = <<>>
              /\ pc' = [pc EXCEPT ![t] = "unlock"]
              /\ UNCHANGED job
           \/ /\ left # <<>> /\ job[t].kind = "read"
              /\ pc' = [pc EXCEPT ![t] = "getch"]
              /\ UNCHANGED job
           \/ /\ left # <<>> /\ job[t].kind # "read"
              /\ job' = [job EXCEPT ![t].left = Tail(left),
                                    ![t].putch = Cooked(job[t].kind, Head(left))]
              /\ pc' = [pc EXCEPT ![t] = "putch"]
           \/ /\ left # <<>> /\ job[t].kind = "write"
              /\ job' = [job EXCEPT ![t].left = <<>>, ![t].line = <<>>]
              /\ pc' = [pc EXCEPT ![t] = "unlock"]
    /\ UNCHANGED <<holder, wsem, input, port, count>>

\* putch_intr: P(cs_wsem) ...
putch_intr(t) ==
    /\ pc[t] = "putch" /\ wsem > 0
    /\ wsem' = wsem - 1
    /\ pc' = [pc EXCEPT ![t] = "send"]
    /\ UNCHANGED <<job, holder, input, port, count>>

Char(id, ch) == [id |-> id, ch |-> ch]

\* ... and lser_write: it panics if the port is busy; a character written while
\* one is being sent takes its place.
lser_write(t) ==
    /\ pc[t] = "send" /\ ls_wbusy = 0
    /\ ls_wbusy' = 1
    /\ tx' = Char(job[t].id, Head(job[t].putch))
    /\ job' = [job EXCEPT ![t].putch = Tail(job[t].putch)]
    /\ pc' = [pc EXCEPT ![t] = IF Len(job[t].putch) > 1 THEN "putch" ELSE "loop"]
    /\ UNCHANGED <<holder, wsem, wirq, out, input, count>>

\* getch_intr: P(cs_rsem) ...
getch_intr(t) ==
    /\ pc[t] = "getch" /\ rsem > 0
    /\ rsem' = rsem - 1
    /\ pc' = [pc EXCEPT ![t] = "got"]
    /\ UNCHANGED <<job, holder, wsem, gotchar, rirq, typed, read, port, count>>

\* ... and read cs_gotchar.  con_io turns a return into a newline, which ends
\* the read, and so does memory of the caller that cannot be written.
getch_return(t) ==
    /\ pc[t] = "got"
    /\ read' = Append(read, gotchar)
    /\ \E fault \in BOOLEAN :
          job' = [job EXCEPT ![t].left =
                    IF fault \/ Keys[gotchar] = "cr" THEN <<>> ELSE Tail(job[t].left)]
    /\ pc' = [pc EXCEPT ![t] = "loop"]
    /\ UNCHANGED <<holder, wsem, rsem, gotchar, rirq, typed, port, count>>

\* lser_irq with con_start and con_input.
lser_irq ==
    /\ wirq \/ rirq # 0
    /\ \/ /\ wirq
          /\ ls_wbusy' = 0 /\ wirq' = FALSE /\ wsem' = wsem + 1
       \/ /\ ~wirq
          /\ UNCHANGED <<ls_wbusy, wirq, wsem>>
    /\ \/ /\ rirq # 0
          /\ gotchar' = rirq /\ rsem' = rsem + 1 /\ rirq' = 0
       \/ /\ rirq = 0
          /\ UNCHANGED <<gotchar, rsem, rirq>>
    /\ UNCHANGED <<pc, job, holder, tx, out, typed, read, count>>

\* What has been sent once the port is done with tx.
Flushed == IF tx = NULL THEN out ELSE Append(out, tx)

\* (Mutant: does not wait for the character the port is busy with.)
lser_writepolled_nospin ==
    /\ polled < MaxPolled
    /\ polled' = polled + 1
    /\ tx' = NULL
    /\ out' = Append(out, Char(0, "x"))
    /\ wirq' = (ls_wbusy = 1)
    /\ UNCHANGED <<pc, job, holder, wsem, ls_wbusy, calls, input>>

\* (Mutant: always clears the ready condition.)
lser_writepolled_clears ==
    /\ polled < MaxPolled
    /\ polled' = polled + 1
    /\ tx' = NULL
    /\ out' = Append(Flushed, Char(0, "x"))
    /\ wirq' = FALSE
    /\ UNCHANGED <<pc, job, holder, wsem, ls_wbusy, calls, input>>

\* lser_writepolled: with interrupts off, wait for the character the port is
\* busy with, send this one and wait for it.  The ready condition stays only if
\* an interrupt was due before.
lser_writepolled ==
    /\ polled < MaxPolled
    /\ polled' = polled + 1
    /\ tx' = NULL
    /\ out' = Append(Flushed, Char(0, "x"))
    /\ wirq' = (ls_wbusy = 1)
    /\ UNCHANGED <<pc, job, holder, wsem, ls_wbusy, calls, input>>

\* The port (hardware) has sent the character.
Sent ==
    /\ tx # NULL
    /\ out' = Flushed /\ tx' = NULL /\ wirq' = TRUE
    /\ UNCHANGED <<pc, job, holder, wsem, ls_wbusy, input, count>>

\* A key is typed (hardware).  While the port holds a key, more are lost there.
Key ==
    /\ typed < Len(Keys) /\ rirq = 0
    /\ typed' = typed + 1 /\ rirq' = typed + 1
    /\ UNCHANGED <<pc, job, holder, wsem, rsem, gotchar, read, port, count>>

Step(t) ==
    \/ Acquire(t) \/ Release(t) \/ Loop(t) \/ putch_intr(t) \/ lser_write(t)
    \/ getch_intr(t) \/ getch_return(t)

Next ==
    \/ \E t \in Threads :
        \/ \E kind \in Locks, line \in Lines : Call(t, kind, line)
        \/ Step(t)
    \/ lser_irq \/ lser_writepolled \/ Sent \/ Key

Spec == Init /\ [][Next]_vars

\* A thread that can run does, the port sends and interrupts.  Nobody has to
\* type.
Fairness ==
    /\ \A t \in Threads : WF_vars(Step(t))
    /\ WF_vars(lser_irq) /\ WF_vars(Sent)

FairSpec == Spec /\ Fairness

------------------------------------------------------------------------------
\* lser_write never finds the port busy and panics: the comment there leaves it
\* to the console not to write before ls_start, and the polled output that
\* slips in between does not upset that.
ClearToWrite == \A t \in Threads : pc[t] = "send" => ls_wbusy = 0 /\ tx = NULL

\* Where the characters of a call are in what was sent, which of them were asked
\* for, how many of these come up to i, and which is next to which.
Places(s, id) == {i \in DOMAIN s : s[i].id = id}
Asked(s, id) == {i \in Places(s, id) : s[i].ch # "cr"}
Rank(s, id, i) == Cardinality({j \in Asked(s, id) : j <= i})
Follows(s, id, i, k) == i < k /\ \A j \in Places(s, id) : j <= i \/ k <= j

\* A call of con_io or kprintf that has returned has had each of its characters
\* sent once and in order, con_io's newlines, and nothing else, right after a
\* return, whatever was polled or printed meanwhile.
Delivered ==
    \A t \in Threads :
        LET s == Flushed
            id == job[t].id
        IN  pc[t] = "idle" /\ job[t].kind # "read" /\ job[t].line # <<>> =>
            /\ Cardinality(Asked(s, id)) = Len(job[t].line)
            /\ \A i \in Asked(s, id) : s[i].ch = job[t].line[Rank(s, id, i)]
            /\ \A i \in Places(s, id) : s[i].ch = "cr" =>
                  /\ job[t].kind = "write"
                  /\ \E k \in Places(s, id) : Follows(s, id, i, k) /\ s[k].ch = "nl"
            /\ \A k \in Places(s, id) : job[t].kind = "write" /\ s[k].ch = "nl" =>
                  \E i \in Places(s, id) : Follows(s, id, i, k) /\ s[i].ch = "cr"

\* "Lock so user I/Os are atomic": the output of a con_io call is not broken by
\* that of another con_io call.
UserWritesAtomic ==
    LET writes == {job[t].id : t \in {u \in Threads : job[u].kind = "write"}} \ {0}
    IN  \A i, k \in DOMAIN out : out[i].id = out[k].id /\ out[i].id \in writes =>
            \A j \in i .. k : out[j].id \in writes => out[j].id = out[i].id

\* "We use two locks so readers waiting for input don't lock out writers": every
\* call that writes returns, even if nobody ever types.
WriteEnds ==
    \A t \in Threads :
        (pc[t] # "idle" /\ job[t].kind # "read") ~> (pc[t] = "idle")

\* "Characters typed too rapidly will be lost": a key is returned at most once.
KeyReadOnce == \A i, j \in DOMAIN read : read[i] = read[j] => i = j
==============================================================================
