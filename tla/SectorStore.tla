----------------------------- MODULE SectorStore -----------------------------
(***************************************************************************)
(* What a disk driver promises its callers: every sector that is read or   *)
(* written is read or written at one instant between call and return, and  *)
(* the result a caller gets is the result of its own request.              *)
(***************************************************************************)
CONSTANTS Threads, Sectors, Data, NoData

VARIABLES
    store,        \* the content of each sector
    call          \* what each thread has asked for, or the answer to it

Idle == [st |-> "idle"]
Pending(rw, s, d) == [st |-> "pending", rw |-> rw, sector |-> s, data |-> d]
Answered(r, d) == [st |-> "answered", result |-> r, data |-> d]

Init ==
    /\ store \in [Sectors -> Data]
    /\ call = [t \in Threads |-> Idle]

\* A thread asks for the transfer of one sector.
Begin(t) ==
    /\ call[t].st # "pending"
    /\ \/ \E s \in Sectors : call' = [call EXCEPT ![t] = Pending("read", s, NoData)]
       \/ \E s \in Sectors, d \in Data : call' = [call EXCEPT ![t] = Pending("write", s, d)]
    /\ UNCHANGED store

\* The transfer happens, or the medium refuses it and nothing changes.
Perform(t) ==
    /\ call[t].st = "pending"
    /\ \/ /\ call[t].rw = "read"
          /\ call' = [call EXCEPT ![t] = Answered("OK", store[call[t].sector])]
          /\ UNCHANGED store
       \/ /\ call[t].rw = "write"
          /\ store' = [store EXCEPT ![call[t].sector] = call[t].data]
          /\ call' = [call EXCEPT ![t] = Answered("OK", NoData)]
       \/ /\ call' = [call EXCEPT ![t] = Answered("EIO", NoData)]
          /\ UNCHANGED store

\* The caller's memory cannot be read or written.
Fault(t) ==
    /\ call[t].st # "idle"
    /\ call' = [call EXCEPT ![t] = Answered("EFAULT", NoData)]
    /\ UNCHANGED store

End(t) ==
    /\ call[t].st = "answered"
    /\ call' = [call EXCEPT ![t] = Idle]
    /\ UNCHANGED store

Next == \E t \in Threads : Begin(t) \/ Perform(t) \/ Fault(t) \/ End(t)

Spec == Init /\ [][Next]_<<store, call>>
==============================================================================
