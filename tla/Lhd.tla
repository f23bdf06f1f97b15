--------------------------------- MODULE Lhd ---------------------------------
(***************************************************************************)
(* The disk driver kern/dev/lamebus/lhd.c: threads in lhd_io, the          *)
(* interrupt handler lhd_irq, and the disk itself.                         *)
(*                                                                         *)
(* The driver runs with interrupts on, so a thread may be preempted        *)
(* between any two of its steps.  P and V are the atomic operations module *)
(* Synch shows them to be: P waits for a count and takes it.  The content  *)
(* of a sector is one value.                                               *)
(***************************************************************************)
EXTENDS Naturals

CONSTANTS
    LThreads,     \* threads that do disk I/O
    Data,         \* contents of a sector
    NoData,       \* nothing read yet
    LHD_SECTSIZE, \* bytes in a sector
    d_blocks,     \* sectors of the disk
    MaxOffset,    \* bound: largest offset asked for
    MaxResid      \* bound: largest length asked for

ASSUME LhdAssumption ==
    /\ LHD_SECTSIZE \in Nat \ {0} /\ d_blocks \in Nat
    /\ MaxOffset \in Nat /\ MaxResid \in Nat
    /\ NoData \notin Data

VARIABLES
    l_pc,         \* where each thread is in lhd_io
    io,           \* its request: rw, sector, len, i, the data, the result
    lh_clear,     \* count of the semaphore that guards the device
    lh_done,      \* count of the semaphore that signals completion
    lh_result,    \* the result the handler saved
    reg,          \* the sector and status registers
    lh_buf,       \* the on-card buffer
    disk          \* the content of the sectors

l_vars == <<l_pc, io, lh_clear, lh_done, lh_result, reg, lh_buf, disk>>

Sectors == 0 .. (d_blocks - 1)
Results == {"OK", "EINVAL", "EIO", "EFAULT"}
Finished == {"LHD_OK", "LHD_INVSECT", "LHD_MEDIA"}

Requests == [rw : {"read", "write"}, sector : Nat, len : Nat, i : Nat,
             data : Data \cup {NoData}, result : Results]

TypeOK ==
    /\ l_pc \in [LThreads -> {"idle", "clear", "fill", "sect", "start", "done",
                           "result", "drain", "leave"}]
    /\ io \in [LThreads -> Requests]
    /\ lh_clear \in Nat /\ lh_done \in Nat /\ lh_result \in Results
    /\ reg \in [sect : Nat, rw : {"read", "write"},
                stat : {"LHD_IDLE", "LHD_WORKING"} \cup Finished]
    /\ lh_buf \in Data
    /\ disk \in [Sectors -> Data]

\* (Mutant: the device is free twice.)
config_lhd_two ==
    /\ lh_clear = 2 /\ lh_done = 0 /\ lh_result = "OK"
    /\ reg = [sect |-> 0, rw |-> "read", stat |-> "LHD_IDLE"]

\* The semaphores of config_lhd, and a device at rest.
config_lhd ==
    /\ lh_clear = 1 /\ lh_done = 0 /\ lh_result = "OK"
    /\ reg = [sect |-> 0, rw |-> "read", stat |-> "LHD_IDLE"]

\* After lhd_io has returned only its result is left.
Returned(r) == [rw |-> "read", sector |-> 0, len |-> 0, i |-> 0,
                data |-> NoData, result |-> r]

LhdInit ==
    /\ config_lhd
    /\ l_pc = [t \in LThreads |-> "idle"]
    /\ io = [t \in LThreads |-> Returned("OK")]
    /\ lh_buf \in Data
    /\ disk \in [Sectors -> Data]

\* What the caller's buffer holds for the next sector.
Payload(rw) == IF rw = "write" THEN Data ELSE {NoData}

\* Don't allow I/O past the end of the disk.
InRange(sector, len) == sector + len <= d_blocks

\* Entry of lhd_io: the checks, and the loop is reached if there is a sector.
lhd_io(t, rw, offset, resid, d) ==
    LET sector == offset \div LHD_SECTSIZE
        len == resid \div LHD_SECTSIZE
        ok == /\ offset % LHD_SECTSIZE = 0 /\ resid % LHD_SECTSIZE = 0
              /\ InRange(sector, len)
    IN  /\ l_pc[t] = "idle"
        /\ \/ /\ ~ok \/ len = 0
              /\ io' = [io EXCEPT ![t] = Returned(IF ok THEN "OK" ELSE "EINVAL")]
              /\ UNCHANGED l_pc
           \/ /\ ok /\ len > 0
              /\ io' = [io EXCEPT ![t] =
                    [rw |-> rw, sector |-> sector, len |-> len, i |-> 0,
                     data |-> d, result |-> "OK"]]
              /\ l_pc' = [l_pc EXCEPT ![t] = "clear"]
        /\ UNCHANGED <<lh_clear, lh_done, lh_result, reg, lh_buf, disk>>

\* P(lh_clear): wait until nobody else is using the device.
P_clear(t) ==
    /\ l_pc[t] = "clear" /\ lh_clear > 0
    /\ lh_clear' = lh_clear - 1
    /\ l_pc' = [l_pc EXCEPT ![t] = "fill"]
    /\ UNCHANGED <<io, lh_done, lh_result, reg, lh_buf, disk>>

\* A write moves the data into the on-card buffer; if uiomove fails, V(lh_clear)
\* and the return with the error are left to do.
Fill(t) ==
    /\ l_pc[t] = "fill"
    /\ \/ /\ l_pc' = [l_pc EXCEPT ![t] = "sect"]
          /\ lh_buf' = IF io[t].rw = "write" THEN io[t].data ELSE lh_buf
          /\ UNCHANGED io
       \/ /\ io[t].rw = "write"
          /\ l_pc' = [l_pc EXCEPT ![t] = "leave"]
          /\ io' = [io EXCEPT ![t].result = "EFAULT"]
          /\ UNCHANGED lh_buf
    /\ UNCHANGED <<lh_clear, lh_done, lh_result, reg, disk>>

\* Tell it what sector we want ...
SetSector(t) ==
    /\ l_pc[t] = "sect"
    /\ reg' = [reg EXCEPT !.sect = io[t].sector + io[t].i]
    /\ l_pc' = [l_pc EXCEPT ![t] = "start"]
    /\ UNCHANGED <<io, lh_clear, lh_done, lh_result, lh_buf, disk>>

\* ... and start the operation.
Start(t) ==
    /\ l_pc[t] = "start"
    /\ reg' = [reg EXCEPT !.stat = "LHD_WORKING", !.rw = io[t].rw]
    /\ l_pc' = [l_pc EXCEPT ![t] = "done"]
    /\ UNCHANGED <<io, lh_clear, lh_done, lh_result, lh_buf, disk>>

\* P(lh_done): wait until the interrupt handler tells us we're done.
P_done(t) ==
    /\ l_pc[t] = "done" /\ lh_done > 0
    /\ lh_done' = lh_done - 1
    /\ l_pc' = [l_pc EXCEPT ![t] = "result"]
    /\ UNCHANGED <<io, lh_clear, lh_result, reg, lh_buf, disk>>

\* (Mutant: tries again after a medium error, keeping the device.)
GetResult_retries(t) ==
    /\ l_pc[t] = "result"
    /\ io' = [io EXCEPT ![t].result = lh_result]
    /\ l_pc' = [l_pc EXCEPT ![t] = IF lh_result = "EIO" THEN "sect" ELSE "drain"]
    /\ UNCHANGED <<lh_clear, lh_done, lh_result, reg, lh_buf, disk>>

\* Get the result value saved by the interrupt handler.
GetResult(t) ==
    /\ l_pc[t] = "result"
    /\ io' = [io EXCEPT ![t].result = lh_result]
    /\ l_pc' = [l_pc EXCEPT ![t] = "drain"]
    /\ UNCHANGED <<lh_clear, lh_done, lh_result, reg, lh_buf, disk>>

\* A read that succeeded moves the data out of the on-card buffer, which fails
\* if the caller's memory cannot be written.
Drain(t) ==
    /\ l_pc[t] = "drain"
    /\ l_pc' = [l_pc EXCEPT ![t] = "leave"]
    /\ LET reads == io[t].result = "OK" /\ io[t].rw = "read"
       IN  \/ /\ reads
              /\ io' = [io EXCEPT ![t].data = lh_buf]
           \/ /\ reads
              /\ io' = [io EXCEPT ![t].result = "EFAULT"]
           \/ /\ ~reads
              /\ UNCHANGED io
    /\ UNCHANGED <<lh_clear, lh_done, lh_result, reg, lh_buf, disk>>

NextSector(r, d) == [r EXCEPT !.i = r.i + 1, !.data = d]

\* V(lh_clear); go on with the next sector unless this one failed or was the
\* last.  The data of the next sector is whatever follows in the caller's
\* buffer.
V_clear(t) ==
    /\ l_pc[t] = "leave"
    /\ lh_clear' = lh_clear + 1
    /\ LET more == io[t].result = "OK" /\ io[t].i + 1 < io[t].len
       IN  \/ /\ more
              /\ l_pc' = [l_pc EXCEPT ![t] = "clear"]
              /\ \E d \in Payload(io[t].rw) :
                    io' = [io EXCEPT ![t] = NextSector(io[t], d)]
           \/ /\ ~more
              /\ l_pc' = [l_pc EXCEPT ![t] = "idle"]
              /\ io' = [io EXCEPT ![t] = Returned(io[t].result)]
    /\ UNCHANGED <<lh_done, lh_result, reg, lh_buf, disk>>

\* The disk (hardware): it transfers the sector, or reports a bad sector number
\* or a medium error, and interrupts by leaving that state in the register.
Disk ==
    /\ reg.stat = "LHD_WORKING"
    /\ \/ /\ reg.sect \notin Sectors
          /\ reg' = [reg EXCEPT !.stat = "LHD_INVSECT"]
          /\ UNCHANGED <<lh_buf, disk>>
       \/ /\ reg' = [reg EXCEPT !.stat = "LHD_MEDIA"]
          /\ UNCHANGED <<lh_buf, disk>>
       \/ /\ reg.sect \in Sectors
          /\ reg' = [reg EXCEPT !.stat = "LHD_OK"]
          /\ \/ /\ reg.rw = "read"
                /\ lh_buf' = disk[reg.sect]
                /\ UNCHANGED disk
             \/ /\ reg.rw = "write"
                /\ disk' = [disk EXCEPT ![reg.sect] = lh_buf]
                /\ UNCHANGED lh_buf
    /\ UNCHANGED <<l_pc, io, lh_clear, lh_done, lh_result>>

lhd_code_to_errno(code) ==
    CASE code = "LHD_OK" -> "OK"
      [] code = "LHD_INVSECT" -> "EINVAL"
      [] OTHER -> "EIO"

\* (Mutant: leaves the status register alone, so that it interrupts again.)
lhd_irq_again ==
    /\ reg.stat \in Finished /\ lh_done < 2
    /\ lh_result' = lhd_code_to_errno(reg.stat)
    /\ lh_done' = lh_done + 1
    /\ UNCHANGED <<reg, l_pc, io, lh_clear, lh_buf, disk>>

\* lhd_irq with lhd_iodone: save the result, V(lh_done).  In the states in which
\* the device does not interrupt the handler does nothing.
lhd_irq ==
    /\ reg.stat \in Finished
    /\ reg' = [reg EXCEPT !.stat = "LHD_IDLE"]
    /\ lh_result' = lhd_code_to_errno(reg.stat)
    /\ lh_done' = lh_done + 1
    /\ UNCHANGED <<l_pc, io, lh_clear, lh_buf, disk>>

LhdStep(t) ==
    \/ P_clear(t) \/ Fill(t) \/ SetSector(t) \/ Start(t)
    \/ P_done(t) \/ GetResult(t) \/ Drain(t) \/ V_clear(t)

LhdNext ==
    \/ \E t \in LThreads :
        \/ \E rw \in {"read", "write"}, offset \in 0 .. MaxOffset,
              resid \in 0 .. MaxResid : \E d \in Payload(rw) :
              lhd_io(t, rw, offset, resid, d)
        \/ LhdStep(t)
    \/ Disk
    \/ lhd_irq

LhdSpec == LhdInit /\ [][LhdNext]_l_vars

\* A thread that can run does (round robin), the disk answers, and a pending
\* interrupt is taken.  Who of several waiters gets lh_clear is left open.
LhdFairness ==
    /\ \A t \in LThreads : WF_l_vars(LhdStep(t))
    /\ WF_l_vars(Disk)
    /\ WF_l_vars(lhd_irq)

LhdFairSpec == LhdSpec /\ LhdFairness

------------------------------------------------------------------------------
\* A completion belongs to a request: the device is busy, or its completion is
\* signalled, only while the thread that started it waits for it; so the P of
\* a later request never returns for an earlier one.
CompletionAwaited ==
    /\ lh_done <= 1
    /\ reg.stat # "LHD_IDLE" \/ lh_done = 1 =>
        \E t \in LThreads :
            /\ l_pc[t] = "done"
            /\ (reg.stat = "LHD_IDLE" <=> lh_done = 1)
            /\ reg.stat # "LHD_IDLE" => reg.sect = io[t].sector + io[t].i

\* The check of sector and length keeps every started operation, the last of a
\* long request included, on the disk: it never reports LHD_INVSECT.
SectorExists ==
    /\ reg.stat # "LHD_IDLE" => reg.sect \in Sectors
    /\ reg.stat # "LHD_INVSECT"

\* The request of t for its current sector has not reached the disk yet.
Unanswered(t) ==
    \/ l_pc[t] \in {"clear", "fill", "sect", "start"}
    \/ l_pc[t] = "done" /\ reg.stat = "LHD_WORKING"

\* The result of the current sector of t, and where its data is: in the
\* registers and the buffer all callers share, until t has fetched them.
ResultOf(t) ==
    CASE l_pc[t] = "done" /\ reg.stat # "LHD_IDLE" -> lhd_code_to_errno(reg.stat)
      [] l_pc[t] = "done" /\ reg.stat = "LHD_IDLE" -> lh_result
      [] l_pc[t] = "result" -> lh_result
      [] OTHER -> io[t].result

DataOf(t) ==
    IF io[t].rw = "write" \/ ResultOf(t) # "OK" THEN NoData
    ELSE IF l_pc[t] = "leave" THEN io[t].data ELSE lh_buf

\* What each caller of lhd_io is waiting for, or has got.
CallOf(t) ==
    IF l_pc[t] = "idle" THEN [st |-> "idle"]
    ELSE IF Unanswered(t)
    THEN [st |-> "pending", rw |-> io[t].rw, sector |-> io[t].sector + io[t].i,
          data |-> io[t].data]
    ELSE [st |-> "answered", result |-> ResultOf(t), data |-> DataOf(t)]

l_calls == [t \in LThreads |-> CallOf(t)]

S == INSTANCE SectorStore WITH Threads <- LThreads, store <- disk, call <- l_calls

\* The driver implements atomic sectors: what a thread reads is what the sector
\* held at one instant of its call, what it wrote successfully is there, and
\* the result it returns is that of its own request, whoever else preempts it.
AtomicSectors == S!Spec

\* The device is always given back, on the error paths of uiomove too, so a
\* thread waiting in P(lh_clear) is not locked out for good.
DeviceFreed == (lh_clear = 0) ~> (lh_clear > 0)
==============================================================================
