------------------------------ MODULE LhdProofs ------------------------------
(***************************************************************************)
(* Proofs about Lhd, for any threads, any disk and any requests.           *)
(***************************************************************************)
EXTENDS Lhd, TLAPS

\* The thread has come out of P(lh_clear) and not yet done V(lh_clear).
Driving(t) == l_pc[t] \in {"fill", "sect", "start", "done", "result", "drain", "leave"}

\* lh_clear is the token of the one driving thread.
Token ==
    /\ lh_clear \in {0, 1}
    /\ lh_clear = 1 => \A t \in LThreads : ~Driving(t)
    /\ \A t, u \in LThreads : Driving(t) /\ Driving(u) => t = u

\* The current sector of a request that is under way is on the disk, and the
\* caller has data to write.
OnDisk ==
    \A t \in LThreads : l_pc[t] # "idle" =>
        /\ io[t].i < io[t].len
        /\ io[t].sector + io[t].len <= d_blocks
        /\ io[t].rw = "write" => io[t].data \in Data
        /\ io[t].rw = "read" /\ l_pc[t] # "leave" => io[t].data = NoData
        /\ l_pc[t] \notin {"drain", "leave"} => io[t].result = "OK"
        /\ io[t].result \in {"OK", "EIO", "EFAULT"}

\* Registers, buffer and completion belong to the driving thread.
Device ==
    /\ lh_done \in {0, 1}
    /\ reg.stat # "LHD_IDLE" \/ lh_done = 1 => \E t \in LThreads : l_pc[t] = "done"
    /\ \A t \in LThreads :
        /\ l_pc[t] = "done" => (reg.stat = "LHD_IDLE" <=> lh_done = 1)
        /\ l_pc[t] = "start" => reg.sect = io[t].sector + io[t].i
        /\ l_pc[t] = "done" /\ reg.stat # "LHD_IDLE" =>
            reg.sect = io[t].sector + io[t].i /\ reg.rw = io[t].rw
        /\ l_pc[t] \in {"sect", "start", "done"} /\ io[t].rw = "write" => lh_buf = io[t].data
    /\ lh_result \in {"OK", "EIO"}
    /\ reg.stat # "LHD_INVSECT"

IInv == TypeOK /\ Token /\ OnDisk /\ Device

\* The state config_lhd leaves behind satisfies the invariant.
LEMMA InitIInv == LhdInit => IInv
  BY LhdAssumption
     DEF LhdInit, IInv, config_lhd, Returned, Requests, Results, Finished, TypeOK, Token,
         OnDisk, Device, Driving

\* Division of a natural number by a sector size is a natural number.
LEMMA SectorNumber ==
  ASSUME NEW n \in Nat
  PROVE  n \div LHD_SECTSIZE \in Nat
  BY LhdAssumption

\* Entering lhd_io keeps the invariant.
LEMMA EnterIInv ==
  ASSUME IInv, NEW t \in LThreads, NEW rw \in {"read", "write"}, NEW offset \in Nat,
         NEW resid \in Nat, NEW d \in Payload(rw), lhd_io(t, rw, offset, resid, d)
  PROVE  IInv'
  <1>. DEFINE sector == offset \div LHD_SECTSIZE
              len == resid \div LHD_SECTSIZE
              new == io'[t]
  <1>1. sector \in Nat /\ len \in Nat
    BY SMTT(60), SectorNumber
  <1>2. CASE UNCHANGED l_pc /\ \E r \in {"OK", "EINVAL"} :
                                  io' = [io EXCEPT ![t] = Returned(r)]
    BY <1>2 DEF lhd_io, IInv, TypeOK, Token, OnDisk, Device, Driving, Returned,
                Requests, Results
  <1>3. CASE /\ InRange(sector, len) /\ len > 0
             /\ io' = [io EXCEPT ![t] =
                    [rw |-> rw, sector |-> sector, len |-> len, i |-> 0,
                     data |-> d, result |-> "OK"]]
             /\ l_pc' = [l_pc EXCEPT ![t] = "clear"]
    <2>. HIDE DEF sector, len
    <2>1. d \in Data \cup {NoData} /\ (rw = "write" => d \in Data)
          /\ (rw = "read" => d = NoData)
      BY Zenon DEF Payload
    <2>2. l_pc[t] = "idle" /\ UNCHANGED <<lh_clear, lh_done, lh_result, reg, lh_buf, disk>>
      BY DEF lhd_io
    <2>. QED
      BY <1>1, <1>3, <2>1, <2>2, LhdAssumption
         DEF InRange, IInv, TypeOK, Token, OnDisk, Device, Driving, Requests, Results
  <1>. QED
    BY <1>2, <1>3 DEF lhd_io

\* The steps of the driving thread keep the invariant.
LEMMA StepIInv == ASSUME IInv, NEW t \in LThreads, LhdStep(t) PROVE IInv'
  <1>. USE LhdAssumption DEF IInv, TypeOK, Token, OnDisk, Device, Driving, Requests,
                             Results
  <1>1. CASE P_clear(t)
    BY SMTT(60), <1>1 DEF P_clear
  <1>2. CASE Fill(t)
    <2>1. CASE l_pc' = [l_pc EXCEPT ![t] = "sect"]
      BY <1>2, <2>1 DEF Fill
    <2>2. CASE l_pc' = [l_pc EXCEPT ![t] = "leave"]
      BY <1>2, <2>2 DEF Fill
    <2>. QED
      BY Zenon, <1>2, <2>1, <2>2 DEF Fill
  <1>3. CASE SetSector(t)
    BY SMTT(60), <1>3 DEF SetSector
  <1>4. CASE Start(t)
    <2>1. TypeOK' /\ Token' /\ OnDisk'
      <3>1. TypeOK' BY Zenon, <1>4 DEF Start
      <3>2. Token' BY <1>4 DEF Start
      <3>3. OnDisk' BY <1>4 DEF Start
      <3>. QED BY <3>1, <3>2, <3>3
    <2>2. lh_done = 0 /\ reg.stat = "LHD_IDLE"
      BY <1>4 DEF Start
    <2>3. /\ l_pc[t] = "start" /\ l_pc' = [l_pc EXCEPT ![t] = "done"]
          /\ reg'.stat = "LHD_WORKING" /\ reg'.rw = io[t].rw /\ reg'.sect = reg.sect
          /\ UNCHANGED <<io, lh_done, lh_result, lh_buf>>
      BY Zenon, <1>4 DEF Start
    <2>4. l_pc'[t] = "done" /\ \A u \in LThreads \ {t} : l_pc'[u] = l_pc[u] /\ ~Driving(u)
      BY <2>3
    <2>5. reg.sect = io[t].sector + io[t].i
      BY Zenon, <2>3
    <2>6. Device'
      BY <2>2, <2>3, <2>4, <2>5
    <2>. QED
      BY SMTT(60), <2>1, <2>6
  <1>5. CASE P_done(t)
    BY <1>5 DEF P_done
  <1>6. CASE GetResult(t)
    BY <1>6 DEF GetResult
  <1>7. CASE Drain(t)
    BY SMTT(60), <1>7 DEF Drain
  <1>8. CASE V_clear(t)
    <2>1. /\ l_pc[t] = "leave" /\ lh_clear = 0 /\ lh_clear' = 1
          /\ \A u \in LThreads : Driving(u) => u = t
          /\ UNCHANGED <<lh_done, lh_result, reg, lh_buf, disk>>
      <3>1. /\ l_pc[t] = "leave" /\ lh_clear' = lh_clear + 1
            /\ UNCHANGED <<lh_done, lh_result, reg, lh_buf, disk>>
        BY <1>8, Zenon DEF V_clear
      <3>. QED
        BY <3>1
    <2>2. CASE /\ io[t].i + 1 < io[t].len
               /\ l_pc' = [l_pc EXCEPT ![t] = "clear"]
               /\ io[t].result = "OK"
               /\ \E d \in Payload(io[t].rw) :
                     io' = [io EXCEPT ![t] = NextSector(io[t], d)]
      <3>1. PICK d \in Payload(io[t].rw) :
                     io' = [io EXCEPT ![t] = NextSector(io[t], d)]
        BY Zenon, <2>2
      <3>2. /\ d \in Data \cup {NoData}
            /\ io[t].rw = "write" => d \in Data
            /\ io[t].rw = "read" => d = NoData
        BY Zenon DEF Payload
      <3>3. /\ io'[t].i = io[t].i + 1 /\ io'[t].data = d /\ io'[t].len = io[t].len
            /\ io'[t].sector = io[t].sector /\ io'[t].rw = io[t].rw
            /\ io'[t].result = io[t].result
            /\ \A u \in LThreads \ {t} : io'[u] = io[u]
            /\ io' \in [LThreads -> Requests]
        <4>1. io[t] \in Requests /\ io[t].i + 1 \in Nat
          OBVIOUS
        <4>. DEFINE r == NextSector(io[t], d)
        <4>2. /\ r \in Requests /\ r.i = io[t].i + 1 /\ r.data = d /\ r.len = io[t].len
              /\ r.sector = io[t].sector /\ r.rw = io[t].rw /\ r.result = io[t].result
          BY Zenon, <3>2, <4>1 DEF NextSector
        <4>3. io' = [io EXCEPT ![t] = r]
          BY Zenon, <3>1
        <4>. HIDE DEF r, Requests, OnDisk, Device, Token
        <4>. QED
          BY Zenon, <4>2, <4>3
      <3>4. /\ l_pc'[t] = "clear" /\ \A u \in LThreads \ {t} : l_pc'[u] = l_pc[u] /\ ~Driving(u)
            /\ TypeOK' /\ Token'
        BY <2>1, <2>2, <3>3
      <3>5. OnDisk'
        <4>1. /\ io'[t].i < io'[t].len
              /\ io'[t].sector + io'[t].len <= d_blocks
          BY SMTT(60), <2>1, <2>2, <3>3
        <4>. HIDE DEF Requests, TypeOK, Token, Device
        <4>. QED
          BY SMTT(60), <2>1, <2>2, <3>2, <3>3, <3>4, <4>1
      <3>6. Device'
        BY SMTT(60), <2>1, <2>2, <3>3, <3>4
      <3>. QED
        BY <3>4, <3>5, <3>6
    <2>3. CASE /\ l_pc' = [l_pc EXCEPT ![t] = "idle"]
               /\ io' = [io EXCEPT ![t] = Returned(io[t].result)]
      BY <2>1, <2>3 DEF Returned
    <2>. QED
      BY SMTT(60), <1>8, <2>2, <2>3 DEF V_clear
  <1>. QED
    BY Zenon, <1>1, <1>2, <1>3, <1>4, <1>5, <1>6, <1>7, <1>8 DEF LhdStep

\* The sector register of a busy device names a sector of the disk.
LEMMA BusyOnDisk == ASSUME IInv, reg.stat # "LHD_IDLE" PROVE reg.sect \in Sectors
  BY LhdAssumption DEF IInv, TypeOK, OnDisk, Device, Sectors, Requests

\* The disk keeps the invariant.
LEMMA DiskIInv == ASSUME IInv, Disk PROVE IInv'
  <1>1. reg.sect \in Sectors /\ reg.stat = "LHD_WORKING"
    BY BusyOnDisk DEF Disk
  <1>. QED
    BY <1>1, LhdAssumption
       DEF Disk, IInv, TypeOK, Token, OnDisk, Device, Driving, Finished

\* The interrupt handler keeps the invariant.
LEMMA IrqIInv == ASSUME IInv, lhd_irq PROVE IInv'
  BY DEF lhd_irq, IInv, TypeOK, Token, OnDisk, Device, Driving, Finished,
         lhd_code_to_errno, Results

\* Every step keeps the invariant.
LEMMA NextIInv == IInv /\ [LhdNext]_l_vars => IInv'
  <1>1. CASE UNCHANGED l_vars
    BY <1>1 DEF l_vars, IInv, TypeOK, Token, OnDisk, Device, Driving
  <1>2. CASE LhdNext
    BY <1>2, EnterIInv, StepIInv, DiskIInv, IrqIInv, LhdAssumption DEF LhdNext
  <1>. QED
    BY Zenon, <1>1, <1>2

\* The invariant of the driver: one driving thread, to which the registers, the
\* buffer and the completion belong.
THEOREM Inductive == LhdSpec => []IInv
  BY InitIInv, NextIInv, PTL DEF LhdSpec

\* A completion is only ever signalled to the thread whose request it answers.
THEOREM CompletionsAwaited == LhdSpec => []CompletionAwaited
  <1>1. IInv => CompletionAwaited
    BY DEF IInv, TypeOK, Device, CompletionAwaited
  <1>. QED
    BY <1>1, Inductive, PTL

\* The driver never asks the disk for a sector it does not have.
THEOREM SectorsExist == LhdSpec => []SectorExists
  <1>1. IInv => SectorExists
    BY Zenon, BusyOnDisk DEF IInv, Device, SectorExists
  <1>. QED
    BY <1>1, Inductive, PTL

------------------------------------------------------------------------------
\* A thread that is not driving looks at nothing that is shared.
LEMMA NotDriving ==
  ASSUME IInv, NEW u \in LThreads, ~Driving(u), UNCHANGED <<l_pc[u], io[u]>>
  PROVE  CallOf(u)' = CallOf(u)
  BY DEF IInv, TypeOK, Driving, CallOf, Unanswered

\* The whole view follows from the view of the thread that made the step.
LEMMA OneCall ==
  ASSUME NEW t \in LThreads, \A u \in LThreads \ {t} : CallOf(u)' = CallOf(u)
  PROVE  l_calls' = [l_calls EXCEPT ![t] = CallOf(t)']
  BY Zenon DEF l_calls

\* When a driving thread, the disk or the handler acts, the view of the other
\* threads stays.
LEMMA OthersStay ==
  ASSUME IInv, NEW t \in LThreads, Driving(t),
         \A u \in LThreads \ {t} : UNCHANGED <<l_pc[u], io[u]>>
  PROVE  \A u \in LThreads \ {t} : CallOf(u)' = CallOf(u)
  BY Zenon, NotDriving DEF IInv, Token

\* The initial state maps to an initial state.
LEMMA InitStore == LhdInit => S!Init
  BY DEF LhdInit, S!Init, S!Idle, CallOf, l_calls

\* Entering lhd_io asks for the first sector, or changes nothing.
LEMMA EnterStore ==
  ASSUME IInv, NEW t \in LThreads, NEW rw \in {"read", "write"}, NEW offset \in Nat,
         NEW resid \in Nat, NEW d \in Payload(rw), lhd_io(t, rw, offset, resid, d)
  PROVE  S!Begin(t) \/ UNCHANGED <<disk, l_calls>>
  <1>1. \A u \in LThreads \ {t} : CallOf(u)' = CallOf(u)
    <2>. SUFFICES ASSUME NEW u \in LThreads \ {t} PROVE CallOf(u)' = CallOf(u)
      BY Zenon
    <2>1. UNCHANGED <<l_pc[u], io[u], reg, lh_result, lh_buf>>
      BY Zenon DEF lhd_io, IInv, TypeOK
    <2>. QED
      BY <2>1 DEF CallOf, Unanswered, ResultOf, DataOf
  <1>2. l_calls' = [l_calls EXCEPT ![t] = CallOf(t)'] /\ UNCHANGED disk /\ l_pc[t] = "idle"
    BY <1>1, OneCall DEF lhd_io
  <1>3. CASE l_pc' = l_pc
    BY Zenon, <1>2, <1>3 DEF CallOf, l_calls
  <1>4. CASE l_pc' # l_pc
    <2>. DEFINE s == offset \div LHD_SECTSIZE
    <2>1. /\ l_pc'[t] = "clear" /\ io'[t].rw = rw /\ io'[t].sector = s
          /\ io'[t].i = 0 /\ io'[t].data = d /\ s \in Sectors
      <3>1. s \in Nat /\ resid \div LHD_SECTSIZE \in Nat
        BY Zenon, SectorNumber
      <3>. QED
        BY SMTT(60), <1>4, <3>1, LhdAssumption DEF lhd_io, IInv, TypeOK, Sectors, InRange
    <2>2. s + 0 = s
      BY <2>1, LhdAssumption DEF Sectors
    <2>3. CallOf(t)' = [st |-> "pending", rw |-> rw, sector |-> s, data |-> d]
      BY Zenon, <2>1, <2>2 DEF CallOf, Unanswered
    <2>4. l_calls[t].st # "pending"
      BY Zenon, <1>2 DEF l_calls, CallOf
    <2>. QED
      BY Zenon, <1>2, <2>1, <2>3, <2>4 DEF Payload, S!Begin, S!Pending
  <1>. QED
    BY <1>3, <1>4

\* The steps of a driving thread: a failed uiomove is a fault, V(lh_clear) ends
\* the call or begins the next sector, and nothing else is seen.
LEMMA StepStore ==
  ASSUME IInv, NEW t \in LThreads, LhdStep(t)
  PROVE  S!Begin(t) \/ S!Fault(t) \/ S!End(t) \/ UNCHANGED <<disk, l_calls>>
  <1>. DEFINE Same == CallOf(t)' = CallOf(t)
              Quiet == UNCHANGED disk /\ \A u \in LThreads \ {t} : CallOf(u)' = CallOf(u)
  <1>1. Quiet /\ l_calls' = [l_calls EXCEPT ![t] = CallOf(t)']
    <2>1. UNCHANGED disk /\ \A u \in LThreads \ {t} : UNCHANGED <<l_pc[u], io[u]>>
      BY DEF LhdStep, P_clear, Fill, SetSector, Start, P_done, GetResult, Drain, V_clear,
             IInv, TypeOK
    <2>2. CASE Driving(t)
      BY Zenon, <2>1, <2>2, OthersStay, OneCall
    <2>3. CASE ~Driving(t)
      <3>1. UNCHANGED <<reg, lh_result, lh_buf>>
        BY Zenon, <2>3 DEF Driving, LhdStep, P_clear, Fill, SetSector, Start, P_done, GetResult,
                    Drain, V_clear
      <3>2. \A u \in LThreads \ {t} : CallOf(u)' = CallOf(u)
        BY <2>1, <3>1 DEF CallOf, Unanswered, ResultOf, DataOf
      <3>. QED
        BY Zenon, <2>1, <3>2, OneCall
    <2>. QED
      BY Zenon, <2>2, <2>3
  <1>. HIDE DEF Quiet
  <1>2. ASSUME Same PROVE UNCHANGED <<disk, l_calls>>
    BY <1>1, <1>2 DEF Quiet, l_calls
  <1>3. CASE P_clear(t) \/ SetSector(t)
    BY <1>2, <1>3 DEF P_clear, SetSector, CallOf, Unanswered, IInv, TypeOK
  <1>4. CASE Fill(t)
    <2>1. CASE l_pc' = [l_pc EXCEPT ![t] = "sect"]
      BY <1>2, <1>4, <2>1 DEF Fill, CallOf, Unanswered, IInv, TypeOK
    <2>2. CASE l_pc' = [l_pc EXCEPT ![t] = "leave"]
      <3>1. l_pc[t] = "fill" /\ l_pc'[t] = "leave" /\ io'[t].result = "EFAULT"
        BY <1>4, <2>2 DEF Fill, IInv, TypeOK, Requests
      <3>2. CallOf(t)' = [st |-> "answered", result |-> "EFAULT", data |-> NoData]
        BY Zenon, <3>1 DEF CallOf, Unanswered, ResultOf, DataOf
      <3>3. l_calls[t].st # "idle"
        BY Zenon, <3>1 DEF l_calls, CallOf, Unanswered
      <3>. QED
        BY Zenon, <1>1, <3>2, <3>3 DEF Quiet, S!Fault, S!Answered
    <2>. QED
      BY Zenon, <1>4, <2>1, <2>2 DEF Fill
  <1>5. CASE Start(t)
    BY Zenon, <1>2, <1>5 DEF Start, CallOf, Unanswered, IInv, TypeOK
  <1>6. CASE P_done(t)
    BY <1>2, <1>6 DEF P_done, CallOf, Unanswered, ResultOf, DataOf, IInv, TypeOK, Device
  <1>7. CASE GetResult(t)
    BY <1>2, <1>7 DEF GetResult, CallOf, Unanswered, ResultOf, DataOf, IInv, TypeOK,
                      Requests
  <1>8. CASE Drain(t)
    <2>1. l_pc[t] = "drain" /\ l_pc'[t] = "leave" /\ UNCHANGED lh_buf
      BY <1>8 DEF Drain, IInv, TypeOK
    <2>2. CASE io[t].result = "OK" /\ io[t].rw = "read"
               /\ io' = [io EXCEPT ![t].result = "EFAULT"]
      <3>1. io'[t].result = "EFAULT"
        BY <2>2 DEF IInv, TypeOK, Requests
      <3>2. CallOf(t)' = [st |-> "answered", result |-> "EFAULT", data |-> NoData]
        BY Zenon, <2>1, <3>1 DEF CallOf, Unanswered, ResultOf, DataOf
      <3>3. l_calls[t].st # "idle"
        BY <2>1 DEF l_calls, CallOf, Unanswered
      <3>. QED
        BY <1>1, <3>2, <3>3 DEF Quiet, S!Fault, S!Answered
    <2>3. CASE io[t].result = "OK" /\ io[t].rw = "read"
               /\ io' = [io EXCEPT ![t].data = lh_buf]
      <3>1. io'[t].result = "OK" /\ io'[t].rw = "read" /\ io'[t].data = lh_buf
        BY <2>3 DEF IInv, TypeOK, Requests
      <3>. QED
        BY <1>2, <2>1, <2>3, <3>1 DEF CallOf, Unanswered, ResultOf, DataOf
    <2>4. CASE ~(io[t].result = "OK" /\ io[t].rw = "read") /\ UNCHANGED io
      BY <1>2, <2>1, <2>4 DEF CallOf, Unanswered, ResultOf, DataOf, IInv, TypeOK, Requests
    <2>. QED
      BY <1>8, <2>2, <2>3, <2>4 DEF Drain
  <1>9. CASE V_clear(t)
    <2>1. l_pc[t] = "leave"
      BY Zenon, <1>9 DEF V_clear
    <2>2. l_calls[t].st = "answered"
      BY Zenon, <2>1 DEF l_calls, CallOf, Unanswered
    <2>3. CASE l_pc'[t] = "idle"
      BY <1>1, <2>2, <2>3 DEF Quiet, CallOf, S!End, S!Idle
    <2>4. CASE l_pc'[t] # "idle"
      <3>1. l_pc'[t] = "clear" /\ \E d \in Payload(io[t].rw) :
                                     io' = [io EXCEPT ![t] = NextSector(io[t], d)]
        BY <1>9, <2>4 DEF V_clear, IInv, TypeOK
      <3>2. PICK d \in Payload(io[t].rw) : io' = [io EXCEPT ![t] = NextSector(io[t], d)]
        BY Zenon, <3>1
      <3>3. io'[t] \in Requests /\ io'[t].data = d /\ io'[t].rw = io[t].rw
        BY <3>2, StepIInv DEF NextSector, IInv, TypeOK, Requests
      <3>4. io'[t].sector + io'[t].i \in Sectors
        BY <3>1, <3>3, StepIInv, LhdAssumption DEF IInv, OnDisk, Requests, Sectors
      <3>5. CallOf(t)' = [st |-> "pending", rw |-> io[t].rw,
                          sector |-> io'[t].sector + io'[t].i, data |-> d]
        BY Zenon, <3>1, <3>3 DEF CallOf, Unanswered
      <3>6. io[t].rw \in {"read", "write"}
        BY Zenon DEF IInv, TypeOK, Requests
      <3>. QED
        BY Zenon, <1>1, <2>2, <3>4, <3>5, <3>6 DEF Quiet, Payload, S!Begin, S!Pending
    <2>. QED
      BY Zenon, <2>3, <2>4
  <1>. QED
    BY Zenon, <1>3, <1>4, <1>5, <1>6, <1>7, <1>8, <1>9 DEF LhdStep

\* The disk performs the request of the one driving thread.
LEMMA DiskStore == ASSUME IInv, Disk PROVE \E t \in LThreads : S!Perform(t)
  <1>1. PICK t \in LThreads : l_pc[t] = "done"
    BY Zenon DEF Disk, IInv, Device
  <1>2. /\ reg.sect = io[t].sector + io[t].i /\ reg.rw = io[t].rw
        /\ reg.sect \in Sectors /\ reg.rw \in {"read", "write"}
        /\ reg.rw = "write" => lh_buf = io[t].data
    BY <1>1, BusyOnDisk DEF Disk, IInv, TypeOK, Device
  <1>3. UNCHANGED <<l_pc, io>>
    BY Zenon DEF Disk
  <1>4. l_calls' = [l_calls EXCEPT ![t] = CallOf(t)']
    BY Zenon, <1>1, <1>3, OthersStay, OneCall DEF Driving
  <1>5. l_calls[t] = [st |-> "pending", rw |-> reg.rw, sector |-> reg.sect,
                     data |-> io[t].data]
    BY Zenon, <1>1, <1>2 DEF l_calls, CallOf, Unanswered, Disk
  <1>6. /\ l_calls[t].st = "pending" /\ l_calls[t].rw = reg.rw
         /\ l_calls[t].sector = reg.sect /\ l_calls[t].data = io[t].data
    BY <1>5
  <1>7. CASE reg'.stat = "LHD_MEDIA" /\ UNCHANGED disk
    <2>1. CallOf(t)' = [st |-> "answered", result |-> "EIO", data |-> NoData]
      BY <1>1, <1>3, <1>7 DEF CallOf, Unanswered, ResultOf, DataOf, lhd_code_to_errno
    <2>. QED
      BY Zenon, <1>4, <1>6, <1>7, <2>1 DEF S!Perform, S!Answered
  <1>8. CASE reg'.stat = "LHD_OK" /\ reg.rw = "read" /\ lh_buf' = disk[reg.sect]
             /\ UNCHANGED disk
    <2>1. CallOf(t)' = [st |-> "answered", result |-> "OK", data |-> disk[reg.sect]]
      BY <1>1, <1>2, <1>3, <1>8
         DEF CallOf, Unanswered, ResultOf, DataOf, lhd_code_to_errno
    <2>. QED
      BY Zenon, <1>4, <1>6, <1>8, <2>1 DEF S!Perform, S!Answered
  <1>9. CASE reg'.stat = "LHD_OK" /\ reg.rw = "write"
             /\ disk' = [disk EXCEPT ![reg.sect] = lh_buf]
    <2>1. CallOf(t)' = [st |-> "answered", result |-> "OK", data |-> NoData]
      BY <1>1, <1>2, <1>3, <1>9
         DEF CallOf, Unanswered, ResultOf, DataOf, lhd_code_to_errno
    <2>. QED
      BY Zenon, <1>2, <1>4, <1>6, <1>9, <2>1 DEF S!Perform, S!Answered
  <1>. QED
    BY Zenon, <1>2, <1>7, <1>8, <1>9 DEF Disk, IInv, TypeOK

\* The interrupt handler only moves the answer out of the register.
LEMMA IrqStore == ASSUME IInv, lhd_irq PROVE UNCHANGED <<disk, l_calls>>
  <1>1. PICK t \in LThreads : l_pc[t] = "done"
    BY DEF lhd_irq, IInv, Device, Finished
  <1>2. UNCHANGED <<l_pc, io, lh_buf, disk>> /\ reg'.stat = "LHD_IDLE"
        /\ lh_result' = lhd_code_to_errno(reg.stat) /\ reg.stat \in Finished
    BY Zenon DEF lhd_irq, IInv, TypeOK
  <1>3. l_calls' = [l_calls EXCEPT ![t] = CallOf(t)']
    BY <1>1, <1>2, OthersStay, OneCall DEF Driving
  <1>4. ResultOf(t)' = ResultOf(t)
    BY Zenon, <1>1, <1>2 DEF ResultOf, Finished
  <1>5. CallOf(t)' = CallOf(t)
    BY <1>1, <1>2, <1>4 DEF CallOf, Unanswered, DataOf, Finished
  <1>. QED
    BY Zenon, <1>2, <1>3, <1>5 DEF l_calls

\* lhd_io implements the atomic read or write of sectors, for any number of
\* threads, requests and sectors.
THEOREM SectorsAtomic == LhdSpec => AtomicSectors
  <1>1. IInv /\ [LhdNext]_l_vars => [S!Next]_<<disk, l_calls>>
    <2>. SUFFICES ASSUME IInv, [LhdNext]_l_vars PROVE [S!Next]_<<disk, l_calls>>
      OBVIOUS
    <2>1. CASE UNCHANGED l_vars
      BY <2>1 DEF l_vars, l_calls, CallOf, Unanswered, ResultOf, DataOf
    <2>2. ASSUME NEW t \in LThreads, LhdStep(t) PROVE [S!Next]_<<disk, l_calls>>
      BY Zenon, <2>2, StepStore DEF S!Next
    <2>3. ASSUME NEW t \in LThreads, NEW rw \in {"read", "write"}, NEW offset \in Nat,
                 NEW resid \in Nat, NEW d \in Payload(rw), lhd_io(t, rw, offset, resid, d)
          PROVE  [S!Next]_<<disk, l_calls>>
      BY <2>3, EnterStore DEF S!Next
    <2>. QED
      BY <2>1, <2>2, <2>3, DiskStore, IrqStore, LhdAssumption DEF LhdNext, S!Next
  <1>. QED
    BY <1>1, InitStore, Inductive, PTL DEF LhdSpec, AtomicSectors, S!Spec
==============================================================================
