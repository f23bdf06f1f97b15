----------------------------- MODULE SynchProofs -----------------------------
(***************************************************************************)
(* Proofs about the sharing of devices and bowls: Emufs, for any number of *)
(* threads, handles and retries; CatMouse, for any finite number of        *)
(* animals and any number of meals; and Synch, for any set of threads and  *)
(* any counts.                                                             *)
(***************************************************************************)
EXTENDS Synch, Emufs, CatMouse, TLAPS

\* The places of a thread, and the handles there are.
Where == {"idle", "lookup", "opening", "load", "abandon", "doing", "reclaim", "closing"}
AllHandles == Handles \cup {RootHandle}
Answers == {"SUCCESS", "MEDIA", "BADHANDLE"}

Registers ==
  [op : {"none", "open", "close", "read", "write", "getsize", "trunc"},
   handle : AllHandles \cup {None}, done : BOOLEAN, res : Answers,
   new : AllHandles \cup {None}]

EmuType ==
  /\ e_lock \in EThreads \cup {None} /\ e_sem \in {0, 1} /\ e_result \in Answers
  /\ dev \in Registers
  /\ opened \in SUBSET AllHandles
  /\ DOMAIN vnodes \in SUBSET AllHandles /\ vnodes \in [DOMAIN vnodes -> Nat \ {0}]
  /\ e_pc \in [EThreads -> Where]
  /\ hold \in [EThreads -> AllHandles \cup {None}]
  /\ new \in [EThreads -> AllHandles \cup {None}]
  /\ retries \in Nat

\* What a thread refers to, by its place.
PlacesTrue ==
  \A t \in EThreads :
    /\ e_pc[t] \in {"lookup", "opening"} => hold[t] = None /\ new[t] = None
    /\ e_pc[t] \in {"load", "abandon"} => hold[t] = None /\ new[t] # None
    /\ e_pc[t] = "idle" => new[t] = None
    /\ e_pc[t] \in {"doing", "reclaim"} => hold[t] # None /\ new[t] = None
    /\ e_pc[t] = "closing" => (hold[t] # None <=> new[t] = None)

\* The holder of e_lock is the thread that waits for the device, and the count
\* of e_sem is its answer.
Uses(t) == e_pc[t] \in {"opening", "doing", "closing"}
Answered == dev.done \/ dev.op = "none"
LockTrue ==
  /\ \A t \in EThreads : Uses(t) <=> e_lock = t
  /\ dev.op = "none" => ~dev.done
  /\ e_lock = None => dev.op = "none" /\ e_sem = 0
  /\ e_lock # None => /\ dev.op # "none" => e_sem = 0
                      /\ dev.op = "none" => e_sem = 1 /\ e_result = dev.res

\* What the holder has asked about, and what the answer means.
AskedAbout(t) ==
  /\ e_pc[t] = "opening" =>
       /\ dev.handle = RootHandle /\ dev.op \in {"none", "open"}
       /\ Answered /\ dev.res = "SUCCESS" =>
            /\ dev.new \in opened \ DOMAIN vnodes
            /\ \A u \in EThreads : new[u] # dev.new
  /\ e_pc[t] = "doing" => dev.handle = hold[t] /\ dev.op \notin {"open", "close"}
  /\ e_pc[t] = "closing" =>
       /\ dev.handle = IF hold[t] # None THEN hold[t] ELSE new[t]
       /\ dev.op \in {"none", "close"}
       /\ ~(Answered /\ dev.res = "SUCCESS") => dev.handle \in opened

\* Handles that are open and not yet loaded are known to one thread alone.
NewTrue ==
  \A t \in EThreads : new[t] # None =>
    /\ new[t] \notin DOMAIN vnodes
    /\ e_pc[t] # "closing" => new[t] \in opened
    /\ \A u \in EThreads \ {t} : new[u] # new[t]

Holders(h) == {t \in EThreads : hold[t] = h}

\* Vnodes count their references; the one of a handle that is being closed has
\* no other.
VnodesTrue ==
  /\ RootHandle \in DOMAIN vnodes \cap opened
  /\ \A t \in EThreads :
       /\ hold[t] # None => hold[t] \in DOMAIN vnodes \ {RootHandle}
       /\ e_pc[t] \in {"reclaim", "closing"} /\ hold[t] # None => vnodes[hold[t]] = 1
  /\ \A h \in DOMAIN vnodes :
       /\ \/ h = RootHandle
          \/ vnodes[h] = Cardinality(Holders(h))
          \/ Holders(h) = {} /\ vnodes[h] = 1
       /\ h \in opened \/ \E t \in EThreads : hold[t] = h /\ e_pc[t] = "closing"

EmuInv ==
  /\ EmuType /\ PlacesTrue /\ LockTrue /\ NewTrue /\ VnodesTrue
  /\ \A t \in EThreads : e_lock = t => AskedAbout(t)

EmuCounts ==
  \A S \in SUBSET EThreads :
    /\ Cardinality(S) \in Nat /\ (Cardinality(S) = 0 <=> S = {})
    /\ \A t \in EThreads \ S : Cardinality(S \cup {t}) = Cardinality(S) + 1
    /\ \A t \in S : Cardinality(S \ {t}) = Cardinality(S) - 1
-----------------------------------------------------------------------------
\* Steps that touch no handle and no vnode, of a thread that closes none.
LEMMA HandlesKept ==
  ASSUME VnodesTrue, NewTrue, UNCHANGED <<opened, vnodes, hold, new>>,
         \A u \in EThreads : /\ e_pc'[u] = "closing" <=> e_pc[u] = "closing"
                             /\ e_pc'[u] = "reclaim" => e_pc[u] = "reclaim"
  PROVE  VnodesTrue' /\ NewTrue'
  BY DEF VnodesTrue, NewTrue, Holders

\* A thread that goes from one place to another.
LEMMA Moved ==
  ASSUME EmuInv, NEW t \in EThreads, NEW where \in Where, EmuGoes(t, where)
  PROVE  /\ e_pc' \in [EThreads -> Where] /\ e_pc'[t] = where
         /\ \A u \in EThreads \ {t} : e_pc'[u] = e_pc[u]
  BY DEF EmuInv, EmuType, EmuGoes

\* The holder of e_lock waits for the device, alone.
LEMMA HolderAlone ==
  ASSUME EmuInv, NEW t \in EThreads, Uses(t)
  PROVE  /\ e_lock = t /\ AskedAbout(t) /\ e_lock # None
         /\ \A u \in EThreads \ {t} : ~Uses(u)
  BY EmuAssumption DEF EmuInv, LockTrue

\* The interrupt handler passes the answer on.
LEMMA IrqInv == ASSUME EmuInv, emu_irq PROVE EmuInv'
<1>1. /\ dev.done /\ e_result' = dev.res
      /\ dev' = [dev EXCEPT !.op = "none", !.done = FALSE] /\ e_sem' = e_sem + 1
      /\ UNCHANGED <<e_lock, opened, vnodes, e_pc, hold, new, retries>>
  BY DEF emu_irq
<1>2. dev.op # "none" /\ e_lock # None /\ e_sem = 0
  BY <1>1 DEF EmuInv, LockTrue
<1>3. /\ dev'.op = "none" /\ ~dev'.done /\ dev'.res = dev.res /\ dev'.handle = dev.handle
      /\ dev'.new = dev.new /\ dev' \in Registers /\ e_result' \in Answers /\ e_sem' = 1
  <2>1. dev \in Registers
    BY DEF EmuInv, EmuType
  <2>2. /\ dev'.op = "none" /\ ~dev'.done /\ dev'.res = dev.res /\ dev'.handle = dev.handle
        /\ dev'.new = dev.new /\ dev' \in Registers
    BY Zenon, <1>1, <2>1 DEF Registers
  <2>3. dev.res \in Answers
    BY <2>1 DEF Registers
  <2>4. e_sem' = 1
    BY <1>1, <1>2
  <2>5. QED
    BY Zenon, <1>1, <2>2, <2>3, <2>4
<1>4. EmuType'
  BY Zenon, <1>1, <1>3 DEF EmuInv, EmuType
<1>5. PlacesTrue' /\ VnodesTrue' /\ NewTrue'
  BY <1>1 DEF EmuInv, PlacesTrue, VnodesTrue, NewTrue, Holders
<1>6. LockTrue'
  BY Zenon, <1>1, <1>2, <1>3 DEF EmuInv, LockTrue, Uses
<1>7. \A t \in EThreads : e_lock' = t => AskedAbout(t)'
  BY <1>1, <1>3 DEF EmuInv, AskedAbout, Answered
<1>8. QED
  BY Zenon, <1>4, <1>5, <1>6, <1>7 DEF EmuInv

\* A thread takes e_lock and writes the registers.
LEMMA StartInv ==
  ASSUME EmuInv, NEW t \in EThreads, NEW from \in Where, NEW op, NEW h, NEW to \in Where,
         Start(t, from, op, h, to),
         from \notin {"opening", "doing", "closing", "reclaim"},
         \/ from = "lookup" /\ op = "open" /\ h = RootHandle /\ to = "opening"
         \/ /\ from = "idle" /\ op \in {"read", "write", "getsize", "trunc"}
            /\ h = hold[t] /\ h # None /\ to = "doing"
         \/ from = "abandon" /\ op = "close" /\ h = new[t] /\ to = "closing"
  PROVE  EmuInv'
<1>1. /\ e_pc[t] = from /\ e_lock = None /\ e_lock' = t
      /\ dev' = [Quiet EXCEPT !.op = op, !.handle = h]
      /\ EmuGoes(t, to)
      /\ UNCHANGED <<e_sem, e_result, opened, vnodes, hold, new, retries>>
  BY DEF Start, EmuAt, Issue
<1>2. /\ e_pc' \in [EThreads -> Where] /\ e_pc'[t] = to
      /\ \A u \in EThreads \ {t} : e_pc'[u] = e_pc[u]
  BY Zenon, <1>1, Moved
<1>3. h \in AllHandles \cup {None} /\ op \in {"open", "close", "read", "write", "getsize", "trunc"}
  BY DEF EmuInv, EmuType, AllHandles
<1>4. dev' \in Registers /\ dev'.op = op /\ dev'.handle = h /\ dev'.done = FALSE
  BY Zenon, <1>1, <1>3 DEF Quiet, Registers, Answers
<1>5. EmuType'
  BY Zenon, <1>1, <1>2, <1>4 DEF EmuInv, EmuType
<1>6. PlacesTrue'
  BY <1>1, <1>2 DEF EmuInv, PlacesTrue
<1>7. LockTrue'
  BY Zenon, <1>1, <1>2, <1>3, <1>4, EmuAssumption DEF EmuInv, LockTrue, Uses
<1>8. VnodesTrue' /\ NewTrue'
  <2>1. VnodesTrue /\ NewTrue /\ (hold[t] = None \/ to # "closing")
    BY <1>1 DEF EmuInv, PlacesTrue
  <2>2. NewTrue'
    BY <1>1, <1>2, <2>1 DEF NewTrue
  <2>3. VnodesTrue'
    BY <1>1, <1>2, <2>1 DEF VnodesTrue, Holders
  <2>4. QED
    BY <2>2, <2>3
<1>9. AskedAbout(t)'
  BY <1>1, <1>2, <1>4 DEF EmuInv, PlacesTrue, NewTrue, AskedAbout, Answered
<1>10. \A u \in EThreads : e_lock' = u => AskedAbout(u)'
  BY <1>1, <1>9
<1>11. QED
  BY Zenon, <1>5, <1>6, <1>7, <1>8, <1>10 DEF EmuInv

\* Reading, writing and the like end; a lookup begins.
LEMMA IoInv == ASSUME EmuInv, NEW t \in EThreads, emu_iodone(t) \/ emufs_lookup(t) PROVE EmuInv'
<1>1. CASE emu_iodone(t)
  <2>1. /\ e_pc[t] = "doing" /\ e_sem > 0 /\ e_sem' = e_sem - 1 /\ e_lock' = None /\ EmuGoes(t, "idle")
        /\ UNCHANGED <<e_result, dev, opened, vnodes, hold, new, retries>>
    BY <1>1 DEF emu_iodone, emu_waitdone, EmuAt
  <2>2. /\ e_pc' \in [EThreads -> Where] /\ e_pc'[t] = "idle"
        /\ \A u \in EThreads \ {t} : e_pc'[u] = e_pc[u]
    BY <2>1, Moved DEF Where
  <2>3. /\ e_lock = t /\ e_lock # None /\ (\A u \in EThreads \ {t} : ~Uses(u))
    BY <2>1, HolderAlone DEF Uses
  <2>4. dev.op = "none" /\ ~dev.done /\ e_sem' = 0
    BY <2>1, <2>3 DEF EmuInv, EmuType, LockTrue
  <2>5. EmuType'
    BY <2>1, <2>2, <2>4 DEF EmuInv, EmuType
  <2>6. PlacesTrue'
    BY <2>1, <2>2 DEF EmuInv, PlacesTrue
  <2>7. LockTrue'
    <3>1. \A u \in EThreads : ~Uses(u)' /\ e_lock' # u
      BY <2>1, <2>2, <2>3, EmuAssumption DEF Uses
    <3>2. QED
      BY <2>1, <2>4, <3>1, ZenonT(40) DEF LockTrue
  <2>8. VnodesTrue' /\ NewTrue'
    BY <2>1, <2>2, HandlesKept DEF EmuInv
  <2>9. \A u \in EThreads : e_lock' # u
    BY <2>1, EmuAssumption
  <2>10. QED
    BY <2>5, <2>6, <2>7, <2>8, <2>9 DEF EmuInv
<1>2. CASE emufs_lookup(t)
  <2>1. /\ e_pc[t] = "idle" /\ hold[t] = None /\ EmuGoes(t, "lookup")
        /\ UNCHANGED <<e_lock, e_sem, e_result, dev, opened, vnodes, hold, new, retries>>
    BY <1>2 DEF emufs_lookup, EmuAt
  <2>2. /\ e_pc' \in [EThreads -> Where] /\ e_pc'[t] = "lookup"
        /\ \A u \in EThreads \ {t} : e_pc'[u] = e_pc[u]
    BY <2>1, Moved DEF Where
  <2>3. EmuType'
    BY <2>1, <2>2 DEF EmuInv, EmuType
  <2>4. PlacesTrue'
    BY <2>1, <2>2 DEF EmuInv, PlacesTrue
  <2>5. LockTrue'
    BY <2>1, <2>2 DEF EmuInv, LockTrue, Uses
  <2>6. VnodesTrue' /\ NewTrue'
    BY <2>1, <2>2, HandlesKept DEF EmuInv
  <2>7. \A u \in EThreads : e_lock' = u => AskedAbout(u)'
    BY <2>1, <2>2 DEF EmuInv, LockTrue, Uses, AskedAbout, Answered
  <2>8. QED
    BY <2>3, <2>4, <2>5, <2>6, <2>7 DEF EmuInv
<1>3. QED
  BY <1>1, <1>2

\* The device closes a handle that a thread is closing, or opens one.
LEMMA VnodesKept ==
  ASSUME VnodesTrue, UNCHANGED <<vnodes, e_pc, hold>>, RootHandle \in opened',
         \A h \in opened : \/ h \in opened' \/ h \notin DOMAIN vnodes
                           \/ \E t \in EThreads : hold[t] = h /\ e_pc[t] = "closing"
  PROVE  VnodesTrue'
<1>1. \A h : Holders(h)' = Holders(h)
  BY DEF Holders
<1>2. QED
  BY <1>1 DEF VnodesTrue

\* The device ends an operation.  Only the holder of e_lock has asked, so a
\* handle that is closed is nobody else's, and one that is opened is new.
LEMMA DeviceInv == ASSUME EmuInv, DeviceDone PROVE EmuInv'
<1>1. /\ dev.op # "none" /\ ~dev.done
      /\ UNCHANGED <<e_lock, e_sem, e_result, vnodes, e_pc, hold, new, retries>>
  BY Zenon DEF DeviceDone
<1>2. PICK t \in EThreads : e_lock = t
  BY <1>1 DEF EmuInv, EmuType, LockTrue
<1>3. /\ AskedAbout(t) /\ Uses(t) /\ (\A u \in EThreads \ {t} : ~Uses(u))
      /\ dev \in Registers /\ opened \in SUBSET AllHandles /\ e_sem = 0 /\ e_lock # None
  BY <1>1, <1>2, EmuAssumption DEF EmuInv, EmuType, LockTrue
<1>4. \A u \in EThreads \ {t} : e_pc[u] # "closing"
  BY Zenon, <1>3 DEF Uses
<1>5. dev.handle \in opened
  <2>1. CASE e_pc[t] = "opening"
    BY <1>3, <2>1 DEF EmuInv, AskedAbout, VnodesTrue
  <2>2. CASE e_pc[t] = "doing"
    BY <1>3, <1>4, <2>2 DEF EmuInv, AskedAbout, PlacesTrue, VnodesTrue
  <2>3. CASE e_pc[t] = "closing"
    BY <1>1, <1>3, <2>3 DEF AskedAbout, Answered
  <2>4. QED
    BY <1>3, <2>1, <2>2, <2>3 DEF Uses
<1>6. ASSUME NEW r \in {"SUCCESS", "MEDIA"}, NEW h \in AllHandles \cup {None},
             dev' = [dev EXCEPT !.done = TRUE, !.res = r, !.new = h],
             opened' \in SUBSET AllHandles,
             VnodesTrue', NewTrue', AskedAbout(t)'
      PROVE  EmuInv'
  <2>1. /\ dev' \in Registers /\ dev'.op = dev.op /\ dev'.done = TRUE
    <3>1. dev \in Registers /\ r \in Answers
      BY <1>3 DEF Answers
    <3>2. dev' = [dev EXCEPT !.done = TRUE, !.res = r, !.new = h]
      BY <1>6
    <3>3. QED
      BY <3>1, <3>2, ZenonT(40) DEF Registers
  <2>2. EmuType'
    BY <1>1, <1>6, <2>1 DEF EmuInv, EmuType
  <2>3. PlacesTrue' /\ LockTrue'
    BY <1>1, <1>2, <1>3, <2>1 DEF EmuInv, PlacesTrue, LockTrue, Uses
  <2>4. \A u \in EThreads : e_lock' = u => AskedAbout(u)'
    BY <1>1, <1>2, <1>6
  <2>5. QED
    BY <1>6, <2>2, <2>3, <2>4 DEF EmuInv
<1>7. CASE UNCHANGED opened
  <2>1. PICK r \in {"SUCCESS", "MEDIA"} :
          /\ dev' = [dev EXCEPT !.done = TRUE, !.res = r, !.new = None]
          /\ r = "SUCCESS" => dev.op \notin {"open", "close"}
    BY Zenon, <1>5, <1>7 DEF DeviceDone
  <2>2. VnodesTrue' /\ NewTrue'
    BY <1>1, <1>7 DEF EmuInv, VnodesTrue, NewTrue, Holders
  <2>3. dev'.op = dev.op /\ dev'.done = TRUE /\ dev'.res = r /\ dev'.handle = dev.handle
    BY <1>3, <2>1 DEF Registers
  <2>4. AskedAbout(t)'
    BY <1>1, <1>3, <1>5, <1>7, <2>1, <2>3 DEF AskedAbout, Answered
  <2>5. opened' \in SUBSET AllHandles
    BY Zenon, <1>3, <1>7
  <2>6. QED
    BY Zenon, <1>6, <2>1, <2>2, <2>4, <2>5
<1>8. CASE /\ dev.op = "close" /\ opened' = opened \ {dev.handle}
           /\ dev' = [dev EXCEPT !.done = TRUE, !.res = "SUCCESS", !.new = None]
  <2>1. e_pc[t] = "closing" /\ dev.handle = IF hold[t] # None THEN hold[t] ELSE new[t]
    BY Zenon, <1>3, <1>8 DEF AskedAbout, Uses
  <2>2. dev'.op = dev.op /\ dev'.done = TRUE /\ dev'.res = "SUCCESS" /\ dev'.handle = dev.handle
    BY Zenon, <1>3, <1>8 DEF Registers
  <2>3. AskedAbout(t)'
    BY Zenon, <1>1, <1>8, <2>1, <2>2 DEF AskedAbout, Answered
  <2>4. (hold[t] # None <=> new[t] = None)
    BY <2>1 DEF EmuInv, PlacesTrue
  <2>5. CASE hold[t] # None
    <3>1. dev.handle = hold[t] /\ dev.handle \in DOMAIN vnodes \ {RootHandle}
      BY Zenon, <2>1, <2>5 DEF EmuInv, VnodesTrue
    <3>2. VnodesTrue'
      BY <1>1, <1>8, <2>1, <3>1, VnodesKept DEF EmuInv, VnodesTrue
    <3>3. NewTrue'
      BY Zenon, <1>1, <1>8, <3>1 DEF EmuInv, NewTrue
    <3>4. QED
      BY Zenon, <1>3, <1>6, <1>8, <2>3, <3>2, <3>3
  <2>6. CASE hold[t] = None
    <3>1. /\ dev.handle = new[t] /\ dev.handle \notin DOMAIN vnodes
          /\ \A u \in EThreads \ {t} : new[u] # dev.handle
      BY Zenon, <2>1, <2>4, <2>6 DEF EmuInv, NewTrue
    <3>2. VnodesTrue'
      BY <1>1, <1>8, <3>1, VnodesKept DEF EmuInv, VnodesTrue
    <3>3. NewTrue'
      BY <1>1, <1>8, <2>1, <3>1 DEF EmuInv, NewTrue
    <3>4. QED
      BY Zenon, <1>3, <1>6, <1>8, <2>3, <3>2, <3>3
  <2>7. QED
    BY Zenon, <2>5, <2>6
<1>9. ASSUME dev.op = "open", NEW h \in Handles \ opened, opened' = opened \cup {h},
             dev' = [dev EXCEPT !.done = TRUE, !.res = "SUCCESS", !.new = h]
      PROVE  EmuInv'
  <2>1. e_pc[t] = "opening" /\ \A u \in EThreads : e_pc[u] # "closing"
    BY Zenon, <1>3, <1>4, <1>9 DEF AskedAbout, Uses
  <2>2. h \notin DOMAIN vnodes /\ \A u \in EThreads : new[u] # h
    BY <1>9, <2>1, EmuAssumption DEF EmuInv, VnodesTrue, NewTrue
  <2>3. /\ dev'.op = dev.op /\ dev'.done = TRUE /\ dev'.res = "SUCCESS"
        /\ dev'.handle = dev.handle /\ dev'.new = h
    BY <1>3, <1>9 DEF Registers
  <2>4. VnodesTrue' /\ NewTrue'
    <3>1. opened \subseteq opened'
      BY Zenon, <1>9
    <3>2. VnodesTrue'
      BY Zenon, <1>1, <3>1, VnodesKept DEF EmuInv, VnodesTrue
    <3>3. NewTrue'
      BY Zenon, <1>1, <3>1 DEF EmuInv, NewTrue
    <3>4. QED
      BY <3>2, <3>3
  <2>5. AskedAbout(t)'
    BY <1>1, <1>3, <1>9, <2>1, <2>2, <2>3 DEF AskedAbout, Answered
  <2>6. opened' \in SUBSET AllHandles /\ h \in AllHandles \cup {None}
    BY Zenon, <1>3, <1>9 DEF AllHandles
  <2>7. QED
    BY Zenon, <1>6, <1>9, <2>4, <2>5, <2>6
<1>10. QED
  BY Zenon, <1>5, <1>7, <1>8, <1>9 DEF DeviceDone

\* emu_open returns the handle to the caller alone.
LEMMA OpenedInv == ASSUME EmuInv, NEW t \in EThreads, emu_opened(t) PROVE EmuInv'
<1>1. /\ e_pc[t] = "opening" /\ e_sem > 0 /\ e_sem' = e_sem - 1 /\ e_lock' = None
      /\ IF e_result = "SUCCESS"
         THEN new' = [new EXCEPT ![t] = dev.new] /\ EmuGoes(t, "load")
         ELSE EmuGoes(t, "idle") /\ UNCHANGED new
      /\ UNCHANGED <<e_result, dev, opened, vnodes, hold, retries>>
  BY Zenon DEF emu_opened, emu_waitdone, EmuAt
<1>2. /\ e_lock = t /\ e_lock # None /\ AskedAbout(t) /\ (\A u \in EThreads \ {t} : ~Uses(u))
  BY Zenon, <1>1, HolderAlone DEF Uses
<1>3. dev.op = "none" /\ ~dev.done /\ e_sem' = 0 /\ e_result = dev.res
  BY <1>1, <1>2 DEF EmuInv, EmuType, LockTrue
<1>4. \A u \in EThreads : e_lock' # u
  BY Zenon, <1>1, EmuAssumption
<1>5. hold[t] = None /\ new[t] = None
  BY Zenon, <1>1 DEF EmuInv, PlacesTrue
<1>6. CASE e_result # "SUCCESS"
  <2>1. /\ e_pc' \in [EThreads -> Where] /\ e_pc'[t] = "idle" /\ UNCHANGED new
        /\ \A u \in EThreads \ {t} : e_pc'[u] = e_pc[u]
    BY Zenon, <1>1, <1>6, Moved DEF Where
  <2>2. EmuType'
    BY Zenon, <1>1, <1>3, <2>1 DEF EmuInv, EmuType
  <2>3. PlacesTrue' /\ LockTrue'
    BY <1>1, <1>2, <1>3, <1>4, <1>5, <2>1 DEF EmuInv, PlacesTrue, LockTrue, Uses
  <2>4. VnodesTrue' /\ NewTrue'
    BY Zenon, <1>1, <2>1, HandlesKept DEF EmuInv
  <2>5. QED
    BY Zenon, <1>4, <2>2, <2>3, <2>4 DEF EmuInv
<1>7. CASE e_result = "SUCCESS"
  <2>1. /\ dev.new \in opened \ DOMAIN vnodes /\ \A u \in EThreads : new[u] # dev.new
    BY Zenon, <1>1, <1>2, <1>3, <1>7 DEF AskedAbout, Answered
  <2>2. /\ new' = [new EXCEPT ![t] = dev.new] /\ new \in [EThreads -> AllHandles \cup {None}]
        /\ dev.new \in AllHandles /\ dev.new # None
    BY <1>1, <1>7, <2>1, EmuAssumption DEF EmuInv, EmuType, AllHandles
  <2>3. /\ new' \in [EThreads -> AllHandles \cup {None}] /\ new'[t] = dev.new
        /\ \A u \in EThreads \ {t} : new'[u] = new[u]
    BY Zenon, <2>2
  <2>4. /\ e_pc' \in [EThreads -> Where] /\ e_pc'[t] = "load"
        /\ \A u \in EThreads \ {t} : e_pc'[u] = e_pc[u]
    BY Zenon, <1>1, <1>7, Moved DEF Where
  <2>5. EmuType'
    BY Zenon, <1>1, <1>3, <2>3, <2>4 DEF EmuInv, EmuType
  <2>6. PlacesTrue' /\ LockTrue'
    BY <1>1, <1>2, <1>3, <1>4, <1>5, <2>2, <2>3, <2>4 DEF EmuInv, PlacesTrue, LockTrue, Uses
  <2>7. VnodesTrue'
    <3>1. \A h : Holders(h)' = Holders(h)
      BY Zenon, <1>1 DEF Holders
    <3>2. QED
      BY <1>1, <2>4, <3>1 DEF EmuInv, VnodesTrue
  <2>8. NewTrue'
    BY <1>1, <2>1, <2>3, <2>4 DEF EmuInv, NewTrue
  <2>9. QED
    BY Zenon, <1>4, <2>5, <2>6, <2>7, <2>8 DEF EmuInv
<1>8. QED
  BY Zenon, <1>6, <1>7

\* A vnode with one reference that a thread holds is held by that thread alone.
LEMMA OnlyHolder ==
  ASSUME EmuInv, EmuCounts, NEW t \in EThreads, hold[t] # None, vnodes[hold[t]] = 1
  PROVE  Holders(hold[t]) = {t}
<1> DEFINE H == Holders(hold[t])
<1>1. H \in SUBSET EThreads /\ t \in H
  BY Zenon DEF Holders
<1>2. Cardinality(H) = 1
  BY Zenon, <1>1 DEF EmuInv, VnodesTrue
<1>3. Cardinality(H \ {t}) = 0
  <2>1. Cardinality(H \ {t}) = Cardinality(H) - 1
    BY Zenon, <1>1 DEF EmuCounts
  <2>2. QED
    BY <1>2, <2>1
<1>4. H \ {t} = {}
  <2>1. H \ {t} \in SUBSET EThreads
    BY <1>1
  <2>2. QED
    BY Zenon, <1>3, <2>1 DEF EmuCounts
<1>5. QED
  BY Zenon, <1>1, <1>4

\* A thread that gets its first reference to a vnode makes one holder more.
LEMMA HolderMore ==
  ASSUME EmuCounts, hold \in [EThreads -> AllHandles \cup {None}],
         NEW u \in EThreads, NEW h \in AllHandles, hold[u] = None, h # None,
         hold' = [hold EXCEPT ![u] = h]
  PROVE  /\ hold' \in [EThreads -> AllHandles \cup {None}] /\ hold'[u] = h
         /\ \A v \in EThreads \ {u} : hold'[v] = hold[v]
         /\ Holders(h)' # {} /\ Cardinality(Holders(h)') = Cardinality(Holders(h)) + 1
         /\ Cardinality(Holders(h)) \in Nat
         /\ \A k : k # h /\ k # None => Holders(k)' = Holders(k)
<1>1. /\ hold' \in [EThreads -> AllHandles \cup {None}] /\ hold'[u] = h
      /\ \A v \in EThreads \ {u} : hold'[v] = hold[v]
  OBVIOUS
<1>2. /\ Holders(h)' = Holders(h) \cup {u} /\ u \in EThreads \ Holders(h)
      /\ Holders(h) \in SUBSET EThreads
  BY <1>1 DEF Holders
<1>3. \A k : k # h /\ k # None => Holders(k)' = Holders(k)
  BY <1>1 DEF Holders
<1>4. /\ Cardinality(Holders(h) \cup {u}) = Cardinality(Holders(h)) + 1
      /\ Cardinality(Holders(h)) \in Nat
  BY <1>2 DEF EmuCounts
<1>5. QED
  BY <1>1, <1>2, <1>3, <1>4

\* A thread that gives its reference up makes one holder fewer.
LEMMA HolderFewer ==
  ASSUME EmuCounts, hold \in [EThreads -> AllHandles \cup {None}],
         NEW u \in EThreads, NEW h, hold[u] = h, h # None, hold' = [hold EXCEPT ![u] = None]
  PROVE  /\ hold' \in [EThreads -> AllHandles \cup {None}] /\ hold'[u] = None
         /\ \A v \in EThreads \ {u} : hold'[v] = hold[v]
         /\ Holders(h)' = Holders(h) \ {u} /\ u \in Holders(h)
         /\ Cardinality(Holders(h) \ {u}) = Cardinality(Holders(h)) - 1
         /\ \A k : k # h /\ k # None => Holders(k)' = Holders(k)
<1>1. /\ hold' \in [EThreads -> AllHandles \cup {None}] /\ hold'[u] = None
      /\ \A v \in EThreads \ {u} : hold'[v] = hold[v]
  OBVIOUS
<1>2. /\ Holders(h)' = Holders(h) \ {u} /\ u \in Holders(h)
      /\ Holders(h) \in SUBSET EThreads
  BY <1>1 DEF Holders
<1>3. \A k : k # h /\ k # None => Holders(k)' = Holders(k)
  BY <1>1 DEF Holders
<1>4. Cardinality(Holders(h) \ {u}) = Cardinality(Holders(h)) - 1
  BY <1>2 DEF EmuCounts
<1>5. QED
  BY <1>1, <1>2, <1>3, <1>4

\* A step that leaves the device and e_lock alone, of threads that do not wait
\* for it.
LEMMA DeviceKept ==
  ASSUME EmuInv, e_pc' \in [EThreads -> Where],
         UNCHANGED <<e_lock, e_sem, e_result, dev, opened>>,
         \A u \in EThreads : Uses(u)' <=> Uses(u),
         \A u \in EThreads : Uses(u) =>
           e_pc'[u] = e_pc[u] /\ hold'[u] = hold[u] /\ new'[u] = new[u],
         e_lock = None \/ UNCHANGED <<DOMAIN vnodes, new>>
  PROVE  LockTrue' /\ \A u \in EThreads : e_lock' = u => AskedAbout(u)'
<1>1. LockTrue'
  BY DEF EmuInv, LockTrue
<1>2. ASSUME NEW u \in EThreads, e_lock' = u PROVE AskedAbout(u)'
  <2>1. /\ AskedAbout(u) /\ e_pc'[u] = e_pc[u] /\ hold'[u] = hold[u] /\ new'[u] = new[u]
        /\ UNCHANGED <<DOMAIN vnodes, new, dev, opened>>
    BY Zenon, <1>2, EmuAssumption DEF EmuInv, LockTrue
  <2>2. QED
    BY <2>1 DEF AskedAbout, Answered
<1>3. QED
  BY <1>1, <1>2

\* A new vnode has the reference of the thread that loads it; without memory for
\* it the handle is still that thread's alone.
LEMMA LoadInv == ASSUME EmuInv, EmuCounts, NEW t \in EThreads, emufs_loadvnode(t) PROVE EmuInv'
<1>1. /\ e_pc[t] = "load" /\ e_lock = None
      /\ UNCHANGED <<e_lock, e_sem, e_result, dev, opened, retries>>
  BY Zenon DEF emufs_loadvnode, EmuAt
<1>2. /\ hold[t] = None /\ new[t] # None /\ new[t] \notin DOMAIN vnodes /\ new[t] \in opened
      /\ new[t] \in AllHandles /\ \A u \in EThreads \ {t} : new[u] # new[t]
  BY Zenon, <1>1 DEF EmuInv, EmuType, PlacesTrue, NewTrue
<1>3. CASE EmuGoes(t, "abandon") /\ UNCHANGED <<vnodes, hold, new>>
  <2>1. /\ e_pc' \in [EThreads -> Where] /\ e_pc'[t] = "abandon"
        /\ \A u \in EThreads \ {t} : e_pc'[u] = e_pc[u]
    BY Zenon, <1>3, Moved DEF Where
  <2>2. EmuType'
    BY Zenon, <1>1, <1>3, <2>1 DEF EmuInv, EmuType
  <2>3. PlacesTrue'
    BY Zenon, <1>1, <1>3, <2>1 DEF EmuInv, PlacesTrue
  <2>4. \A u \in EThreads : (Uses(u)' <=> Uses(u)) /\ (Uses(u) => u # t)
    BY Zenon, <1>1, <2>1 DEF Uses
  <2>5. LockTrue' /\ \A u \in EThreads : e_lock' = u => AskedAbout(u)'
    BY Zenon, <1>1, <1>3, <2>1, <2>4, DeviceKept
  <2>6. VnodesTrue' /\ NewTrue'
    BY Zenon, <1>1, <1>3, <2>1, HandlesKept DEF EmuInv
  <2>7. QED
    BY Zenon, <2>2, <2>3, <2>5, <2>6 DEF EmuInv
<1>4. CASE /\ vnodes' = [h \in DOMAIN vnodes \cup {new[t]} |->
                           IF h = new[t] THEN 1 ELSE vnodes[h]]
           /\ hold' = [hold EXCEPT ![t] = new[t]] /\ new' = [new EXCEPT ![t] = None]
           /\ EmuGoes(t, "idle")
  <2>1. PICK n \in AllHandles : n = new[t]
    BY Zenon, <1>2
  <2>2. /\ e_pc' \in [EThreads -> Where] /\ e_pc'[t] = "idle"
        /\ \A u \in EThreads \ {t} : e_pc'[u] = e_pc[u]
    BY <1>4, Moved DEF Where
  <2>3. /\ hold' \in [EThreads -> AllHandles \cup {None}] /\ hold'[t] = n
        /\ \A v \in EThreads \ {t} : hold'[v] = hold[v]
        /\ Cardinality(Holders(n)') = Cardinality(Holders(n)) + 1
        /\ \A k : k # n /\ k # None => Holders(k)' = Holders(k)
    <3>1. hold \in [EThreads -> AllHandles \cup {None}]
      BY Zenon DEF EmuInv, EmuType
    <3>2. QED
      BY Zenon, <1>2, <1>4, <2>1, <3>1, HolderMore
  <2>4. /\ new' \in [EThreads -> AllHandles \cup {None}] /\ new'[t] = None
        /\ \A v \in EThreads \ {t} : new'[v] = new[v]
    BY Zenon, <1>4 DEF EmuInv, EmuType
  <2>5. /\ vnodes' \in [DOMAIN vnodes' -> Nat \ {0}] /\ DOMAIN vnodes' = DOMAIN vnodes \cup {n}
        /\ vnodes'[n] = 1 /\ \A h \in DOMAIN vnodes \ {n} : vnodes'[h] = vnodes[h]
        /\ DOMAIN vnodes' \in SUBSET AllHandles
    BY <1>4, <2>1 DEF EmuInv, EmuType
  <2>6. Cardinality(Holders(n)') = 1
    <3>1. Holders(n) = {}
      <4>1. \A u \in EThreads : hold[u] # n
        BY Zenon, <1>2, <2>1 DEF EmuInv, VnodesTrue
      <4>2. QED
        BY <4>1 DEF Holders
    <3>2. Cardinality({}) = 0
      BY Zenon DEF EmuCounts
    <3>3. QED
      BY <2>3, <3>1, <3>2
  <2>7. EmuType'
    BY Zenon, <1>1, <2>2, <2>3, <2>4, <2>5 DEF EmuInv, EmuType
  <2>8. PlacesTrue'
    BY <1>1, <1>2, <2>1, <2>2, <2>3, <2>4 DEF EmuInv, PlacesTrue
  <2>9. \A u \in EThreads : (Uses(u)' <=> Uses(u)) /\ (Uses(u) => u # t)
    BY Zenon, <1>1, <2>2 DEF Uses
  <2>10. LockTrue' /\ \A u \in EThreads : e_lock' = u => AskedAbout(u)'
    BY Zenon, <1>1, <2>2, <2>3, <2>4, <2>9, DeviceKept
  <2>11. NewTrue'
    BY <1>1, <1>2, <2>1, <2>2, <2>4, <2>5 DEF EmuInv, NewTrue
  <2>12. n # RootHandle /\ n # None /\ n \notin DOMAIN vnodes /\ n \in opened'
    BY Zenon, <1>1, <1>2, <2>1 DEF EmuInv, VnodesTrue
  <2>13. RootHandle \in DOMAIN vnodes' \cap opened'
    BY Zenon, <1>1, <2>5 DEF EmuInv, VnodesTrue
  <2>14. ASSUME NEW u \in EThreads
         PROVE  /\ hold'[u] # None => hold'[u] \in DOMAIN vnodes' \ {RootHandle}
                /\ e_pc'[u] \in {"reclaim", "closing"} /\ hold'[u] # None => vnodes'[hold'[u]] = 1
    BY <2>2, <2>3, <2>5, <2>12 DEF EmuInv, VnodesTrue
  <2>15. ASSUME NEW h \in DOMAIN vnodes'
         PROVE  /\ \/ h = RootHandle
                   \/ vnodes'[h] = Cardinality(Holders(h)')
                   \/ Holders(h)' = {} /\ vnodes'[h] = 1
                /\ h \in opened' \/ \E u \in EThreads : hold'[u] = h /\ e_pc'[u] = "closing"
    <3>1. CASE h = n
      BY Zenon, <2>5, <2>6, <2>12, <3>1
    <3>2. CASE h # n
      <4>1. /\ h \in DOMAIN vnodes /\ h # None /\ vnodes'[h] = vnodes[h]
            /\ Holders(h)' = Holders(h)
        BY Zenon, <2>3, <2>5, <3>2, EmuAssumption DEF EmuInv, EmuType, AllHandles
      <4>2. h \in opened' \/ \E u \in EThreads : hold'[u] = h /\ e_pc'[u] = "closing"
        BY <1>1, <2>2, <2>3, <4>1 DEF EmuInv, VnodesTrue
      <4>3. QED
        BY Zenon, <4>1, <4>2 DEF EmuInv, VnodesTrue
    <3>3. QED
      BY Zenon, <3>1, <3>2
  <2>16. VnodesTrue'
    BY Zenon, <2>13, <2>14, <2>15 DEF VnodesTrue
  <2>17. QED
    BY Zenon, <2>7, <2>8, <2>10, <2>11, <2>16 DEF EmuInv
<1>5. QED
  BY Zenon, <1>2, <1>3, <1>4 DEF emufs_loadvnode

\* A second reference is counted; nobody reclaims a vnode that has two.
LEMMA IncrefInv ==
  ASSUME EmuInv, EmuCounts, NEW t \in EThreads, NEW u \in EThreads, VOP_INCREF(t, u)
  PROVE  EmuInv'
<1>1. /\ e_pc[t] = "idle" /\ hold[t] # None /\ e_pc[u] = "idle" /\ hold[u] = None
      /\ vnodes' = [vnodes EXCEPT ![hold[t]] = @ + 1]
      /\ hold' = [hold EXCEPT ![u] = hold[t]]
      /\ UNCHANGED <<e_lock, e_sem, e_result, dev, opened, e_pc, new, retries>>
  BY Zenon DEF VOP_INCREF, EmuAt
<1>2. PICK n \in AllHandles : n = hold[t]
  BY Zenon, <1>1 DEF EmuInv, EmuType
<1>3. n # None /\ n # RootHandle /\ n \in DOMAIN vnodes /\ vnodes[n] \in Nat \ {0}
  BY <1>1, <1>2 DEF EmuInv, EmuType, VnodesTrue
<1>4. /\ hold' \in [EThreads -> AllHandles \cup {None}] /\ hold'[u] = n
      /\ \A v \in EThreads \ {u} : hold'[v] = hold[v]
      /\ Cardinality(Holders(n)') = Cardinality(Holders(n)) + 1
      /\ \A k : k # n /\ k # None => Holders(k)' = Holders(k)
  <2>1. hold \in [EThreads -> AllHandles \cup {None}]
    BY Zenon DEF EmuInv, EmuType
  <2>2. QED
    BY Zenon, <1>1, <1>2, <1>3, <2>1, HolderMore
<1>5. /\ vnodes' \in [DOMAIN vnodes' -> Nat \ {0}] /\ DOMAIN vnodes' = DOMAIN vnodes
      /\ vnodes'[n] = vnodes[n] + 1 /\ \A h \in DOMAIN vnodes \ {n} : vnodes'[h] = vnodes[h]
  BY <1>1, <1>2, <1>3 DEF EmuInv, EmuType
<1>6. vnodes[n] = Cardinality(Holders(n))
  BY Zenon, <1>2, <1>3 DEF EmuInv, VnodesTrue, Holders
<1>7. ASSUME NEW v \in EThreads, hold[v] = n, e_pc[v] \in {"reclaim", "closing"} PROVE FALSE
  <2>1. Holders(n) = {v}
    BY Zenon, <1>3, <1>7, OnlyHolder DEF EmuInv, VnodesTrue
  <2>2. t \in Holders(n)
    BY Zenon, <1>2 DEF Holders
  <2>3. QED
    BY Zenon, <1>1, <1>7, <2>1, <2>2
<1>8. EmuType'
  BY Zenon, <1>1, <1>4, <1>5 DEF EmuInv, EmuType
<1>9. PlacesTrue'
  BY <1>1, <1>3, <1>4 DEF EmuInv, PlacesTrue
<1>10. \A v \in EThreads : (Uses(v)' <=> Uses(v)) /\ (Uses(v) => v # u)
  BY Zenon, <1>1 DEF Uses
<1>11. LockTrue' /\ \A v \in EThreads : e_lock' = v => AskedAbout(v)'
  <2>1. e_pc' \in [EThreads -> Where]
    BY Zenon, <1>1 DEF EmuInv, EmuType
  <2>2. QED
    BY Zenon, <1>1, <1>4, <1>5, <1>10, <2>1, DeviceKept
<1>12. NewTrue'
  BY Zenon, <1>1, <1>5 DEF EmuInv, NewTrue
<1>13. RootHandle \in DOMAIN vnodes' \cap opened'
  BY Zenon, <1>1, <1>5 DEF EmuInv, VnodesTrue
<1>14. ASSUME NEW v \in EThreads
       PROVE  /\ hold'[v] # None => hold'[v] \in DOMAIN vnodes' \ {RootHandle}
              /\ e_pc'[v] \in {"reclaim", "closing"} /\ hold'[v] # None => vnodes'[hold'[v]] = 1
  BY <1>1, <1>3, <1>4, <1>5, <1>7 DEF EmuInv, VnodesTrue
<1>15. ASSUME NEW h \in DOMAIN vnodes'
       PROVE  /\ \/ h = RootHandle
                 \/ vnodes'[h] = Cardinality(Holders(h)')
                 \/ Holders(h)' = {} /\ vnodes'[h] = 1
              /\ h \in opened' \/ \E v \in EThreads : hold'[v] = h /\ e_pc'[v] = "closing"
  <2>1. h \in opened' \/ \E v \in EThreads : hold'[v] = h /\ e_pc'[v] = "closing"
    BY Zenon, <1>1, <1>3, <1>4, <1>5 DEF EmuInv, VnodesTrue
  <2>2. CASE h = n
    BY Zenon, <1>4, <1>5, <1>6, <2>1, <2>2
  <2>3. CASE h # n
    <3>1. h \in DOMAIN vnodes /\ h # None /\ vnodes'[h] = vnodes[h] /\ Holders(h)' = Holders(h)
      BY Zenon, <1>4, <1>5, <2>3, EmuAssumption DEF EmuInv, EmuType, AllHandles
    <3>2. QED
      BY Zenon, <2>1, <3>1 DEF EmuInv, VnodesTrue
  <2>4. QED
    BY Zenon, <2>2, <2>3
<1>16. VnodesTrue'
  BY Zenon, <1>13, <1>14, <1>15 DEF VnodesTrue
<1>17. QED
  BY Zenon, <1>8, <1>9, <1>11, <1>12, <1>16 DEF EmuInv

\* A reference that is not the last is counted down; the last one is kept for
\* the reclaim.
LEMMA DecrefInv == ASSUME EmuInv, EmuCounts, NEW t \in EThreads, vnode_decref(t) PROVE EmuInv'
<1>1. /\ e_pc[t] = "idle" /\ hold[t] # None
      /\ UNCHANGED <<e_lock, e_sem, e_result, dev, opened, new, retries>>
  BY Zenon DEF vnode_decref, EmuAt
<1>2. PICK n \in AllHandles : n = hold[t]
  BY Zenon, <1>1 DEF EmuInv, EmuType
<1>3. n # None /\ n # RootHandle /\ n \in DOMAIN vnodes /\ vnodes[n] \in Nat \ {0}
  BY Zenon, <1>1, <1>2 DEF EmuInv, EmuType, VnodesTrue
<1>4. CASE vnodes[n] <= 1
  <2>1. EmuGoes(t, "reclaim") /\ UNCHANGED <<vnodes, hold>> /\ vnodes[n] = 1
    BY <1>2, <1>3, <1>4 DEF vnode_decref
  <2>2. /\ e_pc' \in [EThreads -> Where] /\ e_pc'[t] = "reclaim"
        /\ \A u \in EThreads \ {t} : e_pc'[u] = e_pc[u]
    BY Zenon, <2>1, Moved DEF Where
  <2>3. EmuType'
    BY Zenon, <1>1, <2>1, <2>2 DEF EmuInv, EmuType
  <2>4. PlacesTrue'
    BY Zenon, <1>1, <2>1, <2>2 DEF EmuInv, PlacesTrue
  <2>5. \A u \in EThreads : (Uses(u)' <=> Uses(u)) /\ (Uses(u) => u # t)
    BY Zenon, <1>1, <2>2 DEF Uses
  <2>6. LockTrue' /\ \A u \in EThreads : e_lock' = u => AskedAbout(u)'
    BY Zenon, <1>1, <2>1, <2>2, <2>5, DeviceKept
  <2>7. NewTrue'
    BY Zenon, <1>1, <2>1, <2>2 DEF EmuInv, NewTrue
  <2>8. \A h : Holders(h)' = Holders(h)
    BY Zenon, <2>1 DEF Holders
  <2>9. VnodesTrue'
    BY <1>1, <1>2, <2>1, <2>2, <2>8 DEF EmuInv, VnodesTrue
  <2>10. QED
    BY <2>3, <2>4, <2>6, <2>7, <2>9 DEF EmuInv
<1>5. CASE vnodes[n] > 1
  <2>1. /\ vnodes' = [vnodes EXCEPT ![n] = @ - 1] /\ hold' = [hold EXCEPT ![t] = None]
        /\ UNCHANGED e_pc
    BY <1>2, <1>5 DEF vnode_decref
  <2>2. /\ hold' \in [EThreads -> AllHandles \cup {None}] /\ hold'[t] = None
        /\ \A v \in EThreads \ {t} : hold'[v] = hold[v]
        /\ Holders(n)' = Holders(n) \ {t} /\ t \in Holders(n)
        /\ Cardinality(Holders(n) \ {t}) = Cardinality(Holders(n)) - 1
        /\ \A k : k # n /\ k # None => Holders(k)' = Holders(k)
    <3>1. hold \in [EThreads -> AllHandles \cup {None}]
      BY DEF EmuInv, EmuType
    <3>2. QED
      BY Zenon, <1>2, <1>3, <2>1, <3>1, HolderFewer
  <2>3. /\ vnodes' \in [DOMAIN vnodes' -> Nat \ {0}] /\ DOMAIN vnodes' = DOMAIN vnodes
        /\ vnodes'[n] = vnodes[n] - 1 /\ \A h \in DOMAIN vnodes \ {n} : vnodes'[h] = vnodes[h]
    BY <1>3, <1>5, <2>1 DEF EmuInv, EmuType
  <2>4. vnodes[n] = Cardinality(Holders(n))
    BY <1>3, <2>2 DEF EmuInv, VnodesTrue
  <2>5. ASSUME NEW v \in EThreads, hold[v] = n, e_pc[v] \in {"reclaim", "closing"} PROVE FALSE
    BY <1>3, <1>5, <2>5 DEF EmuInv, VnodesTrue
  <2>6. EmuType'
    BY <1>1, <2>1, <2>2, <2>3 DEF EmuInv, EmuType
  <2>7. PlacesTrue'
    BY Zenon, <1>1, <2>1, <2>2 DEF EmuInv, PlacesTrue
  <2>8. \A v \in EThreads : (Uses(v)' <=> Uses(v)) /\ (Uses(v) => v # t)
    BY Zenon, <1>1, <2>1 DEF Uses
  <2>9. LockTrue' /\ \A v \in EThreads : e_lock' = v => AskedAbout(v)'
    <3>1. e_pc' \in [EThreads -> Where]
      BY Zenon, <2>1 DEF EmuInv, EmuType
    <3>2. QED
      BY Zenon, <1>1, <2>1, <2>2, <2>3, <2>8, <3>1, DeviceKept
  <2>10. NewTrue'
    BY Zenon, <1>1, <2>1, <2>3 DEF EmuInv, NewTrue
  <2>11. RootHandle \in DOMAIN vnodes' \cap opened'
    BY Zenon, <1>1, <2>3 DEF EmuInv, VnodesTrue
  <2>12. ASSUME NEW v \in EThreads
         PROVE  /\ hold'[v] # None => hold'[v] \in DOMAIN vnodes' \ {RootHandle}
                /\ e_pc'[v] \in {"reclaim", "closing"} /\ hold'[v] # None => vnodes'[hold'[v]] = 1
    BY <2>1, <2>2, <2>3, <2>5 DEF EmuInv, VnodesTrue
  <2>13. ASSUME NEW h \in DOMAIN vnodes'
         PROVE  /\ \/ h = RootHandle
                   \/ vnodes'[h] = Cardinality(Holders(h)')
                   \/ Holders(h)' = {} /\ vnodes'[h] = 1
                /\ h \in opened' \/ \E v \in EThreads : hold'[v] = h /\ e_pc'[v] = "closing"
    <3>1. h \in opened' \/ \E v \in EThreads : hold'[v] = h /\ e_pc'[v] = "closing"
      BY <1>1, <2>1, <2>2, <2>3 DEF EmuInv, VnodesTrue
    <3>2. CASE h = n
      BY Zenon, <2>2, <2>3, <2>4, <3>1, <3>2
    <3>3. CASE h # n
      <4>1. h \in DOMAIN vnodes /\ h # None /\ vnodes'[h] = vnodes[h] /\ Holders(h)' = Holders(h)
        BY <2>2, <2>3, <3>3, EmuAssumption DEF EmuInv, EmuType, AllHandles
      <4>2. QED
        BY Zenon, <3>1, <4>1 DEF EmuInv, VnodesTrue
    <3>4. QED
      BY <3>2, <3>3
  <2>14. VnodesTrue'
    BY <2>11, <2>12, <2>13 DEF VnodesTrue
  <2>15. QED
    BY <2>6, <2>7, <2>9, <2>10, <2>14 DEF EmuInv
<1>6. QED
  BY <1>3, <1>4, <1>5

\* The reclaim finds the reference still the last and closes the handle.
LEMMA ReclaimInv == ASSUME EmuInv, NEW t \in EThreads, emufs_reclaim(t) PROVE EmuInv'
<1>1. /\ e_pc[t] = "reclaim" /\ e_lock = None
      /\ UNCHANGED <<e_sem, e_result, opened, vnodes, new, retries>>
  BY Zenon DEF emufs_reclaim, EmuAt
<1>2. hold[t] # None /\ vnodes[hold[t]] = 1 /\ hold[t] \in DOMAIN vnodes /\ new[t] = None
  BY <1>1 DEF EmuInv, PlacesTrue, VnodesTrue
<1>3. /\ e_lock' = t /\ dev' = [Quiet EXCEPT !.op = "close", !.handle = hold[t]]
      /\ EmuGoes(t, "closing") /\ UNCHANGED hold
  BY Zenon, <1>2 DEF emufs_reclaim, Issue
<1>4. /\ e_pc' \in [EThreads -> Where] /\ e_pc'[t] = "closing"
      /\ \A u \in EThreads \ {t} : e_pc'[u] = e_pc[u]
  BY <1>3, Moved DEF Where
<1>5. /\ dev' \in Registers /\ dev'.op = "close" /\ dev'.handle = hold[t] /\ dev'.done = FALSE
  <2>1. hold[t] \in AllHandles
    BY Zenon, <1>2 DEF EmuInv, EmuType
  <2>2. QED
    BY Zenon, <1>3, <2>1 DEF Quiet, Registers, Answers
<1>6. EmuType'
  BY Zenon, <1>1, <1>3, <1>4, <1>5 DEF EmuInv, EmuType
<1>7. PlacesTrue'
  BY <1>1, <1>2, <1>3, <1>4 DEF EmuInv, PlacesTrue
<1>8. LockTrue'
  BY Zenon, <1>1, <1>3, <1>4, <1>5, EmuAssumption DEF EmuInv, LockTrue, Uses
<1>9. NewTrue'
  BY Zenon, <1>1, <1>2, <1>3, <1>4 DEF EmuInv, NewTrue
<1>10. VnodesTrue'
  <2>1. \A h : Holders(h)' = Holders(h)
    BY Zenon, <1>3 DEF Holders
  <2>2. QED
    BY <1>1, <1>2, <1>3, <1>4, <2>1 DEF EmuInv, VnodesTrue
<1>11. hold[t] \in opened
  BY <1>1, <1>2, EmuAssumption DEF EmuInv, VnodesTrue, LockTrue, Uses
<1>12. AskedAbout(t)'
  BY <1>1, <1>2, <1>3, <1>4, <1>5, <1>11 DEF AskedAbout, Answered
<1>13. \A u \in EThreads : e_lock' = u => AskedAbout(u)'
  BY Zenon, <1>3, <1>12
<1>14. QED
  BY Zenon, <1>6, <1>7, <1>8, <1>9, <1>10, <1>13 DEF EmuInv

\* The close is tried again, or ends: the vnode leaves the table when its
\* handle is closed and stays when it is not.
LEMMA CloseInv == ASSUME EmuInv, EmuCounts, NEW t \in EThreads, emu_close(t) PROVE EmuInv'
<1>1. /\ e_pc[t] = "closing" /\ e_sem > 0 /\ e_sem' = e_sem - 1 /\ UNCHANGED <<e_result, opened>>
  BY Zenon DEF emu_close, emu_waitdone, EmuAt
<1>2. /\ e_lock = t /\ e_lock # None /\ AskedAbout(t) /\ (\A u \in EThreads \ {t} : ~Uses(u))
  BY Zenon, <1>1, HolderAlone DEF Uses
<1>3. dev.op = "none" /\ ~dev.done /\ e_sem' = 0 /\ e_result = dev.res
  BY <1>1, <1>2 DEF EmuInv, EmuType, LockTrue
<1>4. /\ dev.handle = (IF hold[t] # None THEN hold[t] ELSE new[t])
      /\ e_result # "SUCCESS" => dev.handle \in opened
      /\ hold[t] # None <=> new[t] = None
      /\ dev.handle \in AllHandles
  BY <1>1, <1>2, <1>3 DEF EmuInv, EmuType, PlacesTrue, AskedAbout, Answered
<1>5. CASE e_result = "MEDIA" /\ retries < MaxRetries
  <2>1. /\ dev' = [Quiet EXCEPT !.op = "close", !.handle = dev.handle]
        /\ retries' = retries + 1 /\ UNCHANGED <<e_lock, vnodes, e_pc, hold, new>>
    BY <1>5 DEF emu_close, Issue
  <2>2. /\ dev' \in Registers /\ dev'.op = "close" /\ dev'.handle = dev.handle /\ dev'.done = FALSE
    BY Zenon, <1>4, <2>1 DEF Quiet, Registers, Answers
  <2>3. retries' \in Nat
    BY <2>1 DEF EmuInv, EmuType
  <2>4. EmuType'
    BY Zenon, <1>1, <1>3, <2>1, <2>2, <2>3 DEF EmuInv, EmuType
  <2>5. PlacesTrue' /\ NewTrue' /\ VnodesTrue'
    BY <1>1, <2>1 DEF EmuInv, PlacesTrue, NewTrue, VnodesTrue, Holders
  <2>6. LockTrue'
    BY Zenon, <1>2, <1>3, <2>1, <2>2 DEF EmuInv, LockTrue, Uses
  <2>7. AskedAbout(t)'
    BY <1>1, <1>4, <1>5, <2>1, <2>2 DEF AskedAbout, Answered
  <2>8. \A u \in EThreads : e_lock' = u => AskedAbout(u)'
    BY Zenon, <1>2, <2>1, <2>7
  <2>9. QED
    BY <2>4, <2>5, <2>6, <2>8 DEF EmuInv
<1>6. CASE ~(e_result = "MEDIA" /\ retries < MaxRetries)
  <2>1. /\ e_lock' = None /\ retries' = 0 /\ UNCHANGED dev
        /\ vnodes' = IF e_result = "SUCCESS" /\ hold[t] # None
                     THEN Restrict(vnodes, DOMAIN vnodes \ {hold[t]}) ELSE vnodes
        /\ hold' = [hold EXCEPT ![t] = None] /\ new' = [new EXCEPT ![t] = None]
        /\ EmuGoes(t, "idle")
    BY Zenon, <1>6 DEF emu_close
  <2>2. /\ e_pc' \in [EThreads -> Where] /\ e_pc'[t] = "idle"
        /\ \A u \in EThreads \ {t} : e_pc'[u] = e_pc[u]
    BY Zenon, <2>1, Moved DEF Where
  <2>3. /\ new' \in [EThreads -> AllHandles \cup {None}] /\ new'[t] = None
        /\ \A v \in EThreads \ {t} : new'[v] = new[v]
        /\ hold' \in [EThreads -> AllHandles \cup {None}] /\ hold'[t] = None
        /\ \A v \in EThreads \ {t} : hold'[v] = hold[v]
    BY Zenon, <2>1 DEF EmuInv, EmuType
  <2>4. \A u \in EThreads : e_lock' # u
    BY Zenon, <2>1, EmuAssumption
  <2>5. PlacesTrue' /\ LockTrue'
    BY <1>2, <1>3, <2>1, <2>2, <2>3, <2>4 DEF EmuInv, PlacesTrue, LockTrue, Uses
  <2>6. \A u \in EThreads \ {t} : e_pc[u] # "closing"
    BY Zenon, <1>2 DEF Uses
  <2>7. CASE hold[t] = None
    <3>1. UNCHANGED <<vnodes, hold>>
      BY Zenon, <2>1, <2>7 DEF EmuInv, EmuType
    <3>2. EmuType'
      BY Zenon, <1>1, <1>3, <2>1, <2>2, <2>3, <3>1 DEF EmuInv, EmuType
    <3>3. NewTrue'
      BY <1>1, <2>2, <2>3, <3>1 DEF EmuInv, NewTrue
    <3>4. \A h : Holders(h)' = Holders(h)
      BY Zenon, <3>1 DEF Holders
    <3>5. VnodesTrue'
      BY <1>1, <2>2, <2>7, <3>1, <3>4, EmuAssumption DEF EmuInv, EmuType, AllHandles, VnodesTrue
    <3>6. QED
      BY Zenon, <2>4, <2>5, <3>2, <3>3, <3>5 DEF EmuInv
  <2>8. CASE hold[t] # None
    <3>1. PICK n \in AllHandles : n = hold[t]
      BY Zenon, <2>8 DEF EmuInv, EmuType
    <3>2. /\ n # None /\ n # RootHandle /\ n \in DOMAIN vnodes /\ vnodes[n] = 1
          /\ new[t] = None /\ Holders(n) = {t} /\ dev.handle = n
      BY Zenon, <1>1, <1>4, <2>8, <3>1, OnlyHolder DEF EmuInv, VnodesTrue
    <3>3. \A v \in EThreads \ {t} : hold[v] # n
      BY Zenon, <3>2 DEF Holders
    <3>4. /\ Holders(n)' = {} /\ \A k : k # n /\ k # None => Holders(k)' = Holders(k)
      BY <2>3, <3>1, <3>2, <3>3 DEF Holders
    <3>5. /\ DOMAIN vnodes' \in SUBSET AllHandles /\ vnodes' \in [DOMAIN vnodes' -> Nat \ {0}]
          /\ DOMAIN vnodes' = IF e_result = "SUCCESS" THEN DOMAIN vnodes \ {n} ELSE DOMAIN vnodes
          /\ \A h \in DOMAIN vnodes' : vnodes'[h] = vnodes[h]
      BY Zenon, <2>1, <2>8, <3>1 DEF EmuInv, EmuType, Restrict
    <3>6. EmuType'
      BY Zenon, <1>1, <1>3, <2>1, <2>2, <2>3, <3>5 DEF EmuInv, EmuType
    <3>7. NewTrue'
      BY <1>1, <2>2, <2>3, <3>5 DEF EmuInv, NewTrue
    <3>8. RootHandle \in DOMAIN vnodes' \cap opened'
      BY Zenon, <1>1, <3>2, <3>5 DEF EmuInv, VnodesTrue
    <3>9. ASSUME NEW v \in EThreads
          PROVE  /\ hold'[v] # None => hold'[v] \in DOMAIN vnodes' \ {RootHandle}
                 /\ e_pc'[v] \in {"reclaim", "closing"} /\ hold'[v] # None => vnodes'[hold'[v]] = 1
      BY <2>2, <2>3, <3>3, <3>5 DEF EmuInv, VnodesTrue
    <3>10. ASSUME NEW h \in DOMAIN vnodes'
           PROVE  /\ \/ h = RootHandle
                     \/ vnodes'[h] = Cardinality(Holders(h)')
                     \/ Holders(h)' = {} /\ vnodes'[h] = 1
                  /\ h \in opened' \/ \E v \in EThreads : hold'[v] = h /\ e_pc'[v] = "closing"
      <4>1. CASE h = n
        BY Zenon, <1>1, <1>4, <3>2, <3>4, <3>5, <4>1
      <4>2. CASE h # n
        <5>1. /\ h \in DOMAIN vnodes /\ h # None /\ vnodes'[h] = vnodes[h]
              /\ Holders(h)' = Holders(h)
          BY Zenon, <3>4, <3>5, <4>2, EmuAssumption DEF EmuInv, EmuType, AllHandles
        <5>2. h \in opened'
          BY Zenon, <1>1, <2>6, <3>1, <4>2, <5>1 DEF EmuInv, VnodesTrue
        <5>3. QED
          BY Zenon, <5>1, <5>2 DEF EmuInv, VnodesTrue
      <4>3. QED
        BY <4>1, <4>2
    <3>11. VnodesTrue'
      BY <3>8, <3>9, <3>10 DEF VnodesTrue
    <3>12. QED
      BY Zenon, <2>4, <2>5, <3>6, <3>7, <3>11 DEF EmuInv
  <2>9. QED
    BY Zenon, <2>7, <2>8
<1>7. QED
  BY Zenon, <1>5, <1>6

\* The file system as it is mounted: the root is open and loaded.
LEMMA EmuStarts == ASSUME EmuInit PROVE EmuInv
<1>1. dev \in Registers /\ dev.op = "none" /\ dev.done = FALSE
  BY Zenon DEF EmuInit, Quiet, Registers, Answers
<1>2. EmuType
  BY <1>1 DEF EmuInit, EmuType, Where, Answers, AllHandles
<1>3. PlacesTrue /\ LockTrue /\ NewTrue
  BY Zenon, <1>1, EmuAssumption DEF EmuInit, PlacesTrue, LockTrue, NewTrue, Uses
<1>4. VnodesTrue
  BY EmuAssumption DEF EmuInit, VnodesTrue
<1>5. \A t \in EThreads : e_lock # t
  BY Zenon, EmuAssumption DEF EmuInit
<1>6. QED
  BY Zenon, <1>2, <1>3, <1>4, <1>5 DEF EmuInv

\* Every step keeps the invariant.
LEMMA EmuSteps == ASSUME EmuInv, EmuCounts, [EmuNext]_e_vars PROVE EmuInv'
<1>1. CASE UNCHANGED e_vars
  BY <1>1 DEF e_vars, EmuInv, EmuType, PlacesTrue, LockTrue, NewTrue, VnodesTrue, AskedAbout,
              Uses, Answered, Holders
<1>2. CASE DeviceDone \/ emu_irq
  BY Zenon, <1>2, DeviceInv, IrqInv
<1>3. ASSUME NEW t \in EThreads, emu_open(t) \/ emu_close_abandoned(t) PROVE EmuInv'
  <2>1. {"lookup", "abandon", "opening", "closing"} \subseteq Where
    BY Zenon DEF Where
  <2>2. CASE emu_open(t)
    BY Zenon, <2>1, <2>2, StartInv DEF emu_open
  <2>3. CASE emu_close_abandoned(t)
    BY Zenon, <2>1, <2>3, StartInv DEF emu_close_abandoned
  <2>4. QED
    BY Zenon, <1>3, <2>2, <2>3
<1>4. ASSUME NEW t \in EThreads, NEW op \in {"read", "write", "getsize", "trunc"}, Io(t, op)
      PROVE  EmuInv'
  <2>1. {"idle", "doing"} \subseteq Where
    BY Zenon DEF Where
  <2>2. hold[t] # None /\ Start(t, "idle", op, hold[t], "doing")
    BY Zenon, <1>4 DEF Io
  <2>3. QED
    BY Zenon, <2>1, <2>2, StartInv
<1>5. CASE EmuNext
  BY Zenon, <1>2, <1>3, <1>4, <1>5, OpenedInv, LoadInv, IoInv, ReclaimInv, CloseInv, DecrefInv, IncrefInv
     DEF EmuNext, EmuStep, emu_doread, emu_write, emu_getsize, emu_trunc
<1>6. QED
  BY Zenon, <1>1, <1>5

\* The invariant says what HandlesSound does.
LEMMA EmuImplies == ASSUME EmuInv, EmuCounts PROVE HandlesSound
<1>1. ASSUME dev.op # "none", ~dev.done PROVE dev.handle \in opened
  <2>1. PICK t \in EThreads : e_lock = t
    BY Zenon, <1>1 DEF EmuInv, EmuType, LockTrue
  <2>2. AskedAbout(t) /\ Uses(t) /\ \A u \in EThreads \ {t} : e_pc[u] # "closing"
    BY Zenon, <2>1 DEF EmuInv, LockTrue, Uses
  <2>3. CASE e_pc[t] = "opening"
    BY Zenon, <2>2, <2>3 DEF EmuInv, AskedAbout, VnodesTrue
  <2>4. CASE e_pc[t] = "doing"
    BY Zenon, <2>2, <2>4 DEF EmuInv, AskedAbout, PlacesTrue, VnodesTrue
  <2>5. CASE e_pc[t] = "closing"
    BY Zenon, <1>1, <2>2, <2>5 DEF AskedAbout, Answered
  <2>6. QED
    BY Zenon, <2>2, <2>3, <2>4, <2>5 DEF Uses
<1>2. \A h : Holders(h) \in SUBSET EThreads
  BY Zenon DEF Holders
<1>3. \A h : Holders(h) = {} => Cardinality(Holders(h)) = 0
  BY Zenon, <1>2 DEF EmuCounts
<1>4. ASSUME NEW h \in DOMAIN vnodes
      PROVE  /\ \/ h = RootHandle \/ vnodes[h] = Cardinality(Holders(h))
                \/ Cardinality(Holders(h)) = 0 /\ vnodes[h] = 1
             /\ h \in opened \/ \E t \in EThreads : hold[t] = h /\ e_pc[t] = "closing"
  BY Zenon, <1>3 DEF EmuInv, VnodesTrue
<1>5. \A t \in EThreads : hold[t] # None => hold[t] \in DOMAIN vnodes
  BY Zenon DEF EmuInv, VnodesTrue
<1>6. QED
  BY Zenon, <1>1, <1>4, <1>5 DEF HandlesSound, Holders, EmuAt
-----------------------------------------------------------------------------
Places == {<<"looks">>, <<"sleeps">>, <<"done">>, <<"eats", 0>>, <<"eats", 1>>}

CatType ==
  /\ c_pc \in [Animals -> Places]
  /\ c_count \in [{"cat", "mouse", "bowl"} -> Int]
  /\ bowl_status \in [0..1 -> 0..1]
  /\ meals \in [Animals -> Nat]

\* A flag is up exactly while somebody eats from the bowl, alone.
FlagsTrue ==
  \A b \in 0..1 :
    /\ \A a \in Animals : c_pc[a] = <<"eats", b>> => bowl_status[b] = 1
    /\ bowl_status[b] = 1 => \E a \in Animals : c_pc[a] = <<"eats", b>>
    /\ \A a, o \in Animals : c_pc[a] = <<"eats", b>> /\ c_pc[o] = <<"eats", b>> => a = o

\* The semaphore counts the bowls whose flags are down.
BowlsCounted == c_count["bowl"] = 2 - bowl_status[0] - bowl_status[1]

\* The last meal is eaten from bowl 1 when the loop is not left before it.
MealsBounded ==
  \A a \in Animals :
    /\ c_pc[a] = <<"eats", 0>> => meals[a] < NMeals
    /\ c_pc[a] = <<"eats", 1>> => meals[a] <= NMeals
    /\ meals[a] <= NMeals + 1

CatCounts ==
  /\ Cardinality({}) = 0 /\ \A x : Cardinality({x}) = 1
  /\ \A S : IsFiniteSet(S) => Cardinality(S) \in Nat

CatInv == CatType /\ FlagsTrue /\ BowlsCounted /\ MealsBounded
-----------------------------------------------------------------------------
\* With one bowl free and the meals in bounds, Seek keeps the invariant for an
\* animal that holds the right to a bowl: what Approach and Ate have in common
\* (the loops of catsem and mousesem).
LEMMA SeekKeeps ==
  ASSUME NMeals \in Nat, CatType, FlagsTrue, MealsBounded,
         NEW a \in Animals, NEW b \in 0..1, NEW c, NEW st, NEW m \in Nat,
         c \in [{"cat", "mouse", "bowl"} -> Int],
         st \in [0..1 -> 0..1],
         st[0] = 0 \/ st[1] = 0,
         c["bowl"] = 1 - st[0] - st[1],
         b = 0 => m <= NMeals + 1,
         b = 1 => m <= NMeals,
         \A d \in 0..1 :
           /\ \A o \in Animals \ {a} : c_pc[o] = <<"eats", d>> => st[d] = 1
           /\ st[d] = 1 => \E o \in Animals \ {a} : c_pc[o] = <<"eats", d>>,
         Seek(a, b, c, st, m)
  PROVE  CatInv'
<1> DEFINE next == NextBowl(b, st, m)
           where == IF next \in 0..1 THEN <<"eats", next>>
                    ELSE IF next = CatLeaves THEN <<"done">> ELSE <<"spins">>
<1>1. next \in {0, 1, CatLeaves}
  BY DEF NextBowl, CatLeaves, CatSpins
<1>2. /\ meals' = [meals EXCEPT ![a] = m]
      /\ c_pc' = [c_pc EXCEPT ![a] = where]
      /\ bowl_status' = IF next \in 0..1 THEN [st EXCEPT ![next] = 1] ELSE st
      /\ c_count' = IF next = CatLeaves
                  THEN [c EXCEPT ![Kind(a)] = @ + 1, !["bowl"] = @ + 1] ELSE c
  BY Zenon DEF Seek, CatGoes
<1>3. Kind(a) \in {"cat", "mouse"}
  BY Zenon DEF Kind
<1>4. CASE next \in 0..1
  <2>1. /\ st[next] = 0
        /\ next = 0 => m < NMeals
        /\ next = 1 => m <= NMeals
    BY <1>4 DEF NextBowl, CatLeaves, CatSpins
  <2> HIDE DEF next
  <2>a. next # CatLeaves /\ where = <<"eats", next>>
    BY <1>4 DEF CatLeaves
  <2> HIDE DEF where
  <2>2. /\ c_pc' = [c_pc EXCEPT ![a] = <<"eats", next>>]
        /\ bowl_status' = [st EXCEPT ![next] = 1]
        /\ c_count' = c
    BY Zenon, <1>2, <1>4, <2>a
  <2>3. <<"eats", next>> \in Places
    BY <1>4 DEF Places
  <2>4. CatType'
    BY <1>2, <1>4, <2>2, <2>3 DEF CatType
  <2>5. FlagsTrue'
    <3>1. \A d \in 0..1 : \A o \in Animals \ {a} : c_pc[o] = <<"eats", d>> => d # next
      BY <2>1
    <3>2. \A d \in 0..1 : <<"eats", next>> = <<"eats", d>> <=> d = next
      BY Zenon, <1>4
    <3>3. \A o \in Animals : c_pc'[o] = IF o = a THEN <<"eats", next>> ELSE c_pc[o]
      BY Zenon, <2>2 DEF CatType
    <3>4. \A d \in 0..1 : bowl_status'[d] = IF d = next THEN 1 ELSE st[d]
      BY Zenon, <2>2
    <3> QED BY <3>1, <3>2, <3>3, <3>4, <1>4 DEF FlagsTrue
  <2>6. BowlsCounted'
    BY <1>4, <2>1, <2>2 DEF BowlsCounted
  <2>7. MealsBounded'
    BY <1>2, <1>4, <2>1, <2>2 DEF MealsBounded, CatType
  <2> QED BY Zenon, <2>4, <2>5, <2>6, <2>7 DEF CatInv
<1>5. CASE next = CatLeaves
  <2>1. m <= NMeals + 1
    OBVIOUS
  <2> HIDE DEF next
  <2>a. next \notin 0..1 /\ where = <<"done">>
    BY <1>5 DEF CatLeaves
  <2> HIDE DEF where
  <2>2. /\ c_pc' = [c_pc EXCEPT ![a] = <<"done">>]
        /\ bowl_status' = st
        /\ c_count' = [c EXCEPT ![Kind(a)] = @ + 1, !["bowl"] = @ + 1]
    BY Zenon, <1>2, <1>5, <2>a
  <2>b. <<"done">> \in Places
    BY Zenon DEF Places
  <2>c. c_count' \in [{"cat", "mouse", "bowl"} -> Int]
    BY <1>3, <2>2
  <2>3. CatType'
    BY <1>2, <2>2, <2>b, <2>c DEF CatType
  <2>4. FlagsTrue'
    <3>1. \A o \in Animals : c_pc'[o] = IF o = a THEN <<"done">> ELSE c_pc[o]
      BY Zenon, <2>2 DEF CatType
    <3>2. \A d \in 0..1 : <<"done">> # <<"eats", d>>
      BY Zenon
    <3> QED BY <3>1, <3>2, <2>2 DEF FlagsTrue
  <2>5. BowlsCounted'
    BY <1>3, <2>2 DEF BowlsCounted
  <2>6. MealsBounded'
    BY <1>2, <2>1, <2>2 DEF MealsBounded, CatType
  <2> QED BY <2>3, <2>4, <2>5, <2>6 DEF CatInv
<1> QED BY <1>1, <1>4, <1>5
-----------------------------------------------------------------------------
\* Nobody eats when catmousesem has forked the animals.
LEMMA CatInit == ASSUME NMeals \in Nat, CatCounts, catmousesem PROVE CatInv
<1>1. /\ \A a \in Animals : c_pc[a] = <<"looks">> /\ meals[a] = 0
      /\ \A b \in 0..1 : bowl_status[b] = 0
      /\ c_count["bowl"] = 2
  BY Zenon DEF catmousesem, BowlSemaphore
<1>2. Full("cat") \in Nat /\ Full("mouse") \in Nat
  BY Zenon, CatAssumption DEF CatCounts, Full
<1>3. CatType
  BY <1>2 DEF catmousesem, CatType, Places, BowlSemaphore
<1>4. FlagsTrue /\ BowlsCounted /\ MealsBounded
  BY <1>1 DEF FlagsTrue, BowlsCounted, MealsBounded
<1> QED BY Zenon, <1>3, <1>4 DEF CatInv

\* An animal that comes to the bowls, with a right to one of them or to sleep
\* (catsem and mousesem up to the loop).
LEMMA ApproachKeeps ==
  ASSUME NMeals \in Nat, CatInv, NEW a \in Animals, Approach(a)
  PROVE  CatInv'
<1> USE DEF CatInv
<1>1. c_pc[a] \in {<<"looks">>, <<"sleeps">>}
  BY Zenon DEF Approach
<1>2. \A d \in 0..1 : c_pc[a] # <<"eats", d>>
  BY <1>1
<1>3. CASE c_count["bowl"] = 0
  <2>1. /\ c_pc' = [c_pc EXCEPT ![a] = <<"sleeps">>]
        /\ UNCHANGED <<c_count, bowl_status, meals>>
    BY Zenon, <1>3 DEF Approach, CatGoes
  <2>2. CatType'
    BY Zenon, <2>1 DEF CatType, Places
  <2>3. \A o \in Animals : \A d \in 0..1 : c_pc'[o] = <<"eats", d>> <=> c_pc[o] = <<"eats", d>>
    BY Zenon, <1>2, <2>1 DEF CatType
  <2> QED BY <2>1, <2>2, <2>3 DEF FlagsTrue, BowlsCounted, MealsBounded
<1>4. CASE c_count["bowl"] # 0
  <2> DEFINE c == [c_count EXCEPT !["bowl"] = @ - 1, ![Kind(a)] = @ - 1]
  <2>1. Seek(a, 0, c, bowl_status, 0)
    BY Zenon, <1>4 DEF Approach
  <2>2. Kind(a) \in {"cat", "mouse"}
    BY Zenon DEF Kind
  <2>3. /\ c \in [{"cat", "mouse", "bowl"} -> Int]
        /\ c["bowl"] = c_count["bowl"] - 1
    BY <2>2 DEF CatType
  <2>4. bowl_status[0] = 0 \/ bowl_status[1] = 0
    BY <1>4 DEF BowlsCounted, CatType
  <2>5. c["bowl"] = 1 - bowl_status[0] - bowl_status[1]
    BY <2>3 DEF BowlsCounted, CatType
  <2>6. \A d \in 0..1 :
          /\ \A o \in Animals \ {a} : c_pc[o] = <<"eats", d>> => bowl_status[d] = 1
          /\ bowl_status[d] = 1 => \E o \in Animals \ {a} : c_pc[o] = <<"eats", d>>
    BY Zenon, <1>2 DEF FlagsTrue
  <2>7. bowl_status \in [0..1 -> 0..1]
    BY Zenon DEF CatType
  <2> HIDE DEF c, CatInv
  <2>8. CatType /\ FlagsTrue /\ MealsBounded
    BY Zenon DEF CatInv
  <2>9. 0 \in 0..1 /\ 0 \in Nat /\ 0 # 1 /\ 0 <= NMeals + 1
    OBVIOUS
  <2> QED BY <2>1, <2>3, <2>4, <2>5, <2>6, <2>7, <2>8, <2>9, SeekKeeps, Zenon
<1> QED BY Zenon, <1>3, <1>4

\* An animal has eaten and goes on with the loop (the end of catmouse_eat).
LEMMA AteKeeps ==
  ASSUME NMeals \in Nat, CatInv, NEW a \in Animals, Ate(a)
  PROVE  CatInv'
<1>1. PICK b \in 0..1 : c_pc[a] = <<"eats", b>>
  BY DEF Ate, CatInv, CatType, Places
<1> DEFINE st == [bowl_status EXCEPT ![b] = 0]
<1>2. Seek(a, (b + 1) % 2, c_count, st, meals[a] + 1)
  BY <1>1 DEF Ate
<1>3. Seek(a, 1 - b, c_count, st, meals[a] + 1)
  <2>1. (b + 1) % 2 = 1 - b
    BY <1>1
  <2> QED BY <1>2, <2>1
<1>4. CatType /\ FlagsTrue /\ MealsBounded /\ BowlsCounted
  BY DEF CatInv
<1>5. bowl_status[b] = 1
  BY <1>1, <1>4 DEF FlagsTrue
<1>6. /\ st \in [0..1 -> 0..1]
      /\ st[0] = 0 \/ st[1] = 0
      /\ c_count["bowl"] = 1 - st[0] - st[1]
  BY <1>1, <1>4, <1>5 DEF CatType, BowlsCounted
<1>7. /\ meals[a] + 1 \in Nat
      /\ 1 - b = 0 => meals[a] + 1 <= NMeals + 1
      /\ 1 - b = 1 => meals[a] + 1 <= NMeals
  BY <1>1, <1>4 DEF CatType, MealsBounded
<1>8. \A d \in 0..1 :
        /\ \A o \in Animals \ {a} : c_pc[o] = <<"eats", d>> => st[d] = 1
        /\ st[d] = 1 => \E o \in Animals \ {a} : c_pc[o] = <<"eats", d>>
  BY <1>1, <1>4 DEF CatType, FlagsTrue
<1>9. c_count \in [{"cat", "mouse", "bowl"} -> Int] /\ 1 - b \in 0..1
  BY <1>1, <1>4 DEF CatType
<1> HIDE DEF st
<1> QED BY Zenon, <1>3, <1>4, <1>6, <1>7, <1>8, <1>9, SeekKeeps
-----------------------------------------------------------------------------
\* The invariant says what BowlsSound says: one animal at an occupied bowl, none
\* at a free one.
LEMMA CatInvImplies == ASSUME NMeals \in Nat, CatCounts, CatInv PROVE BowlsSound
<1> USE DEF CatInv
<1>1. ASSUME NEW b \in 0..1
      PROVE  bowl_status[b] = Cardinality({a \in Animals : c_pc[a] = <<"eats", b>>})
  <2> DEFINE S == {a \in Animals : c_pc[a] = <<"eats", b>>}
  <2>1. CASE bowl_status[b] = 1
    <3>1. PICK a \in Animals : S = {a}
      BY Zenon, <2>1 DEF FlagsTrue
    <3> QED BY Zenon, <2>1, <3>1 DEF CatCounts
  <2>2. CASE bowl_status[b] = 0
    <3>1. S = {}
      BY <2>2 DEF FlagsTrue
    <3> QED BY <2>2, <3>1 DEF CatCounts
  <2> QED BY <2>1, <2>2 DEF CatType
<1>2. \A a \in Animals : c_pc[a] # <<"spins">>
  BY DEF CatType, Places
<1>3. \A a \in Animals : meals[a] <= NMeals + 1
  BY Zenon DEF MealsBounded
<1> QED BY Zenon, <1>1, <1>2, <1>3 DEF BowlsSound

\* Every step of an animal keeps the invariant.
LEMMA CatSteps == ASSUME CatInv, CatNext \/ UNCHANGED c_vars PROVE CatInv'
<1>1. CASE CatNext
  BY Zenon, <1>1, ApproachKeeps, AteKeeps, CatAssumption DEF CatNext, CatStep
<1>2. CASE UNCHANGED c_vars
  BY Zenon, <1>2 DEF c_vars, CatInv, CatType, FlagsTrue, BowlsCounted, MealsBounded
<1>3. QED
  BY Zenon, <1>1, <1>2
-----------------------------------------------------------------------------
\* The inductive invariant: the count of the lock and lock_thread agree with
\* each other and with the callers, and a sleeper is in the operation that put
\* it to sleep.
IInv ==
    /\ TypeOK
    /\ lock.count = IF lock.lock_thread = NULL THEN 1 ELSE 0
    /\ HolderKnown
    /\ NoLostWakeup
    /\ \A t \in Threads :
        /\ sleepaddr[t] = "sem" => pc[t] = "P"
        /\ sleepaddr[t] \in {"lock", "cv"} => pc[t] = "acquire"

\* The state made by the create functions satisfies the invariant.
LEMMA InitIInv == Init => IInv
  BY NullAssumption, CountAssumption
     DEF Init, IInv, TypeOK, HolderKnown, lock_do_i_hold, NoLostWakeup

\* P keeps the invariant.
LEMMA PIInv == ASSUME IInv, NEW t \in Threads, P(t) PROVE IInv'
  BY DEF P, IInv, TypeOK, HolderKnown, lock_do_i_hold, NoLostWakeup, thread_sleep

\* V keeps the invariant: all sleepers are woken, so none sleeps on a count.
LEMMA VIInv == ASSUME IInv, V PROVE IInv'
  BY DEF V, IInv, TypeOK, HolderKnown, lock_do_i_hold, NoLostWakeup, thread_wakeup

\* lock_acquire keeps the invariant.
LEMMA AcquireIInv == ASSUME IInv, NEW t \in Threads, lock_acquire(t) PROVE IInv'
  <1>1. CASE lock.count = 0
    BY <1>1 DEF lock_acquire, IInv, TypeOK, HolderKnown, lock_do_i_hold,
                NoLostWakeup, thread_sleep
  <1>2. CASE lock.count > 0
    <2>1. lock.lock_thread = NULL /\ lock.count = 1
      BY <1>2 DEF IInv
    <2>2. /\ lock' = [count |-> 0, lock_thread |-> t]
          /\ pc' = [pc EXCEPT ![t] = "in"]
          /\ UNCHANGED <<count, sleepaddr>>
      BY <2>1 DEF lock_acquire
    <2>3. sleepaddr[t] = "none" /\ \A u \in Threads : pc[u] # "in"
      BY Zenon, <2>1, NullAssumption DEF lock_acquire, IInv, HolderKnown, lock_do_i_hold
    <2>. QED
      BY <2>1, <2>2, <2>3, NullAssumption
         DEF IInv, TypeOK, HolderKnown, lock_do_i_hold, NoLostWakeup
  <1>. QED
    BY <1>1, <1>2 DEF IInv, TypeOK

\* What giving up the lock does: the holder was alone, the count becomes 1.
LEMMA Released ==
  ASSUME IInv, NEW t \in Threads, pc[t] = "in"
  PROVE  /\ released = [count |-> 1, lock_thread |-> NULL]
         /\ lock.lock_thread = t
         /\ \A u \in Threads \ {t} : pc[u] # "in"
  BY NullAssumption DEF IInv, TypeOK, HolderKnown, lock_do_i_hold, released

\* lock_release keeps the invariant.
LEMMA ReleaseIInv == ASSUME IInv, NEW t \in Threads, lock_release(t) PROVE IInv'
  <1>1. lock' = [count |-> 1, lock_thread |-> NULL]
        /\ \A u \in Threads \ {t} : pc[u] # "in"
    BY Zenon, Released DEF lock_release
  <1>. QED
    BY <1>1, NullAssumption
       DEF lock_release, IInv, TypeOK, HolderKnown, lock_do_i_hold, NoLostWakeup,
           thread_wakeup

\* cv_wait keeps the invariant.
LEMMA WaitIInv == ASSUME IInv, NEW t \in Threads, cv_wait(t) PROVE IInv'
  <1>1. lock' = [count |-> 1, lock_thread |-> NULL]
        /\ \A u \in Threads \ {t} : pc[u] # "in"
    BY Zenon, Released DEF cv_wait
  <1>. QED
    BY <1>1, NullAssumption
       DEF cv_wait, IInv, TypeOK, HolderKnown, lock_do_i_hold, NoLostWakeup,
           thread_wakeup, thread_sleep

\* cv_broadcast does what cv_signal does.
LEMMA Alike == ASSUME NEW t \in Threads, cv_broadcast(t, "out") PROVE cv_signal(t, "out")
  BY Zenon DEF cv_signal, cv_broadcast

\* cv_signal keeps the invariant when the caller knows that it releases the
\* lock.
LEMMA SignalIInv == ASSUME IInv, NEW t \in Threads, cv_signal(t, "out") PROVE IInv'
  <1>1. lock' = [count |-> 1, lock_thread |-> NULL]
        /\ \A u \in Threads \ {t} : pc[u] # "in"
    BY Zenon, Released DEF cv_signal
  <1>. QED
    BY <1>1, NullAssumption
       DEF cv_signal, IInv, TypeOK, HolderKnown, lock_do_i_hold, NoLostWakeup,
           thread_wakeup

\* The invariant of every reachable state.
THEOREM Inductive == Spec => []IInv
  <1>1. IInv /\ [Next]_vars => IInv'
    <2>. SUFFICES ASSUME IInv, [Next]_vars PROVE IInv'
      BY Zenon
    <2>1. CASE UNCHANGED vars
      BY Zenon, <2>1 DEF vars, IInv, TypeOK, HolderKnown, lock_do_i_hold, NoLostWakeup
    <2>2. CASE Next
      BY Zenon, <2>2, PIInv, VIInv, AcquireIInv, ReleaseIInv, WaitIInv, SignalIInv, Alike DEF Next
    <2>. QED
      BY Zenon, <2>1, <2>2
  <1>. QED
    BY InitIInv, <1>1, PTL DEF Spec

\* At most one thread is between lock_acquire and the matching release, wait
\* or signal.
THEOREM LockStaysExclusive == Spec => []LockExclusive
  <1>1. IInv => LockExclusive
    BY Zenon DEF IInv, HolderKnown, lock_do_i_hold, LockExclusive
  <1>. QED
    BY Inductive, <1>1, PTL

\* lock_do_i_hold is true exactly for the holder.
THEOREM HolderStaysKnown == Spec => []HolderKnown
  <1>1. IInv => HolderKnown
    BY Zenon DEF IInv
  <1>. QED
    BY Inductive, <1>1, PTL

\* No thread sleeps on a semaphore with a count or on a free lock.
THEOREM WakeupsNotLost == Spec => []NoLostWakeup
  <1>1. IInv => NoLostWakeup
    BY DEF IInv
  <1>. QED
    BY Inductive, <1>1, PTL

\* The lock and the condition variable implement the monitor.
THEOREM MonitorRefined == Spec => ImplementsMonitor
  <1>1. Init => M!Init
    BY DEF Init, M!Init, waiting
  <1>2. IInv /\ [Next]_vars => [M!Next]_<<lock.lock_thread, waiting>>
    <2>. SUFFICES ASSUME IInv, [Next]_vars
                  PROVE  M!Next \/ UNCHANGED <<lock.lock_thread, waiting>>
      BY Zenon
    <2>1. CASE UNCHANGED vars
      BY Zenon, <2>1 DEF vars, waiting
    <2>2. CASE V
      BY Zenon, <2>2 DEF V, waiting, thread_wakeup, IInv, TypeOK
    <2>3. ASSUME NEW t \in Threads, P(t) PROVE UNCHANGED <<lock.lock_thread, waiting>>
      BY <2>3 DEF P, waiting, thread_sleep, IInv, TypeOK
    <2>4. ASSUME NEW t \in Threads, lock_acquire(t)
          PROVE  M!Acquire(t) \/ UNCHANGED <<lock.lock_thread, waiting>>
      <3>1. CASE lock.count = 0
        BY <2>4, <3>1 DEF lock_acquire, waiting, thread_sleep, IInv, TypeOK
      <3>2. CASE lock.count > 0
        BY <2>4, <3>2 DEF lock_acquire, waiting, IInv, TypeOK, M!Acquire
      <3>. QED
        BY <3>1, <3>2 DEF IInv, TypeOK
    <2>5. ASSUME NEW t \in Threads, lock_release(t) PROVE M!Release(t)
      BY <2>5, Released DEF lock_release, waiting, thread_wakeup, IInv, TypeOK, M!Release
    <2>6. ASSUME NEW t \in Threads, cv_wait(t) PROVE M!Wait(t)
      BY <2>6, Released
         DEF cv_wait, waiting, thread_wakeup, thread_sleep, IInv, TypeOK, M!Wait
    <2>7. ASSUME NEW t \in Threads, cv_signal(t, "out") PROVE M!Notify(t)
      <3>1. lock.lock_thread = t /\ lock'.lock_thread = NULL
        BY <2>7, Released DEF cv_signal
      <3>2. waiting' = {}
        BY Zenon, <2>7 DEF cv_signal, waiting, thread_wakeup
      <3>. QED
        BY Zenon, <3>1, <3>2 DEF M!Notify
    <2>. QED
      BY Zenon, <2>1, <2>2, <2>3, <2>4, <2>5, <2>6, <2>7, Alike DEF Next, M!Next
  <1>. QED
    BY Inductive, <1>1, <1>2, PTL DEF Spec, M!Spec, ImplementsMonitor
-----------------------------------------------------------------------------
F == INSTANCE FiniteSetTheorems

\* Counting the holders, from the library's theorems.
LEMMA EmuCountsHold == EmuCounts
<1>1. \A S : Cardinality(S) = F!Cardinality(S) /\ (IsFiniteSet(S) <=> F!IsFiniteSet(S))
  BY Zenon DEF Cardinality, F!Cardinality, IsFiniteSet, F!IsFiniteSet
<1>2. \A S \in SUBSET EThreads : F!IsFiniteSet(S)
  BY Zenon, <1>1, F!FS_Subset, EmuAssumption
<1>3. ASSUME NEW S \in SUBSET EThreads
      PROVE  /\ F!Cardinality(S) \in Nat /\ (F!Cardinality(S) = 0 <=> S = {})
             /\ \A t \in EThreads \ S : F!Cardinality(S \cup {t}) = F!Cardinality(S) + 1
             /\ \A t \in S : F!Cardinality(S \ {t}) = F!Cardinality(S) - 1
  BY Zenon, <1>2, F!FS_CardinalityType, F!FS_EmptySet, F!FS_AddElement, F!FS_RemoveElement
<1>4. QED
  BY Zenon, <1>1, <1>3 DEF EmuCounts

\* With any number of threads and handles, the device is only asked about
\* handles it has open, and a vnode in use is in the table with its references
\* counted and its handle open (emu_open, emufs_loadvnode, emufs_reclaim and
\* emu_close, interleaved with the device and its interrupt).
THEOREM HandlesStaySound == EmuSpec => []HandlesSound
<1>1. EmuInit => EmuInv
  BY Zenon, EmuStarts
<1>2. EmuInv /\ [EmuNext]_e_vars => EmuInv'
  BY Zenon, EmuSteps, EmuCountsHold
<1>3. EmuInv => HandlesSound
  BY Zenon, EmuImplies, EmuCountsHold DEF HandlesSound
<1> QED BY <1>1, <1>2, <1>3, PTL DEF EmuSpec, e_vars

\* Counting, from the library's theorems.
LEMMA CatCountsHold == CatCounts
<1>1. \A S : Cardinality(S) = F!Cardinality(S) /\ (IsFiniteSet(S) <=> F!IsFiniteSet(S))
  BY Zenon DEF Cardinality, F!Cardinality, IsFiniteSet, F!IsFiniteSet
<1>2. F!Cardinality({}) = 0 /\ \A x : F!Cardinality({x}) = 1
  BY Zenon, F!FS_EmptySet, F!FS_Singleton
<1>3. \A S : F!IsFiniteSet(S) => F!Cardinality(S) \in Nat
  BY F!FS_CardinalityType
<1>4. QED
  BY Zenon, <1>1, <1>2, <1>3 DEF CatCounts

\* With any finite number of cats and mice and any number of meals, the flags of
\* the bowls are true, nobody spins with interrupts off, and nobody eats more
\* than one meal too many (catsem, mousesem and catmouse_eat).
THEOREM BowlsStaySound == CatSpec => []BowlsSound
<1>1. catmousesem => CatInv
  BY Zenon, CatInit, CatCountsHold, CatAssumption
<1>2. CatInv /\ [CatNext]_c_vars => CatInv'
  BY Zenon, CatSteps
<1>3. CatInv => BowlsSound
  BY Zenon, CatInvImplies, CatCountsHold, CatAssumption DEF BowlsSound
<1> QED BY <1>1, <1>2, <1>3, PTL DEF CatSpec, c_vars
==============================================================================
