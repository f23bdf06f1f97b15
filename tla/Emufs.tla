------------------------------- MODULE Emufs -------------------------------
(***************************************************************************)
(* The emulator file system, kern/dev/lamebus/emu.c, with several threads: *)
(* one device that does one operation at a time on file handles it hands   *)
(* out, the lock e_lock around the device and the vnode table, the         *)
(* semaphore e_sem on which a thread waits for the interrupt, and vnodes   *)
(* that own a handle each from lookup to reclaim.                          *)
(*                                                                         *)
(* vfs_lookup's own reference to the root directory is left out: ef_root   *)
(* keeps the root loaded for ever.                                         *)
(***************************************************************************)
EXTENDS Naturals, FiniteSets, Functions

CONSTANTS
  EThreads,
  Handles,      \* the handles the device has besides the root's
  RootHandle,   \* EMU_ROOTHANDLE
  MaxRetries,   \* how often emu_close tries again after an I/O error
  None

\* Finitely many threads use the file system, and None is none of the things it
\* stands in for.
ASSUME EmuAssumption ==
  IsFiniteSet(EThreads) /\ None \notin EThreads \cup Handles \cup {RootHandle}

VARIABLES
  e_lock,       \* the holder of e_lock, or None
  e_sem,        \* the count of e_sem
  e_result,     \* the result the interrupt handler has left
  dev,          \* the device: [op, handle, done, res, new]
  opened,       \* the handles the device has open
  vnodes,       \* ef_vnodes: the reference count of the vnode of a handle
  e_pc,         \* where a thread is
  hold,         \* the handle of the vnode a thread has a reference to
  new,          \* a handle a thread has opened and not yet loaded
  retries       \* of emu_close

e_vars == <<e_lock, e_sem, e_result, dev, opened, vnodes, e_pc, hold, new, retries>>

Quiet == [op |-> "none", handle |-> None, done |-> FALSE, res |-> "SUCCESS",
          new |-> None]

EmuInit ==
  /\ e_lock = None /\ e_sem = 0 /\ e_result = "SUCCESS" /\ dev = Quiet
  /\ opened = {RootHandle}
  /\ vnodes = [h \in {RootHandle} |-> 1]
  /\ e_pc = [t \in EThreads |-> "idle"]
  /\ hold = [t \in EThreads |-> None]
  /\ new = [t \in EThreads |-> None]
  /\ retries = 0

EmuAt(t, where) == e_pc[t] = where
EmuGoes(t, where) == e_pc' = [e_pc EXCEPT ![t] = where]
-----------------------------------------------------------------------------
\* The device, and its interrupt.

\* An operation ends; one on a handle that is not open is a fatal error.  Each
\* open gets a handle of its own, as emu.c needs: it opens before it looks for
\* the handle in the table, so that with a shared handle a reclaim in between
\* would close the one just opened.  So emufs_loadvnode never finds a vnode, and
\* emufs_reclaim never one that is in use again.
DeviceDone ==
  /\ dev.op # "none" /\ ~dev.done
  /\ LET Ends(r, h) == dev' = [dev EXCEPT !.done = TRUE, !.res = r, !.new = h]
     IN IF dev.handle \notin opened
        THEN Ends("BADHANDLE", None) /\ UNCHANGED opened
        ELSE \/ Ends("MEDIA", None) /\ UNCHANGED opened
             \/ /\ dev.op \notin {"open", "close"}
                /\ Ends("SUCCESS", None) /\ UNCHANGED opened
             \/ /\ dev.op = "close"
                /\ Ends("SUCCESS", None) /\ opened' = opened \ {dev.handle}
             \/ /\ dev.op = "open"
                /\ \E h \in Handles \ opened :
                     Ends("SUCCESS", h) /\ opened' = opened \cup {h}
  /\ UNCHANGED <<e_lock, e_sem, e_result, vnodes, e_pc, hold, new, retries>>

\* (Mutant: the handler forgets V.)
emu_irq_silent ==
  /\ dev.done
  /\ e_result' = dev.res
  /\ dev' = [dev EXCEPT !.op = "none", !.done = FALSE]
  /\ UNCHANGED <<e_lock, e_sem, opened, vnodes, e_pc, hold, new, retries>>

emu_irq ==
  /\ dev.done
  /\ e_result' = dev.res
  /\ dev' = [dev EXCEPT !.op = "none", !.done = FALSE]
  /\ e_sem' = e_sem + 1
  /\ UNCHANGED <<e_lock, opened, vnodes, e_pc, hold, new, retries>>
-----------------------------------------------------------------------------
\* Operations: take e_lock, write the registers, wait.

Issue(op, h) == dev' = [Quiet EXCEPT !.op = op, !.handle = h]

Start(t, from, op, h, to) ==
  /\ EmuAt(t, from) /\ e_lock = None
  /\ e_lock' = t
  /\ Issue(op, h)
  /\ EmuGoes(t, to)
  /\ UNCHANGED <<e_sem, e_result, opened, vnodes, hold, new, retries>>

\* P(e_sem), then Result decides from e_result and gives the lock back.
emu_waitdone(t, where) ==
  /\ EmuAt(t, where) /\ e_sem > 0
  /\ e_sem' = e_sem - 1
  /\ UNCHANGED e_result

\* VOP_LOOKUP and VOP_CREAT, through emu_open.
emufs_lookup(t) ==
  /\ EmuAt(t, "idle") /\ hold[t] = None
  /\ EmuGoes(t, "lookup")
  /\ UNCHANGED <<e_lock, e_sem, e_result, dev, opened, vnodes, hold, new, retries>>

emu_open(t) == Start(t, "lookup", "open", RootHandle, "opening")

emu_opened(t) ==
  /\ emu_waitdone(t, "opening")
  /\ e_lock' = None
  /\ IF e_result = "SUCCESS"
     THEN new' = [new EXCEPT ![t] = dev.new] /\ EmuGoes(t, "load")
     ELSE EmuGoes(t, "idle") /\ UNCHANGED new
  /\ UNCHANGED <<dev, opened, vnodes, hold, retries>>

\* Find the vnode of the handle or make it; out of memory, the handle is
\* closed again.
emufs_loadvnode(t) ==
  /\ EmuAt(t, "load") /\ e_lock = None
  /\ \/ /\ vnodes' = IF new[t] \in DOMAIN vnodes
                     THEN [vnodes EXCEPT ![new[t]] = @ + 1]
                     ELSE [h \in DOMAIN vnodes \cup {new[t]} |->
                             IF h = new[t] THEN 1 ELSE vnodes[h]]
        /\ hold' = [hold EXCEPT ![t] = new[t]]
        /\ new' = [new EXCEPT ![t] = None]
        /\ EmuGoes(t, "idle")
     \/ /\ new[t] \notin DOMAIN vnodes
        /\ EmuGoes(t, "abandon")
        /\ UNCHANGED <<vnodes, hold, new>>
  /\ UNCHANGED <<e_lock, e_sem, e_result, dev, opened, retries>>

\* Reads of files and directories, writes, sizes and truncation of a vnode the
\* thread holds.
Io(t, op) == hold[t] # None /\ Start(t, "idle", op, hold[t], "doing")
emu_doread(t) == Io(t, "read")
emu_write(t) == Io(t, "write")
emu_getsize(t) == Io(t, "getsize")
emu_trunc(t) == Io(t, "trunc")

emu_iodone(t) ==
  /\ emu_waitdone(t, "doing")
  /\ e_lock' = None
  /\ EmuGoes(t, "idle")
  /\ UNCHANGED <<dev, opened, vnodes, hold, new, retries>>
-----------------------------------------------------------------------------
\* References.

\* A second thread gets a reference to a vnode in use, as a forked thread does
\* to its current directory.
VOP_INCREF(t, u) ==
  /\ EmuAt(t, "idle") /\ hold[t] # None /\ EmuAt(u, "idle") /\ hold[u] = None
  /\ vnodes' = [vnodes EXCEPT ![hold[t]] = @ + 1]
  /\ hold' = [hold EXCEPT ![u] = hold[t]]
  /\ UNCHANGED <<e_lock, e_sem, e_result, dev, opened, e_pc, new, retries>>

vnode_decref(t) ==
  /\ EmuAt(t, "idle") /\ hold[t] # None
  /\ IF vnodes[hold[t]] > 1
     THEN /\ vnodes' = [vnodes EXCEPT ![hold[t]] = @ - 1]
          /\ hold' = [hold EXCEPT ![t] = None]
          /\ UNCHANGED e_pc
     ELSE EmuGoes(t, "reclaim") /\ UNCHANGED <<vnodes, hold>>
  /\ UNCHANGED <<e_lock, e_sem, e_result, dev, opened, new, retries>>

\* The last reference: close the handle with the lock held throughout.  When
\* it is not the last any more, give up without dropping it.
emufs_reclaim(t) ==
  /\ EmuAt(t, "reclaim") /\ e_lock = None
  /\ IF vnodes[hold[t]] = 1
     THEN /\ e_lock' = t
          /\ Issue("close", hold[t])
          /\ EmuGoes(t, "closing")
          /\ UNCHANGED hold
     ELSE /\ hold' = [hold EXCEPT ![t] = None]
          /\ EmuGoes(t, "idle")
          /\ UNCHANGED <<e_lock, dev>>
  /\ UNCHANGED <<e_sem, e_result, opened, vnodes, new, retries>>

emu_close_abandoned(t) == Start(t, "abandon", "close", new[t], "closing")

\* (Mutant: the vnode stays in the table whether or not its handle is closed.)
emu_close_kept(t) ==
  /\ emu_waitdone(t, "closing")
  /\ IF e_result = "MEDIA" /\ retries < MaxRetries
     THEN /\ Issue("close", dev.handle)
          /\ retries' = retries + 1
          /\ UNCHANGED <<e_lock, e_pc, hold, new>>
     ELSE /\ e_lock' = None
          /\ retries' = 0
          /\ hold' = [hold EXCEPT ![t] = None]
          /\ new' = [new EXCEPT ![t] = None]
          /\ EmuGoes(t, "idle")
          /\ UNCHANGED dev
  /\ UNCHANGED <<opened, vnodes>>

\* emu_close retries on EIO; when it gives up, the vnode stays in the table.
emu_close(t) ==
  /\ emu_waitdone(t, "closing")
  /\ IF e_result = "MEDIA" /\ retries < MaxRetries
     THEN /\ Issue("close", dev.handle)
          /\ retries' = retries + 1
          /\ UNCHANGED <<e_lock, vnodes, e_pc, hold, new>>
     ELSE /\ e_lock' = None
          /\ retries' = 0
          /\ vnodes' = IF e_result = "SUCCESS" /\ hold[t] # None
                       THEN Restrict(vnodes, DOMAIN vnodes \ {hold[t]})
                       ELSE vnodes
          /\ hold' = [hold EXCEPT ![t] = None]
          /\ new' = [new EXCEPT ![t] = None]
          /\ EmuGoes(t, "idle")
          /\ UNCHANGED dev
  /\ UNCHANGED opened
-----------------------------------------------------------------------------
EmuStep(t) ==
  \/ emu_open(t) \/ emu_opened(t) \/ emufs_loadvnode(t) \/ emu_iodone(t)
  \/ emufs_reclaim(t) \/ emu_close_abandoned(t) \/ emu_close(t)

EmuNext ==
  \/ DeviceDone \/ emu_irq
  \/ \E t \in EThreads : \/ EmuStep(t)
                         \/ emufs_lookup(t) \/ vnode_decref(t)
                         \/ emu_doread(t) \/ emu_write(t)
                         \/ emu_getsize(t) \/ emu_trunc(t)
                         \/ \E u \in EThreads : VOP_INCREF(t, u)

\* The device answers and its interrupt is taken; a thread that can go on
\* does.  A thread that waits for e_lock may lose it to others again and again,
\* so that it is not promised to get it.
EmuFairness ==
  /\ WF_e_vars(DeviceDone) /\ WF_e_vars(emu_irq)
  /\ \A t \in EThreads : WF_e_vars(EmuStep(t))

EmuSpec == EmuInit /\ [][EmuNext]_e_vars /\ EmuFairness
-----------------------------------------------------------------------------
\* The device is never asked about a handle it does not have open, which would
\* be a panic in translate_err; a vnode a thread refers to is in the table with
\* its references counted and its handle open (emu_open, emufs_loadvnode and
\* emufs_reclaim of different threads interleaved).
HandlesSound ==
  /\ dev.op # "none" /\ ~dev.done => dev.handle \in opened
  /\ \A t \in EThreads : hold[t] # None => hold[t] \in DOMAIN vnodes
  /\ \A h \in DOMAIN vnodes :
       LET n == Cardinality({t \in EThreads : hold[t] = h})
       IN /\ h = RootHandle \/ vnodes[h] = n \/ (n = 0 /\ vnodes[h] = 1)
          /\ h \in opened \/ (\E t \in EThreads : hold[t] = h /\ EmuAt(t, "closing"))

\* A thread that has got e_lock gives it back, so that the calls of all the
\* others are held up by no more than a device operation and its retries: the
\* device answers, the interrupt finds the thread that waits for it, and
\* nobody else takes the count it leaves in e_sem (emu_waitdone, emu_irq and
\* the loop of emu_close).
CallsEnd == \A t \in EThreads : e_lock = t ~> e_lock # t
=============================================================================
