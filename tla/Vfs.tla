-------------------------------- MODULE Vfs --------------------------------
(***************************************************************************)
(* The VFS layer's own state, kern/fs/vfs: the table of known devices and  *)
(* the file systems on them (vfslist.c), the boot file system and path     *)
(* lookup (vfslookup.c), the current directories of the threads            *)
(* (vfscwd.c), device vnodes (device.c) and vnode reference counts         *)
(* (vnode.c), driven by the menu's commands and by the shutdown sequence   *)
(* of kern/main/main.c.                                                    *)
(*                                                                         *)
(* A call that passes references from one function to the next takes       *)
(* several steps, and other threads run between them.  todo[t] is what     *)
(* thread t still has to do of the call it is in.  A step is one critical  *)
(* section of knowndevs_lock, bootfs_lock or a vn_countlock, or concerns   *)
(* the thread's own t_cwd.  Two things the code does take more than one:   *)
(* giving up the last reference to a vnode of a volume (the decision, the  *)
(* second look in sfs_reclaim, the removal), and picking up a vnode that   *)
(* is loaded (sfs_loadvnode finds it, then VOP_INCREF counts).  No lock    *)
(* keeps these apart.  A vnode that is freed while somebody else has it    *)
(* fails vnode_kill's assertion or is used after it was freed: the         *)
(* behaviour is not followed beyond that point (torn).                     *)
(*                                                                         *)
(* A file system is its directories.  One without a device (emu0) has a    *)
(* root and a subdirectory and is always there; emufs makes a new vnode    *)
(* for every lookup of the subdirectory, and their counts are added up     *)
(* here.  A volume has a root and is there while mounted.  FSOP_UNMOUNT    *)
(* refuses with EBUSY while any vnode of the file system is loaded, as     *)
(* sfs_unmount does.  Syncing a directory or a volume may fail.            *)
(***************************************************************************)
EXTENDS Naturals, Sequences, SequencesExt, FiniteSets

CONSTANTS
  Threads,      \* kernel threads, Menu among them
  Menu,         \* the boot thread, which becomes the menu
  Config,       \* the sequence of devices that autoconfiguration adds
  Paths,        \* the paths of current directories
  Files,        \* the paths that are opened
  None

VARIABLES
  knowndevs,    \* the table: [name, rawname, vol, fs]
  refs,         \* vn_refcount of every vnode; 0: not loaded
  bootfs,       \* bootfs_vnode
  cwd,          \* t_cwd of every thread
  file,         \* a vnode the thread has open
  todo,         \* the rest of the call a thread is in
  life,         \* what became of a thread: "none", "runs", "gone", or "halted"
  leaked,       \* history: vnodes whose reclaiming failed half way
  torn          \* history: a vnode was killed while another thread had it

vars == <<knowndevs, refs, bootfs, cwd, file, todo, life, leaked, torn>>

\* Vnodes: the device itself, and the directories of the file system on it.
DevVnode(d) == <<d, "dev">>
Root(d) == <<d, "root">>
Sub(d) == <<d, "sub">>
Devs == {Config[i].name : i \in DOMAIN Config}
Vnodes == UNION {LET kd == Config[i]
                 IN {Root(kd.name), IF kd.fs THEN Sub(kd.name) ELSE DevVnode(kd.name)} :
                 i \in DOMAIN Config}

Entries == Range(knowndevs)
Entry(d) == CHOOSE kd \in Entries : kd.name = d
HasFs(d) == \E kd \in Entries : kd.name = d /\ kd.fs

Init ==
  /\ knowndevs = <<>>
  /\ refs = [v \in Vnodes |-> 0]
  /\ bootfs = None
  /\ cwd = [t \in Threads |-> None]
  /\ file = [t \in Threads |-> None]
  /\ todo = [t \in Threads |->
               IF t = Menu THEN Append([i \in DOMAIN Config |-> <<"adddev", i>>],
                                       <<"setbootfs", "emu0">>)
               ELSE <<>>]
  /\ life = [t \in Threads |-> IF t = Menu THEN "runs" ELSE "none"]
  /\ leaked = {} /\ torn = FALSE

\* The machine runs until a thread has shut it down.
Runs(t) == life[t] = "runs" /\ ~torn /\ \A u \in Threads : life[u] # "halted"
Idle(t) == Runs(t) /\ todo[t] = <<>>
Doing(t, what) == Runs(t) /\ todo[t] # <<>> /\ Head(todo[t])[1] = what
Arg(t) == Head(todo[t])[2]
\* The first pending step of t, if there is one, is replaced by steps.
Rest(t) == IF todo[t] = <<>> THEN <<>> ELSE Tail(todo[t])
Goes(t, steps) == todo' = [todo EXCEPT ![t] = steps \o Rest(t)]
\* The call fails: only the references it holds are left to drop.
Aborts(t) == todo' = [todo EXCEPT ![t] =
                        SelectSeq(Rest(t), LAMBDA step : step[1] = "drop")]
IncRef(v) == refs' = [refs EXCEPT ![v] = @ + 1]
-----------------------------------------------------------------------------
\* The table of devices.

\* The names a table entry answers to.
NamesOf(kd) == {kd.name, kd.rawname, IF kd.fs THEN kd.vol ELSE None} \ {None}
badnames(kd) == \E old \in Entries : NamesOf(old) \cap NamesOf(kd) # {}

\* vfs_doadd, which may also run out of memory; the vnode of a device, and the
\* root of emufs, count one reference of their own for ever.
vfs_doadd(t) ==
  /\ Doing(t, "adddev")
  /\ LET kd == Config[Arg(t)]
     IN \/ /\ ~badnames(kd)
           /\ knowndevs' = Append(knowndevs, kd)
           /\ IncRef(IF kd.fs THEN Root(kd.name) ELSE DevVnode(kd.name))
        \/ UNCHANGED <<knowndevs, refs>>
  /\ Goes(t, <<>>)
  /\ UNCHANGED <<bootfs, cwd, file, life, leaked, torn>>

\* The vnode a device or volume name leads to, or None: the first entry that
\* answers to the name decides.
vfs_getroot(n) ==
  LET hits == {i \in DOMAIN knowndevs : n \in NamesOf(knowndevs[i])}
      kd == knowndevs[CHOOSE i \in hits : \A j \in hits : i <= j]
  IN IF hits = {} THEN None                                      \* ENODEV
     ELSE IF kd.fs /\ n \in {kd.name, kd.vol} THEN Root(kd.name)
     ELSE IF ~kd.fs /\ kd.rawname # None /\ n = kd.name THEN None  \* ENXIO
     ELSE DevVnode(kd.name)

SetFs(d, on) ==
  knowndevs' = [i \in DOMAIN knowndevs |->
                  IF knowndevs[i].name = d THEN [knowndevs[i] EXCEPT !.fs = on]
                  ELSE knowndevs[i]]

Loaded(d) == refs[Root(d)] > 0

\* findmount finds mountable devices only.
Mountable(d) == \E kd \in Entries : kd.name = d /\ kd.rawname # None

vfs_mount(t, d) ==
  /\ Idle(t) /\ Mountable(d) /\ ~HasFs(d)
  /\ SetFs(d, TRUE)
  /\ UNCHANGED <<refs, bootfs, cwd, file, todo, life, leaked, torn>>

vfs_unmount(t, d) ==
  /\ Idle(t) /\ Mountable(d) /\ HasFs(d) /\ ~Loaded(d)
  /\ SetFs(d, FALSE)
  /\ UNCHANGED <<refs, bootfs, cwd, file, todo, life, leaked, torn>>

\* Volumes in use are skipped, and so are those that cannot be synced.
vfs_unmountall(t) ==
  /\ Doing(t, "unmountall")
  /\ \E synced \in SUBSET {d \in Devs : Mountable(d) /\ HasFs(d)} :
       knowndevs' = [i \in DOMAIN knowndevs |->
                       LET kd == knowndevs[i]
                       IN IF kd.name \in synced /\ ~Loaded(kd.name)
                          THEN [kd EXCEPT !.fs = FALSE] ELSE kd]
  /\ Goes(t, <<>>)
  /\ UNCHANGED <<refs, bootfs, cwd, file, life, leaked, torn>>
-----------------------------------------------------------------------------
\* Path lookup.

\* Where a path starts: the device it names, the boot file system, the root
\* of the current file system, or the current directory.
getdevice(t, path) ==
  CASE path.start = "/" -> bootfs
    [] path.start = ":" -> IF cwd[t] = None THEN None ELSE Root(cwd[t][1])
    [] path.start = "" -> cwd[t]
    [] OTHER -> vfs_getroot(path.start)

\* Where VOP_LOOKUP gets from there: only a root with a subdirectory has names
\* to look up; dev_lookup and SFS find nothing to chdir to below the start.
VOP_LOOKUP(v) ==
  IF v[2] = "root" /\ HasFs(v[1]) /\ Entry(v[1]).rawname = None THEN Sub(v[1])
  ELSE None

IsDir(v) == v[2] # "dev"
OnVolume(v) ==
  v[2] = "root" /\ \E i \in DOMAIN Config : Config[i].name = v[1] /\ Config[i].rawname # None

\* getdevice takes a reference to the start.  A root that sfs_loadvnode finds
\* loaded is counted in a second step; every other vnode, and one that has to be
\* loaded, has its reference at once.
Found(path, v) == path.start \notin {"/", ":", ""} /\ OnVolume(v) /\ refs[v] > 0

\* vfs_lookup, before what the caller then does with the vnode: the start is
\* picked up, and given back if the lookup goes on from it, whether or not it
\* finds something.
vfs_lookup(t, path, then) ==
  LET start == getdevice(t, path)
      Then(vn) == [i \in DOMAIN then |-> <<then[i], vn>>]
      v == IF path.sub THEN VOP_LOOKUP(start) ELSE start
      pick == IF Found(path, start) THEN <<<<"incref", start>>>> ELSE <<>>
      rest == IF ~path.sub THEN Then(start)
              ELSE IF v = None THEN <<<<"drop", start>>>>
              ELSE <<<<"incref", v>>, <<"drop", start>>>> \o Then(v)
  IN IF start = None THEN Aborts(t) /\ UNCHANGED refs
     ELSE /\ IF pick = <<>> THEN IncRef(start) ELSE UNCHANGED refs
          /\ Goes(t, pick \o rest)

\* The reference counts.
VOP_INCREF(t) ==
  /\ Doing(t, "incref")
  /\ IncRef(Arg(t))
  /\ Goes(t, <<>>)
  /\ UNCHANGED <<knowndevs, bootfs, cwd, file, life, leaked, torn>>

\* VOP_DECREF; reclaiming a device vnode does nothing, and emufs keeps e_lock
\* while it reclaims.
VOP_DECREF(t) ==
  /\ Doing(t, "drop")
  /\ IF refs[Arg(t)] = 1 /\ OnVolume(Arg(t))
     THEN Goes(t, <<<<"reclaim", Arg(t)>>>>) /\ UNCHANGED refs
     ELSE /\ refs' = [refs EXCEPT ![Arg(t)] =
                         IF @ = 1 /\ ~IsDir(Arg(t)) THEN 1 ELSE @ - 1]
          /\ Goes(t, <<>>)
  /\ UNCHANGED <<knowndevs, bootfs, cwd, file, life, leaked, torn>>

\* (Mutant: does not consume the reference of a vnode that is in use again.)
sfs_reclaim_keeps(t) ==
  /\ Doing(t, "reclaim")
  /\ Goes(t, IF refs[Arg(t)] # 1 THEN <<>> ELSE <<<<"kill", Arg(t)>>>>)
  /\ UNCHANGED <<knowndevs, refs, bootfs, cwd, file, life, leaked, torn>>

\* sfs_reclaim looks at the count again and lets go of the lock, ...
sfs_reclaim(t) ==
  /\ Doing(t, "reclaim")
  /\ IF refs[Arg(t)] # 1
     THEN refs' = [refs EXCEPT ![Arg(t)] = @ - 1] /\ Goes(t, <<>>)
     ELSE Goes(t, <<<<"kill", Arg(t)>>>>) /\ UNCHANGED refs
  /\ UNCHANGED <<knowndevs, bootfs, cwd, file, life, leaked, torn>>

\* ... syncs the directory, and gives up if that fails; then it removes the
\* vnode from the table and kills it.
VOP_KILL(t) ==
  /\ Doing(t, "kill")
  /\ LET v == Arg(t)
     IN \/ /\ refs' = [refs EXCEPT ![v] = 0]
           /\ torn' = (refs[v] > 1 \/ \E u \in Threads : Doing(u, "incref") /\ Arg(u) = v)
           /\ UNCHANGED leaked
        \/ leaked' = leaked \cup {v} /\ UNCHANGED <<refs, torn>>
  /\ Goes(t, <<>>)
  /\ UNCHANGED <<knowndevs, bootfs, cwd, file, life>>

\* vfs_chdir: look the path up, make it the current directory, drop the
\* reference the lookup gave.
vfs_chdir(t, path) ==
  /\ Idle(t)
  /\ vfs_lookup(t, path, <<"setcurdir", "drop">>)
  /\ UNCHANGED <<knowndevs, bootfs, cwd, file, life, leaked, torn>>

vfs_setcurdir(t) ==
  /\ Doing(t, "setcurdir")
  /\ IF IsDir(Arg(t))
     THEN /\ IncRef(Arg(t))
          /\ cwd' = [cwd EXCEPT ![t] = Arg(t)]
          /\ Goes(t, IF cwd[t] = None THEN <<>> ELSE <<<<"drop", cwd[t]>>>>)
     ELSE Aborts(t) /\ UNCHANGED <<refs, cwd>>
  /\ UNCHANGED <<knowndevs, bootfs, file, life, leaked, torn>>

vfs_clearcurdir(t) ==
  /\ Doing(t, "clearcurdir")
  /\ cwd' = [cwd EXCEPT ![t] = None]
  /\ Goes(t, IF cwd[t] = None THEN <<>> ELSE <<<<"drop", cwd[t]>>>>)
  /\ UNCHANGED <<knowndevs, refs, bootfs, file, life, leaked, torn>>

\* vfs_setbootfs changes the current directory to the root of the file system
\* and hands a second reference on it to change_bootfs.
vfs_setbootfs(t) ==
  /\ Doing(t, "setbootfs")
  /\ vfs_lookup(t, [start |-> Arg(t), sub |-> FALSE], <<"setcurdir", "drop", "getcurdir">>)
  /\ UNCHANGED <<knowndevs, bootfs, cwd, file, life, leaked, torn>>

vfs_getcurdir(t) ==
  /\ Doing(t, "getcurdir")
  /\ IncRef(cwd[t])
  /\ Goes(t, <<<<"change_bootfs", cwd[t]>>>>)
  /\ UNCHANGED <<knowndevs, bootfs, cwd, file, life, leaked, torn>>

\* vfs_getcwd has a reference of its own while it asks for the name.
vfs_getcwd(t) ==
  /\ Idle(t) /\ cwd[t] # None
  /\ IncRef(cwd[t])
  /\ Goes(t, <<<<"drop", cwd[t]>>>>)
  /\ UNCHANGED <<knowndevs, bootfs, cwd, file, life, leaked, torn>>

change_bootfs(t) ==
  /\ Doing(t, "change_bootfs")
  /\ bootfs' = Arg(t)
  /\ Goes(t, IF bootfs = None THEN <<>> ELSE <<<<"drop", bootfs>>>>)
  /\ UNCHANGED <<knowndevs, refs, cwd, file, life, leaked, torn>>

\* vfs_open: look the path up and open what is there; the file system may
\* refuse.
vfs_open(t, path) ==
  /\ Idle(t) /\ file[t] = None
  /\ vfs_lookup(t, path, <<"open">>)
  /\ UNCHANGED <<knowndevs, bootfs, cwd, file, life, leaked, torn>>

VOP_OPEN(t) ==
  /\ Doing(t, "open")
  /\ \/ file' = [file EXCEPT ![t] = Arg(t)] /\ Goes(t, <<>>)
     \/ Goes(t, <<<<"drop", Arg(t)>>>>) /\ UNCHANGED file
  /\ UNCHANGED <<knowndevs, refs, bootfs, cwd, life, leaked, torn>>
-----------------------------------------------------------------------------
\* Calls of the menu, of programs, and the life of threads.

Starts(t, steps) ==
  /\ Idle(t)
  /\ todo' = [todo EXCEPT ![t] = steps]
  /\ UNCHANGED <<knowndevs, refs, bootfs, cwd, file, life, leaked, torn>>

cmd_bootfs(t, d) == Starts(t, <<<<"setbootfs", d>>>>)

vfs_close(t) ==
  /\ Idle(t) /\ file[t] # None
  /\ file' = [file EXCEPT ![t] = None]
  /\ todo' = [todo EXCEPT ![t] = <<<<"drop", file[t]>>>>]
  /\ UNCHANGED <<knowndevs, refs, bootfs, cwd, life, leaked, torn>>

\* thread_fork: the new thread inherits the current directory; if it cannot be
\* made after all, its reference is given back.
Fork(t, u) ==
  /\ Idle(t) /\ life[u] = "none"
  /\ IF cwd[t] = None THEN UNCHANGED refs ELSE IncRef(cwd[t])
  /\ \/ /\ life' = [life EXCEPT ![u] = "runs"]
        /\ cwd' = [cwd EXCEPT ![u] = cwd[t]]
        /\ UNCHANGED todo
     \/ /\ cwd[t] # None
        /\ todo' = [todo EXCEPT ![t] = <<<<"drop", cwd[t]>>>>]
        /\ UNCHANGED <<life, cwd>>
  /\ UNCHANGED <<knowndevs, bootfs, file, leaked, torn>>

\* thread_exit drops the current directory, then forgets it; a program's open
\* file is closed before.
Exit(t) ==
  /\ t # Menu /\ file[t] = None
  /\ Starts(t, (IF cwd[t] = None THEN <<>> ELSE <<<<"drop", cwd[t]>>>>)
                 \o <<<<"gone", None>>>>)

Gone(t) ==
  /\ Doing(t, "gone")
  /\ cwd' = [cwd EXCEPT ![t] = None]
  /\ life' = [life EXCEPT ![t] = "gone"]
  /\ Goes(t, <<>>)
  /\ UNCHANGED <<knowndevs, refs, bootfs, file, leaked, torn>>

\* (Mutant: volumes are unmounted before the current directory is cleared.)
shutdown_early(t) ==
  /\ file[t] = None
  /\ Starts(t, <<<<"change_bootfs", None>>,
                 <<"unmountall", None>>, <<"clearcurdir", None>>, <<"halt", None>>>>)

\* shutdown(): forget the boot file system and the current directory, unmount
\* what can be unmounted; then the machine stops.
shutdown(t) ==
  /\ file[t] = None
  /\ Starts(t, <<<<"change_bootfs", None>>,
                 <<"clearcurdir", None>>, <<"unmountall", None>>, <<"halt", None>>>>)

Halt(t) ==
  /\ Doing(t, "halt")
  /\ life' = [life EXCEPT ![t] = "halted"]
  /\ Goes(t, <<>>)
  /\ UNCHANGED <<knowndevs, refs, bootfs, cwd, file, leaked, torn>>

Step(t) ==
  \/ vfs_doadd(t) \/ vfs_unmountall(t) \/ VOP_INCREF(t) \/ VOP_DECREF(t)
  \/ sfs_reclaim(t) \/ VOP_KILL(t) \/ vfs_setcurdir(t) \/ vfs_clearcurdir(t)
  \/ vfs_setbootfs(t) \/ vfs_getcurdir(t) \/ change_bootfs(t) \/ VOP_OPEN(t)
  \/ Gone(t) \/ Halt(t)

\* (cmd_sync changes nothing of this.)
Call(t) ==
  \/ \E d \in Devs : vfs_mount(t, d) \/ vfs_unmount(t, d) \/ cmd_bootfs(t, d)
  \/ \E path \in Paths : vfs_chdir(t, path)
  \/ \E path \in Files : vfs_open(t, path)
  \/ vfs_getcwd(t) \/ vfs_close(t) \/ Exit(t) \/ shutdown(t)
  \/ \E u \in Threads : Fork(t, u)

Next == \E t \in Threads : Step(t) \/ Call(t)

Spec == Init /\ [][Next]_vars
-----------------------------------------------------------------------------
\* The references to v: a device's own, or emufs's to its root; the boot file
\* system, current directories and open files; those a call is still to drop or
\* to hand on, less those it has yet to take; and one that was lost.
Exiting(t) == \E i \in DOMAIN todo[t] : todo[t][i][1] = "gone"
Steps(names, v) ==
  Cardinality(UNION {{t} \X {i \in DOMAIN todo[t] :
                               todo[t][i][1] \in names /\ todo[t][i][2] = v} : t \in Threads})
Holders(v) ==
  (IF ~OnVolume(v) /\ v[2] # "sub" /\ \E kd \in Entries : kd.name = v[1] THEN 1 ELSE 0)
    + (IF bootfs = v THEN 1 ELSE 0)
    + Cardinality({t \in Threads : cwd[t] = v /\ ~Exiting(t)})
    + Cardinality({t \in Threads : file[t] = v})
    + Steps({"drop", "reclaim", "kill", "open", "change_bootfs"}, v)
    + (IF v \in leaked THEN 1 ELSE 0)

\* Every vnode counts its references exactly, at every step of every call, and
\* none is loaded from a file system that is no longer mounted: no thread can
\* be left with a current directory, boot directory or open file on it
\* (vfs_chdir, vfs_setbootfs, thread_fork and thread_exit against vfs_unmount,
\* also while sfs_reclaim is on its way, as long as it has not torn a vnode).
ReferencesSound ==
  ~torn => \A v \in Vnodes : /\ refs[v] + Steps({"incref"}, v) = Holders(v)
                             /\ refs[v] > 0 /\ IsDir(v) => HasFs(v[1])

\* sfs_reclaim kills no vnode that somebody picked up after the decision to
\* reclaim it (the comment on its second look at the count).
ReclaimedUnused == ~torn

\* A volume the shutdown sequence finds busy is kept so by another thread, by a
\* boot directory set after it was cleared, or by a root that could not be
\* reclaimed: never by the current directory or the boot directory of the thread
\* that shuts down (shutdown() in main.c: the order of vfs_clearbootfs,
\* vfs_clearcurdir and vfs_unmountall).
ShutdownClean ==
  [][\A t \in Threads : vfs_unmountall(t) =>
       \A d \in Devs : Mountable(d) /\ HasFs(d) /\ Loaded(d) =>
         \/ bootfs # None \/ Root(d) \in leaked
         \/ \E u \in Threads \ {t} : life[u] = "runs"]_vars
=============================================================================
