-------------------------------- MODULE Sfs --------------------------------
(***************************************************************************)
(* The simple file system, kern/fs/sfs, under the path operations of       *)
(* kern/fs/vfs/vfspath.c: block allocation, the block map of a file, file  *)
(* and directory I/O, links, the table of loaded vnodes, mounting,         *)
(* synchronising and unmounting, on the volume that mksfs writes.          *)
(*                                                                         *)
(* One thread uses the file system (SFS takes no lock around its           *)
(* operations, so this is the use it is written for): every operation is   *)
(* one action.  The operators are the C functions, from the state of the   *)
(* file system to a result [s, err, val]; Then is "if (result) return      *)
(* result".  Any read of a block may fail for good, memory may run out     *)
(* where an inode is loaded or the volume mounted, and any allocation of a *)
(* block may find the disk full; what a failure leaves behind is what the  *)
(* error paths of the code leave behind.  A block holds Cells cells of     *)
(* file data; a directory entry takes one cell.                            *)
(***************************************************************************)
EXTENDS Integers, Sequences, FiniteSets, FiniteSetsExt, Functions, TLC

CONSTANTS
  NBlocks,      \* blocks of the volume
  Cells,        \* cells of a block
  NDirect,      \* SFS_NDIRECT
  DbPerIdb,     \* SFS_DBPERIDB
  Names,        \* file names
  Fds,          \* the descriptors of the thread
  OpenModes,    \* the sets of flags a program opens files with
  Offsets,      \* bound: the offsets a program reads and writes at
  Lengths,      \* bound: how many cells a program reads at once
  Writes,       \* bound: what a program writes at once
  MaxFailures   \* bound: operations that meet a read error or lack memory

SuperBlock == 0
RootIno == 1                       \* SFS_ROOT_LOCATION
MapBlock == 2                      \* SFS_MAP_LOCATION
NoIno == 0                         \* SFS_NOINO
NoFile == 0
Blocks == 0..(NBlocks - 1)
ZeroCell == <<0, "">>
NoFuse == 1000                     \* more reads than any operation makes

\* A volume has more than its three blocks of administration, NDirect is not 0,
\* an indirect block holds more than one block number, and what is written is
\* not empty.

VARIABLES
  fs,           \* the volume and what the kernel holds of it, below
  fds,          \* the inode each descriptor leads to, or NoFile
  ret,          \* the outcome of the last operation
  failures      \* operations that met a read error or lacked memory so far

(* fs is a record of
     disk      what every block holds
     map       sfs_freemap: the blocks marked in use
     mapdirty  sfs_freemapdirty
     vn        sfs_vnodes: for each loaded inode its copy i, sv_dirty,
               vn_refcount and vn_opencount
     mounted   the volume is mounted
     fuse      how many reads it is until one fails                        *)
vars == <<fs, fds, ret, failures>>

\* What a block holds, and what it reads as when used as one thing or another.
ZeroBlock == [kind |-> "zero"]
ZeroInode == [type |-> "INVAL", links |-> 0, size |-> 0,
              direct |-> [k \in 0..(NDirect - 1) |-> 0], indirect |-> 0]
AsInode(c) == IF c.kind = "inode" THEN c.i ELSE ZeroInode
AsIndex(c) == IF c.kind = "index" THEN c.e ELSE [k \in 0..(DbPerIdb - 1) |-> 0]
AsCells(c) == IF c.kind = "cells" THEN c.c ELSE [k \in 1..Cells |-> ZeroCell]
InodeBlock(i) == [kind |-> "inode", i |-> i]
IndexBlock(e) == [kind |-> "index", e |-> e]
CellBlock(c) == [kind |-> "cells", c |-> c]

Ok(s, v) == [s |-> s, err |-> "OK", val |-> v]
Err(s, e) == [s |-> s, err |-> e, val |-> <<>>]
Then(r, F(_, _)) == IF r.err = "OK" THEN F(r.s, r.val) ELSE r
\* Clean up whatever the result was; after a panic nothing runs any more.
Finally(r, G(_)) == IF r.err = "panic" THEN r ELSE [r EXCEPT !.s = G(r.s)]
OnError(r, G(_)) == IF r.err = "OK" THEN r ELSE Finally(r, G)
SetInode(s, ino, i) ==
  [s EXCEPT !.vn[ino] = [@ EXCEPT !.i = i, !.dirty = TRUE]]
Inode(s, ino) == s.vn[ino].i
-----------------------------------------------------------------------------
\* Block I/O and allocation.

\* A read that still fails after the retries of sfs_rwblock.
sfs_rblock(s, b) ==
  IF s.fuse = 1 THEN Err([s EXCEPT !.fuse = NoFuse], "EIO")
  ELSE Ok([s EXCEPT !.fuse = @ - 1], s.disk[b])

sfs_wblock(s, b, c) == Ok([s EXCEPT !.disk[b] = c], 0)

sfs_balloc(s) ==
  IF Blocks \subseteq s.map THEN Err(s, "ENOSPC")
  ELSE LET b == Min(Blocks \ s.map)
       IN Then(sfs_wblock([s EXCEPT !.map = @ \cup {b}, !.mapdirty = TRUE],
                          b, ZeroBlock),
               LAMBDA t, z : Ok(t, b))

sfs_bfree(s, b) == [s EXCEPT !.map = @ \ {b}, !.mapdirty = TRUE]

sfs_sync_inode(s, ino) ==
  IF ~s.vn[ino].dirty THEN Ok(s, 0)
  ELSE sfs_wblock([s EXCEPT !.vn[ino].dirty = FALSE], ino,
                  InodeBlock(Inode(s, ino)))

\* The index of a file's indirect block, made when there is none.
ReadIndex(s, ino) ==
  IF Inode(s, ino).indirect # 0
  THEN Then(sfs_rblock(s, Inode(s, ino).indirect),
            LAMBDA t, c : Ok(t, AsIndex(c)))
  ELSE Then(sfs_balloc(s),
            LAMBDA t, b : Ok(SetInode(t, ino, [Inode(t, ino) EXCEPT !.indirect = b]),
                             AsIndex(ZeroBlock)))

\* The disk block of block fb of a file, 0 for a hole.
bmap(s, ino, fb, doalloc) ==
  LET i == Inode(s, ino)
      k == fb - NDirect
  IN IF fb < NDirect
     THEN IF i.direct[fb] # 0 \/ ~doalloc THEN Ok(s, i.direct[fb])
          ELSE Then(sfs_balloc(s), LAMBDA t, b :
                 Ok(SetInode(t, ino, [i EXCEPT !.direct[fb] = b]), b))
     ELSE IF k >= DbPerIdb THEN Err(s, "EINVAL")
     ELSE IF i.indirect = 0 /\ ~doalloc THEN Ok(s, 0)
     ELSE Then(ReadIndex(s, ino), LAMBDA t, idbuf :
            IF idbuf[k] # 0 \/ ~doalloc THEN Ok(t, idbuf[k])
            ELSE Then(sfs_balloc(t), LAMBDA u, b :
                   Then(sfs_wblock(u, Inode(u, ino).indirect,
                                   IndexBlock([idbuf EXCEPT ![k] = b])),
                        LAMBDA v, z : Ok(v, b))))

\* A file's block that the free map calls free: bmap panics.
sfs_bmap(s, ino, fb, doalloc) ==
  Then(bmap(s, ino, fb, doalloc), LAMBDA t, b :
    IF b # 0 /\ b \notin t.map THEN Err(t, "panic") ELSE Ok(t, b))
-----------------------------------------------------------------------------
\* File and directory I/O.  v is the buffer: its length is what is asked for.

\* (Mutant: the rest of a block that is written in part is not read first.)
sfs_partialio_blind(s, b, rw, off, v) ==
  LET skip == off % Cells
      Put(c) == [k \in 1..Cells |-> IF k > skip /\ k <= skip + Len(v)
                                    THEN v[k - skip] ELSE c[k]]
  IN Then(IF b = 0 \/ rw = "write" THEN Ok(s, ZeroBlock) ELSE sfs_rblock(s, b),
          LAMBDA t, c :
            IF rw = "read" THEN Ok(t, SubSeq(AsCells(c), skip + 1, skip + Len(v)))
            ELSE Then(sfs_wblock(t, b, CellBlock(Put(AsCells(c)))),
                      LAMBDA u, z : Ok(u, v)))

sfs_partialio(s, b, rw, off, v) ==
  LET skip == off % Cells
      Put(c) == [k \in 1..Cells |-> IF k > skip /\ k <= skip + Len(v)
                                    THEN v[k - skip] ELSE c[k]]
  IN Then(IF b = 0 THEN Ok(s, ZeroBlock) ELSE sfs_rblock(s, b),
          LAMBDA t, c :
            IF rw = "read" THEN Ok(t, SubSeq(AsCells(c), skip + 1, skip + Len(v)))
            ELSE Then(sfs_wblock(t, b, CellBlock(Put(AsCells(c)))),
                      LAMBDA u, z : Ok(u, v)))

sfs_blockio(s, b, rw, v) ==
  IF rw = "read"
  THEN Then(IF b = 0 THEN Ok(s, ZeroBlock) ELSE sfs_rblock(s, b),
            LAMBDA t, c : Ok(t, AsCells(c)))
  ELSE Then(sfs_wblock(s, b, CellBlock(v)), LAMBDA t, z : Ok(t, v))

\* A leading partial block, the whole blocks, a trailing partial block; val
\* is what was moved, also when a piece fails.  Each starts with sfs_bmap.
RECURSIVE Pieces(_, _, _, _, _)
Pieces(s, ino, rw, off, v) ==
  IF v = <<>> THEN Ok(s, <<>>)
  ELSE LET n == Min({Cells - (off % Cells), Len(v)})
           piece == SubSeq(v, 1, n)
           r == Then(sfs_bmap(s, ino, off \div Cells, rw = "write"), LAMBDA t, b :
                  IF n = Cells THEN sfs_blockio(t, b, rw, piece)
                               ELSE sfs_partialio(t, b, rw, off, piece))
       IN IF r.err # "OK" THEN r
          ELSE LET q == Pieces(r.s, ino, rw, off + n, SubSeq(v, n + 1, Len(v)))
               IN [q EXCEPT !.val = r.val \o @]

sfs_io(s, ino, rw, off, v) ==
  LET size == Inode(s, ino).size
      r == Pieces(s, ino, rw, off, IF rw = "read" /\ off + Len(v) > size
                                   THEN SubSeq(v, 1, size - off) ELSE v)
      end == off + Len(r.val)
      Grow(t) == IF end > size
                 THEN SetInode(t, ino, [Inode(t, ino) EXCEPT !.size = end])
                 ELSE t
  IN IF rw = "write" THEN Finally(r, Grow)
     ELSE IF off >= size THEN Ok(s, <<>>) ELSE r

sfs_readdir(s, ino, slot) ==
  Then(sfs_io(s, ino, "read", slot, <<ZeroCell>>),
       LAMBDA t, v : Ok(t, v[1]))

sfs_writedir(s, ino, slot, entry) == sfs_io(s, ino, "write", slot, <<entry>>)

sfs_dir_nentries(s, ino) == Inode(s, ino).size

\* Scan the directory from slot k.  at is what was seen so far: the inode and
\* slot of the name, and the last empty slot.
RECURSIVE FindFrom(_, _, _, _, _)
FindFrom(s, ino, name, k, at) ==
  IF k = sfs_dir_nentries(s, ino) THEN Ok(s, at)
  ELSE Then(sfs_readdir(s, ino, k), LAMBDA t, e :
    IF e[1] # NoIno /\ e[2] = name /\ at.slot # -1 THEN Err(t, "panic")
    ELSE FindFrom(t, ino, name, k + 1,
           IF e[1] = NoIno THEN [at EXCEPT !.empty = k]
           ELSE IF e[2] = name THEN [at EXCEPT !.ino = e[1], !.slot = k]
           ELSE at))

\* slot is -1 where the C function says ENOENT.
sfs_dir_findname(s, ino, name) ==
  FindFrom(s, ino, name, 0, [ino |-> NoIno, slot |-> -1, empty |-> -1])

sfs_dir_link(s, ino, name, target) ==
  Then(sfs_dir_findname(s, ino, name), LAMBDA t, at :
    IF at.slot # -1 THEN Err(t, "EEXIST")
    ELSE LET slot == IF at.empty = -1 THEN sfs_dir_nentries(t, ino) ELSE at.empty
         IN Then(sfs_writedir(t, ino, slot, <<target, name>>),
                 LAMBDA u, z : Ok(u, slot)))

sfs_dir_unlink(s, ino, slot) == sfs_writedir(s, ino, slot, ZeroCell)
-----------------------------------------------------------------------------
\* Vnodes.

VOP_INCREF(s, ino) == [s EXCEPT !.vn[ino].refs = @ + 1]

vnode_init(i, forced) == [i |-> i, dirty |-> forced, refs |-> 1, opens |-> 0]

\* The failing read of the inode stands for ENOMEM too: without memory for the
\* vnode, or for a place in sfs_vnodes, nothing is loaded either.  What the
\* callers make of it is the same: sfs_makeobj leaves its block allocated, and
\* sfs_getroot panics.
sfs_loadvnode(s, ino, forcetype) ==
  IF ~(DOMAIN s.vn \subseteq s.map) THEN Err(s, "panic")
  ELSE IF ino \in DOMAIN s.vn THEN Ok(VOP_INCREF(s, ino), ino)
  ELSE IF ino \notin s.map THEN Err(s, "panic")
  ELSE Then(sfs_rblock(s, ino), LAMBDA t, c :
         LET forced == forcetype # "INVAL"
             i == IF forced THEN [AsInode(c) EXCEPT !.type = forcetype]
                  ELSE AsInode(c)
         IN IF i.type = "INVAL" \/ (forced /\ AsInode(c).type # "INVAL")
            THEN Err(t, "panic")
            ELSE Ok([t EXCEPT !.vn = (ino :> vnode_init(i, forced)) @@ @], ino))

sfs_getroot(s) ==
  IF ~s.mounted THEN Err(s, "ENXIO")
  ELSE LET r == sfs_loadvnode(s, RootIno, "INVAL")
       IN IF r.err = "OK" THEN r ELSE Err(r.s, "panic")

sfs_makeobj(s, type) ==
  Then(sfs_balloc(s), LAMBDA t, b : sfs_loadvnode(t, b, type))

RECURSIVE BfreeAll(_, _)
BfreeAll(s, bs) ==
  IF bs = {} THEN s ELSE LET b == Min(bs) IN BfreeAll(sfs_bfree(s, b), bs \ {b})

sfs_truncate(s, ino, len) ==
  LET i == Inode(s, ino)
      blocklen == (len + Cells - 1) \div Cells
      gone == {k \in DOMAIN i.direct : k >= blocklen /\ i.direct[k] # 0}
      t == IF gone = {} THEN s
           ELSE SetInode(BfreeAll(s, {i.direct[k] : k \in gone}), ino,
                  [i EXCEPT !.direct = [k \in DOMAIN @ |->
                                          IF k \in gone THEN 0 ELSE @[k]]])
      SetSize(u) == SetInode(u, ino, [Inode(u, ino) EXCEPT !.size = len])
      past(idbuf) == {k \in DOMAIN idbuf : blocklen < NDirect + k /\ idbuf[k] # 0}
      Left(idbuf) == [k \in DOMAIN idbuf |-> IF k \in past(idbuf) THEN 0
                                             ELSE idbuf[k]]
      Drop(u, idbuf) == BfreeAll(u, {idbuf[k] : k \in past(idbuf)})
  IN IF ~(blocklen < NDirect + DbPerIdb - 1) \/ i.indirect = 0
     THEN Ok(SetSize(t), 0)
     ELSE Then(sfs_rblock(t, i.indirect), LAMBDA u, c :
            LET idbuf == AsIndex(c)
                w == Drop(u, idbuf)
            IN IF \A k \in DOMAIN idbuf : Left(idbuf)[k] = 0
               THEN Ok(SetSize(SetInode(sfs_bfree(w, i.indirect), ino,
                         [Inode(w, ino) EXCEPT !.indirect = 0])), 0)
               ELSE Then(IF past(idbuf) = {} THEN Ok(w, 0)
                         ELSE sfs_wblock(w, i.indirect, IndexBlock(Left(idbuf))),
                         LAMBDA x, z : Ok(SetSize(x), 0)))

\* One thread: nobody has picked the vnode up since its count was read.
sfs_reclaim(s, ino) ==
  LET erase == Inode(s, ino).links = 0
  IN Then(IF erase THEN sfs_truncate(s, ino, 0) ELSE Ok(s, 0), LAMBDA t, z :
       Then(sfs_sync_inode(t, ino), LAMBDA u, y :
         LET w == IF erase THEN sfs_bfree(u, ino) ELSE u
         IN Ok([w EXCEPT !.vn = Restrict(@, DOMAIN @ \ {ino})], 0)))

\* vnode_decref; a reclaim that fails leaves the vnode loaded.
VOP_DECREF(s, ino) ==
  IF s.vn[ino].refs > 1 THEN [s EXCEPT !.vn[ino].refs = @ - 1]
  ELSE sfs_reclaim(s, ino).s

\* vnode_decopen: the last close synchronises the inode.
VOP_DECOPEN(s, ino) ==
  LET t == [s EXCEPT !.vn[ino].opens = @ - 1]
  IN IF t.vn[ino].opens > 0 THEN t ELSE sfs_sync_inode(t, ino).s
-----------------------------------------------------------------------------
\* The directory operations.

AddLinks(s, ino, n) ==
  SetInode(s, ino, [Inode(s, ino) EXCEPT !.links = @ + n])

sfs_lookonce(s, d, name) ==
  Then(sfs_dir_findname(s, d, name), LAMBDA t, at :
    IF at.slot = -1 THEN Err(t, "ENOENT")
    ELSE Then(sfs_loadvnode(t, at.ino, "INVAL"), LAMBDA u, ino :
           IF Inode(u, ino).links = 0 THEN Err(u, "panic") ELSE Ok(u, at)))

sfs_creat(s, d, name, excl) ==
  Then(sfs_dir_findname(s, d, name), LAMBDA t, at :
    IF at.slot # -1
    THEN IF excl THEN Err(t, "EEXIST") ELSE sfs_loadvnode(t, at.ino, "INVAL")
    ELSE Then(sfs_makeobj(t, "FILE"), LAMBDA u, ino :
           OnError(Then(sfs_dir_link(u, d, name, ino),
                        LAMBDA w, z : Ok(AddLinks(w, ino, 1), ino)),
                   LAMBDA w : VOP_DECREF(w, ino))))

\* (Mutant: the new link is not counted.)
sfs_link_uncounted(s, d, name, ino) ==
  Then(sfs_dir_link(s, d, name, ino), LAMBDA t, z : Ok(t, 0))

sfs_link(s, d, name, ino) ==
  Then(sfs_dir_link(s, d, name, ino),
       LAMBDA t, z : Ok(AddLinks(t, ino, 1), 0))

sfs_remove(s, d, name) ==
  Then(sfs_lookonce(s, d, name), LAMBDA t, at :
    Finally(Then(sfs_dir_unlink(t, d, at.slot),
                 LAMBDA u, z : Ok(AddLinks(u, at.ino, -1), 0)),
            LAMBDA u : VOP_DECREF(u, at.ino)))

\* The new link is taken back when the old name could not be unlinked.
Undone(undo, ino, err) ==
  IF undo.err # "OK" THEN Err(undo.s, "panic")
  ELSE Err([undo.s EXCEPT !.vn[ino].i.links = @ - 1], err)
puke_harder(r, d, slot, ino) ==
  IF r.err \in {"OK", "panic"} THEN r
  ELSE Undone(sfs_dir_unlink(r.s, d, slot), ino, r.err)

\* Link the new name, then unlink the old one.
sfs_rename(s, d, n1, n2) ==
  Then(sfs_lookonce(s, d, n1), LAMBDA t, g1 :
    Finally(Then(sfs_dir_link(t, d, n2, g1.ino), LAMBDA u, slot2 :
              puke_harder(Then(sfs_dir_unlink(AddLinks(u, g1.ino, 1), d, g1.slot),
                               LAMBDA w, z : Ok(AddLinks(w, g1.ino, -1), 0)),
                          d, slot2, g1.ino)),
            LAMBDA u : VOP_DECREF(u, g1.ino)))
-----------------------------------------------------------------------------
\* Mounting, and the path operations of the VFS layer.

\* sfs_mapio writes the free map; the superblock is never dirty.
sfs_sync(s) ==
  LET Synced(b) == b \in DOMAIN s.vn /\ s.vn[b].dirty
      t == [s EXCEPT !.disk = [b \in Blocks |-> IF Synced(b)
                                                THEN InodeBlock(s.vn[b].i)
                                                ELSE @[b]],
                     !.vn = [b \in DOMAIN @ |-> [@[b] EXCEPT !.dirty = FALSE]]]
  IN IF ~s.mapdirty THEN Ok(t, 0)
     ELSE sfs_wblock([t EXCEPT !.mapdirty = FALSE], MapBlock,
                     [kind |-> "map", m |-> t.map])

sfs_unmount(s) ==
  IF DOMAIN s.vn # {} THEN Err(s, "EBUSY")
  ELSE Ok([s EXCEPT !.mounted = FALSE, !.map = {}], 0)

\* The read of the superblock stands also for the allocations around it, which
\* leave the device unmounted when they fail.
sfs_domount(s) ==
  Then(sfs_rblock(s, SuperBlock), LAMBDA t, c :
    Then(sfs_rblock(t, MapBlock), LAMBDA u, m :
      Ok([u EXCEPT !.mounted = TRUE, !.map = m.m], 0)))

vfs_mount(s) == IF s.mounted THEN Err(s, "EBUSY") ELSE sfs_domount(s)

vfs_unmount(s) ==
  IF ~s.mounted THEN Err(s, "EINVAL")
  ELSE Then(sfs_sync(s), LAMBDA t, z : sfs_unmount(t))

\* The reference VOP_LOOKPARENT takes replaces the one vfs_lookparent drops.
vfs_lookparent(s) == sfs_getroot(s)

vfs_lookup(s, name) ==
  Then(sfs_getroot(s), LAMBDA t, d :
    Finally(Then(sfs_lookonce(t, d, name), LAMBDA u, at : Ok(u, at.ino)),
            LAMBDA u : VOP_DECREF(u, d)))

vfs_open_vnode(s, name, flags) ==
  IF "CREAT" \in flags
  THEN Then(vfs_lookparent(s), LAMBDA t, d :
         Finally(sfs_creat(t, d, name, "EXCL" \in flags),
                 LAMBDA u : VOP_DECREF(u, d)))
  ELSE vfs_lookup(s, name)

vfs_open_truncate(s, ino, flags) ==
  IF "WRITE" \notin flags THEN Err(s, "EINVAL")
  ELSE Then(sfs_truncate(s, ino, 0), LAMBDA t, z : Ok(t, ino))

vfs_open(s, name, flags) ==
  Then(vfs_open_vnode(s, name, flags), LAMBDA t, ino :
    LET u == [t EXCEPT !.vn[ino].opens = @ + 1]
    IN IF "APPEND" \in flags THEN Err(VOP_DECREF(t, ino), "EUNIMP")
       ELSE IF "TRUNC" \notin flags THEN Ok(u, ino)
       ELSE OnError(vfs_open_truncate(u, ino, flags),
                    LAMBDA w : VOP_DECREF(VOP_DECOPEN(w, ino), ino)))

vfs_close(s, ino) == Ok(VOP_DECREF(VOP_DECOPEN(s, ino), ino), 0)

vfs_remove(s, name) ==
  Then(vfs_lookparent(s), LAMBDA t, d :
    Finally(sfs_remove(t, d, name), LAMBDA u : VOP_DECREF(u, d)))

vfs_rename(s, old, new) ==
  Then(vfs_lookparent(s), LAMBDA t, d :
    Finally(Then(vfs_lookparent(t), LAMBDA u, e :
              Finally(sfs_rename(u, d, old, new), LAMBDA w : VOP_DECREF(w, e))),
            LAMBDA u : VOP_DECREF(u, d)))

vfs_link(s, old, new) ==
  Then(vfs_lookup(s, old), LAMBDA t, ino :
    Finally(Then(vfs_lookparent(t), LAMBDA u, d :
              Finally(sfs_link(u, d, new, ino), LAMBDA w : VOP_DECREF(w, d))),
            LAMBDA u : VOP_DECREF(u, ino)))
\* Links by name and directories are not supported: the parent, or the file, is
\* looked up, the operation is refused, the reference dropped.
vfs_symlink(s) ==
  Then(vfs_lookparent(s), LAMBDA t, d : Err(VOP_DECREF(t, d), "EUNIMP"))
vfs_mkdir(s) ==
  Then(vfs_lookparent(s), LAMBDA t, d : Err(VOP_DECREF(t, d), "EUNIMP"))
vfs_rmdir(s) ==
  Then(vfs_lookparent(s), LAMBDA t, d : Err(VOP_DECREF(t, d), "EUNIMP"))
vfs_readlink(s, name) ==
  Then(vfs_lookup(s, name), LAMBDA t, ino : Err(VOP_DECREF(t, ino), "ENOTDIR"))

-----------------------------------------------------------------------------
\* The volume as mksfs leaves it, not yet mounted.
mksfs ==
  [b \in Blocks |->
     CASE b = SuperBlock -> [kind |-> "super"]
       [] b = RootIno -> InodeBlock([ZeroInode EXCEPT !.type = "DIR", !.links = 1])
       [] b = MapBlock -> [kind |-> "map", m |-> {SuperBlock, RootIno, MapBlock}]
       [] OTHER -> ZeroBlock]

Init ==
  /\ fs = [disk |-> mksfs, map |-> {}, mapdirty |-> FALSE, vn |-> <<>>,
           mounted |-> FALSE, fuse |-> NoFuse]
  /\ fds = [f \in Fds |-> NoFile]
  /\ ret = [op |-> <<"none">>, err |-> "OK", val |-> <<>>]
  /\ failures = 0

\* Run operation op, the call of G, one of whose reads may fail; nothing runs
\* after a panic.
Run(op, G(_), Result(_), Held(_)) ==
  /\ ret.err # "panic"
  /\ LET outcome == [fuse \in 1..NoFuse |-> G([fs EXCEPT !.fuse = fuse])]
         calm == outcome[NoFuse]
         reads == NoFuse - calm.s.fuse
         Becomes(r) == /\ fs' = [r.s EXCEPT !.fuse = NoFuse]
                       /\ ret' = [op |-> op, err |-> r.err, val |-> Result(r)]
                       /\ fds' = Held(r)
     IN \/ Becomes(calm) /\ UNCHANGED failures
        \/ /\ failures < MaxFailures
           /\ \E fuse \in 1..reads : Becomes(outcome[fuse])
           /\ failures' = failures + 1

Simply(op, G(_)) == Run(op, G, LAMBDA r : <<>>, LAMBDA r : fds)

Open(f, name, flags) ==
  /\ fds[f] = NoFile
  /\ Run(<<"open", f, name, flags>>, LAMBDA s : vfs_open(s, name, flags),
         LAMBDA r : <<>>,
         LAMBDA r : [fds EXCEPT ![f] = IF r.err = "OK" THEN r.val ELSE @])

Close(f) ==
  /\ fds[f] # NoFile
  /\ Run(<<"close", f>>, LAMBDA s : vfs_close(s, fds[f]), LAMBDA r : <<>>,
         LAMBDA r : [fds EXCEPT ![f] = NoFile])

Read(f, off, len) ==
  /\ fds[f] # NoFile
  /\ Run(<<"read", f, off, len>>,
         LAMBDA s : sfs_io(s, fds[f], "read", off, [k \in 1..len |-> ZeroCell]),
         LAMBDA r : IF r.err = "OK" THEN r.val ELSE <<>>,
         LAMBDA r : fds)

Write(f, off, v) ==
  /\ fds[f] # NoFile
  /\ Simply(<<"write", f, off, v>>,
            LAMBDA s : sfs_io(s, fds[f], "write", off, v))

\* sfs_stat reports the size; sfs_gettype's panic is for a type no inode has.
Stat(f) ==
  /\ fds[f] # NoFile
  /\ Run(<<"stat", f>>, LAMBDA s : Ok(s, <<<<Inode(s, fds[f]).size, "size">>>>),
         LAMBDA r : r.val, LAMBDA r : fds)

Fsync(f) ==
  /\ fds[f] # NoFile
  /\ Simply(<<"fsync">>, LAMBDA s : sfs_sync_inode(s, fds[f]))

Unsupported ==
  \/ Simply(<<"symlink">>, vfs_symlink)
  \/ Simply(<<"mkdir">>, vfs_mkdir)
  \/ Simply(<<"rmdir">>, vfs_rmdir)

Readlink(name) == Simply(<<"readlink", name>>, LAMBDA s : vfs_readlink(s, name))

Remove(name) == Simply(<<"remove", name>>, LAMBDA s : vfs_remove(s, name))

Rename(old, new) ==
  Simply(<<"rename", old, new>>, LAMBDA s : vfs_rename(s, old, new))

Link(old, new) == Simply(<<"link", old, new>>, LAMBDA s : vfs_link(s, old, new))

Sync == fs.mounted /\ Simply(<<"sync">>, sfs_sync)

Mount == Simply(<<"mount">>, vfs_mount)

Unmount == Simply(<<"unmount">>, vfs_unmount)

\* The operations: on descriptors, on names and on the volume.
Opens == \E f \in Fds, name \in Names, flags \in OpenModes : Open(f, name, flags)
Uses ==
  \/ \E f \in Fds : Close(f) \/ Stat(f) \/ Fsync(f)
  \/ \E f \in Fds, off \in Offsets :
       \/ \E len \in Lengths : Read(f, off, len)
       \/ \E v \in Writes : Write(f, off, v)
Removes == \E name \in Names : Remove(name) \/ Readlink(name)
Renames == \E old, new \in Names : Rename(old, new)
Links == \E old, new \in Names : Link(old, new)
Mounts == Sync \/ Mount \/ Unmount \/ Unsupported

Next == Opens \/ Uses \/ Removes \/ Renames \/ Links \/ Mounts

Spec == Init /\ [][Next]_vars
-----------------------------------------------------------------------------
\* What the volume holds: the loaded copy of an inode, or the one on disk.
Current(ino) == IF ino \in DOMAIN fs.vn THEN fs.vn[ino].i
                ELSE AsInode(fs.disk[ino])
Index(ino) == AsIndex(fs.disk[Current(ino).indirect])
Contents(ino) ==
  LET i == Current(ino)
      index == Index(ino)
      BlockOf(fb) == IF fb < NDirect THEN i.direct[fb]
                     ELSE IF i.indirect = 0 \/ fb - NDirect >= DbPerIdb THEN 0
                     ELSE index[fb - NDirect]
      CellOf(b, k) == IF b = 0 THEN ZeroCell ELSE AsCells(fs.disk[b])[k + 1]
  IN [k \in 1..i.size |-> CellOf(BlockOf((k - 1) \div Cells), (k - 1) % Cells)]

\* The directory entries, the names they give, and every inode there is.
Linked ==
  LET root == Contents(RootIno)
  IN {<<slot, root[slot]>> : slot \in {k \in DOMAIN root : root[k][1] # NoIno}}
Directory ==
  LET linked == {e[2] : e \in Linked}
  IN [name \in {c[2] : c \in linked} |-> (CHOOSE c \in linked : c[2] = name)[1]]
Inodes == {RootIno} \cup DOMAIN fs.vn \cup {e[2][1] : e \in Linked}
FreeMap == IF fs.mounted THEN fs.map ELSE fs.disk[MapBlock].m

\* Every place that holds the number of a block, and the number.
Places ==
  {<<ino, "inode", 0, ino>> : ino \in Inodes}
    \cup UNION {{<<ino, "direct", k, Current(ino).direct[k]>> :
                   k \in 0..(NDirect - 1)} : ino \in Inodes}
    \cup {<<ino, "indirect", 0, Current(ino).indirect>> : ino \in Inodes}
    \cup UNION {{<<ino, "index", k, Index(ino)[k]>> : k \in 0..(DbPerIdb - 1)} :
                  ino \in {i \in Inodes : Current(i).indirect # 0}}
Used == {p \in Places : p[4] # 0}

\* The free map is right: every block a file uses is marked, no block is in
\* two places, and without failures nothing else is marked.
FreeMapExact ==
  LET reserved == {SuperBlock, MapBlock}
      blocks == {p[4] : p \in Used}
  IN /\ Cardinality(blocks) = Cardinality(Used)
     /\ blocks \cap reserved = {}
     /\ reserved \cup blocks \subseteq FreeMap
     /\ failures = 0 => FreeMap = reserved \cup blocks

\* Every file's link count is the number of directory entries that lead to it,
\* and no name is in the directory twice.
LinksCounted ==
  /\ \A ino \in Inodes \ {RootIno} :
       Current(ino).links =
         Cardinality({e \in Linked : e[2][1] = ino})
  /\ \A d, e \in Linked : d[2][2] = e[2][2] => d = e

\* The volume is consistent after every operation, failed ones included: the
\* free map and the link counts are right (sfs_balloc, sfs_bfree, sfs_bmap,
\* sfs_truncate; sfs_creat, sfs_link, sfs_remove, sfs_rename with its undo;
\* across mounts), and SFS never panics over a volume it takes for corrupt
\* unless a read error or want of memory came first.
VolumeConsistent ==
  /\ FreeMapExact /\ LinksCounted
  /\ ret.err = "panic" => failures > 0

\* Between operations a vnode is loaded only for the descriptors that lead to
\* it, once for each, so that with all of them closed the volume can be
\* unmounted; the exception is an unlinked file whose erasure met a read error
\* (vnode_decref after every lookup, sfs_reclaim, vfs_open's error paths).
VnodesHeld ==
  ret.err # "panic" =>
    \A ino \in DOMAIN fs.vn :
      LET n == Cardinality({f \in Fds : fds[f] = ino})
      IN \/ n > 0 /\ fs.vn[ino].refs = n /\ fs.vn[ino].opens = n
         \/ n = 0 /\ failures > 0 /\ fs.vn[ino].i.links = 0

\* SFS is a file store: reads return what was written, across closing,
\* unlinking, renaming and remounting (vfs_open to vfs_link over sfs_io).
LiveInodes == {e[2][1] : e \in Linked} \cup (Range(fds) \ {NoFile})
F == INSTANCE FileStore WITH
       Ids <- Blocks,
       dir <- Directory,
       data <- [ino \in LiveInodes |-> Contents(ino)],
       open <- fds
ImplementsFileStore == F!Spec

\* States that differ in nothing the code will look at again: the answer of
\* the last operation, what free blocks hold (sfs_balloc clears a block), and
\* what sfs_sync_inode and sfs_mapio will overwrite.
Observable ==
  LET dead(b) == \/ b \notin FreeMap
                 \/ b \in DOMAIN fs.vn /\ fs.vn[b].dirty
                 \/ b = MapBlock /\ fs.mapdirty
  IN <<[fs EXCEPT !.disk = [b \in Blocks |-> IF dead(b) THEN ZeroBlock
                                             ELSE @[b]]],
       fds, failures, ret.err = "panic">>
=============================================================================
