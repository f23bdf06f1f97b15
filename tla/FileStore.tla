----------------------------- MODULE FileStore -----------------------------
(***************************************************************************)
(* What a file system with one directory promises to the thread that uses  *)
(* it: names lead to files, files are sequences of cells, a file lives as  *)
(* long as a name or an open descriptor leads to it, and mounting,         *)
(* unmounting and synchronising change none of that.                       *)
(*                                                                         *)
(* An operation that reports success has done all of its work.  One that   *)
(* fails changes nothing, with three exceptions.  A write may have written *)
(* a part of what it was given, or only stretched the file to its offset.  *)
(* A creation may have created the file without opening it.  A truncation  *)
(* may have wiped cells of the file.                                       *)
(***************************************************************************)
EXTENDS Naturals, Sequences, Functions

CONSTANTS Names, Ids, Fds, OpenModes, Offsets, Lengths, Writes, NoFile, ZeroCell

VARIABLES
  dir,      \* the directory: a function from some of Names to Ids
  data,     \* the contents of every live file
  open,     \* the file each descriptor leads to, or NoFile
  ret       \* the last operation and its outcome

vars == <<dir, data, open, ret>>

Init ==
  /\ dir = <<>>
  /\ data = <<>>
  /\ open = [f \in Fds |-> NoFile]
  /\ ret = [op |-> <<"none">>, err |-> "OK", val |-> <<>>]

\* The step answers op with success and v, with success, or with an error.
Answers(op, v) == ret' = [op |-> op, err |-> "OK", val |-> v]
Does(op) == Answers(op, <<>>)
Fails(op) == ret'.op = op /\ ret'.err # "OK" /\ ret'.val = <<>>

\* The contents after a step: a file nothing leads to any more is gone.
Keep(contents) ==
  data' = Restrict(contents, Range(dir') \cup (Range(open') \ {NoFile}))

\* f with the additional value v at x.
Extended(f, x, v) ==
  [y \in DOMAIN f \cup {x} |-> IF y = x THEN v ELSE f[y]]

\* s with v written over it from offset off, holes filled with zeroes.
Overwrite(s, off, v) ==
  [i \in 1..(IF off + Len(v) > Len(s) THEN off + Len(v) ELSE Len(s)) |->
     IF i > off /\ i <= off + Len(v) THEN v[i - off]
     ELSE IF i <= Len(s) THEN s[i] ELSE ZeroCell]

Open(f, n, flags) ==
  /\ Does(<<"open", f, n, flags>>)
  /\ open[f] = NoFile /\ n \in DOMAIN dir /\ "EXCL" \notin flags
  /\ open' = [open EXCEPT ![f] = dir[n]]
  /\ dir' = dir
  /\ Keep(IF "TRUNC" \in flags THEN [data EXCEPT ![dir[n]] = <<>>] ELSE data)

\* A new, empty file appears under n; the open itself may still fail.
Create(f, n, flags) ==
  /\ ret'.op = <<"open", f, n, flags>>
  /\ open[f] = NoFile /\ n \notin DOMAIN dir /\ "CREAT" \in flags
  /\ \E id \in Ids \ DOMAIN data :
       /\ dir' = Extended(dir, n, id)
       /\ \/ Does(ret'.op) /\ open' = [open EXCEPT ![f] = id]
          \/ Fails(ret'.op) /\ open' = open
       /\ Keep(Extended(data, id, <<>>))

\* A truncation that fails half way keeps the length and wipes cells.
TruncateFails(f, n, flags) ==
  /\ Fails(<<"open", f, n, flags>>)
  /\ n \in DOMAIN dir /\ "TRUNC" \in flags
  /\ \E wiped \in SUBSET (1..Len(data[dir[n]])) :
       data' = [data EXCEPT ![dir[n]] =
                  [k \in DOMAIN @ |-> IF k \in wiped THEN ZeroCell ELSE @[k]]]
  /\ UNCHANGED <<dir, open>>

Close(f) ==
  /\ Does(<<"close", f>>)
  /\ open[f] # NoFile
  /\ open' = [open EXCEPT ![f] = NoFile]
  /\ dir' = dir
  /\ Keep(data)

Read(f, off, len) ==
  /\ ret'.op = <<"read", f, off, len>>
  /\ open[f] # NoFile
  /\ LET s == data[open[f]]
         end == IF off + len < Len(s) THEN off + len ELSE Len(s)
     IN Answers(ret'.op, SubSeq(s, off + 1, end))
  /\ UNCHANGED <<dir, data, open>>

Write(f, off, v) ==
  /\ ret'.op = <<"write", f, off, v>>
  /\ open[f] # NoFile
  /\ \E k \in 0..Len(v) :
       /\ IF k = Len(v) THEN Does(ret'.op) ELSE Fails(ret'.op)
       /\ data' = [data EXCEPT ![open[f]] = Overwrite(@, off, SubSeq(v, 1, k))]
  /\ UNCHANGED <<dir, open>>

Link(n, m) ==
  /\ Does(<<"link", n, m>>)
  /\ n \in DOMAIN dir /\ m \notin DOMAIN dir
  /\ dir' = Extended(dir, m, dir[n])
  /\ UNCHANGED <<data, open>>

Remove(n) ==
  /\ Does(<<"remove", n>>)
  /\ n \in DOMAIN dir
  /\ dir' = Restrict(dir, DOMAIN dir \ {n})
  /\ open' = open
  /\ Keep(data)

Rename(n, m) ==
  /\ Does(<<"rename", n, m>>)
  /\ n \in DOMAIN dir /\ m \notin DOMAIN dir
  /\ dir' = Restrict(Extended(dir, m, dir[n]), (DOMAIN dir \cup {m}) \ {n})
  /\ UNCHANGED <<data, open>>

Stat(f) ==
  /\ ret'.op = <<"stat", f>>
  /\ open[f] # NoFile
  /\ Answers(ret'.op, <<<<Len(data[open[f]]), "size">>>>)
  /\ UNCHANGED <<dir, data, open>>

\* Synchronising, mounting and unmounting, and every failure without effect.
Nothing ==
  /\ \/ Fails(ret'.op)
     \/ \E op \in {"sync", "fsync", "mount", "unmount"} : Does(<<op>>)
  /\ UNCHANGED <<dir, data, open>>

Next ==
  \/ Nothing
  \/ \E f \in Fds, n \in Names, flags \in OpenModes :
       Open(f, n, flags) \/ Create(f, n, flags) \/ TruncateFails(f, n, flags)
  \/ \E f \in Fds : Close(f) \/ Stat(f)
  \/ \E f \in Fds, off \in Offsets :
       \/ \E len \in Lengths : Read(f, off, len)
       \/ \E v \in Writes : Write(f, off, v)
  \/ \E n \in Names : Remove(n)
  \/ \E n, m \in Names : Link(n, m) \/ Rename(n, m)

Spec == Init /\ [][Next]_vars
=============================================================================
