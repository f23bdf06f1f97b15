------------------------------- MODULE Fstest -------------------------------
(***************************************************************************)
(* The file system tests of the kernel menu, kern/test/fstest.c (fs1 to    *)
(* fs5 and pf), over the file store that FileStore.tla specifies.  The     *)
(* menu's thread runs one test after another; four of them fork threads    *)
(* that use the store at the same time and are counted in again on         *)
(* threadsem.                                                              *)
(*                                                                         *)
(* A test function becomes the sequence of the calls it makes, todo[t].    *)
(* SFS keeps the promise of FileStore to one thread at a time: it has no   *)
(* lock, and its calls share static buffers and sleep in the middle.  So a *)
(* call is one step of the store as long as no other thread's call is      *)
(* under way; once two calls of two threads have overlapped (mixed), a     *)
(* call may answer anything, in that test and in all later ones, and what  *)
(* the volume holds is not followed any more.                              *)
(*                                                                         *)
(* Any call may fail.  A line of the test file is one cell, known by the   *)
(* amount its text was rotated by.  thread_fork does not fail here: the    *)
(* tests panic when it does.                                               *)
(***************************************************************************)
EXTENDS Integers, Sequences, FiniteSets, FiniteSetsExt, Functions

CONSTANTS
  NChunks, NThreads, NCreates,   \* NCHUNKS, NTHREADS, NCREATES
  BufSize,      \* the cells that fit the buffer of printfile
  FileSizes,    \* the sizes of the user's files, for printfile
  MaxFailures   \* bound: calls of the file system that fail

Workers == 0..(NThreads - 1)
Caller == NThreads
Testers == Workers \cup {Caller}
ZeroCell == -1
NoFile == 0
\* Names by their suffix: "", "%lu" and "%lu-%d"; and files of the user's.
Whole == <<>>
UserFiles == {<<0, 0, k>> : k \in FileSizes}
Names == {Whole} \cup UserFiles \cup {<<n>> : n \in Workers}
         \cup {<<n, i>> : n \in Workers, i \in 0..(NCreates - 1)}
Ids == 1..(Cardinality(UserFiles) + NThreads + 1)

VARIABLES
  dir, data, open, ret,   \* the file store
  todo,         \* the calls each thread still has to make
  threadsem,    \* the count of threadsem
  failed,       \* threads that have reported a failure in this test
  faults,       \* calls that have failed in this test
  total,        \* calls that have failed in all tests
  test,         \* the test that runs, or ran last
  printed,      \* what printfile has written to the console
  con,          \* printfile has the console open
  mixed         \* history: calls of two threads have overlapped

store == <<dir, data, open, ret>>
vars == <<dir, data, open, ret, todo, threadsem, failed, faults, total, test,
          printed, con, mixed>>

\* fstest_write opens with O_WRONLY|O_CREAT, and O_TRUNC when it writes alone.
Create == {"CREAT"}
CreateTrunc == {"CREAT", "TRUNC"}
ReadOnly == {}

S == INSTANCE FileStore WITH
       Fds <- Testers, OpenModes <- {Create, CreateTrunc, ReadOnly},
       Offsets <- 0..NChunks, Lengths <- {1, BufSize},
       Writes <- {<<c>> : c \in 0..25}

\* The text of a line turned by amt letters of the alphabet.
rotate(str, amt) == (str + ((amt + 2600) % 26)) % 26
Slogan == 0
-----------------------------------------------------------------------------
\* The tests as sequences of calls.

Lines(size, pos) ==
  SelectSeq([i \in 1..NChunks |-> i - 1], LAMBDA i : i % size = pos)

\* (Mutant: the file is truncated by every thread that opens it for writing.)
fstest_write_trunc(n, size, pos) ==
  <<<<"open", n, CreateTrunc>>>>
    \o [k \in 1..Len(Lines(size, pos)) |-> <<"write", n, Lines(size, pos)[k]>>]
    \o <<<<"close">>>>

fstest_write(n, size, pos) ==
  <<<<"open", n, IF size = 1 THEN CreateTrunc ELSE Create>>>>
    \o [k \in 1..Len(Lines(size, pos)) |-> <<"write", n, Lines(size, pos)[k]>>]
    \o <<<<"close">>>>

fstest_read(n) ==
  <<<<"open", n, ReadOnly>>>>
    \o [k \in 1..NChunks |-> <<"read", n, k - 1>>]
    \o <<<<"close">>>>

fstest_remove(n) == <<<<"remove", n>>>>

WriteReadRemove(n) == fstest_write(n, 1, 0) \o fstest_read(n) \o fstest_remove(n)

readstress_thread(t) == fstest_read(Whole)
writestress_thread(t) == WriteReadRemove(<<t>>)
writestress2_thread(t) == fstest_write(Whole, NThreads, t)
createstress_thread(t) ==
  LET f[i \in 0..NCreates] ==
        IF i = 0 THEN <<>> ELSE f[i - 1] \o WriteReadRemove(<<t, i - 1>>)
  IN f[NCreates]

\* The function each forked thread runs; every path of it ends with V.
Body(name, t) ==
  (CASE name = <<"fs2">> -> readstress_thread(t)
     [] name = <<"fs3">> -> writestress_thread(t)
     [] name = <<"fs4">> -> writestress2_thread(t)
     [] name = <<"fs5">> -> createstress_thread(t)) \o <<<<"V">>>>

ForkAndWait == [i \in 1..NThreads |-> <<"fork", i - 1>>]
               \o [i \in 1..NThreads |-> <<"P">>]

dofstest == WriteReadRemove(Whole)
doreadstress == fstest_write(Whole, 1, 0) \o ForkAndWait \o fstest_remove(Whole)
dowritestress == ForkAndWait
dowritestress2 ==
  <<<<"open", Whole, CreateTrunc>>, <<"close">>>> \o ForkAndWait
    \o fstest_read(Whole) \o fstest_remove(Whole)
docreatestress == ForkAndWait
printfile(n) == <<<<"open", n, ReadOnly>>, <<"console">>, <<"print", 0>>>>

Program(name) ==
  CASE name = <<"fs1">> -> dofstest
    [] name = <<"fs2">> -> doreadstress
    [] name = <<"fs3">> -> dowritestress
    [] name = <<"fs4">> -> dowritestress2
    [] name = <<"fs5">> -> docreatestress
    [] name[1] = "pf" -> printfile(name[2])
Tests == {<<"fs1">>, <<"fs2">>, <<"fs3">>, <<"fs4">>, <<"fs5">>}
         \cup {<<"pf", n>> : n \in UserFiles}
-----------------------------------------------------------------------------
Init ==
  /\ dir = [n \in UserFiles |-> Cardinality({m \in UserFiles : m[3] <= n[3]})]
  /\ data = [id \in Range(dir) |->
               LET n == CHOOSE n \in UserFiles : dir[n] = id
               IN [i \in 1..n[3] |-> i % 26]]
  /\ open = [t \in Testers |-> NoFile]
  /\ ret = [op |-> <<"none">>, err |-> "OK", val |-> <<>>]
  /\ todo = [t \in Testers |-> <<>>]
  /\ threadsem = 0 /\ failed = {} /\ faults = 0 /\ total = 0
  /\ test = <<>> /\ printed = <<>> /\ con = FALSE /\ mixed = FALSE

\* The menu starts a test (checkfilesystem has accepted its argument).
Start(name) ==
  /\ todo[Caller] = <<>>
  /\ todo' = [todo EXCEPT ![Caller] = Program(name)]
  /\ test' = name /\ failed' = {} /\ faults' = 0 /\ printed' = <<>>
  /\ UNCHANGED <<store, threadsem, total, con, mixed>>

Doing(t, call) == todo[t] # <<>> /\ Head(todo[t])[1] = call
Calling(t, call) == ~mixed /\ Doing(t, call)
Arg(t, i) == Head(todo[t])[i + 1]
Goes(t, steps) == todo' = [todo EXCEPT ![t] = steps \o Tail(@)]
\* The test function is left by its error path; a forked thread still does V.
Leaves(t, cleanup) ==
  todo' = [todo EXCEPT ![t] = cleanup \o IF t = Caller THEN <<>> ELSE <<<<"V">>>>]

\* The store answers the call op with err and val.
Answer(op, err, val) == ret' = [op |-> op, err |-> err, val |-> val]
Succeeds == UNCHANGED <<failed, faults, total>>

\* The call fails, and so does the test function.
Fault == total < MaxFailures /\ total' = total + 1 /\ faults' = faults + 1
Fails(t, op, cleanup) ==
  /\ Fault
  /\ failed' = failed \cup {t}
  /\ Answer(op, "EIO", <<>>)
  /\ Leaves(t, cleanup)

\* SFS gives a new file the lowest free inode number.
LowestId == \A id \in DOMAIN data' \ DOMAIN data : id = Min(Ids \ DOMAIN data)

\* A file that is not there, or opens with an error: nothing to clean up.
Open(t) ==
  /\ Calling(t, "open")
  /\ LET n == Arg(t, 1)
         flags == Arg(t, 2)
         op == <<"open", t, n, flags>>
     IN \/ /\ Goes(t, <<>>) /\ Answer(op, "OK", <<>>) /\ Succeeds
           /\ S!Open(t, n, flags) \/ S!Create(t, n, flags)
        \/ /\ Fails(t, op, <<>>)
           /\ S!Create(t, n, flags) \/ S!TruncateFails(t, n, flags) \/ S!Nothing
        \/ /\ n \notin DOMAIN dir /\ "CREAT" \notin flags
           /\ Answer(op, "ENOENT", <<>>) /\ S!Nothing
           /\ failed' = failed \cup {t} /\ Leaves(t, <<>>)
           /\ UNCHANGED <<faults, total>>
  /\ LowestId
  /\ UNCHANGED <<threadsem, test, printed, con, mixed>>

\* A failed write closes the file and removes it; the removal's result is not
\* looked at.
Write(t) ==
  /\ Calling(t, "write")
  /\ LET i == Arg(t, 2)
         v == <<rotate(Slogan, i)>>
         op == <<"write", t, i, v>>
     IN /\ \/ Goes(t, <<>>) /\ Answer(op, "OK", <<>>) /\ Succeeds
           \/ Fails(t, op, <<<<"close">>, <<"unlink", Arg(t, 1)>>>>)
        /\ S!Write(t, i, v)
  /\ UNCHANGED <<threadsem, test, printed, con, mixed>>

\* The cells the store gives from offset off.
Found(t, off, len) ==
  LET s == data[open[t]] IN SubSeq(s, off + 1, Min({off + len, Len(s)}))

\* A short read or the wrong text fails the test as an error does.
Read(t) ==
  /\ Calling(t, "read")
  /\ LET i == Arg(t, 2)
         op == <<"read", t, i, 1>>
         val == Found(t, i, 1)
     IN \/ /\ Answer(op, "OK", val) /\ S!Read(t, i, 1)
           /\ IF val # <<>> /\ val # <<ZeroCell>> /\ rotate(val[1], -i) = Slogan
              THEN Goes(t, <<>>) /\ Succeeds
              ELSE /\ failed' = failed \cup {t} /\ UNCHANGED <<faults, total>>
                   /\ Leaves(t, <<<<"close">>>>)
        \/ Fails(t, op, <<<<"close">>>>) /\ S!Nothing
  /\ UNCHANGED <<threadsem, test, printed, con, mixed>>

Close(t) ==
  /\ Calling(t, "close")
  /\ Answer(<<"close", t>>, "OK", <<>>) /\ S!Close(t)
  /\ Goes(t, <<>>) /\ Succeeds
  /\ UNCHANGED <<threadsem, test, printed, con, mixed>>

Remove(t) ==
  /\ Calling(t, "remove") \/ Calling(t, "unlink")
  /\ LET n == Arg(t, 1)
         op == <<"remove", n>>
     IN \/ Answer(op, "OK", <<>>) /\ S!Remove(n) /\ Goes(t, <<>>) /\ Succeeds
        \/ /\ n \notin DOMAIN dir
           /\ Answer(op, "ENOENT", <<>>) /\ S!Nothing /\ Leaves(t, <<>>)
           /\ failed' = failed \cup {t} /\ UNCHANGED <<faults, total>>
        \/ Fails(t, op, <<>>) /\ S!Nothing
  /\ UNCHANGED <<threadsem, test, printed, con, mixed>>

\* thread_fork and P in the menu's thread, V in the forked ones.
Fork ==
  /\ Doing(Caller, "fork")
  /\ LET u == Arg(Caller, 1)
     IN todo' = [todo EXCEPT ![Caller] = Tail(@), ![u] = Body(test, u)]
  /\ UNCHANGED <<store, threadsem, failed, faults, total, test, printed, con, mixed>>

P ==
  /\ Doing(Caller, "P") /\ threadsem > 0
  /\ threadsem' = threadsem - 1 /\ Goes(Caller, <<>>)
  /\ UNCHANGED <<store, failed, faults, total, test, printed, con, mixed>>

V(t) ==
  /\ Doing(t, "V")
  /\ threadsem' = threadsem + 1 /\ Goes(t, <<>>)
  /\ UNCHANGED <<store, failed, faults, total, test, printed, con, mixed>>

\* printfile opens the console after the file, ...
OpenConsole ==
  /\ Calling(Caller, "console")
  /\ \/ Goes(Caller, <<>>) /\ Succeeds /\ con' = TRUE /\ UNCHANGED ret
     \/ Fails(Caller, <<"open", "con:">>, <<<<"close">>>>) /\ UNCHANGED con
  /\ UNCHANGED <<dir, data, open, threadsem, test, printed, mixed>>

PrintDone == <<<<"conclose">>, <<"close">>>>

\* ... and copies buffer by buffer until a read comes back short; a short write
\* to the console is reported and passed over.
CopyOut ==
  /\ Calling(Caller, "print")
  /\ LET pos == Arg(Caller, 1)
         op == <<"read", Caller, pos, BufSize>>
         val == Found(Caller, pos, BufSize)
         next == IF Len(val) < BufSize THEN PrintDone ELSE <<<<"print", pos + Len(val)>>>>
     IN \/ /\ Answer(op, "OK", val) /\ S!Read(Caller, pos, BufSize)
           /\ \/ printed' = printed \o val /\ Goes(Caller, next) /\ Succeeds
              \/ /\ \E k \in 0 .. Len(val) - 1 : printed' = printed \o SubSeq(val, 1, k)
                 /\ Fault /\ Goes(Caller, next) /\ UNCHANGED failed
        \/ /\ Fails(Caller, op, PrintDone) /\ S!Nothing
           /\ UNCHANGED printed
  /\ UNCHANGED <<threadsem, test, con, mixed>>

\* The write to the console fails.
CopyOutFails ==
  /\ Calling(Caller, "print")
  /\ Fails(Caller, <<"write", "con:">>, PrintDone)
  /\ UNCHANGED <<dir, data, open, threadsem, test, printed, con, mixed>>

CloseConsole ==
  /\ Doing(Caller, "conclose")
  /\ con' = FALSE /\ Goes(Caller, <<>>)
  /\ UNCHANGED <<store, threadsem, failed, faults, total, test, printed, mixed>>
-----------------------------------------------------------------------------
\* A call of t at the same time as one of another thread, and every call after
\* that: it succeeds or fails, and the test function goes on accordingly.  Only
\* which files are open is followed.
FsCalls == {"open", "write", "read", "close", "remove", "unlink", "print", "console"}
InCall(t) == \E call \in FsCalls : Doing(t, call)
ErrorPath(t) ==
  CASE Doing(t, "write") -> <<<<"close">>, <<"unlink", Arg(t, 1)>>>>
    [] Doing(t, "read") \/ Doing(t, "console") -> <<<<"close">>>>
    [] OTHER -> <<>>

Mixed(t) ==
  /\ InCall(t) /\ (mixed \/ \E u \in Testers \ {t} : InCall(u))
  /\ mixed' = TRUE /\ dir' = <<>> /\ data' = <<>> /\ printed' = <<>>
  /\ \/ /\ Goes(t, IF Doing(t, "print") THEN PrintDone ELSE <<>>)
        /\ open' = [open EXCEPT ![t] = IF Doing(t, "open") THEN 1
                                       ELSE IF Doing(t, "close") THEN NoFile ELSE @]
        /\ con' = (con \/ Doing(t, "console"))
     \/ /\ ~\E call \in {"close", "unlink", "print"} : Doing(t, call)
        /\ Leaves(t, ErrorPath(t))
        /\ UNCHANGED <<open, con>>
  /\ Answer(<<"none">>, "OK", <<>>)
  /\ failed' = {} /\ faults' = 0 /\ total' = 0 /\ UNCHANGED <<threadsem, test>>

Next ==
  \/ \E name \in Tests : Start(name)
  \/ \E t \in Testers : Open(t) \/ Write(t) \/ Read(t) \/ Close(t) \/ Remove(t) \/ V(t)
  \/ \E t \in Testers : Mixed(t)
  \/ Fork \/ P \/ OpenConsole \/ CopyOut \/ CopyOutFails \/ CloseConsole

Spec == Init /\ [][Next]_vars
-----------------------------------------------------------------------------
\* The files a test makes.
TestFiles(name) ==
  CASE name \in {<<"fs1">>, <<"fs2">>, <<"fs4">>} -> {Whole}
    [] name = <<"fs3">> -> {<<n>> : n \in Workers}
    [] name = <<"fs5">> -> {n \in Names : Len(n) = 2}
    [] OTHER -> {}

\* Whenever the menu is ready for the next test, the last one has left nothing
\* behind in the kernel: no thread of it still runs, threadsem is back to zero,
\* and no file and no console is open, whatever failed and however the calls
\* overlapped.  And if no call failed in it, and no two calls have overlapped in
\* SFS, the test has passed, its files are gone and pf has printed the whole
\* file, whatever earlier, failed tests left on the volume: what threads write
\* by turns into one file, stride by stride (fs4), is all there.
TestsSound ==
  todo[Caller] = <<>> =>
    /\ threadsem = 0 /\ ~con
    /\ \A t \in Testers : todo[t] = <<>> /\ open[t] = NoFile
    /\ faults = 0 /\ ~mixed /\ test # <<>> =>
         /\ failed = {}
         /\ TestFiles(test) \cap DOMAIN dir = {}
         /\ test[1] = "pf" => printed = data[dir[test[2]]]
=============================================================================
