------------------------------ MODULE FileTable ------------------------------
(***************************************************************************)
(* The file descriptors of the device file system (components/dfs): the    *)
(* entries of fd_table with their reference counts, and the calls of       *)
(* several threads on them.  What dfs_lock protects is one step.  The file *)
(* system below keeps an open file for each entry (fd->data); of it only   *)
(* matters whether a call succeeds.                                        *)
(***************************************************************************)
EXTENDS Integers, FiniteSets

CONSTANTS FileUser,
          File,        \* files, by their name under the mount point
          DFS_FD_MAX,
          FullPath,    \* DFS_FS_FLAG_FULLPATH of the file system
          RefMax,      \* bound: calls on one entry at the same time
          NoFile

\* A path as dfs_file_open stores it and as fd_is_open compares it, for a file
\* system that is not mounted on "/".
Stored(file) == IF FullPath THEN <<"mount", file>> ELSE <<file>>
Compared(file) == <<file>>

ASSUME FileTableType == /\ DFS_FD_MAX \in Nat \ {0}
                        /\ RefMax \in Nat \ {0}
                        /\ FullPath \in BOOLEAN
                        /\ NoFile \notin File \cup Nat
                        /\ \A file \in File : NoFile # Stored(file)

VARIABLES fd_table,  \* the entries
          file_call, \* the call each thread is in
          opened,    \* descriptors that open has returned and no close taken
          strings,   \* ghost: path names that are allocated for entries
          files      \* ghost: open files the file system keeps for entries

dfsvars == <<fd_table, file_call, opened, strings, files>>

Fd == 0 .. DFS_FD_MAX - 1

Clear == [ref_count |-> 0, magic |-> FALSE, fs |-> FALSE, path |-> NoFile,
          data |-> NoFile]

NoCall == [at |-> "run", fd |-> NoFile, file |-> NoFile]

DfsTypeOK ==
  /\ fd_table \in [Fd -> [ref_count : 0 .. RefMax + 2, magic : BOOLEAN,
                          fs : BOOLEAN,
                          path : {NoFile} \cup {Stored(x) : x \in File},
                          data : {NoFile} \cup File]]
  /\ file_call \in [FileUser ->
                      [at : {"run", "get", "lookup", "path", "open", "put",
                             "fail", "read", "done", "close", "free", "closed",
                             "kept", "unlink"},
                       fd : {NoFile} \cup Fd, file : {NoFile} \cup File]]
  /\ opened \subseteq Fd
  /\ strings \in Nat /\ files \in Nat

DfsInit ==
  /\ fd_table = [f \in Fd |-> Clear]
  /\ file_call = [t \in FileUser |-> NoCall]
  /\ opened = {}
  /\ strings = 0 /\ files = 0

FdOf(t) == file_call[t].fd

InCall(t, place) == file_call[t].at = place

Calls(t, place, f, file) ==
  file_call' = [file_call EXCEPT ![t] = [at |-> place, fd |-> f, file |-> file]]

CallGoes(t, place) == file_call' = [file_call EXCEPT ![t].at = place]

Returns(t) == file_call' = [file_call EXCEPT ![t] = NoCall]

\* fd_put.
Put(entry) == IF entry.ref_count = 1 THEN Clear
              ELSE [entry EXCEPT !.ref_count = @ - 1]

-----------------------------------------------------------------------------
(* open and opendir *)

Free == {f \in Fd : fd_table[f].ref_count = 0}

Open(t, file) ==
  /\ InCall(t, "run") /\ Free # {}
  /\ \E f \in Free :
       /\ \A g \in Free : f <= g
       /\ fd_table' = [fd_table EXCEPT ![f].ref_count = 1, ![f].magic = TRUE]
       /\ Calls(t, "get", f, file)
  /\ UNCHANGED <<opened, strings, files>>

OpenGet(t) ==
  /\ InCall(t, "get")
  /\ fd_table' = [fd_table EXCEPT ![FdOf(t)].ref_count = @ + 1]
  /\ CallGoes(t, "lookup")
  /\ UNCHANGED <<opened, strings, files>>

\* dfs_file_open finds the file system, or none.
OpenLookup(t) ==
  /\ InCall(t, "lookup")
  /\ \/ /\ fd_table' = [fd_table EXCEPT ![FdOf(t)].fs = TRUE]
        /\ CallGoes(t, "path")
     \/ CallGoes(t, "fail") /\ UNCHANGED fd_table
  /\ UNCHANGED <<opened, strings, files>>

OpenPath(t) ==
  /\ InCall(t, "path")
  /\ fd_table' = [fd_table EXCEPT ![FdOf(t)].path = Stored(file_call[t].file)]
  /\ strings' = strings + 1
  /\ CallGoes(t, "open")
  /\ UNCHANGED <<opened, files>>

\* Its call of the file system, which may fail; the path is freed then.
OpenFile(t) ==
  /\ InCall(t, "open")
  /\ \/ /\ fd_table' = [fd_table EXCEPT ![FdOf(t)].data = file_call[t].file]
        /\ files' = files + 1
        /\ CallGoes(t, "put")
        /\ UNCHANGED strings
     \/ /\ fd_table' = [fd_table EXCEPT ![FdOf(t)].path = NoFile]
        /\ strings' = strings - 1
        /\ CallGoes(t, "fail")
        /\ UNCHANGED files
  /\ UNCHANGED opened

OpenReturn(t) ==
  /\ InCall(t, "put")
  /\ fd_table' = [fd_table EXCEPT ![FdOf(t)] = Put(@)]
  /\ opened' = opened \cup {FdOf(t)}
  /\ Returns(t)
  /\ UNCHANGED <<strings, files>>

\* opendir without memory for its DIR closes the directory again, which does
\* not fail.
OpendirCloses(t) ==
  /\ InCall(t, "put")
  /\ files' = files - 1
  /\ CallGoes(t, "free")
  /\ UNCHANGED <<fd_table, opened, strings>>

\* Faulty variant: one reference is released.
OpenFailsOnce(t) ==
  /\ InCall(t, "fail")
  /\ fd_table' = [fd_table EXCEPT ![FdOf(t)] = Put(@)]
  /\ Returns(t)
  /\ UNCHANGED <<opened, strings, files>>

\* The first of two fd_put of a failed open; the second one ends the call.
OpenFails(t) ==
  /\ InCall(t, "fail")
  /\ fd_table' = [fd_table EXCEPT ![FdOf(t)] = Put(@)]
  /\ CallGoes(t, "closed")
  /\ UNCHANGED <<opened, strings, files>>

-----------------------------------------------------------------------------
(* read, write, lseek, fstat, fsync, readdir and the like; close, closedir *)

Known(f) == f \in opened /\ fd_table[f].magic /\ fd_table[f].ref_count <= RefMax

\* Any thread may use an open descriptor, and is still in its call when another
\* one closes it.
Read(t, f) ==
  /\ InCall(t, "run") /\ Known(f)
  /\ fd_table' = [fd_table EXCEPT ![f].ref_count = @ + 1]
  /\ Calls(t, "read", f, fd_table[f].data)
  /\ UNCHANGED <<opened, strings, files>>

ReadFile(t) ==
  /\ InCall(t, "read")
  /\ CallGoes(t, "done")
  /\ UNCHANGED <<fd_table, opened, strings, files>>

\* Its fd_put, and the one of a close that failed.
CallReturns(t) ==
  /\ InCall(t, "done") \/ InCall(t, "kept")
  /\ fd_table' = [fd_table EXCEPT ![FdOf(t)] = Put(@)]
  /\ opened' = opened \cup {f \in {FdOf(t)} : InCall(t, "kept")}
  /\ Returns(t)
  /\ UNCHANGED <<strings, files>>

\* fd_get; a descriptor is closed by one thread.
Close(t, f) ==
  /\ InCall(t, "run") /\ Known(f)
  /\ fd_table' = [fd_table EXCEPT ![f].ref_count = @ + 1]
  /\ opened' = opened \ {f}
  /\ Calls(t, "close", f, fd_table[f].data)
  /\ UNCHANGED <<strings, files>>

\* dfs_file_close: a file system that fails keeps its file open.
CloseFile(t) ==
  /\ InCall(t, "close")
  /\ \/ files' = files - 1 /\ CallGoes(t, "free")
     \/ CallGoes(t, "kept") /\ UNCHANGED files
  /\ UNCHANGED <<fd_table, opened, strings>>

\* Faulty variant: the path is not freed.
CloseKeepsPath(t) ==
  /\ InCall(t, "free")
  /\ fd_table' = [fd_table EXCEPT ![FdOf(t)] = Put([@ EXCEPT !.path = NoFile])]
  /\ CallGoes(t, "closed")
  /\ UNCHANGED <<opened, strings, files>>

\* The path is freed; then the first fd_put.
CloseFree(t) ==
  /\ InCall(t, "free")
  /\ fd_table' = [fd_table EXCEPT ![FdOf(t)] = Put([@ EXCEPT !.path = NoFile])]
  /\ strings' = strings - 1
  /\ CallGoes(t, "closed")
  /\ UNCHANGED <<opened, files>>

\* Faulty variant: the entry is cleared by the close, whoever still uses it.
LastPutClears(t) ==
  /\ InCall(t, "closed")
  /\ fd_table' = [fd_table EXCEPT ![FdOf(t)] = Clear]
  /\ Returns(t)
  /\ UNCHANGED <<opened, strings, files>>

LastPut(t) ==
  /\ InCall(t, "closed")
  /\ fd_table' = [fd_table EXCEPT ![FdOf(t)] = Put(@)]
  /\ Returns(t)
  /\ UNCHANGED <<opened, strings, files>>

-----------------------------------------------------------------------------
(* unlink, rmdir *)

\* Faulty variant: a path is looked for in the entries that are in use by calls.
fd_is_openInUse(file) ==
  \E f \in Fd : /\ fd_table[f].fs /\ fd_table[f].ref_count > 1
                /\ fd_table[f].path = Compared(file)

\* An entry without a path is equal to none.
fd_is_open(file) ==
  \E f \in Fd : fd_table[f].fs /\ fd_table[f].path = Compared(file)

Unlink(t, file) ==
  /\ InCall(t, "run") /\ ~fd_is_open(file)
  /\ Calls(t, "unlink", NoFile, file)
  /\ UNCHANGED <<fd_table, opened, strings, files>>

UnlinkFile(t) ==
  /\ InCall(t, "unlink")
  /\ Returns(t)
  /\ UNCHANGED <<fd_table, opened, strings, files>>

DfsNext ==
  \E t \in FileUser :
    \/ \E file \in File : Open(t, file) \/ Unlink(t, file)
    \/ \E f \in Fd : Read(t, f) \/ Close(t, f)
    \/ OpenGet(t) \/ OpenLookup(t) \/ OpenPath(t) \/ OpenFile(t)
    \/ OpenReturn(t) \/ OpendirCloses(t) \/ OpenFails(t)
    \/ ReadFile(t) \/ CallReturns(t)
    \/ CloseFile(t) \/ CloseFree(t) \/ LastPut(t)
    \/ UnlinkFile(t)

DfsSpec == DfsInit /\ [][DfsNext]_dfsvars

-----------------------------------------------------------------------------
(* Properties *)

\* Calls that have fd_get but not their fd_put behind them.
Getters(f) ==
  {t \in FileUser : FdOf(t) = f /\ ~InCall(t, "get") /\ ~InCall(t, "closed")}

\* The descriptor itself is a reference until the last fd_put.
Descriptor(f) ==
  f \in opened \/ \E t \in FileUser :
    /\ FdOf(t) = f
    /\ file_call[t].at \in {"get", "lookup", "path", "open", "put", "fail",
                            "close", "free", "closed", "kept"}

\* Through every failure of open, opendir and close a descriptor counts once
\* and each call on it once, so that an entry is neither lost nor given away
\* while a call holds it.
ReferencesCounted ==
  \A f \in Fd : fd_table[f].ref_count =
    Cardinality(Getters(f)) + (IF Descriptor(f) THEN 1 ELSE 0)

\* A call goes on with the entry it looked up: no open takes the entry before
\* the call has put it.
EntryIsNotReused ==
  \A t \in FileUser : file_call[t].at \in {"read", "done"} =>
    /\ fd_table[FdOf(t)].data = file_call[t].file
    /\ \A u \in FileUser : FdOf(u) = FdOf(t) => ~InCall(u, "get")

\* An entry that is free has given back its path name and its file.
NothingLeaks ==
  /\ strings = Cardinality({f \in Fd : fd_table[f].path # NoFile})
  /\ (\A t \in FileUser : InCall(t, "run")) =>
       /\ files = Cardinality(opened)
       /\ \A f \in Fd \ opened : fd_table[f] = Clear

\* "function will return whether this file has been opend" (dfs.c:204).
OpenFileIsFound == \A f \in opened : fd_is_open(fd_table[f].data)

\* Threads that open, use and close the same descriptors, each of which may
\* fail, leave the table exact: nothing is leaked, reused early or overlooked.
DescriptorsConsistent ==
  ReferencesCounted /\ EntryIsNotReused /\ NothingLeaks /\ OpenFileIsFound

\* "Check whether file is already open" (dfs_file.c:254): an unlink that goes
\* on is of a file nobody has opened.
UnlinksNoOpenFile ==
  \A t \in FileUser : InCall(t, "unlink") =>
    \A f \in opened : fd_table[f].data # file_call[t].file
=============================================================================
