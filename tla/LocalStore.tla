----------------------------- MODULE LocalStore -----------------------------
(***************************************************************************)
(* storage.Local: the store on a file system.  An object is written to a   *)
(* temporary file beside its key and renamed to it; a reader holds the     *)
(* file it opened, whatever happens to the name; a listing walks the whole *)
(* tree and takes any file it finds there for a key.                       *)
(*                                                                         *)
(* A name stands for a directory entry, an inode for the file it leads to. *)
(* The content of a file is the object written to it, or Torn: nothing yet *)
(* or only the beginning.                                                  *)
(***************************************************************************)
EXTENDS FiniteSets

CONSTANTS
    Procs,      \* processes and threads that use the store
    Calls,      \* the calls they make
    Ids,        \* backup ids
    Temps,      \* random parts of temporary names
    Versions,   \* the different objects put under one key
    Inodes,
    None, Torn

Dirs == {"artifacts", "manifests"}
Key == [dir : Dirs, id : Ids]
Temp == [dir : Dirs, id : Temps]
Name == Key \cup Temp
Value == [id : Ids, version : Versions]

ASSUME CallsTyped == Calls \subseteq {"put", "get", "delete", "load"}
ASSUME NoneIsNothing == None \notin Name \cup Value \cup Inodes
ASSUME TornIsNoObject == Torn \notin Value \cup {None}
ASSUME TempsAreNoIds == Temps \cap Ids = {}

VARIABLES
    names,   \* the tree: the inode under each name
    data,    \* the content of each inode
    jobs,    \* what each process is doing
    stable,  \* history: ids listed when a load started, not deleted since
    quiet,   \* history: loads nobody has disturbed
    litter   \* history: temporary files of killed calls and of removes that failed

files == <<names, data>>
history == <<stable, quiet, litter>>
vars == <<names, data, jobs, stable, quiet, litter>>

Job == [
    op    : {"none", "put", "get", "delete", "load"},
    pc    : {"idle", "create", "copy", "rename", "cleanup", "open", "read", "remove",
             "readdir", "lstat", "loadopen", "decode", "returned", "failed"},
    key   : Key \cup {None},
    val   : Value \cup {None},
    tmp   : Temp \cup {None},
    inode : Inodes \cup {None},   \* the open file
    done  : BOOLEAN,              \* the call has taken effect
    dir   : Dirs,                 \* the directory a walk is in
    todo  : SUBSET Name,          \* entries read and not yet looked at
    keys  : SUBSET Name,          \* names the walk has found under the prefix
    got   : SUBSET Value]         \* objects loaded

Idle == [op |-> "none", pc |-> "idle", key |-> None, val |-> None, tmp |-> None,
         inode |-> None, done |-> FALSE, dir |-> "artifacts", todo |-> {}, keys |-> {},
         got |-> {}]

TypeOK ==
    /\ names \in [Name -> Inodes \cup {None}]
    /\ data \in [Inodes -> Value \cup {Torn}]
    /\ jobs \in [Procs -> Job]
    /\ stable \in [Procs -> SUBSET Ids]
    /\ quiet \in SUBSET Procs
    /\ litter \in SUBSET Temp

Init ==
    /\ names = [n \in Name |-> None]
    /\ data = [i \in Inodes |-> Torn]
    /\ jobs = [p \in Procs |-> Idle]
    /\ stable = [p \in Procs |-> {}]
    /\ quiet = {}
    /\ litter = {}

Exists(n) == names[n] # None

ManifestKey(i) == [dir |-> "manifests", id |-> i]
Listed(tree) == {i \in Ids : tree[ManifestKey(i)] # None}

At(p, step) == jobs[p].pc = step
Becomes(p, job) == jobs' = [jobs EXCEPT ![p] = job]
Goes(p, step) == Becomes(p, [jobs[p] EXCEPT !.pc = step])
Fails(p) == Becomes(p, [Idle EXCEPT !.op = "load", !.pc = "failed"])
Starts(p, job) == At(p, "idle") /\ job.op \in Calls /\ Becomes(p, job)

\* A change of the tree disturbs every load but the changer's own.
Disturbs(p) == quiet' = quiet \cap {p}

-----------------------------------------------------------------------------
(* Put                                                                     *)

CallPut(p) ==
    /\ \E k \in Key, v \in Versions :
          Starts(p, [Idle EXCEPT !.op = "put", !.pc = "create", !.key = k,
                                 !.val = [id |-> k.id, version |-> v]])
    /\ UNCHANGED <<files, history>>

FreeInode(i) ==
    /\ \A n \in Name : names[n] # i
    /\ \A p \in Procs : jobs[p].inode # i

\* A random name is no name in use, and none another call still remembers.
FreeTemp(t) == ~Exists(t) /\ \A p \in Procs : jobs[p].tmp # t

\* Mutant: the old object is removed first.
CreateTempRemovingOld(p) ==
    /\ At(p, "create")
    /\ \E t \in Temp, i \in Inodes :
          /\ t.dir = jobs[p].key.dir /\ FreeTemp(t) /\ FreeInode(i)
          /\ names' = [names EXCEPT ![t] = i, ![jobs[p].key] = None]
          /\ data' = [data EXCEPT ![i] = Torn]
          /\ Becomes(p, [jobs[p] EXCEPT !.pc = "copy", !.tmp = t, !.inode = i])
    /\ Disturbs(p)
    /\ UNCHANGED <<stable, litter>>

\* In the directory of the key, so that the rename stays on one file system.
CreateTemp(p) ==
    /\ At(p, "create")
    /\ \E t \in Temp, i \in Inodes :
          /\ t.dir = jobs[p].key.dir /\ FreeTemp(t) /\ FreeInode(i)
          /\ names' = [names EXCEPT ![t] = i]
          /\ data' = [data EXCEPT ![i] = Torn]
          /\ Becomes(p, [jobs[p] EXCEPT !.pc = "copy", !.tmp = t, !.inode = i])
    /\ Disturbs(p)
    /\ UNCHANGED <<stable, litter>>

\* The directory or the file cannot be made.
CreateFails(p) ==
    /\ At(p, "create")
    /\ Becomes(p, Idle)
    /\ UNCHANGED <<files, history>>

\* The reader is copied to its end and the file is closed.
Copy(p) ==
    /\ At(p, "copy")
    /\ data' = [data EXCEPT ![jobs[p].inode] = jobs[p].val]
    /\ Becomes(p, [jobs[p] EXCEPT !.pc = "rename", !.inode = None])
    /\ Disturbs(p)
    /\ UNCHANGED <<names, stable, litter>>

\* Mutant: the error of the copy is not looked at.
CopyFailsUnnoticed(p) ==
    /\ At(p, "copy")
    /\ Becomes(p, [jobs[p] EXCEPT !.pc = "rename", !.inode = None])
    /\ UNCHANGED <<files, history>>

\* Mutant: the temporary file is removed after a rename only.
CopyFailsKeeping(p) ==
    /\ At(p, "copy")
    /\ Becomes(p, Idle)
    /\ UNCHANGED <<files, history>>

\* The reader, a write or the close fails.
CopyFails(p) ==
    /\ At(p, "copy")
    /\ Becomes(p, [jobs[p] EXCEPT !.pc = "cleanup", !.inode = None])
    /\ UNCHANGED <<files, history>>

Rename(p) ==
    /\ At(p, "rename")
    /\ names' = [names EXCEPT ![jobs[p].key] = names[jobs[p].tmp], ![jobs[p].tmp] = None]
    /\ Becomes(p, [jobs[p] EXCEPT !.pc = "cleanup", !.done = TRUE])
    /\ Disturbs(p)
    /\ UNCHANGED <<data, stable, litter>>

RenameFails(p) ==
    /\ At(p, "rename")
    /\ Goes(p, "cleanup")
    /\ UNCHANGED <<files, history>>

\* The deferred remove, a no-op if the rename succeeded.
RemoveTemp(p) ==
    /\ At(p, "cleanup")
    /\ names' = [names EXCEPT ![jobs[p].tmp] = None]
    /\ Becomes(p, Idle)
    /\ Disturbs(p)
    /\ UNCHANGED <<data, stable, litter>>

\* The temporary file of the call, if its name still leads to it.
Remains(p) == {t \in Temp : t = jobs[p].tmp /\ Exists(t)}

\* The error of the deferred remove is looked at by nobody.
RemoveTempFails(p) ==
    /\ At(p, "cleanup")
    /\ Remains(p) # {}
    /\ litter' = litter \cup Remains(p)
    /\ Becomes(p, Idle)
    /\ UNCHANGED <<files, stable, quiet>>

-----------------------------------------------------------------------------
(* Get and Delete                                                          *)

CallGet(p) ==
    /\ \E k \in Key : Starts(p, [Idle EXCEPT !.op = "get", !.pc = "open", !.key = k])
    /\ UNCHANGED <<files, history>>

Open(p) ==
    /\ At(p, "open")
    /\ Exists(jobs[p].key)
    /\ Becomes(p, [jobs[p] EXCEPT !.pc = "read", !.inode = names[jobs[p].key],
                                  !.done = TRUE])
    /\ UNCHANGED <<files, history>>

\* A missing key or an input/output error.
OpenFails(p) ==
    /\ At(p, "open")
    /\ Becomes(p, Idle)
    /\ UNCHANGED <<files, history>>

\* The caller reads the open file to its end, however late.
Read(p) ==
    /\ At(p, "read")
    /\ Becomes(p, Idle)
    /\ UNCHANGED <<files, history>>

CallDelete(p) ==
    /\ \E k \in Key : Starts(p, [Idle EXCEPT !.op = "delete", !.pc = "remove", !.key = k])
    /\ UNCHANGED <<files, history>>

\* A key that does not exist is no error.
Delete(p) ==
    /\ At(p, "remove")
    /\ names' = [names EXCEPT ![jobs[p].key] = None]
    /\ Becomes(p, [jobs[p] EXCEPT !.pc = "returned", !.done = TRUE])
    /\ stable' = [q \in Procs |-> {i \in stable[q] : ManifestKey(i) # jobs[p].key}]
    /\ Disturbs(p)
    /\ UNCHANGED <<data, litter>>

DeleteFails(p) ==
    /\ At(p, "remove")
    /\ Becomes(p, Idle)
    /\ UNCHANGED <<files, history>>

-----------------------------------------------------------------------------
(* LoadAll: List("manifests/"), then open and decode each name found.      *)

CallLoad(p) ==
    /\ Starts(p, [Idle EXCEPT !.op = "load", !.pc = "readdir"])
    /\ stable' = [stable EXCEPT ![p] = Listed(names)]
    /\ quiet' = IF \A q \in Procs \ {p} : At(q, "idle") THEN quiet \cup {p} ELSE quiet \ {p}
    /\ UNCHANGED <<files, litter>>

\* The walk reads a directory before it looks at its entries.
ReadDir(p) ==
    /\ At(p, "readdir")
    /\ Becomes(p, [jobs[p] EXCEPT !.pc = "lstat",
                                  !.todo = {n \in Name : Exists(n) /\ n.dir = jobs[p].dir}])
    /\ UNCHANGED <<files, history>>

\* Any file is a key; those outside the prefix are looked at and left out.
Lstat(p) ==
    /\ At(p, "lstat")
    /\ \E n \in jobs[p].todo :
          /\ Exists(n)
          /\ Becomes(p, [jobs[p] EXCEPT !.todo = @ \ {n},
                                        !.keys = IF n.dir = "manifests" THEN @ \cup {n} ELSE @])
    /\ UNCHANGED <<files, history>>

\* A file gone since its directory was read ends the walk, in any directory.
LstatFails(p) ==
    /\ At(p, "lstat")
    /\ \E n \in jobs[p].todo : ~Exists(n)
    /\ Fails(p)
    /\ UNCHANGED <<files, history>>

\* artifacts comes before manifests, and nothing after it.
Walked(p) ==
    /\ At(p, "lstat")
    /\ jobs[p].todo = {}
    /\ Becomes(p, IF jobs[p].dir = "artifacts"
                    THEN [jobs[p] EXCEPT !.pc = "readdir", !.dir = "manifests"]
                    ELSE [jobs[p] EXCEPT !.pc = "loadopen"])
    /\ UNCHANGED <<files, history>>

LoadOpen(p) ==
    /\ At(p, "loadopen")
    /\ \E n \in jobs[p].keys :
          /\ Exists(n)
          /\ Becomes(p, [jobs[p] EXCEPT !.pc = "decode", !.keys = @ \ {n},
                                        !.inode = names[n]])
    /\ UNCHANGED <<files, history>>

LoadOpenFails(p) ==
    /\ At(p, "loadopen")
    /\ \E n \in jobs[p].keys : ~Exists(n)
    /\ Fails(p)
    /\ UNCHANGED <<files, history>>

\* Mutant: a manifest that does not decode is taken for an empty one.
DecodeUnchecked(p) ==
    /\ At(p, "decode")
    /\ Becomes(p, [jobs[p] EXCEPT !.pc = "loadopen", !.inode = None,
                                  !.got = @ \cup {data[jobs[p].inode]}])
    /\ UNCHANGED <<files, history>>

Decode(p) ==
    /\ At(p, "decode")
    /\ data[jobs[p].inode] \in Value
    /\ Becomes(p, [jobs[p] EXCEPT !.pc = "loadopen", !.inode = None,
                                  !.got = @ \cup {data[jobs[p].inode]}])
    /\ UNCHANGED <<files, history>>

DecodeFails(p) ==
    /\ At(p, "decode")
    /\ data[jobs[p].inode] = Torn
    /\ Fails(p)
    /\ UNCHANGED <<files, history>>

Loaded(p) ==
    /\ At(p, "loadopen")
    /\ jobs[p].keys = {}
    /\ Goes(p, "returned")
    /\ UNCHANGED <<files, history>>

Return(p) ==
    /\ jobs[p].pc \in {"returned", "failed"}
    /\ Becomes(p, Idle)
    /\ UNCHANGED <<files, history>>

\* Killed: the kernel closes the files, nothing removes the temporary one.
Crash(p) ==
    /\ ~At(p, "idle")
    /\ litter' = litter \cup Remains(p)
    /\ Becomes(p, Idle)
    /\ UNCHANGED <<files, stable, quiet>>

PutStep(p) ==
    \/ CallPut(p) \/ CreateTemp(p) \/ CreateFails(p) \/ Copy(p) \/ CopyFails(p)
    \/ Rename(p) \/ RenameFails(p) \/ RemoveTemp(p) \/ RemoveTempFails(p)

KeyStep(p) ==
    \/ CallGet(p) \/ Open(p) \/ OpenFails(p) \/ Read(p)
    \/ CallDelete(p) \/ Delete(p) \/ DeleteFails(p)

LoadStep(p) ==
    \/ CallLoad(p) \/ ReadDir(p) \/ Lstat(p) \/ LstatFails(p) \/ Walked(p)
    \/ LoadOpen(p) \/ LoadOpenFails(p) \/ Decode(p) \/ DecodeFails(p) \/ Loaded(p)

Next == \E p \in Procs : PutStep(p) \/ KeyStep(p) \/ LoadStep(p) \/ Return(p) \/ Crash(p)

Spec == Init /\ [][Next]_vars

-----------------------------------------------------------------------------

\* A load that succeeds returns every id that was listed when it started and has
\* not been deleted since, however often its manifest was replaced meanwhile
\* (Put's rename, List, LoadAll).
LoadFindsListed ==
    \A p \in Procs : jobs[p].op = "load" /\ At(p, "returned") =>
        stable[p] \subseteq {v.id : v \in jobs[p].got}

LoadsExactly(p) ==
    /\ ~At(p, "failed")
    /\ At(p, "returned") =>
          jobs[p].got = {data[names[ManifestKey(i)]] : i \in Listed(names)}

\* A load nobody disturbs succeeds and returns the manifests under the keys,
\* nothing else, as long as no put was killed and no deferred remove failed: every
\* other put, the ones that fail included, leaves no temporary file for the walk to
\* take for a manifest (Put's deferred remove, Walk, LoadAll).
UndisturbedLoadIsExact ==
    \A p \in quiet : jobs[p].op = "load" /\ litter = {} => LoadsExactly(p)

\* artifact.go:104: loadall reads all manifests from storage.  Not so once a
\* process was killed inside Put.
LoadAllReadsAll ==
    \A p \in quiet : jobs[p].op = "load" => LoadsExactly(p)

\* Put, Get and Delete are atomic whatever overlaps and whoever is killed: the
\* object under a key is always one whole object somebody put there, a reader
\* sees one that was there during its call, and a call that failed did nothing.
Objects == [k \in Key |-> IF Exists(k) THEN data[names[k]] ELSE None]

\* The request a job is, seen from outside; content is data.
RequestOf(job, content) ==
    IF job.op \in {"put", "get", "delete"}
      THEN [op   |-> job.op,
            key  |-> job.key,
            val  |-> IF job.op = "get" /\ job.done THEN content[job.inode] ELSE job.val,
            done |-> job.done]
      ELSE [op |-> "none", key |-> None, val |-> None, done |-> FALSE]

Requests == [p \in Procs |-> RequestOf(jobs[p], data)]

Atomic == INSTANCE ObjectStore WITH objects <- Objects, request <- Requests

ImplementsObjectStore == Atomic!Spec
=============================================================================
