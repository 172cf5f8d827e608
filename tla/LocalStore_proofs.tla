-------------------------- MODULE LocalStore_proofs --------------------------
(***************************************************************************)
(* The local backend implements ObjectStore: for any processes, keys,      *)
(* numbers of files and crashes, put, get and delete are atomic.  Loads    *)
(* are not, and what they return is proved of them separately.             *)
(***************************************************************************)
EXTENDS LocalStore, TLAPS

LoadSteps == {"readdir", "lstat", "loadopen", "decode"}

\* What a process's own steps have left in its locals.
JobOK(job) ==
    /\ job.pc = "idle" => job = Idle
    /\ job.pc \in {"create", "copy", "rename", "cleanup"} =>
          job.op = "put" /\ job.key \in Key /\ job.val \in Value
    /\ job.pc \in {"open", "read"} => job.op = "get" /\ job.key \in Key /\ job.val = None
    /\ job.pc = "remove" => job.op = "delete" /\ job.key \in Key /\ job.val = None
    /\ job.pc \in LoadSteps \cup {"failed"} => job.op = "load"
    /\ job.pc = "returned" =>
          \/ job.op = "load"
          \/ job.op = "delete" /\ job.key \in Key /\ job.val = None /\ job.done
    /\ job.pc \in {"copy", "read", "decode"} <=> job.inode # None
    /\ job.pc \in {"copy", "rename", "cleanup"} <=> job.tmp # None
    /\ job.pc \in {"create", "copy", "rename", "open", "remove"} => ~job.done
    /\ job.pc = "read" => job.done

JobsOK == \A p \in Procs : JobOK(jobs[p])

\* What is under a key, and what a get has opened, is whole.
KeysWhole == \A k \in Key : Exists(k) => data[names[k]] \in Value
OpenWhole == \A p \in Procs : At(p, "read") => data[jobs[p].inode] \in Value

\* A put that is about to rename has the whole object under its temporary name.
Complete == \A p \in Procs : At(p, "rename") =>
    Exists(jobs[p].tmp) /\ data[names[jobs[p].tmp]] = jobs[p].val

\* The file a put writes is under its temporary name only, and no other put
\* writes it, no get reads it.
Private == \A p \in Procs : At(p, "copy") =>
    /\ \A n \in Name : names[n] = jobs[p].inode <=> n = jobs[p].tmp
    /\ \A q \in Procs \ {p} : jobs[q].pc \in {"copy", "read"} =>
          jobs[q].inode # jobs[p].inode

OwnTemps == \A p, q \in Procs :
    p # q /\ jobs[p].tmp # None => jobs[p].tmp # jobs[q].tmp

FilesOK == KeysWhole /\ OpenWhole /\ Complete /\ Private /\ OwnTemps

IInv == TypeOK /\ JobsOK /\ FilesOK

-----------------------------------------------------------------------------

LEMMA KeysAreNoTemps == Key \cap Temp = {}
  BY TempsAreNoIds DEF Key, Temp

LEMMA NamesAreSomething == None \notin Name /\ None \notin Value /\ None \notin Inodes /\ Torn \notin Value
  BY NoneIsNothing, TornIsNoObject

LEMMA IdleOK == Idle \in Job /\ JobOK(Idle)
  BY NamesAreSomething DEF Idle, Job, JobOK, Dirs, LoadSteps

LEMMA InitIInv == Init => IInv
<1> SUFFICES ASSUME Init PROVE IInv
  OBVIOUS
<1>1. \A p \in Procs : jobs[p] = Idle
  BY DEF Init
<1>2. TypeOK
  BY IdleOK DEF Init, TypeOK
<1>3. JobsOK
  BY <1>1, IdleOK DEF JobsOK
<1>4. FilesOK
  BY <1>1 DEF Init, FilesOK, KeysWhole, OpenWhole, Complete, Private, OwnTemps, Exists,
              At, Idle, Name
<1> QED
  BY <1>2, <1>3, <1>4 DEF IInv

\* A step that leaves the files alone and makes its process neither the writer
\* of a file nor the owner of a new temporary name.
LEMMA LocalStep ==
  ASSUME IInv, NEW p \in Procs, NEW STATE job,
         UNCHANGED <<names, data>>, stable' \in [Procs -> SUBSET Ids], quiet' \in SUBSET Procs,
         litter' \in SUBSET Temp, Becomes(p, job), job \in Job, JobOK(job),
         job.pc \notin {"copy", "rename"},
         job.tmp \in {None, jobs[p].tmp},
         job.pc = "read" =>
            /\ data[job.inode] \in Value
            /\ \A q \in Procs : At(q, "copy") => jobs[q].inode # job.inode
  PROVE  IInv'
<1>1. jobs \in [Procs -> Job] /\ jobs' = [jobs EXCEPT ![p] = job]
  BY DEF IInv, TypeOK, Becomes
<1>2. jobs' \in [Procs -> Job]
  BY <1>1
<1>3. jobs'[p] = job /\ \A q \in Procs : q # p => jobs'[q] = jobs[q]
  BY <1>1
<1>4. TypeOK'
  BY <1>2 DEF IInv, TypeOK
<1>5. JobsOK'
  BY <1>3 DEF IInv, JobsOK
<1>6. KeysWhole'
  BY DEF IInv, FilesOK, KeysWhole, Exists
<1>7. OpenWhole'
  BY <1>3 DEF IInv, FilesOK, OpenWhole, At
<1>8. Complete'
  BY <1>3 DEF IInv, FilesOK, Complete, At, Exists
<1>9. Private'
  BY <1>3 DEF IInv, FilesOK, Private, At
<1>10. OwnTemps'
  BY <1>3 DEF IInv, FilesOK, OwnTemps
<1> QED
  BY <1>4, <1>5, <1>6, <1>7, <1>8, <1>9, <1>10 DEF IInv, FilesOK
-----------------------------------------------------------------------------

Released(p) ==
    \/ CreateFails(p) \/ CopyFails(p) \/ RenameFails(p) \/ OpenFails(p)
    \/ Read(p) \/ DeleteFails(p) \/ RemoveTempFails(p)
    \/ Return(p) \/ Crash(p)

Called(p) == CallPut(p) \/ CallGet(p) \/ CallDelete(p) \/ CallLoad(p)

LEMMA CalledIInv ==
  ASSUME IInv, NEW p \in Procs, Called(p) PROVE IInv'
<1>1. jobs[p] \in Job /\ JobOK(jobs[p]) /\ stable \in [Procs -> SUBSET Ids] /\ quiet \subseteq Procs
      /\ litter \subseteq Temp
  BY DEF IInv, TypeOK, JobsOK
<1>2. CASE CallPut(p)
  <2>1. PICK k \in Key, v \in Versions :
          Starts(p, [Idle EXCEPT !.op = "put", !.pc = "create", !.key = k,
                                 !.val = [id |-> k.id, version |-> v]])
    BY <1>2 DEF CallPut
  <2> DEFINE val == [id |-> k.id, version |-> v]
             job == [Idle EXCEPT !.op = "put", !.pc = "create", !.key = k, !.val = val]
  <2>2. val \in Value
    BY DEF Value, Key
  <2> HIDE DEF val
  <2>3. job \in Job /\ JobOK(job) /\ job.tmp = None /\ job.pc = "create"
    BY <2>2, NamesAreSomething DEF Idle, Job, JobOK, Dirs, LoadSteps
  <2>4. Becomes(p, job)
    BY <2>1 DEF Starts, val
  <2> HIDE DEF job
  <2> QED
    BY <2>3, <2>4, <1>1, <1>2, LocalStep DEF CallPut, files, history
<1>3. CASE CallGet(p)
  <2>1. PICK k \in Key : Starts(p, [Idle EXCEPT !.op = "get", !.pc = "open", !.key = k])
    BY <1>3 DEF CallGet
  <2> DEFINE job == [Idle EXCEPT !.op = "get", !.pc = "open", !.key = k]
  <2>2. job \in Job /\ JobOK(job) /\ job.tmp = None /\ job.pc = "open"
    BY NamesAreSomething DEF Idle, Job, JobOK, Dirs, LoadSteps
  <2>3. Becomes(p, job)
    BY <2>1 DEF Starts
  <2> HIDE DEF job
  <2> QED
    BY <2>2, <2>3, <1>1, <1>3, LocalStep DEF CallGet, files, history
<1>4. CASE CallDelete(p)
  <2>1. PICK k \in Key : Starts(p, [Idle EXCEPT !.op = "delete", !.pc = "remove", !.key = k])
    BY <1>4 DEF CallDelete
  <2> DEFINE job == [Idle EXCEPT !.op = "delete", !.pc = "remove", !.key = k]
  <2>2. job \in Job /\ JobOK(job) /\ job.tmp = None /\ job.pc = "remove"
    BY NamesAreSomething DEF Idle, Job, JobOK, Dirs, LoadSteps
  <2>3. Becomes(p, job)
    BY <2>1 DEF Starts
  <2> HIDE DEF job
  <2> QED
    BY <2>2, <2>3, <1>1, <1>4, LocalStep DEF CallDelete, files, history
<1>5. CASE CallLoad(p)
  <2> DEFINE job == [Idle EXCEPT !.op = "load", !.pc = "readdir"]
  <2>1. job \in Job /\ JobOK(job) /\ job.tmp = None /\ job.pc = "readdir"
    BY NamesAreSomething DEF Idle, Job, JobOK, Dirs, LoadSteps
  <2>2. Becomes(p, job)
    BY <1>5 DEF CallLoad, Starts
  <2>3. stable' \in [Procs -> SUBSET Ids] /\ quiet' \subseteq Procs /\ litter' \subseteq Temp
    BY <1>1, <1>5 DEF CallLoad, Listed
  <2> HIDE DEF job
  <2> QED
    BY <2>1, <2>2, <2>3, <1>5, LocalStep DEF CallLoad, files
<1> QED
  BY <1>2, <1>3, <1>4, <1>5 DEF Called

LEMMA ReleasedIInv ==
  ASSUME IInv, NEW p \in Procs, Released(p) PROVE IInv'
<1>1. jobs[p] \in Job /\ JobOK(jobs[p]) /\ stable \in [Procs -> SUBSET Ids] /\ quiet \subseteq Procs
      /\ litter \subseteq Temp
  BY DEF IInv, TypeOK, JobsOK
<1>2. /\ UNCHANGED <<names, data, stable, quiet>>
      /\ litter' \in SUBSET Temp
      /\ Released(p)
  BY <1>1 DEF Released, CopyFails, RenameFails, CreateFails, OpenFails, Read, DeleteFails,
              RemoveTempFails, Return, Crash, Remains, files, history
<1>3. CASE Becomes(p, Idle)
  <2>1. Idle.tmp = None /\ Idle.pc = "idle"
    BY DEF Idle
  <2> QED
    BY <2>1, <1>1, <1>2, <1>3, IdleOK, LocalStep
<1>4. CASE CopyFails(p)
  <2> DEFINE job == [jobs[p] EXCEPT !.pc = "cleanup", !.inode = None]
  <2>1. job \in Job /\ JobOK(job) /\ job.tmp = jobs[p].tmp /\ job.pc = "cleanup"
    BY <1>1, <1>4, NamesAreSomething DEF CopyFails, At, Job, JobOK, LoadSteps
  <2>2. Becomes(p, job)
    BY <1>4 DEF CopyFails
  <2> HIDE DEF job
  <2> QED
    BY <2>1, <2>2, <1>1, <1>2, LocalStep
<1>5. CASE RenameFails(p)
  <2> DEFINE job == [jobs[p] EXCEPT !.pc = "cleanup"]
  <2>1. job \in Job /\ JobOK(job) /\ job.tmp = jobs[p].tmp /\ job.pc = "cleanup"
    BY <1>1, <1>5, NamesAreSomething DEF RenameFails, At, Job, JobOK, LoadSteps
  <2>2. Becomes(p, job)
    BY <1>5 DEF RenameFails, Goes
  <2> HIDE DEF job
  <2> QED
    BY <2>1, <2>2, <1>1, <1>2, LocalStep
<1> QED
  BY <1>2, <1>3, <1>4, <1>5 DEF Released, CreateFails, OpenFails, Read, DeleteFails, RemoveTempFails,
                                Return, Crash

LEMMA OpenIInv ==
  ASSUME IInv, NEW p \in Procs, Open(p) PROVE IInv'
<1> DEFINE i == names[jobs[p].key]
           job == [jobs[p] EXCEPT !.pc = "read", !.inode = i, !.done = TRUE]
<1>1. /\ jobs[p] \in Job /\ JobOK(jobs[p]) /\ At(p, "open")
      /\ stable \in [Procs -> SUBSET Ids] /\ quiet \subseteq Procs
      /\ litter \subseteq Temp
  BY DEF IInv, TypeOK, JobsOK, Open
<1>2. jobs[p].key \in Key /\ i \in Inodes /\ data[i] \in Value
  BY <1>1 DEF IInv, TypeOK, FilesOK, KeysWhole, Open, JobOK, At, Exists, Name
<1>3. \A q \in Procs : At(q, "copy") => jobs[q].inode # i
  <2> SUFFICES ASSUME NEW q \in Procs, At(q, "copy") PROVE jobs[q].inode # i
    OBVIOUS
  <2>1. jobs[q].tmp \in Temp
    BY DEF IInv, TypeOK, Job, JobsOK, JobOK, At
  <2> QED
    BY <1>2, <2>1, KeysAreNoTemps DEF IInv, FilesOK, Private, Name
<1> HIDE DEF i
<1>4. /\ job \in Job /\ JobOK(job) /\ job.tmp = jobs[p].tmp
      /\ job.pc = "read" /\ job.inode = i
  BY <1>1, <1>2, NamesAreSomething DEF At, Job, JobOK, LoadSteps
<1>5. Becomes(p, job) /\ UNCHANGED <<names, data, stable, quiet, litter>>
  BY DEF Open, i, files, history
<1> HIDE DEF job
<1> QED
  BY <1>1, <1>2, <1>3, <1>4, <1>5, LocalStep

-----------------------------------------------------------------------------

Walking(p) ==
    \/ ReadDir(p) \/ Lstat(p) \/ LstatFails(p) \/ Walked(p)
    \/ LoadOpen(p) \/ LoadOpenFails(p) \/ Decode(p) \/ DecodeFails(p) \/ Loaded(p)

LEMMA WalkingIInv ==
  ASSUME IInv, NEW p \in Procs, Walking(p)
  PROVE  IInv' /\ \E job : Becomes(p, job) /\ job.op = "load"
<1> DEFINE me == jobs[p]
<1>1. me \in Job /\ JobOK(me) /\ stable \in [Procs -> SUBSET Ids] /\ quiet \subseteq Procs
      /\ litter \subseteq Temp
  BY DEF IInv, TypeOK, JobsOK
<1>2. UNCHANGED <<names, data, stable, quiet, litter>> /\ me.pc \in LoadSteps
  BY DEF Walking, ReadDir, Lstat, LstatFails, Walked, LoadOpen, LoadOpenFails, Decode,
         DecodeFails, Loaded, files, history, At, LoadSteps
<1>3. me.op = "load" /\ me.tmp = None
  BY <1>1, <1>2, NamesAreSomething DEF JobOK, LoadSteps
\* It is enough that the new locals belong to a load.
<1>4. ASSUME NEW STATE job, job \in Job, Becomes(p, job), job.op = "load", job.tmp = None,
             job.pc \in LoadSteps \cup {"failed", "returned"},
             job.pc = "decode" <=> job.inode # None
      PROVE  IInv' /\ \E j : Becomes(p, j) /\ j.op = "load"
  <2>1. JobOK(job)
    BY <1>4 DEF JobOK, LoadSteps
  <2> QED
    BY <1>1, <1>2, <1>4, <2>1, LocalStep DEF LoadSteps
<1>5. me.pc # "decode" => me.inode = None
  BY <1>1, <1>2 DEF JobOK, LoadSteps
<1>6. CASE ReadDir(p)
  <2> DEFINE job == [me EXCEPT !.pc = "lstat",
                                !.todo = {n \in Name : Exists(n) /\ n.dir = me.dir}]
  <2>2. /\ job \in Job /\ job.op = "load" /\ job.tmp = None
        /\ job.pc \in LoadSteps \cup {"failed", "returned"}
        /\ job.pc = "decode" <=> job.inode # None
    BY <1>1, <1>2, <1>3, <1>5, <1>6, NamesAreSomething DEF ReadDir, At, Job, LoadSteps, Dirs
  <2>3. Becomes(p, job)
    BY <1>6 DEF ReadDir
  <2> HIDE DEF job
  <2> QED
    BY <1>4, <2>2, <2>3
<1>7. CASE Lstat(p)
  <2>1. PICK n \in me.todo :
          Becomes(p, [me EXCEPT !.todo = @ \ {n},
                                !.keys = IF n.dir = "manifests" THEN @ \cup {n} ELSE @])
    BY <1>7 DEF Lstat
  <2> DEFINE job == [me EXCEPT !.todo = @ \ {n},
                                !.keys = IF n.dir = "manifests" THEN @ \cup {n} ELSE @]
  <2>2. /\ job \in Job /\ job.op = "load" /\ job.tmp = None
        /\ job.pc \in LoadSteps \cup {"failed", "returned"}
        /\ job.pc = "decode" <=> job.inode # None
    BY <1>1, <1>2, <1>3, <1>5, <1>7, <2>1, NamesAreSomething DEF Lstat, At, Job, LoadSteps, Dirs
  <2>3. Becomes(p, job)
    BY <2>1 DEF Lstat
  <2> HIDE DEF job
  <2> QED
    BY <1>4, <2>2, <2>3
<1>8. CASE LstatFails(p) \/ LoadOpenFails(p) \/ DecodeFails(p)
  <2> DEFINE job == [Idle EXCEPT !.op = "load", !.pc = "failed"]
  <2>2. /\ job \in Job /\ job.op = "load" /\ job.tmp = None
        /\ job.pc \in LoadSteps \cup {"failed", "returned"}
        /\ job.pc = "decode" <=> job.inode # None
    BY IdleOK, NamesAreSomething DEF Idle, Job, LoadSteps
  <2>3. Becomes(p, job)
    BY <1>8 DEF LstatFails, LoadOpenFails, DecodeFails, Fails
  <2> HIDE DEF job
  <2> QED
    BY <1>4, <2>2, <2>3
<1>9. CASE Walked(p)
  <2> DEFINE job == IF me.dir = "artifacts"
                      THEN [me EXCEPT !.pc = "readdir", !.dir = "manifests"]
                      ELSE [me EXCEPT !.pc = "loadopen"]
  <2>2. /\ job \in Job /\ job.op = "load" /\ job.tmp = None
        /\ job.pc \in LoadSteps \cup {"failed", "returned"}
        /\ job.pc = "decode" <=> job.inode # None
    BY <1>1, <1>2, <1>3, <1>5, <1>9, NamesAreSomething DEF Walked, At, Job, LoadSteps, Dirs
  <2>3. Becomes(p, job)
    BY <1>9 DEF Walked
  <2> HIDE DEF job
  <2> QED
    BY <1>4, <2>2, <2>3
<1>10. CASE LoadOpen(p)
  <2>1. PICK n \in me.keys :
          /\ names[n] # None /\ names[n] \in Inodes
          /\ Becomes(p, [me EXCEPT !.pc = "decode", !.keys = @ \ {n}, !.inode = names[n]])
    BY <1>10 DEF LoadOpen, Exists, IInv, TypeOK, Job
  <2> DEFINE job == [me EXCEPT !.pc = "decode", !.keys = @ \ {n}, !.inode = names[n]]
  <2>2. /\ job \in Job /\ job.op = "load" /\ job.tmp = None
        /\ job.pc \in LoadSteps \cup {"failed", "returned"}
        /\ job.pc = "decode" <=> job.inode # None
    BY <1>1, <1>2, <1>3, <1>5, <1>10, <2>1, NamesAreSomething DEF LoadOpen, At, Job, LoadSteps, Dirs
  <2>3. Becomes(p, job)
    BY <2>1 DEF LoadOpen
  <2> HIDE DEF job
  <2> QED
    BY <1>4, <2>2, <2>3
<1>11. CASE Decode(p)
  <2> DEFINE job == [me EXCEPT !.pc = "loadopen", !.inode = None, !.got = @ \cup {data[me.inode]}]
  <2>2. /\ job \in Job /\ job.op = "load" /\ job.tmp = None
        /\ job.pc \in LoadSteps \cup {"failed", "returned"}
        /\ job.pc = "decode" <=> job.inode # None
    BY <1>1, <1>2, <1>3, <1>5, <1>11, NamesAreSomething DEF Decode, At, Job, LoadSteps, Dirs
  <2>3. Becomes(p, job)
    BY <1>11 DEF Decode
  <2> HIDE DEF job
  <2> QED
    BY <1>4, <2>2, <2>3
<1>12. CASE Loaded(p)
  <2> DEFINE job == [me EXCEPT !.pc = "returned"]
  <2>2. /\ job \in Job /\ job.op = "load" /\ job.tmp = None
        /\ job.pc \in LoadSteps \cup {"failed", "returned"}
        /\ job.pc = "decode" <=> job.inode # None
    BY <1>1, <1>2, <1>3, <1>5, <1>12, NamesAreSomething DEF Loaded, At, Job, LoadSteps, Dirs
  <2>3. Becomes(p, job)
    BY <1>12 DEF Loaded, Goes
  <2> HIDE DEF job
  <2> QED
    BY <1>4, <2>2, <2>3
<1> QED
  BY <1>6, <1>7, <1>8, <1>9, <1>10, <1>11, <1>12 DEF Walking

-----------------------------------------------------------------------------
(* The steps that change the files.                                        *)

LEMMA CreateTempIInv ==
  ASSUME IInv, NEW p \in Procs, CreateTemp(p) PROVE IInv'
<1>1. PICK t \in Temp, i \in Inodes :
        /\ FreeTemp(t) /\ FreeInode(i)
        /\ names' = [names EXCEPT ![t] = i]
        /\ data' = [data EXCEPT ![i] = Torn]
        /\ Becomes(p, [jobs[p] EXCEPT !.pc = "copy", !.tmp = t, !.inode = i])
  BY DEF CreateTemp
<1> DEFINE job == [jobs[p] EXCEPT !.pc = "copy", !.tmp = t, !.inode = i]
<1>2. /\ jobs \in [Procs -> Job] /\ jobs[p] \in Job /\ JobOK(jobs[p]) /\ At(p, "create")
      /\ names \in [Name -> Inodes \cup {None}] /\ data \in [Inodes -> Value \cup {Torn}]
      /\ t \in Name /\ t \notin Key
  BY KeysAreNoTemps DEF IInv, TypeOK, JobsOK, CreateTemp, Name
<1>3. job \in Job /\ JobOK(job) /\ job.tmp = t /\ job.inode = i /\ job.pc = "copy"
  BY <1>2, NamesAreSomething DEF At, Job, JobOK, LoadSteps, Name
<1> HIDE DEF job
<1>4. jobs' = [jobs EXCEPT ![p] = job]
  BY <1>1 DEF Becomes, job
<1>5. jobs'[p] = job /\ \A q \in Procs : q # p => jobs'[q] = jobs[q]
  BY <1>2, <1>4
<1>6. names'[t] = i /\ \A n \in Name : n # t => names'[n] = names[n] /\ names[n] # i
  BY <1>1, <1>2 DEF FreeInode
<1>7. \A j \in Inodes : j # i => data'[j] = data[j]
  BY <1>1, <1>2
<1>8. \A q \in Procs : jobs[q].tmp # t /\ jobs[q].inode # i /\ jobs[q] \in Job
  BY <1>1, <1>2 DEF FreeTemp, FreeInode
<1>9. TypeOK'
  <2>1. jobs' \in [Procs -> Job] /\ names' \in [Name -> Inodes \cup {None}]
    BY <1>1, <1>2, <1>3, <1>4
  <2>2. data' \in [Inodes -> Value \cup {Torn}]
    BY <1>1, <1>2
  <2>3. quiet' \subseteq Procs /\ stable' = stable /\ litter' = litter
    BY DEF IInv, TypeOK, CreateTemp, Disturbs
  <2> QED
    BY <2>1, <2>2, <2>3 DEF IInv, TypeOK
<1>10. JobsOK'
  BY <1>3, <1>5 DEF IInv, JobsOK
<1>11. KeysWhole'
  <2> SUFFICES ASSUME NEW k \in Key, Exists(k)' PROVE data'[names'[k]] \in Value
    BY DEF KeysWhole
  <2>1. k \in Name /\ k # t
    BY <1>2 DEF Name
  <2> QED
    BY <1>2, <1>6, <1>7, <2>1 DEF IInv, FilesOK, KeysWhole, Exists
<1>12. OpenWhole'
  <2> SUFFICES ASSUME NEW q \in Procs, At(q, "read")' PROVE data'[jobs'[q].inode] \in Value
    BY DEF OpenWhole
  <2>1. q # p /\ jobs'[q] = jobs[q] /\ At(q, "read")
    BY <1>3, <1>5 DEF At
  <2>2. jobs[q].inode \in Inodes
    BY <1>2, <2>1, NamesAreSomething DEF IInv, JobsOK, JobOK, At, Job
  <2> QED
    BY <1>7, <1>8, <2>1, <2>2 DEF IInv, FilesOK, OpenWhole
<1>13. Complete'
  <2> SUFFICES ASSUME NEW q \in Procs, At(q, "rename")'
               PROVE  names'[jobs'[q].tmp] # None /\ data'[names'[jobs'[q].tmp]] = jobs'[q].val
    BY DEF Complete, Exists
  <2>1. q # p /\ jobs'[q] = jobs[q] /\ At(q, "rename")
    BY <1>3, <1>5 DEF At
  <2>2. jobs[q].tmp \in Name /\ jobs[q].tmp # t
    BY <1>8, <2>1 DEF IInv, JobsOK, JobOK, At, Job, Name
  <2>3. Exists(jobs[q].tmp) /\ data[names[jobs[q].tmp]] = jobs[q].val
    BY <2>1 DEF IInv, FilesOK, Complete
  <2> QED
    BY <1>2, <1>6, <1>7, <2>1, <2>2, <2>3 DEF Exists
<1>14. Private'
  <2> SUFFICES ASSUME NEW q \in Procs, At(q, "copy")'
               PROVE  /\ \A n \in Name : names'[n] = jobs'[q].inode <=> n = jobs'[q].tmp
                      /\ \A r \in Procs \ {q} : jobs'[r].pc \in {"copy", "read"} =>
                            jobs'[r].inode # jobs'[q].inode
    BY DEF Private
  <2>1. CASE q = p
    BY <1>3, <1>5, <1>6, <1>8, <2>1
  <2>2. CASE q # p
    <3>1. jobs'[q] = jobs[q] /\ At(q, "copy") /\ jobs[q].tmp # t /\ jobs[q].inode # i
      BY <1>5, <1>8, <2>2 DEF At
    <3>2. /\ \A n \in Name : names[n] = jobs[q].inode <=> n = jobs[q].tmp
          /\ \A r \in Procs \ {q} : jobs[r].pc \in {"copy", "read"} =>
                jobs[r].inode # jobs[q].inode
      BY <3>1 DEF IInv, FilesOK, Private
    <3> QED
      BY <1>3, <1>5, <1>6, <3>1, <3>2
  <2> QED
    BY <2>1, <2>2
<1>15. OwnTemps'
  BY <1>3, <1>5, <1>8 DEF IInv, FilesOK, OwnTemps
<1> QED
  BY <1>9, <1>10, <1>11, <1>12, <1>13, <1>14, <1>15 DEF IInv, FilesOK

LEMMA CopyIInv ==
  ASSUME IInv, NEW p \in Procs, Copy(p) PROVE IInv'
<1> DEFINE i == jobs[p].inode
           t == jobs[p].tmp
           job == [jobs[p] EXCEPT !.pc = "rename", !.inode = None]
<1>1. /\ jobs \in [Procs -> Job] /\ jobs[p] \in Job /\ JobOK(jobs[p]) /\ At(p, "copy")
      /\ names \in [Name -> Inodes \cup {None}] /\ data \in [Inodes -> Value \cup {Torn}]
      /\ names' = names /\ data' = [data EXCEPT ![i] = jobs[p].val]
  BY DEF IInv, TypeOK, JobsOK, Copy
<1>2. /\ job \in Job /\ JobOK(job) /\ job.pc = "rename" /\ job.tmp = t /\ job.val = jobs[p].val
      /\ i \in Inodes /\ t \in Temp /\ jobs[p].val \in Value
  BY <1>1, NamesAreSomething DEF At, Job, JobOK, LoadSteps, Name
<1>3. jobs' = [jobs EXCEPT ![p] = job]
  BY DEF Copy, Becomes
<1> HIDE DEF job
<1>4. jobs'[p] = job /\ \A q \in Procs : q # p => jobs'[q] = jobs[q]
  BY <1>1, <1>3
<1>5. /\ \A n \in Name : names[n] = i <=> n = t
      /\ \A q \in Procs \ {p} : jobs[q].pc \in {"copy", "read"} => jobs[q].inode # i
  BY <1>1 DEF IInv, FilesOK, Private
<1>6. \A q \in Procs : q # p => jobs[q].tmp # t
  BY <1>2, NamesAreSomething DEF IInv, FilesOK, OwnTemps, Name
<1> HIDE DEF i, t
<1>7. data'[i] = jobs[p].val /\ \A j \in Inodes : j # i => data'[j] = data[j]
  BY <1>1, <1>2
<1>8. TypeOK'
  <2>1. jobs' \in [Procs -> Job] /\ data' \in [Inodes -> Value \cup {Torn}]
    BY <1>1, <1>2, <1>3
  <2>2. quiet' \subseteq Procs /\ stable' = stable /\ litter' = litter
    BY DEF IInv, TypeOK, Copy, Disturbs
  <2> QED
    BY <1>1, <2>1, <2>2 DEF IInv, TypeOK
<1>9. JobsOK'
  BY <1>2, <1>4 DEF IInv, JobsOK
<1>10. KeysWhole'
  <2> SUFFICES ASSUME NEW k \in Key, Exists(k)' PROVE data'[names'[k]] \in Value
    BY DEF KeysWhole
  <2>1. k \in Name /\ k # t
    BY <1>2, KeysAreNoTemps DEF Name
  <2> QED
    BY <1>1, <1>5, <1>7, <2>1 DEF IInv, FilesOK, KeysWhole, Exists
<1>11. OpenWhole'
  <2> SUFFICES ASSUME NEW q \in Procs, At(q, "read")' PROVE data'[jobs'[q].inode] \in Value
    BY DEF OpenWhole
  <2>1. q # p /\ jobs'[q] = jobs[q] /\ At(q, "read")
    BY <1>2, <1>4 DEF At
  <2>2. jobs[q].inode \in Inodes /\ jobs[q].inode # i
    BY <1>1, <1>5, <2>1, NamesAreSomething DEF IInv, JobsOK, JobOK, At, Job
  <2> QED
    BY <1>7, <2>1, <2>2 DEF IInv, FilesOK, OpenWhole
<1>12. Complete'
  <2> SUFFICES ASSUME NEW q \in Procs, At(q, "rename")'
               PROVE  names'[jobs'[q].tmp] # None /\ data'[names'[jobs'[q].tmp]] = jobs'[q].val
    BY DEF Complete, Exists
  <2>1. CASE q = p
    <3>1. names[t] = i
      BY <1>2, <1>5 DEF Name
    <3> QED
      BY <1>1, <1>2, <1>4, <1>7, <2>1, <3>1, NamesAreSomething DEF Exists
  <2>2. CASE q # p
    <3>1. jobs'[q] = jobs[q] /\ At(q, "rename")
      BY <1>4, <2>2 DEF At
    <3>2. jobs[q].tmp \in Name /\ jobs[q].tmp # t
      BY <1>6, <2>2, <3>1 DEF IInv, JobsOK, JobOK, At, TypeOK, Job, Name
    <3>3. Exists(jobs[q].tmp) /\ data[names[jobs[q].tmp]] = jobs[q].val
      BY <3>1 DEF IInv, FilesOK, Complete
    <3>4. names[jobs[q].tmp] \in Inodes /\ names[jobs[q].tmp] # i
      BY <1>1, <1>5, <3>2, <3>3 DEF Exists
    <3> QED
      BY <1>1, <1>7, <3>1, <3>3, <3>4 DEF Exists
  <2> QED
    BY <2>1, <2>2
<1>13. Private'
  BY <1>1, <1>2, <1>4 DEF IInv, FilesOK, Private, At
<1>14. OwnTemps'
  BY <1>2, <1>4, <1>6 DEF IInv, FilesOK, OwnTemps, t
<1> QED
  BY <1>8, <1>9, <1>10, <1>11, <1>12, <1>13, <1>14 DEF IInv, FilesOK

LEMMA RenameIInv ==
  ASSUME IInv, NEW p \in Procs, Rename(p) PROVE IInv'
<1> DEFINE k == jobs[p].key
           t == jobs[p].tmp
           i == names[t]
           job == [jobs[p] EXCEPT !.pc = "cleanup", !.done = TRUE]
<1>1. /\ jobs \in [Procs -> Job] /\ jobs[p] \in Job /\ JobOK(jobs[p]) /\ At(p, "rename")
      /\ names \in [Name -> Inodes \cup {None}] /\ data \in [Inodes -> Value \cup {Torn}]
      /\ names' = [names EXCEPT ![k] = i, ![t] = None] /\ data' = data
  BY DEF IInv, TypeOK, JobsOK, Rename
<1>2. /\ job \in Job /\ JobOK(job) /\ job.pc = "cleanup" /\ job.tmp = t
      /\ k \in Key /\ t \in Temp /\ jobs[p].val \in Value
  BY <1>1, NamesAreSomething DEF At, Job, JobOK, LoadSteps, Name
<1>3. jobs' = [jobs EXCEPT ![p] = job]
  BY DEF Rename, Becomes
<1>4. i \in Inodes /\ data[i] \in Value
  BY <1>1, <1>2 DEF IInv, FilesOK, Complete, Exists, Name
<1>5. \A q \in Procs : q # p => jobs[q].tmp # t
  BY <1>2, NamesAreSomething DEF IInv, FilesOK, OwnTemps, Name
<1> HIDE DEF job, k, t, i
<1>6. jobs'[p] = job /\ \A q \in Procs : q # p => jobs'[q] = jobs[q]
  BY <1>1, <1>3
<1>7. /\ names'[k] = i /\ names'[t] = None /\ k # t /\ k \in Name /\ t \in Name
      /\ \A n \in Name : n \notin {k, t} => names'[n] = names[n]
  BY <1>1, <1>2, KeysAreNoTemps DEF Name
<1>8. TypeOK'
  <2>1. jobs' \in [Procs -> Job] /\ names' \in [Name -> Inodes \cup {None}]
    BY <1>1, <1>2, <1>3, <1>4
  <2>2. quiet' \subseteq Procs /\ stable' = stable /\ litter' = litter
    BY DEF IInv, TypeOK, Rename, Disturbs
  <2> QED
    BY <1>1, <2>1, <2>2 DEF IInv, TypeOK
<1>9. JobsOK'
  BY <1>2, <1>6 DEF IInv, JobsOK
<1>10. KeysWhole'
  <2> SUFFICES ASSUME NEW l \in Key, names'[l] # None PROVE data[names'[l]] \in Value
    BY <1>1 DEF KeysWhole, Exists
  <2>1. l \in Name /\ l # t
    BY <1>2, KeysAreNoTemps DEF Name
  <2>2. CASE l = k
    BY <1>4, <1>7, <2>2
  <2>3. CASE l # k
    BY <1>7, <2>1, <2>3 DEF IInv, FilesOK, KeysWhole, Exists
  <2> QED
    BY <2>2, <2>3
<1>11. OpenWhole'
  BY <1>1, <1>2, <1>6 DEF IInv, FilesOK, OpenWhole, At
<1>12. Complete'
  <2> SUFFICES ASSUME NEW q \in Procs, At(q, "rename")'
               PROVE  names'[jobs'[q].tmp] # None /\ data'[names'[jobs'[q].tmp]] = jobs'[q].val
    BY DEF Complete, Exists
  <2>1. q # p /\ jobs'[q] = jobs[q] /\ At(q, "rename")
    BY <1>2, <1>6 DEF At
  <2>2. jobs[q].tmp \in Temp /\ jobs[q].tmp # t
    BY <1>1, <1>5, <2>1 DEF IInv, JobsOK, JobOK, At, Job
  <2>3. jobs[q].tmp \in Name /\ jobs[q].tmp # k
    BY <1>2, <2>2, KeysAreNoTemps DEF Name
  <2>4. names[jobs[q].tmp] # None /\ data[names[jobs[q].tmp]] = jobs[q].val
    BY <2>1 DEF IInv, FilesOK, Complete, Exists
  <2> QED
    BY <1>1, <1>7, <2>1, <2>2, <2>3, <2>4
<1>13. Private'
  <2> SUFFICES ASSUME NEW q \in Procs, At(q, "copy")'
               PROVE  /\ \A n \in Name : names'[n] = jobs'[q].inode <=> n = jobs'[q].tmp
                      /\ \A r \in Procs \ {q} : jobs'[r].pc \in {"copy", "read"} =>
                            jobs'[r].inode # jobs'[q].inode
    BY DEF Private
  <2>1. q # p /\ jobs'[q] = jobs[q] /\ At(q, "copy")
    BY <1>2, <1>6 DEF At
  <2>2. jobs[q].tmp \in Temp /\ jobs[q].tmp # t /\ jobs[q].tmp # k /\ jobs[q].inode # None
    BY <1>1, <1>2, <1>5, <2>1, KeysAreNoTemps DEF IInv, JobsOK, JobOK, At, Job
  <2>3. /\ \A n \in Name : names[n] = jobs[q].inode <=> n = jobs[q].tmp
        /\ \A r \in Procs \ {q} : jobs[r].pc \in {"copy", "read"} =>
              jobs[r].inode # jobs[q].inode
    BY <2>1 DEF IInv, FilesOK, Private
  <2>4. i # jobs[q].inode
    BY <1>7, <2>2, <2>3 DEF i
  <2> QED
    BY <1>2, <1>6, <1>7, <2>1, <2>2, <2>3, <2>4
<1>14. OwnTemps'
  BY <1>2, <1>5, <1>6 DEF IInv, FilesOK, OwnTemps, t
<1> QED
  BY <1>8, <1>9, <1>10, <1>11, <1>12, <1>13, <1>14 DEF IInv, FilesOK

\* What removing a name leaves true: the name is a key or the remover's own.
LEMMA RemovalIInv ==
  ASSUME IInv, NEW p \in Procs, NEW m \in Name, NEW STATE job,
         names' = [names EXCEPT ![m] = None], data' = data,
         stable' \in [Procs -> SUBSET Ids], quiet' \in SUBSET Procs, litter' \in SUBSET Temp,
         Becomes(p, job), job \in Job, JobOK(job),
         job.pc \in {"idle", "returned"}, job.tmp = None,
         \A q \in Procs : q # p => jobs[q].tmp # m
  PROVE  IInv'
<1>1. /\ jobs \in [Procs -> Job] /\ jobs' = [jobs EXCEPT ![p] = job]
      /\ names \in [Name -> Inodes \cup {None}] /\ data \in [Inodes -> Value \cup {Torn}]
  BY DEF IInv, TypeOK, Becomes
<1>2. jobs'[p] = job /\ \A q \in Procs : q # p => jobs'[q] = jobs[q]
  BY <1>1
<1>3. names'[m] = None /\ \A n \in Name : n # m => names'[n] = names[n]
  BY <1>1
<1>4. TypeOK'
  <2>1. jobs' \in [Procs -> Job] /\ names' \in [Name -> Inodes \cup {None}]
    BY <1>1
  <2> QED
    BY <1>1, <2>1 DEF IInv, TypeOK
<1>5. JobsOK'
  BY <1>2 DEF IInv, JobsOK
<1>6. KeysWhole'
  BY <1>3 DEF IInv, FilesOK, KeysWhole, Exists, Name
<1>7. OpenWhole'
  BY <1>2 DEF IInv, FilesOK, OpenWhole, At
<1>8. \A q \in Procs : q # p /\ jobs[q].pc \in {"copy", "rename"} =>
        jobs[q].tmp \in Name /\ jobs[q].tmp # m
  BY <1>1 DEF IInv, JobsOK, JobOK, Job, Name
<1>9. Complete'
  <2> SUFFICES ASSUME NEW q \in Procs, At(q, "rename")'
               PROVE  names'[jobs'[q].tmp] # None /\ data'[names'[jobs'[q].tmp]] = jobs'[q].val
    BY DEF Complete, Exists
  <2>1. q # p /\ jobs'[q] = jobs[q] /\ At(q, "rename")
    BY <1>2 DEF At
  <2>2. names[jobs[q].tmp] # None /\ data[names[jobs[q].tmp]] = jobs[q].val
    BY <2>1 DEF IInv, FilesOK, Complete, Exists
  <2> QED
    BY <1>3, <1>8, <2>1, <2>2 DEF At
<1>10. Private'
  <2> SUFFICES ASSUME NEW q \in Procs, At(q, "copy")'
               PROVE  /\ \A n \in Name : names'[n] = jobs'[q].inode <=> n = jobs'[q].tmp
                      /\ \A r \in Procs \ {q} : jobs'[r].pc \in {"copy", "read"} =>
                            jobs'[r].inode # jobs'[q].inode
    BY DEF Private
  <2>1. q # p /\ jobs'[q] = jobs[q] /\ At(q, "copy")
    BY <1>2 DEF At
  <2>2. jobs[q].inode # None
    BY <2>1 DEF IInv, JobsOK, JobOK, At
  <2>3. /\ \A n \in Name : names[n] = jobs[q].inode <=> n = jobs[q].tmp
        /\ \A r \in Procs \ {q} : jobs[r].pc \in {"copy", "read"} =>
              jobs[r].inode # jobs[q].inode
    BY <2>1 DEF IInv, FilesOK, Private
  <2> QED
    BY <1>2, <1>3, <1>8, <2>1, <2>2, <2>3 DEF At
<1>11. OwnTemps'
  BY <1>2 DEF IInv, FilesOK, OwnTemps
<1> QED
  BY <1>4, <1>5, <1>6, <1>7, <1>9, <1>10, <1>11 DEF IInv, FilesOK

LEMMA RemoveTempIInv ==
  ASSUME IInv, NEW p \in Procs, RemoveTemp(p) PROVE IInv'
<1>1. /\ jobs[p].tmp \in Name /\ jobs[p].tmp # None
      /\ quiet' \subseteq Procs /\ stable' \in [Procs -> SUBSET Ids] /\ litter' \subseteq Temp
  BY DEF IInv, TypeOK, Job, JobsOK, JobOK, RemoveTemp, At, Disturbs, Name
<1>2. \A q \in Procs : q # p => jobs[q].tmp # jobs[p].tmp
  BY <1>1 DEF IInv, FilesOK, OwnTemps
<1>3. Idle.pc = "idle" /\ Idle.tmp = None
  BY DEF Idle
<1> QED
  BY <1>1, <1>2, <1>3, IdleOK, RemovalIInv DEF RemoveTemp

LEMMA DeleteIInv ==
  ASSUME IInv, NEW p \in Procs, Delete(p) PROVE IInv'
<1> DEFINE job == [jobs[p] EXCEPT !.pc = "returned", !.done = TRUE]
<1>1. jobs[p] \in Job /\ JobOK(jobs[p]) /\ At(p, "remove")
  BY DEF IInv, TypeOK, JobsOK, Delete
<1>2. job \in Job /\ JobOK(job) /\ job.pc = "returned" /\ job.tmp = None /\ jobs[p].key \in Key
  BY <1>1 DEF At, Job, JobOK, LoadSteps
<1>3. quiet' \subseteq Procs /\ stable' \in [Procs -> SUBSET Ids] /\ litter' \subseteq Temp
  BY DEF IInv, TypeOK, Delete, Disturbs
<1>4. jobs[p].key \in Name /\ \A q \in Procs : jobs[q].tmp # jobs[p].key
  BY <1>2, KeysAreNoTemps, NamesAreSomething DEF IInv, TypeOK, Job, Name
<1>5. /\ Becomes(p, job)
      /\ names' = [names EXCEPT ![jobs[p].key] = None] /\ data' = data
  BY DEF Delete
<1> HIDE DEF job
<1>6. PICK m \in Name : m = jobs[p].key
  BY <1>4
<1>7. names' = [names EXCEPT ![m] = None] /\ \A q \in Procs : q # p => jobs[q].tmp # m
  BY <1>4, <1>5, <1>6
<1> QED
  BY <1>2, <1>3, <1>5, <1>7, RemovalIInv

LEMMA NextIInv == IInv /\ [Next]_vars => IInv'
<1> SUFFICES ASSUME IInv, [Next]_vars PROVE IInv'
  OBVIOUS
<1>1. CASE UNCHANGED vars
  BY <1>1 DEF vars, IInv, TypeOK, JobsOK, FilesOK, KeysWhole, OpenWhole, Complete, Private,
              OwnTemps, Exists, At
<1>2. CASE Next
  <2>1. PICK p \in Procs : PutStep(p) \/ KeyStep(p) \/ LoadStep(p) \/ Return(p) \/ Crash(p)
    BY <1>2 DEF Next
  <2>2. CASE Called(p) \/ Released(p) \/ Walking(p)
    BY <2>2, CalledIInv, ReleasedIInv, WalkingIInv
  <2>3. CASE Open(p) \/ Delete(p)
    BY <2>3, OpenIInv, DeleteIInv
  <2>4. CASE CreateTemp(p) \/ Copy(p) \/ Rename(p) \/ RemoveTemp(p)
    BY <2>4, CreateTempIInv, CopyIInv, RenameIInv, RemoveTempIInv
  <2> QED
    BY <2>1, <2>2, <2>3, <2>4 DEF PutStep, KeyStep, LoadStep, Called, Released, Walking
<1> QED
  BY <1>1, <1>2

THEOREM Invariance == Spec => []IInv
  BY InitIInv, NextIInv, PTL DEF Spec

\* Type correctness, for every instance.
THEOREM TypeCorrect == Spec => []TypeOK
<1>1. IInv => TypeOK
  BY DEF IInv
<1> QED
  BY <1>1, Invariance, PTL

-----------------------------------------------------------------------------
(* The refinement.  Rename, Delete and Open are where put, delete and get  *)
(* take effect; every other step is a call, a return or invisible.         *)

LEMMA OpOfStep ==
  ASSUME NEW STATE job, job \in Job, JobOK(job)
  PROVE  /\ job.op = "get" /\ job.done => job.pc = "read"
         /\ job.pc = "read" => job.inode \in Inodes
  BY NamesAreSomething DEF Job, JobOK, LoadSteps, Idle

LEMMA HiddenRequest ==
  ASSUME NEW STATE job, job.op \in {"none", "load"}, NEW content
  PROVE  RequestOf(job, content) = Atomic!NoRequest
  BY DEF RequestOf, Atomic!NoRequest

\* A step changes at most its own request if it leaves alone what gets have open.
LEMMA OneRequest ==
  ASSUME IInv, NEW p \in Procs, NEW STATE job, Becomes(p, job),
         \A q \in Procs : q # p /\ At(q, "read") => data'[jobs[q].inode] = data[jobs[q].inode]
  PROVE  Requests' = [Requests EXCEPT ![p] = RequestOf(job, data')]
<1>1. jobs \in [Procs -> Job] /\ jobs' = [jobs EXCEPT ![p] = job] /\ JobsOK
  BY DEF IInv, TypeOK, Becomes
<1>2. jobs'[p] = job /\ \A q \in Procs : q # p => jobs'[q] = jobs[q]
  BY <1>1
<1>3. \A q \in Procs : q # p => RequestOf(jobs[q], data') = RequestOf(jobs[q], data)
  BY <1>1, OpOfStep DEF JobsOK, RequestOf, At
<1> QED
  BY <1>2, <1>3 DEF Requests

LEMMA SameObjects ==
  ASSUME UNCHANGED <<names, data>> PROVE Objects' = Objects
  BY DEF Objects, Exists

LEMMA InitRefines == Init => Atomic!Init
  BY DEF Init, Atomic!Init, Objects, Exists, Requests, RequestOf, Idle, Atomic!NoRequest, Name

LEMMA CallRefines ==
  ASSUME IInv, NEW p \in Procs, CallPut(p) \/ CallGet(p) \/ CallDelete(p)
  PROVE  Atomic!Call(p)
<1>1. At(p, "idle") /\ UNCHANGED <<names, data>>
  BY DEF CallPut, CallGet, CallDelete, Starts, files
<1>2. Requests[p] = Atomic!NoRequest
  BY <1>1, HiddenRequest DEF IInv, JobsOK, JobOK, At, Requests, Idle
<1>3. Objects' = Objects
  BY <1>1, SameObjects
<1>4. ASSUME NEW STATE job, Becomes(p, job)
      PROVE  Requests' = [Requests EXCEPT ![p] = RequestOf(job, data')]
  BY <1>1, <1>4, OneRequest
<1>5. CASE CallPut(p)
  <2>1. PICK k \in Key, v \in Versions :
          Becomes(p, [Idle EXCEPT !.op = "put", !.pc = "create", !.key = k,
                                  !.val = [id |-> k.id, version |-> v]])
    BY <1>5 DEF CallPut, Starts
  <2> DEFINE val == [id |-> k.id, version |-> v]
             job == [Idle EXCEPT !.op = "put", !.pc = "create", !.key = k, !.val = val]
  <2>2. val \in Value
    BY DEF Value, Key
  <2> HIDE DEF val
  <2>3. RequestOf(job, data') = [op |-> "put", key |-> k, val |-> val, done |-> FALSE]
    BY DEF RequestOf, Idle
  <2>4. Becomes(p, job)
    BY <2>1 DEF val
  <2> HIDE DEF job
  <2>5. Requests' = [Requests EXCEPT ![p] = [op |-> "put", key |-> k, val |-> val, done |-> FALSE]]
    BY <1>4, <2>3, <2>4
  <2> QED
    BY <1>2, <1>3, <2>2, <2>5 DEF Atomic!Call, Atomic!Asks
<1>6. CASE CallGet(p)
  <2>1. PICK k \in Key : Becomes(p, [Idle EXCEPT !.op = "get", !.pc = "open", !.key = k])
    BY <1>6 DEF CallGet, Starts
  <2> DEFINE job == [Idle EXCEPT !.op = "get", !.pc = "open", !.key = k]
  <2>2. RequestOf(job, data') = [op |-> "get", key |-> k, val |-> None, done |-> FALSE]
    BY DEF RequestOf, Idle
  <2> HIDE DEF job
  <2>3. Requests' = [Requests EXCEPT ![p] = [op |-> "get", key |-> k, val |-> None, done |-> FALSE]]
    BY <1>4, <2>1, <2>2 DEF job
  <2> QED
    BY <1>2, <1>3, <2>3 DEF Atomic!Call, Atomic!Asks
<1>7. CASE CallDelete(p)
  <2>1. PICK k \in Key : Becomes(p, [Idle EXCEPT !.op = "delete", !.pc = "remove", !.key = k])
    BY <1>7 DEF CallDelete, Starts
  <2> DEFINE job == [Idle EXCEPT !.op = "delete", !.pc = "remove", !.key = k]
  <2>2. RequestOf(job, data') = [op |-> "delete", key |-> k, val |-> None, done |-> FALSE]
    BY DEF RequestOf, Idle
  <2> HIDE DEF job
  <2>3. Requests' = [Requests EXCEPT ![p] = [op |-> "delete", key |-> k, val |-> None, done |-> FALSE]]
    BY <1>4, <2>1, <2>2 DEF job
  <2> QED
    BY <1>2, <1>3, <2>3 DEF Atomic!Call, Atomic!Asks
<1> QED
  BY <1>5, <1>6, <1>7

\* A load is no request, and the end of a call takes its request away.
LEMMA ReturnRefines ==
  ASSUME IInv, NEW p \in Procs, NEW STATE job, Becomes(p, job), job.op \in {"none", "load"},
         data' = data, Objects' = Objects
  PROVE  Atomic!Return(p)
<1>1. Requests' = [Requests EXCEPT ![p] = RequestOf(job, data')]
  BY OneRequest
<1>2. RequestOf(job, data') = Atomic!NoRequest
  BY HiddenRequest
<1> QED
  BY <1>1, <1>2 DEF Atomic!Return, Atomic!Asks

LEMMA LoadRefines ==
  ASSUME IInv, NEW p \in Procs, CallLoad(p) \/ Walking(p)
  PROVE  Atomic!Return(p)
<1>1. UNCHANGED <<names, data>>
  BY DEF CallLoad, Walking, ReadDir, Lstat, LstatFails, Walked, LoadOpen, LoadOpenFails, Decode,
         DecodeFails, Loaded, files
<1>2. PICK job : Becomes(p, job) /\ job.op = "load"
  <2>1. CASE CallLoad(p)
    <3>1. [Idle EXCEPT !.op = "load", !.pc = "readdir"].op = "load"
      BY DEF Idle
    <3> QED
      BY <2>1, <3>1 DEF CallLoad, Starts
  <2>2. CASE Walking(p)
    BY <2>2, WalkingIInv
  <2> QED
    BY <2>1, <2>2
<1> QED
  BY <1>1, <1>2, SameObjects, ReturnRefines

\* The end of a call, a crash included.
LEMMA EndRefines ==
  ASSUME IInv, NEW p \in Procs, Becomes(p, Idle), data' = data,
         names' = names \/ RemoveTemp(p)
  PROVE  Atomic!Return(p)
<1>1. Objects' = Objects
  <2>1. CASE names' = names
    BY <2>1, SameObjects
  <2>2. CASE RemoveTemp(p)
    <3>1. jobs[p].tmp \in Temp
      BY <2>2 DEF RemoveTemp, IInv, TypeOK, Job, JobsOK, JobOK, At
    <3>2. \A k \in Key : names'[k] = names[k]
      BY <2>2, <3>1, KeysAreNoTemps DEF RemoveTemp, IInv, TypeOK, Name
    <3> QED
      BY <3>2 DEF Objects, Exists
  <2> QED
    BY <2>1, <2>2
<1>2. Idle.op = "none"
  BY DEF Idle
<1> QED
  BY <1>1, <1>2, ReturnRefines

\* What a put writes is in nobody's sight.
LEMMA WriteHidden ==
  ASSUME IInv, NEW p \in Procs,
         CreateTemp(p) \/ Copy(p) \/ CopyFails(p) \/ RenameFails(p)
  PROVE  UNCHANGED <<Objects, Requests>>
<1>1. /\ jobs \in [Procs -> Job] /\ jobs[p] \in Job /\ JobOK(jobs[p])
      /\ names \in [Name -> Inodes \cup {None}] /\ data \in [Inodes -> Value \cup {Torn}]
  BY DEF IInv, TypeOK, JobsOK
\* The request stays if the locals it shows do.
<1>2. ASSUME NEW STATE job, Becomes(p, job), job.op = jobs[p].op, job.key = jobs[p].key,
             job.val = jobs[p].val, job.done = jobs[p].done, jobs[p].op = "put",
             \A q \in Procs : q # p /\ At(q, "read") => data'[jobs[q].inode] = data[jobs[q].inode]
      PROVE  Requests' = Requests
  <2>1. Requests' = [Requests EXCEPT ![p] = RequestOf(job, data')]
    BY <1>2, OneRequest
  <2>2. RequestOf(job, data') = RequestOf(jobs[p], data)
    BY <1>2 DEF RequestOf
  <2> QED
    BY <2>1, <2>2 DEF Requests
<1>3. jobs[p].op = "put"
  BY <1>1 DEF CreateTemp, Copy, CopyFails, RenameFails, At, JobOK
<1>4. CASE CreateTemp(p)
  <2>1. PICK t \in Temp, i \in Inodes :
          /\ FreeInode(i)
          /\ names' = [names EXCEPT ![t] = i]
          /\ data' = [data EXCEPT ![i] = Torn]
          /\ Becomes(p, [jobs[p] EXCEPT !.pc = "copy", !.tmp = t, !.inode = i])
    BY <1>4 DEF CreateTemp
  <2> DEFINE job == [jobs[p] EXCEPT !.pc = "copy", !.tmp = t, !.inode = i]
  <2>2. /\ job.op = jobs[p].op /\ job.key = jobs[p].key
        /\ job.val = jobs[p].val /\ job.done = jobs[p].done
    BY <1>1 DEF Job
  <2> HIDE DEF job
  <2>3. \A q \in Procs : At(q, "read") => data'[jobs[q].inode] = data[jobs[q].inode]
    BY <1>1, <2>1, OpOfStep DEF FreeInode, At, IInv, JobsOK
  <2>4. \A k \in Key : names'[k] = names[k] /\ names[k] # i
    BY <1>1, <2>1, KeysAreNoTemps DEF FreeInode, Name
  <2>5. \A k \in Key : Exists(k) => data'[names[k]] = data[names[k]]
    BY <1>1, <2>1, <2>4 DEF Exists, Name
  <2>6. Objects' = Objects
    BY <2>4, <2>5 DEF Objects, Exists
  <2>7. Becomes(p, job)
    BY <2>1 DEF job
  <2> QED
    BY <1>2, <1>3, <2>2, <2>3, <2>6, <2>7
<1>5. CASE Copy(p)
  <2> DEFINE job == [jobs[p] EXCEPT !.pc = "rename", !.inode = None]
             i == jobs[p].inode
  <2>1. /\ job.op = jobs[p].op /\ job.key = jobs[p].key
        /\ job.val = jobs[p].val /\ job.done = jobs[p].done
    BY <1>1 DEF Job
  <2>2. /\ Becomes(p, job) /\ names' = names /\ At(p, "copy")
        /\ data' = [data EXCEPT ![i] = jobs[p].val]
    BY <1>5 DEF Copy
  <2>3. /\ jobs[p].tmp \in Temp /\ i \in Inodes
        /\ \A n \in Name : names[n] = i <=> n = jobs[p].tmp
        /\ \A q \in Procs \ {p} : jobs[q].pc \in {"copy", "read"} => jobs[q].inode # i
    BY <1>1, <2>2 DEF IInv, FilesOK, Private, JobOK, Job, At
  <2> HIDE DEF job, i
  <2>4. \A q \in Procs : q # p /\ At(q, "read") => data'[jobs[q].inode] = data[jobs[q].inode]
    BY <1>1, <2>2, <2>3, OpOfStep DEF At, IInv, JobsOK
  <2>5. \A k \in Key : names[k] # i
    BY <2>3, KeysAreNoTemps DEF Name
  <2>6. \A k \in Key : Exists(k) => data'[names[k]] = data[names[k]]
    BY <1>1, <2>2, <2>5 DEF Exists, Name
  <2>7. Objects' = Objects
    BY <2>2, <2>6 DEF Objects, Exists
  <2> QED
    BY <1>2, <1>3, <2>1, <2>2, <2>4, <2>7
<1>6. CASE CopyFails(p)
  <2> DEFINE job == [jobs[p] EXCEPT !.pc = "cleanup", !.inode = None]
  <2>1. /\ job.op = jobs[p].op /\ job.key = jobs[p].key
        /\ job.val = jobs[p].val /\ job.done = jobs[p].done
    BY <1>1 DEF Job
  <2>2. Becomes(p, job) /\ UNCHANGED <<names, data>>
    BY <1>6 DEF CopyFails, files
  <2> HIDE DEF job
  <2> QED
    BY <1>2, <1>3, <2>1, <2>2, SameObjects
<1>7. CASE RenameFails(p)
  <2> DEFINE job == [jobs[p] EXCEPT !.pc = "cleanup"]
  <2>1. /\ job.op = jobs[p].op /\ job.key = jobs[p].key
        /\ job.val = jobs[p].val /\ job.done = jobs[p].done
    BY <1>1 DEF Job
  <2>2. Becomes(p, job) /\ UNCHANGED <<names, data>>
    BY <1>7 DEF RenameFails, Goes, files
  <2> HIDE DEF job
  <2> QED
    BY <1>2, <1>3, <2>1, <2>2, SameObjects
<1> QED
  BY <1>4, <1>5, <1>6, <1>7

LEMMA ObjectChanges ==
  ASSUME NEW k \in Key, NEW v, data' = data,
         \A l \in Key : l # k => names'[l] = names[l],
         v = IF names'[k] = None THEN None ELSE data[names'[k]]
  PROVE  Objects' = [Objects EXCEPT ![k] = v]
<1>1. \A l \in Key : Objects'[l] = IF l = k THEN v ELSE Objects[l]
  BY DEF Objects, Exists
<1> QED
  BY <1>1 DEF Objects

LEMMA RenameRefines ==
  ASSUME IInv, NEW p \in Procs, Rename(p) PROVE Atomic!Put(p)
<1> DEFINE k == jobs[p].key
           t == jobs[p].tmp
           v == jobs[p].val
           job == [jobs[p] EXCEPT !.pc = "cleanup", !.done = TRUE]
<1>1. /\ jobs[p] \in Job /\ JobOK(jobs[p]) /\ At(p, "rename")
      /\ names \in [Name -> Inodes \cup {None}]
      /\ names' = [names EXCEPT ![k] = names[t], ![t] = None] /\ data' = data
      /\ Becomes(p, job)
  BY DEF IInv, TypeOK, JobsOK, Rename
<1>2. jobs[p].op = "put" /\ k \in Key /\ t \in Temp /\ ~jobs[p].done
  BY <1>1 DEF JobOK, Job, At
<1>3. names[t] # None /\ data[names[t]] = v
  BY <1>1 DEF IInv, FilesOK, Complete, Exists
<1>4. Requests[p] = [op |-> "put", key |-> k, val |-> v, done |-> FALSE]
  BY <1>1, <1>2 DEF Requests, RequestOf, Job
<1>5. RequestOf(job, data') = [op |-> "put", key |-> k, val |-> v, done |-> TRUE]
  BY <1>1, <1>2 DEF RequestOf, Job
<1> HIDE DEF job, k, t, v
<1>6. Requests' = [Requests EXCEPT ![p] = [op |-> "put", key |-> k, val |-> v, done |-> TRUE]]
  BY <1>1, <1>5, OneRequest
<1>7. /\ names'[k] = names[t] /\ k \notin Temp
      /\ \A l \in Key : l # k => names'[l] = names[l]
  BY <1>1, <1>2, KeysAreNoTemps DEF Name
<1>8. Objects' = [Objects EXCEPT ![k] = v]
  BY <1>1, <1>2, <1>3, <1>7, ObjectChanges
<1>9. /\ Requests[p].op = "put" /\ ~Requests[p].done
      /\ Requests[p].key = k /\ Requests[p].val = v
  BY <1>4
<1> QED
  BY <1>6, <1>8, <1>9 DEF Atomic!Put, Atomic!Pending, Atomic!Asks, Atomic!Done

LEMMA DeleteRefines ==
  ASSUME IInv, NEW p \in Procs, Delete(p) PROVE Atomic!Delete(p)
<1> DEFINE k == jobs[p].key
           job == [jobs[p] EXCEPT !.pc = "returned", !.done = TRUE]
<1>1. /\ jobs[p] \in Job /\ JobOK(jobs[p]) /\ At(p, "remove")
      /\ names \in [Name -> Inodes \cup {None}]
      /\ names' = [names EXCEPT ![k] = None] /\ data' = data
      /\ Becomes(p, job)
  BY DEF IInv, TypeOK, JobsOK, Delete
<1>2. jobs[p].op = "delete" /\ k \in Key /\ ~jobs[p].done /\ jobs[p].val = None
  BY <1>1 DEF JobOK, Job, At
<1>3. Requests[p] = [op |-> "delete", key |-> k, val |-> None, done |-> FALSE]
  BY <1>1, <1>2 DEF Requests, RequestOf, Job
<1>4. RequestOf(job, data') = [op |-> "delete", key |-> k, val |-> None, done |-> TRUE]
  BY <1>1, <1>2 DEF RequestOf, Job
<1> HIDE DEF job, k
<1>5. Requests' = [Requests EXCEPT ![p] = [op |-> "delete", key |-> k, val |-> None, done |-> TRUE]]
  BY <1>1, <1>4, OneRequest
<1>6. names'[k] = None /\ \A l \in Key : l # k => names'[l] = names[l]
  BY <1>1, <1>2 DEF Name
<1>7. Objects' = [Objects EXCEPT ![k] = None]
  BY <1>1, <1>2, <1>6, ObjectChanges
<1>8. /\ Requests[p].op = "delete" /\ ~Requests[p].done
      /\ Requests[p].key = k /\ Requests[p].val = None
  BY <1>3
<1> QED
  BY <1>5, <1>7, <1>8 DEF Atomic!Delete, Atomic!Pending, Atomic!Asks, Atomic!Done

LEMMA OpenRefines ==
  ASSUME IInv, NEW p \in Procs, Open(p) PROVE Atomic!Get(p)
<1> DEFINE k == jobs[p].key
           i == names[k]
           job == [jobs[p] EXCEPT !.pc = "read", !.inode = i, !.done = TRUE]
<1>1. /\ jobs[p] \in Job /\ JobOK(jobs[p]) /\ At(p, "open")
      /\ i # None /\ UNCHANGED <<names, data>> /\ Becomes(p, job)
  BY DEF IInv, TypeOK, JobsOK, Open, Exists, files
<1>2. jobs[p].op = "get" /\ k \in Key /\ ~jobs[p].done /\ jobs[p].val = None
  BY <1>1 DEF JobOK, Job, At
<1>3. Objects[k] = data[i] /\ data[i] \in Value
  BY <1>1, <1>2 DEF Objects, Exists, IInv, FilesOK, KeysWhole
<1>4. Requests[p] = [op |-> "get", key |-> k, val |-> None, done |-> FALSE]
  BY <1>1, <1>2 DEF Requests, RequestOf, Job
<1>5. RequestOf(job, data') = [op |-> "get", key |-> k, val |-> data[i], done |-> TRUE]
  BY <1>1, <1>2 DEF RequestOf, Job
<1>6. Objects' = Objects
  BY <1>1, SameObjects
<1> HIDE DEF job, k, i
<1>7. Requests' = [Requests EXCEPT ![p] = [op |-> "get", key |-> k, val |-> data[i], done |-> TRUE]]
  BY <1>1, <1>5, OneRequest
<1>8. /\ Requests[p].op = "get" /\ ~Requests[p].done /\ Requests[p].key = k
  BY <1>4
<1>9. Objects[k] # None
  BY <1>3, NamesAreSomething
<1> QED
  BY <1>3, <1>6, <1>7, <1>8, <1>9 DEF Atomic!Get, Atomic!Pending, Atomic!Asks, Atomic!Done

LEMMA NextRefines ==
  IInv /\ [Next]_vars => [Atomic!Next]_<<Objects, Requests>>
<1> SUFFICES ASSUME IInv, [Next]_vars PROVE [Atomic!Next]_<<Objects, Requests>>
  OBVIOUS
<1>1. CASE UNCHANGED vars
  BY <1>1 DEF vars, Objects, Exists, Requests
<1>2. CASE Next
  <2>1. PICK p \in Procs : PutStep(p) \/ KeyStep(p) \/ LoadStep(p) \/ Return(p) \/ Crash(p)
    BY <1>2 DEF Next
  <2>2. CASE CallPut(p) \/ CallGet(p) \/ CallDelete(p)
    BY <2>2, CallRefines DEF Atomic!Next
  <2>3. CASE CallLoad(p) \/ Walking(p)
    BY <2>3, LoadRefines DEF Atomic!Next
  <2>4. CASE \/ RemoveTemp(p) \/ RemoveTempFails(p) \/ CreateFails(p) \/ OpenFails(p)
            \/ Read(p) \/ DeleteFails(p) \/ Return(p) \/ Crash(p)
    <3>1. Becomes(p, Idle) /\ data' = data /\ (names' = names \/ RemoveTemp(p))
      BY <2>4 DEF RemoveTemp, RemoveTempFails, CreateFails, OpenFails, Read, DeleteFails, Return,
                  Crash, files
    <3> QED
      BY <3>1, EndRefines DEF Atomic!Next
  <2>5. CASE CreateTemp(p) \/ Copy(p) \/ CopyFails(p) \/ RenameFails(p)
    BY <2>5, WriteHidden
  <2>6. CASE Rename(p)
    BY <2>6, RenameRefines DEF Atomic!Next
  <2>7. CASE Delete(p)
    BY <2>7, DeleteRefines DEF Atomic!Next
  <2>8. CASE Open(p)
    BY <2>8, OpenRefines DEF Atomic!Next
  <2> QED
    BY <2>1, <2>2, <2>3, <2>4, <2>5, <2>6, <2>7, <2>8
       DEF PutStep, KeyStep, LoadStep, Walking
<1> QED
  BY <1>1, <1>2

\* Put, Get and Delete of the local backend are atomic: what Backwyn.tla takes
\* the store to be.
THEOREM LocalStoreIsAtomic == Spec => ImplementsObjectStore
  BY InitRefines, NextRefines, Invariance, PTL DEF Spec, ImplementsObjectStore, Atomic!Spec

-----------------------------------------------------------------------------
(* What a load returns.                                                    *)

\* What a load has still to look at, has found or has loaded.
LoadedIds(job) == {v.id : v \in job.got}

Accounted(job, i) ==
    /\ job.pc = "lstat" /\ job.dir = "manifests" => ManifestKey(i) \in job.todo \cup job.keys
    /\ job.pc = "loadopen" => ManifestKey(i) \in job.keys \/ i \in LoadedIds(job)
    /\ job.pc = "decode" =>
          \/ ManifestKey(i) \in job.keys \/ i \in LoadedIds(job)
          \/ data[job.inode] \in Value /\ data[job.inode].id = i
    /\ job.pc = "returned" => i \in LoadedIds(job)

WalkOK == \A p \in Procs : jobs[p].op = "load" => \A i \in stable[p] : Accounted(jobs[p], i)

StableListed == \A p \in Procs : stable[p] \subseteq Listed(names)

\* Under a key is an object of its id, and nothing yet in a file being copied.
OwnIds ==
    /\ \A k \in Key : Exists(k) => data[names[k]].id = k.id
    /\ \A p \in Procs : jobs[p].pc \in {"create", "copy", "rename"} => jobs[p].val.id = jobs[p].key.id

CopyTorn == \A p \in Procs : At(p, "copy") => data[jobs[p].inode] = Torn

\* A temporary file is some put's own, or litter, and no put has one while a load
\* goes undisturbed.
TempsOwned == \A t \in Temp : Exists(t) => t \in litter \/ \E p \in Procs : jobs[p].tmp = t
QuietAlone == \A p \in quiet : jobs[p].op = "load" => \A q \in Procs : jobs[q].tmp = None

TempsOK == TempsOwned /\ QuietAlone

\* What a load nobody disturbs has done of a tree without temporary files.
Leftovers == {t \in Temp : Exists(t)}
Present == {n \in Name : Exists(n) /\ n.dir = "manifests"}
Contents(some) == {data[names[n]] : n \in some}

Exact(job) ==
    /\ job.pc # "failed"
    /\ job.pc \in {"readdir", "lstat"} => job.got = {}
    /\ job.pc = "readdir" => job.keys = {}
    /\ job.pc = "lstat" =>
          /\ \A n \in job.todo : Exists(n) /\ n.dir = job.dir
          /\ job.dir = "artifacts" => job.keys = {}
          /\ job.dir = "manifests" => job.todo \cup job.keys = Present
    /\ job.pc = "loadopen" => job.keys \subseteq Present /\ job.got = Contents(Present \ job.keys)
    /\ job.pc = "decode" =>
          /\ job.keys \subseteq Present /\ data[job.inode] \in Contents(Present)
          /\ job.got \cup {data[job.inode]} = Contents(Present \ job.keys)
    /\ job.pc = "returned" => job.got = Contents(Present)

ExactOK == Leftovers = {} => \A p \in quiet : jobs[p].op = "load" => Exact(jobs[p])

LInv == IInv /\ StableListed /\ OwnIds /\ CopyTorn /\ TempsOK /\ WalkOK /\ ExactOK

LEMMA InitLInv == Init => LInv
<1> SUFFICES ASSUME Init PROVE LInv
  OBVIOUS
<1>1. /\ \A p \in Procs : jobs[p] = Idle /\ stable[p] = {}
      /\ \A n \in Name : names[n] = None
      /\ quiet = {}
  BY DEF Init
<1>2. Idle.op = "none" /\ Idle.pc = "idle"
  BY DEF Idle
<1>3. IInv
  BY InitIInv
<1>4. StableListed /\ OwnIds /\ CopyTorn /\ WalkOK /\ ExactOK
  BY <1>1, <1>2 DEF StableListed, OwnIds, CopyTorn, WalkOK, ExactOK, Exists, Name, At
<1>5. TempsOK
  BY <1>1 DEF TempsOK, TempsOwned, QuietAlone, Exists, Name
<1> QED
  BY <1>3, <1>4, <1>5 DEF LInv

\* A step that touches neither the tree nor a file.
Inside(p) == Released(p) \/ CallGet(p) \/ CallDelete(p) \/ Open(p) \/ Walking(p)

LEMMA InsideIsLocal ==
  ASSUME IInv, NEW p \in Procs, Inside(p)
  PROVE  /\ UNCHANGED <<names, data, stable, quiet>>
         /\ \A q \in Procs \ {p} : jobs'[q] = jobs[q]
         /\ jobs'[p].pc \notin {"create", "copy", "rename"}
         /\ Walking(p) \/ jobs'[p].op # "load"
<1>1. UNCHANGED <<names, data, stable, quiet>>
  BY DEF Inside, Released, CreateFails, CopyFails, RenameFails, OpenFails, Read, DeleteFails,
         RemoveTempFails, Return, Crash, CallGet, CallDelete, Open, Walking, ReadDir, Lstat, LstatFails, Walked,
         LoadOpen, LoadOpenFails, Decode, DecodeFails, Loaded, files, history
<1>2. ASSUME NEW STATE job, Becomes(p, job)
      PROVE  jobs'[p] = job /\ \A q \in Procs \ {p} : jobs'[q] = jobs[q]
  BY <1>2 DEF Becomes, IInv, TypeOK
<1>3. jobs[p] \in Job /\ JobOK(jobs[p])
  BY DEF IInv, TypeOK, JobsOK
<1>4. CASE Walking(p)
  <2>1. jobs[p].pc \in LoadSteps
    BY <1>4 DEF Walking, ReadDir, Lstat, LstatFails, Walked, LoadOpen, LoadOpenFails, Decode,
                DecodeFails, Loaded, At, LoadSteps
  <2>2. PICK job : Becomes(p, job) /\ job.op = "load"
    BY <1>4, WalkingIInv
  <2>3. jobs'[p] = job /\ \A q \in Procs \ {p} : jobs'[q] = jobs[q]
    BY <2>2 DEF Becomes, IInv, TypeOK
  <2>4. JobOK(jobs'[p])
    BY <1>4, WalkingIInv DEF IInv, JobsOK
  <2>5. jobs'[p].pc \notin {"create", "copy", "rename"}
    BY <2>2, <2>3, <2>4 DEF JobOK
  <2> QED
    BY <1>1, <1>4, <2>3, <2>5
<1>5. CASE Becomes(p, Idle)
  BY <1>1, <1>2, <1>5 DEF Idle
<1>6. CASE CopyFails(p) \/ RenameFails(p)
  <2>1. jobs[p].op = "put"
    BY <1>3, <1>6 DEF CopyFails, RenameFails, At, JobOK
  <2>2. CASE CopyFails(p)
    <3> DEFINE job == [jobs[p] EXCEPT !.pc = "cleanup", !.inode = None]
    <3>1. job.pc = "cleanup" /\ job.op = "put"
      BY <1>3, <2>1 DEF Job
    <3>2. Becomes(p, job)
      BY <2>2 DEF CopyFails
    <3> HIDE DEF job
    <3> QED
      BY <1>1, <1>2, <3>1, <3>2
  <2>3. CASE RenameFails(p)
    <3> DEFINE job == [jobs[p] EXCEPT !.pc = "cleanup"]
    <3>1. job.pc = "cleanup" /\ job.op = "put"
      BY <1>3, <2>1 DEF Job
    <3>2. Becomes(p, job)
      BY <2>3 DEF RenameFails, Goes
    <3> HIDE DEF job
    <3> QED
      BY <1>1, <1>2, <3>1, <3>2
  <2> QED
    BY <1>6, <2>2, <2>3
<1>7. CASE CallGet(p)
  <2>1. PICK k \in Key : Becomes(p, [Idle EXCEPT !.op = "get", !.pc = "open", !.key = k])
    BY <1>7 DEF CallGet, Starts
  <2> DEFINE job == [Idle EXCEPT !.op = "get", !.pc = "open", !.key = k]
  <2>2. job.pc = "open" /\ job.op = "get"
    BY DEF Idle
  <2>3. Becomes(p, job)
    BY <2>1
  <2> HIDE DEF job
  <2> QED
    BY <1>1, <1>2, <2>2, <2>3
<1>8. CASE CallDelete(p)
  <2>1. PICK k \in Key : Becomes(p, [Idle EXCEPT !.op = "delete", !.pc = "remove", !.key = k])
    BY <1>8 DEF CallDelete, Starts
  <2> DEFINE job == [Idle EXCEPT !.op = "delete", !.pc = "remove", !.key = k]
  <2>2. job.pc = "remove" /\ job.op = "delete"
    BY DEF Idle
  <2>3. Becomes(p, job)
    BY <2>1
  <2> HIDE DEF job
  <2> QED
    BY <1>1, <1>2, <2>2, <2>3
<1>9. CASE Open(p)
  <2> DEFINE job == [jobs[p] EXCEPT !.pc = "read", !.inode = names[jobs[p].key], !.done = TRUE]
  <2>1. job.pc = "read" /\ job.op = "get"
    BY <1>3, <1>9 DEF Open, At, JobOK, Job
  <2>2. Becomes(p, job)
    BY <1>9 DEF Open
  <2> HIDE DEF job
  <2> QED
    BY <1>1, <1>2, <2>1, <2>2
<1> QED
  BY <1>4, <1>5, <1>6, <1>7, <1>8, <1>9
     DEF Inside, Released, CreateFails, OpenFails, Read, DeleteFails, RemoveTempFails, Return, Crash

\* What a step of p leaves to the loads of the others.
Steady(p) ==
    /\ \A q \in Procs \ {p} : jobs'[q] = jobs[q]
    /\ \A q \in Procs \ {p} : stable'[q] \subseteq stable[q]
    /\ \A q \in Procs \ {p} : At(q, "decode") /\ data[jobs[q].inode] \in Value =>
          data'[jobs[q].inode] = data[jobs[q].inode]
    /\ \A q \in Procs \ {p} : q \in quiet' => q \in quiet /\ UNCHANGED <<names, data>>
    /\ jobs'[p].op = "load" => Walking(p) \/ CallLoad(p)

Lasting == StableListed /\ OwnIds /\ CopyTorn

LEMMA InsideLasts ==
  ASSUME IInv, Lasting, NEW p \in Procs, Inside(p)
  PROVE  Steady(p) /\ Lasting'
<1>1. /\ UNCHANGED <<names, data, stable, quiet>>
      /\ \A q \in Procs \ {p} : jobs'[q] = jobs[q]
      /\ jobs'[p].pc \notin {"create", "copy", "rename"}
      /\ Walking(p) \/ jobs'[p].op # "load"
  BY InsideIsLocal
<1>2. Steady(p)
  BY <1>1 DEF Steady
<1>3. StableListed'
  BY <1>1 DEF Lasting, StableListed, Listed
<1>4. OwnIds'
  BY <1>1 DEF Lasting, OwnIds, Exists
<1>5. CopyTorn'
  BY <1>1 DEF Lasting, CopyTorn, At
<1> QED
  BY <1>2, <1>3, <1>4, <1>5 DEF Lasting

LEMMA CallLasts ==
  ASSUME IInv, Lasting, NEW p \in Procs, CallPut(p) \/ CallLoad(p)
  PROVE  Steady(p) /\ Lasting'
<1>1. jobs \in [Procs -> Job] /\ stable \in [Procs -> SUBSET Ids] /\ UNCHANGED <<names, data>>
  BY DEF IInv, TypeOK, CallPut, CallLoad, files
<1>2. ASSUME NEW STATE job, Becomes(p, job)
      PROVE  jobs'[p] = job /\ \A q \in Procs \ {p} : jobs'[q] = jobs[q]
  BY <1>2 DEF Becomes, IInv, TypeOK
<1>3. CASE CallPut(p)
  <2>1. PICK k \in Key, v \in Versions :
          Becomes(p, [Idle EXCEPT !.op = "put", !.pc = "create", !.key = k,
                                  !.val = [id |-> k.id, version |-> v]])
    BY <1>3 DEF CallPut, Starts
  <2> DEFINE job == [Idle EXCEPT !.op = "put", !.pc = "create", !.key = k,
                                 !.val = [id |-> k.id, version |-> v]]
  <2>2. job.op = "put" /\ job.pc = "create" /\ job.val.id = job.key.id
    BY DEF Idle
  <2>3. Becomes(p, job)
    BY <2>1
  <2> HIDE DEF job
  <2>4. jobs'[p] = job /\ \A q \in Procs \ {p} : jobs'[q] = jobs[q]
    BY <1>2, <2>3
  <2>5. UNCHANGED <<stable, quiet>>
    BY <1>3 DEF CallPut, history
  <2>6. Steady(p)
    BY <1>1, <2>2, <2>4, <2>5 DEF Steady
  <2>7. StableListed'
    BY <1>1, <2>5 DEF Lasting, StableListed, Listed
  <2>8. OwnIds'
    BY <1>1, <2>2, <2>4 DEF Lasting, OwnIds, Exists
  <2>9. CopyTorn'
    BY <1>1, <2>2, <2>4 DEF Lasting, CopyTorn, At
  <2> QED
    BY <2>6, <2>7, <2>8, <2>9 DEF Lasting
<1>4. CASE CallLoad(p)
  <2> DEFINE job == [Idle EXCEPT !.op = "load", !.pc = "readdir"]
  <2>1. job.pc = "readdir"
    BY DEF Idle
  <2>2. Becomes(p, job)
    BY <1>4 DEF CallLoad, Starts
  <2> HIDE DEF job
  <2>3. jobs'[p] = job /\ \A q \in Procs \ {p} : jobs'[q] = jobs[q]
    BY <1>2, <2>2
  <2>4. /\ stable' = [stable EXCEPT ![p] = Listed(names)]
        /\ quiet' = IF \A q \in Procs \ {p} : At(q, "idle") THEN quiet \cup {p} ELSE quiet \ {p}
    BY <1>4 DEF CallLoad
  <2>5. stable'[p] = Listed(names) /\ \A q \in Procs \ {p} : stable'[q] = stable[q]
    BY <1>1, <2>4
  <2>6. Steady(p)
    BY <1>1, <1>4, <2>3, <2>4, <2>5 DEF Steady
  <2>7. StableListed'
    BY <1>1, <2>5 DEF Lasting, StableListed, Listed
  <2>8. OwnIds'
    BY <1>1, <2>1, <2>3 DEF Lasting, OwnIds, Exists
  <2>9. CopyTorn'
    BY <1>1, <2>1, <2>3 DEF Lasting, CopyTorn, At
  <2> QED
    BY <2>6, <2>7, <2>8, <2>9 DEF Lasting
<1> QED
  BY <1>3, <1>4

LEMMA CreateTempLasts ==
  ASSUME IInv, Lasting, NEW p \in Procs, CreateTemp(p)
  PROVE  Steady(p) /\ Lasting'
<1>1. PICK t \in Temp, i \in Inodes :
        /\ FreeInode(i)
        /\ names' = [names EXCEPT ![t] = i]
        /\ data' = [data EXCEPT ![i] = Torn]
        /\ Becomes(p, [jobs[p] EXCEPT !.pc = "copy", !.tmp = t, !.inode = i])
  BY DEF CreateTemp
<1> DEFINE job == [jobs[p] EXCEPT !.pc = "copy", !.tmp = t, !.inode = i]
<1>2. /\ jobs \in [Procs -> Job] /\ jobs[p] \in Job /\ JobOK(jobs[p]) /\ At(p, "create")
      /\ names \in [Name -> Inodes \cup {None}] /\ data \in [Inodes -> Value \cup {Torn}]
      /\ stable' = stable /\ quiet' = quiet \cap {p}
  BY DEF IInv, TypeOK, JobsOK, CreateTemp, Disturbs
<1>3. /\ job.pc = "copy" /\ job.inode = i /\ job.op = "put"
      /\ job.val = jobs[p].val /\ job.key = jobs[p].key
  BY <1>2 DEF Job, JobOK, At
<1>4. Becomes(p, job)
  BY <1>1
<1> HIDE DEF job
<1>5. jobs'[p] = job /\ \A q \in Procs \ {p} : jobs'[q] = jobs[q]
  BY <1>2, <1>4 DEF Becomes
<1>6. \A q \in Procs : jobs[q].inode \in Inodes => jobs[q].inode # i
                       /\ data'[jobs[q].inode] = data[jobs[q].inode]
  BY <1>1, <1>2 DEF FreeInode
<1>7. \A q \in Procs : jobs[q].pc \in {"copy", "decode"} => jobs[q].inode \in Inodes
  BY <1>2 DEF IInv, JobsOK, JobOK, Job
<1>8. \A k \in Key : names'[k] = names[k] /\ names[k] # i /\ (names[k] # None => names[k] \in Inodes)
  BY <1>1, <1>2, KeysAreNoTemps DEF FreeInode, Name
<1>9. Steady(p)
  BY <1>2, <1>3, <1>5, <1>6, <1>7 DEF Steady, At
<1>10. \A l \in Ids : names'[ManifestKey(l)] = names[ManifestKey(l)]
  BY <1>8 DEF ManifestKey, Key, Dirs
<1>11. StableListed'
  BY <1>2, <1>10 DEF Lasting, StableListed, Listed
<1>12. OwnIds'
  <2>1. \A k \in Key : names'[k] # None => data'[names'[k]].id = k.id
    BY <1>1, <1>2, <1>8 DEF Lasting, OwnIds, Exists
  <2>2. \A q \in Procs : jobs'[q].pc \in {"create", "copy", "rename"} => jobs'[q].val.id = jobs'[q].key.id
    BY <1>2, <1>3, <1>5 DEF Lasting, OwnIds, At
  <2> QED
    BY <2>1, <2>2 DEF OwnIds, Exists
<1>13. CopyTorn'
  BY <1>1, <1>2, <1>3, <1>5, <1>6, <1>7 DEF Lasting, CopyTorn, At
<1> QED
  BY <1>9, <1>11, <1>12, <1>13 DEF Lasting

LEMMA CopyLasts ==
  ASSUME IInv, Lasting, NEW p \in Procs, Copy(p)
  PROVE  Steady(p) /\ Lasting'
<1> DEFINE i == jobs[p].inode
           job == [jobs[p] EXCEPT !.pc = "rename", !.inode = None]
<1>1. /\ jobs \in [Procs -> Job] /\ jobs[p] \in Job /\ JobOK(jobs[p]) /\ At(p, "copy")
      /\ names \in [Name -> Inodes \cup {None}] /\ data \in [Inodes -> Value \cup {Torn}]
      /\ UNCHANGED <<names, stable>> /\ quiet' = quiet \cap {p}
      /\ data' = [data EXCEPT ![i] = jobs[p].val]
      /\ Becomes(p, job)
  BY DEF IInv, TypeOK, JobsOK, Copy, Disturbs
<1>2. /\ job.pc = "rename" /\ job.op = "put"
      /\ job.val = jobs[p].val /\ job.key = jobs[p].key
      /\ i \in Inodes /\ jobs[p].tmp \in Temp
  BY <1>1 DEF Job, JobOK, At
<1>3. /\ data[i] = Torn
      /\ \A n \in Name : names[n] = i <=> n = jobs[p].tmp
      /\ \A q \in Procs \ {p} : jobs[q].pc \in {"copy", "read"} => jobs[q].inode # i
  BY <1>1 DEF IInv, FilesOK, Private, Lasting, CopyTorn
<1> HIDE DEF job, i
<1>4. jobs'[p] = job /\ \A q \in Procs \ {p} : jobs'[q] = jobs[q]
  BY <1>1 DEF Becomes
<1>5. \A q \in Procs \ {p} : At(q, "decode") /\ data[jobs[q].inode] \in Value =>
        data'[jobs[q].inode] = data[jobs[q].inode]
  <2> SUFFICES ASSUME NEW q \in Procs, At(q, "decode"), data[jobs[q].inode] \in Value
               PROVE  data'[jobs[q].inode] = data[jobs[q].inode]
    OBVIOUS
  <2>1. jobs[q].inode \in Inodes
    BY <1>1 DEF IInv, JobsOK, JobOK, Job, At
  <2>2. jobs[q].inode # i
    BY <1>3, NamesAreSomething
  <2> QED
    BY <1>1, <2>1, <2>2
<1>6. Steady(p)
  BY <1>1, <1>2, <1>4, <1>5 DEF Steady
<1>7. StableListed'
  BY <1>1 DEF Lasting, StableListed, Listed
<1>8. OwnIds'
  <2>1. \A k \in Key : names[k] # i /\ (names[k] # None => names[k] \in Inodes)
    BY <1>1, <1>2, <1>3, KeysAreNoTemps DEF Name
  <2>2. \A k \in Key : names'[k] # None => data'[names'[k]].id = k.id
    BY <1>1, <2>1 DEF Lasting, OwnIds, Exists
  <2>3. \A q \in Procs : jobs'[q].pc \in {"create", "copy", "rename"} => jobs'[q].val.id = jobs'[q].key.id
    BY <1>1, <1>2, <1>4 DEF Lasting, OwnIds, At
  <2> QED
    BY <2>2, <2>3 DEF OwnIds, Exists
<1>9. CopyTorn'
  <2> SUFFICES ASSUME NEW q \in Procs, jobs'[q].pc = "copy" PROVE data'[jobs'[q].inode] = Torn
    BY DEF CopyTorn, At
  <2>1. q # p /\ jobs'[q] = jobs[q]
    BY <1>2, <1>4
  <2>2. jobs[q].inode \in Inodes /\ jobs[q].inode # i
    BY <1>1, <1>3, <2>1 DEF IInv, JobsOK, JobOK, Job
  <2> QED
    BY <1>1, <2>1, <2>2 DEF Lasting, CopyTorn, At
<1> QED
  BY <1>6, <1>7, <1>8, <1>9 DEF Lasting

LEMMA RenameLasts ==
  ASSUME IInv, Lasting, NEW p \in Procs, Rename(p)
  PROVE  Steady(p) /\ Lasting'
<1> DEFINE k == jobs[p].key
           t == jobs[p].tmp
           job == [jobs[p] EXCEPT !.pc = "cleanup", !.done = TRUE]
<1>1. /\ jobs \in [Procs -> Job] /\ jobs[p] \in Job /\ JobOK(jobs[p]) /\ At(p, "rename")
      /\ names \in [Name -> Inodes \cup {None}]
      /\ UNCHANGED <<data, stable>> /\ quiet' = quiet \cap {p}
      /\ names' = [names EXCEPT ![k] = names[t], ![t] = None]
      /\ Becomes(p, job)
  BY DEF IInv, TypeOK, JobsOK, Rename, Disturbs
<1>2. job.pc = "cleanup" /\ job.op = "put" /\ k \in Key /\ t \in Temp
  BY <1>1 DEF Job, JobOK, At
<1>3. names[t] # None /\ data[names[t]].id = k.id
  BY <1>1 DEF IInv, FilesOK, Complete, Exists, Lasting, OwnIds, At
<1> HIDE DEF job, k, t
<1>4. jobs'[p] = job /\ \A q \in Procs \ {p} : jobs'[q] = jobs[q]
  BY <1>1 DEF Becomes
<1>5. names'[k] = names[t] /\ \A l \in Key : l # k => names'[l] = names[l]
  BY <1>1, <1>2, KeysAreNoTemps DEF Name
<1>6. Steady(p)
  BY <1>1, <1>2, <1>4 DEF Steady
<1>7. \A l \in Ids : names[ManifestKey(l)] # None => names'[ManifestKey(l)] # None
  BY <1>3, <1>5 DEF ManifestKey, Key, Dirs
<1>8. StableListed'
  BY <1>1, <1>7 DEF Lasting, StableListed, Listed
<1>9. OwnIds'
  BY <1>1, <1>2, <1>3, <1>4, <1>5 DEF Lasting, OwnIds, Exists
<1>10. CopyTorn'
  BY <1>1, <1>2, <1>4 DEF Lasting, CopyTorn, At
<1> QED
  BY <1>6, <1>8, <1>9, <1>10 DEF Lasting

LEMMA RemovalLasts ==
  ASSUME IInv, Lasting, NEW p \in Procs, RemoveTemp(p) \/ Delete(p)
  PROVE  Steady(p) /\ Lasting'
<1>1. /\ jobs \in [Procs -> Job] /\ jobs[p] \in Job /\ JobOK(jobs[p])
      /\ names \in [Name -> Inodes \cup {None}] /\ data' = data /\ quiet' = quiet \cap {p}
      /\ stable \in [Procs -> SUBSET Ids]
  BY DEF IInv, TypeOK, JobsOK, RemoveTemp, Delete, Disturbs
<1>2. PICK job : /\ Becomes(p, job) /\ job.op # "load"
                 /\ job.pc \notin {"create", "copy", "rename"}
  <2>1. CASE RemoveTemp(p)
    BY <2>1 DEF RemoveTemp, Idle
  <2>2. CASE Delete(p)
    <3> DEFINE job == [jobs[p] EXCEPT !.pc = "returned", !.done = TRUE]
    <3>1. job.pc = "returned" /\ job.op = "delete"
      BY <1>1, <2>2 DEF Delete, At, JobOK, Job
    <3>2. Becomes(p, job)
      BY <2>2 DEF Delete
    <3> HIDE DEF job
    <3> QED
      BY <3>1, <3>2
  <2> QED
    BY <2>1, <2>2
<1>3. jobs'[p] = job /\ \A q \in Procs \ {p} : jobs'[q] = jobs[q]
  BY <1>1, <1>2 DEF Becomes
<1>4. /\ \A l \in Key : names'[l] \in {names[l], None}
      /\ \A q \in Procs : stable'[q] \subseteq stable[q]
      /\ StableListed'
  <2>1. CASE RemoveTemp(p)
    <3>1. jobs[p].tmp \in Temp /\ names' = [names EXCEPT ![jobs[p].tmp] = None] /\ stable' = stable
      BY <1>1, <2>1 DEF RemoveTemp, JobOK, Job, At
    <3>2. \A l \in Key : names'[l] = names[l]
      BY <1>1, <3>1, KeysAreNoTemps DEF Name
    <3>3. \A l \in Ids : names'[ManifestKey(l)] = names[ManifestKey(l)]
      BY <3>2 DEF ManifestKey, Key, Dirs
    <3> QED
      BY <3>1, <3>2, <3>3 DEF Lasting, StableListed, Listed
  <2>2. CASE Delete(p)
    <3> DEFINE k == jobs[p].key
    <3>1. /\ k \in Key /\ names' = [names EXCEPT ![k] = None]
          /\ stable' = [q \in Procs |-> {l \in stable[q] : ManifestKey(l) # k}]
      BY <1>1, <2>2 DEF Delete, JobOK, At
    <3> HIDE DEF k
    <3>2. \A l \in Key : names'[l] = IF l = k THEN None ELSE names[l]
      BY <1>1, <3>1 DEF Name
    <3>3. \A l \in Ids : ManifestKey(l) # k => names'[ManifestKey(l)] = names[ManifestKey(l)]
      BY <3>2 DEF ManifestKey, Key, Dirs
    <3>4. StableListed'
      BY <3>1, <3>3 DEF Lasting, StableListed, Listed
    <3> QED
      BY <3>1, <3>2, <3>4
  <2> QED
    BY <2>1, <2>2
<1>5. Steady(p)
  BY <1>1, <1>2, <1>3, <1>4 DEF Steady
<1>6. OwnIds'
  BY <1>1, <1>2, <1>3, <1>4 DEF Lasting, OwnIds, Exists
<1>7. CopyTorn'
  BY <1>1, <1>2, <1>3 DEF Lasting, CopyTorn, At
<1> QED
  BY <1>4, <1>5, <1>6, <1>7 DEF Lasting

\* The steps of a load, as changes of its locals.
LEMMA WalkCases ==
  ASSUME IInv, NEW p \in Procs, Walking(p)
  PROVE  /\ UNCHANGED <<names, data, stable, quiet, litter>>
         /\ jobs[p].op = "load" /\ jobs[p] \in Job
         /\ \/ At(p, "readdir") /\ jobs'[p] = [jobs[p] EXCEPT !.pc = "lstat",
                  !.todo = {n \in Name : Exists(n) /\ n.dir = jobs[p].dir}]
            \/ At(p, "lstat") /\ \E n \in jobs[p].todo :
                  Exists(n) /\ jobs'[p] = [jobs[p] EXCEPT !.todo = jobs[p].todo \ {n},
                     !.keys = IF n.dir = "manifests" THEN jobs[p].keys \cup {n} ELSE jobs[p].keys]
            \/ At(p, "lstat") /\ jobs[p].todo = {} /\ jobs[p].dir = "artifacts"
                  /\ jobs'[p] = [jobs[p] EXCEPT !.pc = "readdir", !.dir = "manifests"]
            \/ At(p, "lstat") /\ jobs[p].todo = {} /\ jobs[p].dir = "manifests"
                  /\ jobs'[p] = [jobs[p] EXCEPT !.pc = "loadopen"]
            \/ At(p, "loadopen") /\ \E n \in jobs[p].keys :
                  Exists(n) /\ jobs'[p] = [jobs[p] EXCEPT !.pc = "decode",
                     !.keys = jobs[p].keys \ {n}, !.inode = names[n]]
            \/ At(p, "decode") /\ data[jobs[p].inode] \in Value
                  /\ jobs'[p] = [jobs[p] EXCEPT !.pc = "loadopen", !.inode = None,
                                    !.got = jobs[p].got \cup {data[jobs[p].inode]}]
            \/ At(p, "loadopen") /\ jobs[p].keys = {}
                  /\ jobs'[p] = [jobs[p] EXCEPT !.pc = "returned"]
            \/ /\ jobs'[p] = [Idle EXCEPT !.op = "load", !.pc = "failed"]
               /\ \/ At(p, "lstat") /\ \E n \in jobs[p].todo : ~Exists(n)
                  \/ At(p, "loadopen") /\ \E n \in jobs[p].keys : ~Exists(n)
                  \/ At(p, "decode") /\ data[jobs[p].inode] = Torn
<1>1. UNCHANGED <<names, data, stable, quiet, litter>>
  BY DEF Walking, ReadDir, Lstat, LstatFails, Walked, LoadOpen, LoadOpenFails, Decode, DecodeFails,
         Loaded, files, history
<1>2. ASSUME NEW STATE job, Becomes(p, job) PROVE jobs'[p] = job
  BY <1>2 DEF Becomes, IInv, TypeOK
<1>3. jobs[p] \in Job /\ JobOK(jobs[p]) /\ jobs[p].dir \in Dirs
  BY DEF IInv, TypeOK, JobsOK, Job
<1>4. jobs[p].op = "load"
  BY <1>3 DEF Walking, ReadDir, Lstat, LstatFails, Walked, LoadOpen, LoadOpenFails, Decode,
              DecodeFails, Loaded, At, JobOK, LoadSteps
<1>5. CASE ReadDir(p)
  BY <1>1, <1>2, <1>3, <1>4, <1>5 DEF ReadDir
<1>6. CASE Lstat(p)
  BY <1>1, <1>2, <1>3, <1>4, <1>6 DEF Lstat
<1>7. CASE Walked(p)
  BY <1>1, <1>2, <1>3, <1>4, <1>7 DEF Walked, Dirs
<1>8. CASE LoadOpen(p)
  BY <1>1, <1>2, <1>3, <1>4, <1>8 DEF LoadOpen
<1>9. CASE Decode(p)
  BY <1>1, <1>2, <1>3, <1>4, <1>9 DEF Decode
<1>10. CASE Loaded(p)
  BY <1>1, <1>2, <1>3, <1>4, <1>10 DEF Loaded, Goes
<1>11. CASE LstatFails(p) \/ LoadOpenFails(p) \/ DecodeFails(p)
  BY <1>1, <1>2, <1>3, <1>4, <1>11 DEF LstatFails, LoadOpenFails, DecodeFails, Fails
<1> QED
  BY <1>5, <1>6, <1>7, <1>8, <1>9, <1>10, <1>11 DEF Walking

LEMMA WalkAccounts ==
  ASSUME LInv, NEW p \in Procs, Walking(p), NEW i \in stable[p]
  PROVE  Accounted(jobs[p], i)'
<1> DEFINE me == jobs[p]
           next == jobs'[p]
<1>1. /\ IInv /\ UNCHANGED <<names, data, stable, quiet>> /\ me \in Job
      /\ Accounted(me, i) /\ i \in Ids /\ names[ManifestKey(i)] # None
      /\ ManifestKey(i) \in Key /\ ManifestKey(i).dir = "manifests" /\ ManifestKey(i).id = i
  BY WalkCases DEF LInv, IInv, TypeOK, WalkOK, StableListed, Listed, ManifestKey, Key, Dirs
<1>2. data[names[ManifestKey(i)]] \in Value /\ data[names[ManifestKey(i)]].id = i
  BY <1>1 DEF LInv, IInv, FilesOK, KeysWhole, OwnIds, Exists
<1> SUFFICES Accounted(next, i)
  BY <1>1 DEF Accounted, LoadedIds, ManifestKey
<1>3. ASSUME At(p, "readdir"), next = [me EXCEPT !.pc = "lstat",
                                          !.todo = {n \in Name : Exists(n) /\ n.dir = me.dir}]
      PROVE  Accounted(next, i)
  <2>1. next.pc = "lstat" /\ next.dir = me.dir /\ next.todo = {n \in Name : Exists(n) /\ n.dir = me.dir}
    BY <1>1, <1>3 DEF Job
  <2> QED
    BY <1>1, <2>1 DEF Accounted, Exists, Name
<1>4. ASSUME At(p, "lstat"), NEW n \in me.todo,
             next = [me EXCEPT !.todo = me.todo \ {n},
                               !.keys = IF n.dir = "manifests" THEN me.keys \cup {n} ELSE me.keys]
      PROVE  Accounted(next, i)
  <2>1. /\ next.pc = "lstat" /\ next.dir = me.dir /\ next.todo = me.todo \ {n}
        /\ next.keys = IF n.dir = "manifests" THEN me.keys \cup {n} ELSE me.keys
    BY <1>1, <1>4 DEF Job, At
  <2> HIDE DEF next
  <2> QED
    BY <1>1, <1>4, <2>1 DEF Accounted, At
<1>5. ASSUME next.pc \in {"readdir", "failed"}
      PROVE  Accounted(next, i)
  BY <1>5 DEF Accounted
<1>6. ASSUME At(p, "lstat"), me.todo = {}, me.dir = "manifests", next = [me EXCEPT !.pc = "loadopen"]
      PROVE  Accounted(next, i)
  <2>1. next.pc = "loadopen" /\ next.keys = me.keys
    BY <1>1, <1>6 DEF Job
  <2> HIDE DEF next
  <2> QED
    BY <1>1, <1>6, <2>1 DEF Accounted, At
<1>7. ASSUME At(p, "loadopen"), NEW n \in me.keys,
             next = [me EXCEPT !.pc = "decode", !.keys = me.keys \ {n}, !.inode = names[n]]
      PROVE  Accounted(next, i)
  <2>1. next.pc = "decode" /\ next.keys = me.keys \ {n} /\ next.inode = names[n] /\ next.got = me.got
    BY <1>1, <1>7 DEF Job
  <2> HIDE DEF next
  <2> QED
    BY <1>1, <1>2, <1>7, <2>1 DEF Accounted, LoadedIds, At
<1>8. ASSUME At(p, "decode"),
             next = [me EXCEPT !.pc = "loadopen", !.inode = None, !.got = me.got \cup {data[me.inode]}]
      PROVE  Accounted(next, i)
  <2>1. next.pc = "loadopen" /\ next.keys = me.keys /\ next.got = me.got \cup {data[me.inode]}
    BY <1>1, <1>8 DEF Job
  <2> HIDE DEF next
  <2> QED
    BY <1>1, <1>8, <2>1 DEF Accounted, LoadedIds, At
<1>9. ASSUME At(p, "loadopen"), me.keys = {}, next = [me EXCEPT !.pc = "returned"]
      PROVE  Accounted(next, i)
  <2>1. next.pc = "returned" /\ next.got = me.got
    BY <1>1, <1>9 DEF Job
  <2> HIDE DEF next
  <2> QED
    BY <1>1, <1>9, <2>1 DEF Accounted, LoadedIds, At
<1>10. [me EXCEPT !.pc = "readdir", !.dir = "manifests"].pc = "readdir"
       /\ [Idle EXCEPT !.op = "load", !.pc = "failed"].pc = "failed"
  BY <1>1 DEF Job, Idle
<1> HIDE DEF next
<1> QED
  BY <1>1, <1>3, <1>4, <1>5, <1>6, <1>7, <1>8, <1>9, <1>10, WalkCases DEF next

\* Without temporary files only manifests are in "manifests".
LEMMA PresentAreKeys ==
  ASSUME IInv, Leftovers = {}
  PROVE  /\ Present = {ManifestKey(i) : i \in Listed(names)}
         /\ \A n \in Present : data[names[n]] \in Value
<1>1. \A n \in Present : n \in Key /\ n.dir = "manifests" /\ names[n] # None
  BY DEF Present, Leftovers, Name, Exists
<1>2. \A n \in Present : n.id \in Listed(names) /\ n = ManifestKey(n.id)
  BY <1>1 DEF Key, Listed, ManifestKey
<1>3. \A i \in Listed(names) : ManifestKey(i) \in Present
  BY DEF Listed, ManifestKey, Present, Exists, Name, Key, Dirs
<1> QED
  BY <1>1, <1>2, <1>3 DEF IInv, FilesOK, KeysWhole, Exists

LEMMA WalkIsExact ==
  ASSUME LInv, NEW p \in Procs, Walking(p), p \in quiet, Leftovers = {}
  PROVE  Exact(jobs[p])'
<1> DEFINE me == jobs[p]
           next == jobs'[p]
<1>1. /\ IInv /\ UNCHANGED <<names, data, stable, quiet>> /\ me \in Job /\ Exact(me)
  BY WalkCases DEF LInv, ExactOK
<1>2. \A n \in Present : data[names[n]] \in Value /\ Exists(n) /\ n.dir = "manifests"
  BY <1>1, PresentAreKeys DEF Present
<1>3. SUFFICES Exact(next)
  BY <1>1 DEF Exact, Present, Contents, Exists
<1>4. ASSUME At(p, "readdir"), next = [me EXCEPT !.pc = "lstat",
                                          !.todo = {n \in Name : Exists(n) /\ n.dir = me.dir}]
      PROVE  Exact(next)
  <2>1. /\ next.pc = "lstat" /\ next.dir = me.dir /\ next.keys = me.keys /\ next.got = me.got
        /\ next.todo = {n \in Name : Exists(n) /\ n.dir = me.dir}
    BY <1>1, <1>4 DEF Job
  <2>2. me.keys = {} /\ me.got = {}
    BY <1>1, <1>4 DEF Exact, At
  <2> HIDE DEF next
  <2> QED
    BY <2>1, <2>2 DEF Exact, Present
<1>5. ASSUME At(p, "lstat"), NEW n \in me.todo,
             next = [me EXCEPT !.todo = me.todo \ {n},
                               !.keys = IF n.dir = "manifests" THEN me.keys \cup {n} ELSE me.keys]
      PROVE  Exact(next)
  <2>1. /\ next.pc = "lstat" /\ next.dir = me.dir /\ next.got = me.got /\ next.todo = me.todo \ {n}
        /\ next.keys = IF n.dir = "manifests" THEN me.keys \cup {n} ELSE me.keys
    BY <1>1, <1>5 DEF Job, At
  <2>2. /\ me.got = {} /\ \A x \in me.todo : Exists(x) /\ x.dir = me.dir
        /\ me.dir = "artifacts" => me.keys = {}
        /\ me.dir = "manifests" => me.todo \cup me.keys = Present
    BY <1>1, <1>5 DEF Exact, At
  <2> HIDE DEF next
  <2> QED
    BY <1>5, <2>1, <2>2 DEF Exact
<1>6. ASSUME At(p, "lstat"), me.todo = {}, me.dir = "artifacts",
             next = [me EXCEPT !.pc = "readdir", !.dir = "manifests"]
      PROVE  Exact(next)
  <2>1. next.pc = "readdir" /\ next.got = me.got /\ next.keys = me.keys
    BY <1>1, <1>6 DEF Job
  <2> HIDE DEF next
  <2> QED
    BY <1>1, <1>6, <2>1 DEF Exact, At
<1>7. ASSUME At(p, "lstat"), me.todo = {}, me.dir = "manifests", next = [me EXCEPT !.pc = "loadopen"]
      PROVE  Exact(next)
  <2>1. next.pc = "loadopen" /\ next.keys = me.keys /\ next.got = me.got
    BY <1>1, <1>7 DEF Job
  <2>2. me.keys = Present /\ me.got = {} /\ Contents(Present \ Present) = {}
    BY <1>1, <1>7 DEF Exact, At, Contents
  <2> HIDE DEF next
  <2> QED
    BY <2>1, <2>2 DEF Exact
<1>8. ASSUME At(p, "loadopen"), NEW n \in me.keys,
             next = [me EXCEPT !.pc = "decode", !.keys = me.keys \ {n}, !.inode = names[n]]
      PROVE  Exact(next)
  <2>1. next.pc = "decode" /\ next.keys = me.keys \ {n} /\ next.inode = names[n] /\ next.got = me.got
    BY <1>1, <1>8 DEF Job
  <2>2. me.keys \subseteq Present /\ me.got = Contents(Present \ me.keys)
    BY <1>1, <1>8 DEF Exact, At
  <2>3. Contents(Present \ (me.keys \ {n})) = Contents(Present \ me.keys) \cup {data[names[n]]}
    BY <2>2 DEF Contents
  <2>4. data[names[n]] \in Contents(Present)
    BY <2>2 DEF Contents
  <2> HIDE DEF next
  <2> QED
    BY <2>1, <2>2, <2>3, <2>4 DEF Exact
<1>9. ASSUME At(p, "decode"),
             next = [me EXCEPT !.pc = "loadopen", !.inode = None, !.got = me.got \cup {data[me.inode]}]
      PROVE  Exact(next)
  <2>1. next.pc = "loadopen" /\ next.keys = me.keys /\ next.got = me.got \cup {data[me.inode]}
    BY <1>1, <1>9 DEF Job
  <2> HIDE DEF next
  <2> QED
    BY <1>1, <1>9, <2>1 DEF Exact, At
<1>10. ASSUME At(p, "loadopen"), me.keys = {}, next = [me EXCEPT !.pc = "returned"]
       PROVE  Exact(next)
  <2>1. next.pc = "returned" /\ next.got = me.got
    BY <1>1, <1>10 DEF Job
  <2>2. me.got = Contents(Present)
    BY <1>1, <1>10 DEF Exact, At
  <2> HIDE DEF next
  <2> QED
    BY <2>1, <2>2 DEF Exact
\* No load nobody disturbs fails.
<1>11. ~ \/ At(p, "lstat") /\ \E n \in me.todo : ~Exists(n)
         \/ At(p, "loadopen") /\ \E n \in me.keys : ~Exists(n)
         \/ At(p, "decode") /\ data[me.inode] = Torn
  <2>1. At(p, "lstat") => \A n \in me.todo : Exists(n)
    BY <1>1 DEF Exact, At
  <2>2. At(p, "loadopen") => \A n \in me.keys : Exists(n)
    BY <1>1, <1>2 DEF Exact, At
  <2>3. At(p, "decode") => data[me.inode] # Torn
    BY <1>1, <1>2, NamesAreSomething DEF Exact, At, Contents
  <2> QED
    BY <2>1, <2>2, <2>3
<1> HIDE DEF next
<1> QED
  BY <1>1, <1>4, <1>5, <1>6, <1>7, <1>8, <1>9, <1>10, <1>11, WalkCases DEF next

\* A step of p makes no temporary file but its own, and leaves behind what it had
\* as litter only.
LEMMA TempsStep ==
  ASSUME IInv, IInv', TempsOK, NEW p \in Procs, NEW STATE job, Becomes(p, job),
         litter \subseteq litter',
         \A t \in Temp : names'[t] # None => names[t] # None \/ t = job.tmp,
         jobs[p].tmp # None /\ job.tmp # jobs[p].tmp =>
            names'[jobs[p].tmp] = None \/ jobs[p].tmp \in litter',
         job.tmp \in {None, jobs[p].tmp} \/ quiet' \subseteq {p},
         \A q \in quiet' : q \in quiet \/ q = p,
         p \in quiet' /\ job.op = "load" =>
            \/ p \in quiet /\ jobs[p].op = "load"
            \/ \A q \in Procs : jobs[q].tmp = None
  PROVE  TempsOK'
<1>1. /\ jobs'[p] = job /\ \A q \in Procs : q # p => jobs'[q] = jobs[q]
      /\ quiet \subseteq Procs /\ quiet' \subseteq Procs
      /\ jobs[p] \in Job
  BY DEF Becomes, IInv, TypeOK
<1>2. job.op = "load" => job.tmp = None
  BY <1>1 DEF IInv, JobsOK, JobOK
<1>3. TempsOwned'
  <2> SUFFICES ASSUME NEW t \in Temp, names'[t] # None
               PROVE  t \in litter' \/ \E q \in Procs : jobs'[q].tmp = t
    BY DEF TempsOwned, Exists
  <2>1. CASE t = job.tmp
    BY <1>1, <2>1
  <2>2. CASE t # job.tmp
    <3>1. t \in litter \/ \E q \in Procs : jobs[q].tmp = t
      BY <2>2 DEF TempsOK, TempsOwned, Exists
    <3>2. t # None
      BY NamesAreSomething DEF Name
    <3>3. CASE \E q \in Procs : q # p /\ jobs[q].tmp = t
      BY <1>1, <3>3
    <3>4. CASE jobs[p].tmp = t
      BY <2>2, <3>2, <3>4
    <3> QED
      BY <3>1, <3>3, <3>4
  <2> QED
    BY <2>1, <2>2
<1>4. QuietAlone'
  <2> SUFFICES ASSUME NEW r \in quiet', jobs'[r].op = "load", NEW q \in Procs
               PROVE  jobs'[q].tmp = None
    BY DEF QuietAlone
  <2>1. CASE r = p
    BY <1>1, <1>2, <2>1 DEF TempsOK, QuietAlone
  <2>2. CASE r # p
    BY <1>1, <2>2 DEF TempsOK, QuietAlone
  <2> QED
    BY <2>1, <2>2
<1> QED
  BY <1>3, <1>4 DEF TempsOK

LEMMA TempsStay ==
  ASSUME IInv, IInv', TempsOK, NEW p \in Procs,
         PutStep(p) \/ KeyStep(p) \/ LoadStep(p) \/ Return(p) \/ Crash(p)
  PROVE  TempsOK'
<1>1. /\ jobs[p] \in Job /\ JobOK(jobs[p]) /\ quiet \subseteq Procs /\ litter \subseteq Temp
      /\ names \in [Name -> Inodes \cup {None}] /\ None \notin Temp
  BY NamesAreSomething DEF IInv, TypeOK, JobsOK, Name
\* Most steps leave the tree alone and make no temporary file.
<1>2. ASSUME NEW STATE job, Becomes(p, job), UNCHANGED <<names, quiet>>,
             litter \subseteq litter', job.tmp = jobs[p].tmp,
             job.op = "load" => jobs[p].op = "load"
      PROVE  TempsOK'
  BY <1>1, <1>2, TempsStep
<1>3. ASSUME NEW STATE job, Becomes(p, job), UNCHANGED <<names, quiet, litter>>,
             job.tmp = None, jobs[p].tmp = None, job.op = "load" => jobs[p].op = "load"
      PROVE  TempsOK'
  BY <1>2, <1>3
<1>4. Idle.tmp = None /\ Idle.op = "none"
  BY DEF Idle
<1>5. jobs[p].tmp # None <=> jobs[p].pc \in {"copy", "rename", "cleanup"}
  BY <1>1 DEF JobOK
<1>6. CASE CreateFails(p) \/ OpenFails(p) \/ Read(p) \/ DeleteFails(p) \/ Return(p)
  <2>1. Becomes(p, Idle) /\ UNCHANGED <<names, quiet, litter>> /\ jobs[p].tmp = None
    BY <1>5, <1>6 DEF CreateFails, OpenFails, Read, DeleteFails, Return, At, files, history
  <2> QED
    BY <1>3, <1>4, <2>1
<1>7. CASE RemoveTempFails(p) \/ Crash(p)
  <2>1. /\ Becomes(p, Idle) /\ UNCHANGED <<names, quiet>>
        /\ litter' = litter \cup {t \in Temp : t = jobs[p].tmp /\ names[t] # None}
    BY <1>7 DEF RemoveTempFails, Crash, Remains, Exists, files
  <2>2. jobs[p].tmp # None => jobs[p].tmp \in Temp
    BY <1>1 DEF Job
  <2>3. litter \subseteq litter' /\ (jobs[p].tmp # None =>
           names'[jobs[p].tmp] = None \/ jobs[p].tmp \in litter')
    BY <2>1, <2>2
  <2> QED
    BY <1>4, <2>1, <2>3, TempsStep
<1>8. CASE RemoveTemp(p)
  <2>1. /\ Becomes(p, Idle) /\ names' = [names EXCEPT ![jobs[p].tmp] = None]
        /\ quiet' = quiet \cap {p} /\ litter' = litter /\ jobs[p].tmp \in Temp
    BY <1>1, <1>5, <1>8 DEF RemoveTemp, Disturbs, At, Job
  <2>2. /\ names'[jobs[p].tmp] = None
        /\ \A t \in Temp : names'[t] # None => names[t] # None
    BY <1>1, <2>1 DEF Name
  <2> QED
    BY <1>4, <2>1, <2>2, TempsStep
<1>9. CASE CreateTemp(p)
  <2>1. PICK t \in Temp, i \in Inodes :
          /\ names' = [names EXCEPT ![t] = i]
          /\ Becomes(p, [jobs[p] EXCEPT !.pc = "copy", !.tmp = t, !.inode = i])
    BY <1>9 DEF CreateTemp
  <2> DEFINE job == [jobs[p] EXCEPT !.pc = "copy", !.tmp = t, !.inode = i]
  <2>2. job.tmp = t /\ job.op = "put"
    BY <1>1, <1>9 DEF CreateTemp, At, Job, JobOK
  <2>3. /\ Becomes(p, job) /\ jobs[p].tmp = None
        /\ quiet' = quiet \cap {p} /\ litter' = litter
    BY <1>5, <1>9, <2>1 DEF CreateTemp, Disturbs, At
  <2> HIDE DEF job
  <2>4. \A u \in Temp : names'[u] # None => names[u] # None \/ u = job.tmp
    BY <1>1, <2>1, <2>2 DEF Name
  <2> QED
    BY <2>2, <2>3, <2>4, TempsStep
<1>10. CASE Copy(p)
  <2> DEFINE job == [jobs[p] EXCEPT !.pc = "rename", !.inode = None]
  <2>1. job.tmp = jobs[p].tmp /\ job.op = "put"
    BY <1>1, <1>10 DEF Copy, At, Job, JobOK
  <2>2. Becomes(p, job) /\ names' = names /\ quiet' = quiet \cap {p} /\ litter' = litter
    BY <1>10 DEF Copy, Disturbs
  <2> HIDE DEF job
  <2> QED
    BY <2>1, <2>2, TempsStep
<1>11. CASE Rename(p)
  <2> DEFINE job == [jobs[p] EXCEPT !.pc = "cleanup", !.done = TRUE]
  <2>1. job.tmp = jobs[p].tmp /\ job.op = "put" /\ jobs[p].key \in Key /\ jobs[p].tmp \in Temp
    BY <1>1, <1>11 DEF Rename, At, Job, JobOK
  <2>2. /\ Becomes(p, job) /\ quiet' = quiet \cap {p} /\ litter' = litter
        /\ names' = [names EXCEPT ![jobs[p].key] = names[jobs[p].tmp], ![jobs[p].tmp] = None]
    BY <1>11 DEF Rename, Disturbs
  <2> HIDE DEF job
  <2>3. \A t \in Temp : names'[t] # None => names[t] # None
    BY <1>1, <2>1, <2>2, KeysAreNoTemps DEF Name
  <2> QED
    BY <2>1, <2>2, <2>3, TempsStep
<1>12. CASE CopyFails(p)
  <2> DEFINE job == [jobs[p] EXCEPT !.pc = "cleanup", !.inode = None]
  <2>1. job.tmp = jobs[p].tmp /\ job.op = jobs[p].op
    BY <1>1 DEF Job
  <2>2. Becomes(p, job) /\ UNCHANGED <<names, quiet, litter>>
    BY <1>12 DEF CopyFails, files, history
  <2> HIDE DEF job
  <2> QED
    BY <1>2, <2>1, <2>2
<1>13. CASE RenameFails(p)
  <2> DEFINE job == [jobs[p] EXCEPT !.pc = "cleanup"]
  <2>1. job.tmp = jobs[p].tmp /\ job.op = jobs[p].op
    BY <1>1 DEF Job
  <2>2. Becomes(p, job) /\ UNCHANGED <<names, quiet, litter>>
    BY <1>13 DEF RenameFails, Goes, files, history
  <2> HIDE DEF job
  <2> QED
    BY <1>2, <2>1, <2>2
<1>14. CASE CallPut(p)
  <2>1. PICK k \in Key, v \in Versions : Becomes(p, [Idle EXCEPT !.op = "put", !.pc = "create", !.key = k,
                            !.val = [id |-> k.id, version |-> v]])
    BY <1>14 DEF CallPut, Starts
  <2> DEFINE job == [Idle EXCEPT !.op = "put", !.pc = "create", !.key = k,
                            !.val = [id |-> k.id, version |-> v]]
  <2>2. job.tmp = None /\ job.op # "load"
    BY DEF Idle
  <2>3. Becomes(p, job) /\ jobs[p].tmp = None /\ UNCHANGED <<names, quiet, litter>>
    BY <1>5, <1>14, <2>1 DEF CallPut, Starts, At, files, history
  <2> HIDE DEF job
  <2> QED
    BY <1>3, <2>2, <2>3
<1>15. CASE CallGet(p)
  <2>1. PICK k \in Key : Becomes(p, [Idle EXCEPT !.op = "get", !.pc = "open", !.key = k])
    BY <1>15 DEF CallGet, Starts
  <2> DEFINE job == [Idle EXCEPT !.op = "get", !.pc = "open", !.key = k]
  <2>2. job.tmp = None /\ job.op # "load"
    BY DEF Idle
  <2>3. Becomes(p, job) /\ jobs[p].tmp = None /\ UNCHANGED <<names, quiet, litter>>
    BY <1>5, <1>15, <2>1 DEF CallGet, Starts, At, files, history
  <2> HIDE DEF job
  <2> QED
    BY <1>3, <2>2, <2>3
<1>16. CASE CallDelete(p)
  <2>1. PICK k \in Key : Becomes(p, [Idle EXCEPT !.op = "delete", !.pc = "remove", !.key = k])
    BY <1>16 DEF CallDelete, Starts
  <2> DEFINE job == [Idle EXCEPT !.op = "delete", !.pc = "remove", !.key = k]
  <2>2. job.tmp = None /\ job.op # "load"
    BY DEF Idle
  <2>3. Becomes(p, job) /\ jobs[p].tmp = None /\ UNCHANGED <<names, quiet, litter>>
    BY <1>5, <1>16, <2>1 DEF CallDelete, Starts, At, files, history
  <2> HIDE DEF job
  <2> QED
    BY <1>3, <2>2, <2>3
<1>17. CASE CallLoad(p)
  <2> DEFINE job == [Idle EXCEPT !.op = "load", !.pc = "readdir"]
  <2>1. job.tmp = None
    BY DEF Idle
  <2>2. /\ Becomes(p, job) /\ At(p, "idle") /\ names' = names /\ litter' = litter
        /\ quiet' = IF \A q \in Procs \ {p} : At(q, "idle") THEN quiet \cup {p} ELSE quiet \ {p}
    BY <1>17 DEF CallLoad, Starts, files
  <2> HIDE DEF job
  <2>3. \A q \in Procs : At(q, "idle") => jobs[q].tmp = None
    BY DEF IInv, JobsOK, JobOK, At
  <2>4. p \in quiet' => \A q \in Procs : jobs[q].tmp = None
    BY <2>2, <2>3
  <2>5. jobs[p].tmp = None /\ \A q \in quiet' : q \in quiet \/ q = p
    BY <2>2, <2>3
  <2> QED
    BY <2>1, <2>2, <2>4, <2>5, TempsStep
<1>18. CASE Open(p)
  <2> DEFINE job == [jobs[p] EXCEPT !.pc = "read", !.inode = names[jobs[p].key], !.done = TRUE]
  <2>1. job.tmp = jobs[p].tmp /\ job.op = jobs[p].op
    BY <1>1 DEF Job
  <2>2. Becomes(p, job) /\ UNCHANGED <<names, quiet, litter>>
    BY <1>18 DEF Open, files, history
  <2> HIDE DEF job
  <2> QED
    BY <1>2, <2>1, <2>2
<1>19. CASE Delete(p)
  <2> DEFINE job == [jobs[p] EXCEPT !.pc = "returned", !.done = TRUE]
  <2>1. job.tmp = jobs[p].tmp /\ job.op = "delete" /\ jobs[p].key \in Key
    BY <1>1, <1>19 DEF Delete, At, Job, JobOK
  <2>2. /\ Becomes(p, job) /\ quiet' = quiet \cap {p} /\ litter' = litter
        /\ names' = [names EXCEPT ![jobs[p].key] = None]
    BY <1>19 DEF Delete, Disturbs
  <2> HIDE DEF job
  <2>3. \A t \in Temp : names'[t] = names[t]
    BY <1>1, <2>1, <2>2, KeysAreNoTemps DEF Name
  <2> QED
    BY <2>1, <2>2, <2>3, TempsStep
<1>20. CASE Walking(p)
  <2>1. PICK job : Becomes(p, job) /\ job.op = "load"
    BY <1>20, WalkingIInv
  <2>2. UNCHANGED <<names, quiet, litter>> /\ jobs[p].op = "load"
    BY <1>20, WalkCases
  <2>3. jobs'[p] = job
    BY <2>1 DEF Becomes, IInv, TypeOK
  <2>4. job.tmp = None /\ jobs[p].tmp = None
    BY <2>1, <2>2, <2>3 DEF IInv, JobsOK, JobOK
  <2> QED
    BY <1>3, <2>1, <2>2, <2>4
<1> QED
  BY <1>6, <1>7, <1>8, <1>9, <1>10, <1>11, <1>12, <1>13, <1>14, <1>15, <1>16, <1>17, <1>18,
     <1>19, <1>20
     DEF PutStep, KeyStep, LoadStep, Walking

LEMMA NextLInv == LInv /\ [Next]_vars => LInv'
<1> SUFFICES ASSUME LInv, [Next]_vars PROVE LInv'
  OBVIOUS
<1>1. IInv /\ IInv' /\ Lasting
  BY NextIInv DEF LInv, Lasting
<1>2. CASE UNCHANGED vars
  <2> USE <1>2 DEF vars
  <2>1. Lasting'
    BY <1>1 DEF Lasting, StableListed, Listed, OwnIds, Exists, CopyTorn, At
  <2>2. WalkOK'
    BY DEF LInv, WalkOK, Accounted, LoadedIds
  <2>3. ExactOK'
    BY DEF LInv, ExactOK, Exact, Present, Contents, Leftovers, Exists
  <2>4. TempsOK'
    BY DEF LInv, TempsOK, TempsOwned, QuietAlone, Exists
  <2> QED
    BY <1>1, <2>1, <2>2, <2>3, <2>4 DEF LInv, Lasting
<1>3. CASE Next
  <2>1. PICK p \in Procs : PutStep(p) \/ KeyStep(p) \/ LoadStep(p) \/ Return(p) \/ Crash(p)
    BY <1>3 DEF Next
  <2>2. Steady(p) /\ Lasting'
    BY <1>1, <2>1, InsideLasts, CallLasts, CreateTempLasts, CopyLasts, RenameLasts, RemovalLasts
       DEF PutStep, KeyStep, LoadStep, Inside, Released, Walking
  <2>3. ASSUME CallLoad(p)
        PROVE  /\ jobs'[p].pc = "readdir" /\ jobs'[p].got = {} /\ jobs'[p].keys = {}
    <3>1. Becomes(p, [Idle EXCEPT !.op = "load", !.pc = "readdir"])
      BY <2>3 DEF CallLoad, Starts
    <3>2. jobs'[p] = [Idle EXCEPT !.op = "load", !.pc = "readdir"]
      BY <1>1, <3>1 DEF Becomes, IInv, TypeOK
    <3> QED
      BY <3>2 DEF Idle
  <2>4. WalkOK'
    <3> SUFFICES ASSUME NEW q \in Procs, jobs'[q].op = "load", NEW i \in stable'[q]
                 PROVE  Accounted(jobs[q], i)'
      BY DEF WalkOK
    <3>1. CASE q # p
      <4>1. jobs'[q] = jobs[q] /\ i \in stable[q] /\ Accounted(jobs[q], i)
        BY <2>2, <3>1 DEF Steady, LInv, WalkOK
      <4>2. At(q, "decode") /\ data[jobs[q].inode] \in Value =>
              data'[jobs[q].inode] = data[jobs[q].inode]
        BY <2>2, <3>1 DEF Steady
      <4> QED
        BY <4>1, <4>2 DEF Accounted, LoadedIds, ManifestKey, At
    <3>2. CASE q = p /\ Walking(p)
      <4>1. stable' = stable
        BY <1>1, <3>2, WalkCases
      <4> QED
        BY <3>2, <4>1, WalkAccounts
    <3>3. CASE q = p /\ CallLoad(p)
      BY <2>3, <3>3 DEF Accounted
    <3> QED
      BY <2>2, <3>1, <3>2, <3>3 DEF Steady
  <2>5. ExactOK'
    <3> SUFFICES ASSUME Leftovers' = {}, NEW q \in Procs, q \in quiet', jobs'[q].op = "load"
                 PROVE  Exact(jobs[q])'
      BY <1>1 DEF ExactOK, IInv, TypeOK
    <3>1. CASE q # p
      <4>1. jobs'[q] = jobs[q] /\ q \in quiet /\ UNCHANGED <<names, data>>
        BY <2>2, <3>1 DEF Steady
      <4>2. Leftovers = {}
        BY <4>1 DEF Leftovers, Exists
      <4>3. Exact(jobs[q])
        BY <4>1, <4>2 DEF LInv, ExactOK
      <4> QED
        BY <4>1, <4>3 DEF Exact, Present, Contents, Exists
    <3>2. CASE q = p /\ Walking(p)
      <4>1. UNCHANGED <<names, quiet>>
        BY <1>1, <3>2, WalkCases
      <4>2. Leftovers = {}
        BY <4>1 DEF Leftovers, Exists
      <4> QED
        BY <3>2, <4>1, <4>2, WalkIsExact
    <3>3. CASE q = p /\ CallLoad(p)
      BY <2>3, <3>3 DEF Exact
    <3> QED
      BY <2>2, <3>1, <3>2, <3>3 DEF Steady
  <2>6. TempsOK'
    BY <1>1, <2>1, TempsStay DEF LInv
  <2> QED
    BY <1>1, <2>2, <2>4, <2>5, <2>6 DEF LInv, Lasting
<1> QED
  BY <1>2, <1>3

LEMMA LoadInvariance == Spec => []LInv
  BY InitLInv, NextLInv, PTL DEF Spec

\* A load that succeeds has every id that stayed listed, whatever was put, renamed,
\* deleted or killed beside it (storage.go:71, artifact.go:105).
THEOREM LoadsMissNothing == Spec => []LoadFindsListed
<1>1. LInv => LoadFindsListed
  BY DEF LInv, WalkOK, Accounted, LoadedIds, LoadFindsListed, At
<1> QED
  BY <1>1, LoadInvariance, PTL

\* A load that nobody disturbs succeeds and returns exactly the manifests under the
\* keys, if no put was killed and no deferred remove failed: the puts that succeed or
\* fail leave nothing (storage.go:53, storage.go:71, artifact.go:105).
THEOREM LoadsAreExact == Spec => []UndisturbedLoadIsExact
<1>1. LInv => UndisturbedLoadIsExact
  <2> SUFFICES ASSUME LInv, NEW p \in quiet, jobs[p].op = "load", litter = {}
               PROVE  LoadsExactly(p)
    BY DEF UndisturbedLoadIsExact
  <2>3. \A q \in Procs : jobs[q].tmp = None
    BY DEF LInv, TempsOK, QuietAlone
  <2>4. Leftovers = {}
    <3>1. \A t \in Temp : t # None
      BY NamesAreSomething DEF Name
    <3>2. \A t \in Temp : ~Exists(t)
      BY <2>3, <3>1 DEF LInv, TempsOK, TempsOwned
    <3> QED
      BY <3>2 DEF Leftovers
  <2>1. Exact(jobs[p])
    BY <2>4 DEF LInv, ExactOK
  <2>2. Present = {ManifestKey(i) : i \in Listed(names)}
    BY <2>4, PresentAreKeys DEF LInv
  <2>5. Contents(Present) = {data[names[ManifestKey(i)]] : i \in Listed(names)}
    BY <2>2 DEF Contents
  <2> QED
    BY <2>1, <2>5 DEF Exact, LoadsExactly, At
<1> QED
  BY <1>1, LoadInvariance, PTL
=============================================================================
