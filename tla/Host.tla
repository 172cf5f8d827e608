-------------------------------- MODULE Host --------------------------------
(***************************************************************************)
(* What the commands of one host share besides the store: the directory of *)
(* temporary files, the scratch databases of the sandbox Postgres, and the *)
(* database or file a restore is aimed at.  Every process that starts      *)
(* removes the dump files it finds in that directory, whoever they belong  *)
(* to; a daemon does so once and then runs one command after the other.    *)
(*                                                                         *)
(* The content of a dump is the id of its backup; a database holds a set   *)
(* of contents, Old being whatever else lives in it.  A command may be     *)
(* killed between any two steps, and then leaves behind what it made.      *)
(* Manifests are always there: Backwyn has the commands that delete them.  *)
(***************************************************************************)
EXTENDS Naturals, FiniteSets

CONSTANTS
    Procs,           \* processes of this host
    Daemons,         \* those that go on with another command, not started anew
    Commands,        \* the commands each process issues
    Ids,             \* backups in the store; also the names of their scratch databases
    Damaged,         \* those whose bytes do not decrypt to their checksum
    MaxLitter,       \* bound: things left behind when a process or its psql is killed
    Names,           \* names of temporary files
    Target, Source,  \* databases: one to restore into, the one that is backed up
    Old,             \* contents that are no backup of ours
    None             \* no file, no database, no name

Databases == Ids \cup {Target, Source}
Contents == Ids \cup {Old}
Part == "part"  \* an output file that is empty, incomplete or mixed

ASSUME CommandsTyped == Commands \in [Procs -> SUBSET {"backup", "verify", "restore", "tofile"}]
ASSUME DaemonsAreProcs == Daemons \subseteq Procs
ASSUME DamagedAreIds == Damaged \subseteq Ids
ASSUME TargetsAreNoScratch == Target \notin Ids /\ Source \notin Ids /\ Target # Source
ASSUME NoneIsNothing ==
    /\ None \notin Ids \cup Names \cup {Old, Target, Source}
    /\ \A c \in SUBSET Contents : c # None
ASSUME OldIsNoBackup == Old \notin Ids
ASSUME PartIsNoContent == Part \notin Contents \cup {None}
ASSUME NamesAreNoIds == Names \cap Ids = {}

VARIABLES
    verified,  \* the ids whose manifest says verified
    dumps,     \* names of the backwyn-*.pgc files in the temporary directory
    lists,     \* names of the backwyn-toc-*.list files there
    db,        \* what each database holds, or None
    out,       \* the file restore -to-file is aimed at
    job,       \* what each process is doing, with the locals of its command
    litter,    \* history: names and scratch databases that nobody will remove
    given      \* history: the backup last written to the file, unforced and undisturbed

vars == <<verified, dumps, lists, db, out, job, litter, given>>

\* "fault" is one of the bytes, the store, the tools or Postgres.
Causes == {"fault", "disk", "gone", "exists"}

Job == [
    cmd    : {"none", "backup", "verify", "restore", "tofile"},
    pc     : {"idle", "clean", "load", "temp", "fetch", "list", "create", "toc", "scratch",
              "count", "prove", "revoke", "drop", "unlink", "inspect", "into",
              "open", "write", "dump", "hash", "read"},
    id     : Ids \cup {None},
    tmp    : Names \cup {None},
    toc    : Names \cup {None},
    todo   : SUBSET Names,              \* files the cleanup has yet to remove
    target : {Target, Source, None},
    force  : BOOLEAN,
    made   : BOOLEAN,                   \* it created the scratch database of id
    clean  : BOOLEAN,                   \* restore drops what the target holds
    mixed  : BOOLEAN,                   \* another command wrote to the path meanwhile
    cause  : Causes \cup {"none"},      \* history: why the verification failed
    alone  : BOOLEAN]                   \* history: a verify no other command overlaps

Idle == [cmd |-> "none", pc |-> "idle", id |-> None, tmp |-> None, toc |-> None,
         todo |-> {}, target |-> None, force |-> FALSE, made |-> FALSE,
         clean |-> FALSE, mixed |-> FALSE, cause |-> "none", alone |-> FALSE]

TypeOK ==
    /\ verified \subseteq Ids
    /\ dumps \subseteq Names /\ lists \subseteq Names
    /\ db \in [Databases -> {None} \cup SUBSET Contents]
    /\ out \in Contents \cup {Part, None}
    /\ job \in [Procs -> Job]
    /\ litter \subseteq Names \cup Ids
    /\ given \in Ids \cup {None}

Init ==
    /\ verified = {}
    /\ dumps = {} /\ lists = {}
    /\ db = [d \in Databases |->
                IF d = Source THEN {Old} ELSE IF d = Target THEN {} ELSE None]
    /\ out \in {None, Old}
    /\ job = [p \in Procs |-> Idle]
    /\ litter = {}
    /\ given = None

At(p, step) == job[p].pc = step
Becomes(p, j) == job' = [job EXCEPT ![p] = j]
Goes(p, step) == Becomes(p, [job[p] EXCEPT !.pc = step])
Return(p) == Becomes(p, Idle)
\* Only the deferred removal of the temporary dump is left to do.
Ends(p) == Becomes(p, [Idle EXCEPT !.pc = "unlink", !.tmp = job[p].tmp])
Running(p) == ~At(p, "idle")
Verifying(p) == job[p].cmd = "verify"

\* os.CreateTemp picks a random name: none in use, none another command still remembers.
FreeName(n) ==
    /\ n \notin dumps \cup lists
    /\ \A p \in Procs : n \notin {job[p].tmp, job[p].toc} \cup job[p].todo

disk == <<dumps, lists, litter>>
outputs == <<out, given>>
shared == <<verified, disk, db, outputs>>
Only(p, j) == Becomes(p, j) /\ UNCHANGED shared

-----------------------------------------------------------------------------
(* The start of a process: cleanupTempFiles, and then its command.         *)

\* The directory is read once: files made later are left alone.  That a file
\* cannot be removed is ignored.  The other arguments are chosen where they are
\* first looked at.
Start(p, cmd) ==
    /\ At(p, "idle") /\ cmd \in Commands[p]
    /\ \E anew \in BOOLEAN :
          LET others == {q \in Procs \ {p} : Running(q)}
              new == [Idle EXCEPT !.cmd = cmd, !.pc = "clean",
                                  !.todo = IF anew THEN dumps ELSE {},
                                  !.alone = cmd = "verify" /\ others = {}]
          IN /\ anew \/ (p \in Daemons /\ cmd \in {"backup", "verify"})
             /\ job' = [q \in Procs |-> IF q = p THEN new ELSE [job[q] EXCEPT !.alone = FALSE]]
    /\ UNCHANGED shared

CleanOne(p) ==
    /\ At(p, "clean")
    /\ \E n \in job[p].todo :
          /\ \/ dumps' = dumps \ {n} /\ litter' = litter \ {n}
             \/ UNCHANGED <<dumps, litter>>
          /\ Becomes(p, [job[p] EXCEPT !.todo = @ \ {n}])
    /\ UNCHANGED <<verified, lists, db, outputs>>

CleanDone(p) ==
    /\ At(p, "clean") /\ job[p].todo = {}
    /\ Goes(p, IF job[p].cmd = "backup" THEN "temp" ELSE "load")
    /\ UNCHANGED shared

\* The same host and database, if the host is spelled alike in both DSNs.
SameTarget(target, alike) == target = Source /\ alike

LoadForVerify(p) ==
    /\ At(p, "load") /\ Verifying(p)
    /\ \E i \in Ids : Only(p, [job[p] EXCEPT !.pc = "temp", !.id = i])

\* restore refuses a backup that is not verified, unless told otherwise, and
\* the source database, if it sees that it is the source.
LoadForRestore(p) ==
    /\ At(p, "load") /\ ~Verifying(p)
    /\ \E i \in Ids, force, allowUnverified, alike \in BOOLEAN,
          target \in IF job[p].cmd = "tofile" THEN {None} ELSE {Target, Source} :
          /\ i \in verified \/ allowUnverified
          /\ SameTarget(target, alike) => force
          /\ Only(p, [job[p] EXCEPT !.pc = IF target = None THEN "open" ELSE "inspect",
                                    !.id = i, !.target = target, !.force = force])

\* So says a guard, or the manifest cannot be read.
Refuse(p) ==
    /\ At(p, "load")
    /\ Return(p) /\ UNCHANGED shared

-----------------------------------------------------------------------------
(* MaterializeTemp, for verify and restore; also the dump file of backup.  *)

After(p) == IF job[p].cmd = "backup" THEN "dump" ELSE "fetch"

\* Mutant: the name is not kept.
CreateTempForgetting(p) ==
    /\ At(p, "temp")
    /\ \E n \in Names :
          /\ FreeName(n)
          /\ dumps' = dumps \cup {n}
          /\ Goes(p, After(p))
    /\ UNCHANGED <<verified, lists, litter, db, outputs>>

CreateTemp(p) ==
    /\ At(p, "temp")
    /\ \E n \in Names :
          /\ FreeName(n)
          /\ dumps' = dumps \cup {n}
          /\ Becomes(p, [job[p] EXCEPT !.pc = After(p), !.tmp = n])
    /\ UNCHANGED <<verified, lists, litter, db, outputs>>

\* The file cannot be made, or not be closed: the one error of stage "write".
WriteFails(p) ==
    /\ job[p].pc \in {"temp", "fetch"}
    /\ dumps' = dumps \ {job[p].tmp}
    /\ Return(p)
    /\ UNCHANGED <<verified, lists, litter, db, outputs>>

Fetch(p) ==
    /\ At(p, "fetch") /\ job[p].id \notin Damaged
    /\ Goes(p, IF Verifying(p) THEN "list" ELSE "into")
    /\ UNCHANGED shared

\* Mutant: what was written so far is not discarded.
FetchFailsKeeping(p) ==
    /\ At(p, "fetch")
    /\ \E c \in {"fault", "disk"} :
          Becomes(p, IF Verifying(p)
                       THEN [job[p] EXCEPT !.pc = "revoke", !.tmp = None, !.cause = c]
                       ELSE Idle)
    /\ UNCHANGED shared

\* The store fails, the bytes are damaged, or writing the plaintext fails:
\* Decrypt reports the last as its own error.  What was written is discarded.
FetchFails(p) ==
    /\ At(p, "fetch")
    /\ dumps' = dumps \ {job[p].tmp}
    /\ \E c \in {"fault", "disk"} :
          Becomes(p, IF Verifying(p)
                       THEN [job[p] EXCEPT !.pc = "revoke", !.tmp = None, !.cause = c]
                       ELSE Idle)
    /\ UNCHANGED <<verified, lists, litter, db, outputs>>

-----------------------------------------------------------------------------
(* verify, from the archive listing on.  pg_restore opens the dump by its  *)
(* name, so a name another command removed makes it fail.                  *)

Usable(p) == job[p].tmp \in dumps

\* Any step before the proof may fail; its temporary list goes with it.
Fails(p, steps, c) ==
    /\ job[p].pc \in steps
    /\ lists' = lists \ {job[p].toc}
    /\ Becomes(p, [job[p] EXCEPT !.pc = "revoke", !.toc = None, !.cause = c])
    /\ UNCHANGED <<verified, dumps, litter, outputs>>

ToolFails(p) ==
    /\ Fails(p, {"list", "create", "toc", "count"}, "fault")
    /\ UNCHANGED db

DumpGone(p) ==
    /\ ~Usable(p)
    /\ Fails(p, {"list", "toc", "scratch"}, "gone")
    /\ UNCHANGED db

ListArchive(p) ==
    /\ At(p, "list") /\ Usable(p)
    /\ Goes(p, "create") /\ UNCHANGED shared

\* Mutant: a database that is there is used.
CreateScratchIfNeeded(p) ==
    /\ At(p, "create")
    /\ db' = [db EXCEPT ![job[p].id] = IF @ = None THEN {} ELSE @]
    /\ Becomes(p, [job[p] EXCEPT !.pc = "toc", !.made = TRUE])
    /\ UNCHANGED <<verified, disk, outputs>>

\* CREATE DATABASE fails if the name is taken.
CreateScratch(p) ==
    /\ At(p, "create") /\ db[job[p].id] = None
    /\ db' = [db EXCEPT ![job[p].id] = {}]
    /\ Becomes(p, [job[p] EXCEPT !.pc = "toc", !.made = TRUE])
    /\ UNCHANGED <<verified, disk, outputs>>

\* Or it takes effect although psql was cancelled or lost its connection: the
\* command takes it for a failure and will not drop the database.
CreateScratchUnseen(p) ==
    /\ At(p, "create") /\ db[job[p].id] = None
    /\ Cardinality(litter) < MaxLitter
    /\ db' = [db EXCEPT ![job[p].id] = {}]
    /\ litter' = litter \cup {job[p].id}
    /\ Becomes(p, [job[p] EXCEPT !.pc = "revoke", !.cause = "fault"])
    /\ UNCHANGED <<verified, dumps, lists, outputs>>

ScratchExists(p) ==
    /\ At(p, "create") /\ db[job[p].id] # None
    /\ Only(p, [job[p] EXCEPT !.pc = "revoke", !.cause = "exists"])

\* The list of entries a sandbox can restore; cleanups do not know its name.
SandboxTOC(p) ==
    /\ At(p, "toc") /\ Usable(p)
    /\ \E n \in Names :
          /\ FreeName(n)
          /\ lists' = lists \cup {n}
          /\ Becomes(p, [job[p] EXCEPT !.pc = "scratch", !.toc = n])
    /\ UNCHANGED <<verified, dumps, litter, db, outputs>>

RestoreScratch(p) ==
    /\ At(p, "scratch") /\ Usable(p)
    /\ db' = [db EXCEPT ![job[p].id] = @ \cup {job[p].id}]
    /\ lists' = lists \ {job[p].toc}
    /\ Becomes(p, [job[p] EXCEPT !.pc = "count", !.toc = None])
    /\ UNCHANGED <<verified, dumps, litter, outputs>>

\* pg_restore fails, having restored something or nothing.
RestoreScratchFails(p) ==
    /\ At(p, "scratch") /\ Usable(p)
    /\ Fails(p, {"scratch"}, "fault")
    /\ \E some \in {{}, {job[p].id}} : db' = [db EXCEPT ![job[p].id] = @ \cup some]

\* The tables are counted and the configured query is run.
Count(p) ==
    /\ At(p, "count") /\ db[job[p].id] # None
    /\ Goes(p, "prove") /\ UNCHANGED shared

\* Saving may fail, before or after it took effect.
Prove(p) ==
    /\ At(p, "prove")
    /\ verified' \in {verified, verified \cup {job[p].id}}
    /\ Goes(p, "drop")
    /\ UNCHANGED <<disk, db, outputs>>

\* Mutant: the database is dropped only after a proof.
RevokeKeeping(p) ==
    /\ At(p, "revoke")
    /\ verified' \in {verified, verified \ {job[p].id}}
    /\ Ends(p)
    /\ UNCHANGED <<disk, db, outputs>>

\* An error of this save is ignored.
Revoke(p) ==
    /\ At(p, "revoke")
    /\ verified' \in {verified, verified \ {job[p].id}}
    /\ IF job[p].made THEN Becomes(p, [job[p] EXCEPT !.pc = "drop", !.cause = "none"])
                      ELSE Ends(p)
    /\ UNCHANGED <<disk, db, outputs>>

\* Dropped by force, at best: an error leaves the database behind.
Drop(p) ==
    /\ At(p, "drop")
    /\ \/ db' = [db EXCEPT ![job[p].id] = None] /\ UNCHANGED litter
       \/ litter' = litter \cup {job[p].id} /\ UNCHANGED db
    /\ Ends(p)
    /\ UNCHANGED <<verified, dumps, lists, outputs>>

\* The deferred removal of the temporary dump, for every command that has one.
Unlink(p) ==
    /\ At(p, "unlink")
    /\ dumps' = dumps \ {job[p].tmp}
    /\ Return(p)
    /\ UNCHANGED <<verified, lists, litter, db, outputs>>

-----------------------------------------------------------------------------
(* restore -to.                                                            *)

\* Mutant: the source guard is thought to be enough.
InspectUnguarded(p) ==
    /\ At(p, "inspect")
    /\ Only(p, [job[p] EXCEPT !.pc = "temp", !.clean = db[job[p].target] # {}])

\* A target that holds tables takes -force, and is cleaned then.
Inspect(p) ==
    /\ At(p, "inspect")
    /\ db[job[p].target] # {} => job[p].force
    /\ Only(p, [job[p] EXCEPT !.pc = "temp", !.clean = db[job[p].target] # {}])

InspectRefuses(p) ==
    /\ At(p, "inspect")
    /\ Return(p) /\ UNCHANGED shared

\* pg_restore --clean drops what the archive names and keeps the rest; without
\* it, it adds, and trips over objects that are there already.
Restored(p) ==
    IF job[p].clean THEN {kept \cup {job[p].id} : kept \in SUBSET db[job[p].target]}
                    ELSE {db[job[p].target] \cup {job[p].id}}

RestoreInto(p) ==
    /\ At(p, "into") /\ Usable(p)
    /\ ~job[p].clean => job[p].id \notin db[job[p].target]
    /\ \E held \in Restored(p) : db' = [db EXCEPT ![job[p].target] = held]
    /\ Ends(p)
    /\ UNCHANGED <<verified, disk, outputs>>

\* The dump's name is gone, or pg_restore got so far and no further.
RestoreIntoFails(p) ==
    /\ At(p, "into")
    /\ \E held \in {db[job[p].target]}
                \cup (IF Usable(p) THEN Restored(p) ELSE {})
                \cup (IF Usable(p) /\ job[p].clean THEN SUBSET db[job[p].target] ELSE {}) :
          db' = [db EXCEPT ![job[p].target] = held]
    /\ Ends(p)
    /\ UNCHANGED <<verified, disk, outputs>>

-----------------------------------------------------------------------------
(* restore -to-file.                                                       *)

Writers(p) == {q \in Procs \ {p} : At(q, "write")}

\* The file is made, or with -force emptied, also while others write it; given is
\* what it need no longer hold.
OpenFile(p) ==
    /\ At(p, "open") /\ (out = None \/ job[p].force)
    /\ out' = Part
    /\ given' = None
    /\ job' = [q \in Procs |->
                  IF q = p THEN [job[p] EXCEPT !.pc = "write", !.mixed = Writers(p) # {}]
                  ELSE [job[q] EXCEPT !.mixed = @ \/ q \in Writers(p)]]
    /\ UNCHANGED <<verified, disk, db>>

\* Mutant: a failure to open removes the file like a failure to write.
OpenFileFailsRemoving(p) ==
    /\ At(p, "open")
    /\ out' = None
    /\ Return(p)
    /\ UNCHANGED <<verified, disk, db, given>>

OpenFileFails(p) ==
    /\ At(p, "open")
    /\ Return(p) /\ UNCHANGED shared

\* Two writers of one path leave a mixture, or what one of them wrote, or nothing
\* of it if the path was removed in between; an error of Close leaves a part.
WriteFile(p) ==
    /\ At(p, "write") /\ job[p].id \notin Damaged
    /\ \E closed \in BOOLEAN :
          LET good == closed /\ ~job[p].mixed IN
          /\ out' \in {job[p].id} \cup (IF good THEN {} ELSE {Part})
                     \cup (IF job[p].mixed THEN {out} ELSE {})
          /\ given' = IF job[p].force \/ ~good THEN None ELSE job[p].id
    /\ Return(p)
    /\ UNCHANGED <<verified, disk, db>>

\* The path is removed, whatever file it leads to by now.
WriteFileFails(p) ==
    /\ At(p, "write")
    /\ out' = None
    /\ Return(p)
    /\ UNCHANGED <<verified, disk, db, given>>

-----------------------------------------------------------------------------
(* The temporary dump of backup; Backwyn and Pipeline have the rest of it. *)

\* pg_dump writes under the name, and makes the file again if it was removed.
Dump(p) ==
    /\ At(p, "dump")
    /\ dumps' = dumps \cup {job[p].tmp}
    /\ Goes(p, "hash")
    /\ UNCHANGED <<verified, lists, litter, db, outputs>>

\* The file is opened twice: for its checksum and for encryption.
Hash(p) ==
    /\ At(p, "hash") /\ Usable(p)
    /\ Goes(p, "read") /\ UNCHANGED shared

\* What follows, done or failed, ends in the deferred removal.
Read(p) ==
    /\ job[p].pc \in {"dump", "hash", "read"}
    /\ Ends(p) /\ UNCHANGED shared

-----------------------------------------------------------------------------
(* The environment.                                                        *)

Kill(p) ==
    /\ Running(p) /\ Cardinality(litter) < MaxLitter
    /\ litter' = litter \cup ({job[p].tmp} \cap dumps) \cup ({job[p].toc} \cap lists)
                       \cup (IF job[p].made THEN {job[p].id} ELSE {})
    /\ Becomes(p, Idle)
    /\ UNCHANGED <<verified, dumps, lists, db, outputs>>

\* Somebody else fills the restore target, or the application its source.
Filled(d) ==
    /\ db' = [db EXCEPT ![d] = @ \cup {Old}]
    /\ UNCHANGED <<verified, disk, out, job, given>>

Common(p) ==
    \/ \E cmd \in Commands[p] : Start(p, cmd)
    \/ CleanOne(p) \/ CleanDone(p) \/ LoadForVerify(p) \/ LoadForRestore(p) \/ Refuse(p)
    \/ CreateTemp(p) \/ WriteFails(p) \/ Fetch(p) \/ FetchFails(p) \/ Unlink(p)

VerifyStep(p) ==
    \/ ToolFails(p) \/ DumpGone(p) \/ ListArchive(p) \/ CreateScratch(p) \/ CreateScratchUnseen(p)
    \/ ScratchExists(p) \/ SandboxTOC(p) \/ RestoreScratch(p) \/ RestoreScratchFails(p) \/ Count(p)
    \/ Prove(p) \/ Revoke(p) \/ Drop(p)

RestoreStep(p) ==
    \/ Inspect(p) \/ InspectRefuses(p) \/ RestoreInto(p) \/ RestoreIntoFails(p)
    \/ OpenFile(p) \/ OpenFileFails(p) \/ WriteFile(p) \/ WriteFileFails(p)

BackupStep(p) == Dump(p) \/ Hash(p) \/ Read(p)

Next ==
    \/ \E p \in Procs :
          Common(p) \/ VerifyStep(p) \/ RestoreStep(p) \/ BackupStep(p) \/ Kill(p)
    \/ \E d \in {Target, Source} : Filled(d)

Spec == Init /\ [][Next]_vars

-----------------------------------------------------------------------------
(* Properties.                                                             *)

\* A backup is proven on a scratch database that is its own: it decrypted to
\* its checksum, and the tables counted and queried are what this verify, and
\* nobody else, restored from it, whatever other verifies of the same id, or
\* ones killed earlier, have made or dropped (verify.go:58).
ProofIsClean ==
    \A p \in Procs : At(p, "prove") =>
        /\ job[p].id \notin Damaged
        /\ db[job[p].id] = {job[p].id}
        /\ \A q \in Procs \ {p} : job[q].made => job[q].id # job[p].id

\* Wherever a command fails, it removes what it made: a temporary file or scratch
\* database belongs to a running command, or is litter of one that was killed,
\* that could not drop its database, or that was never told it had made one
\* (verify.go:59, pgtools.go:210).  That files can be removed is assumed.
NothingIsLeft ==
    /\ \A n \in dumps : n \in litter \/ \E p \in Procs : job[p].tmp = n
    /\ \A n \in lists : n \in litter \/ \E p \in Procs : job[p].toc = n
    /\ \A i \in Ids : db[i] # None => i \in litter \/ \E p \in Procs : job[p].made /\ job[p].id = i

\* A verify that no other command overlapped, of a backup no earlier one left a
\* scratch database of, finds its dump and its database's name free: it revokes
\* for damaged bytes or a failure of disk, store or Postgres, never for what the
\* commands do to each other (main.go:33, verify.go:59).
RevocationIsEarned ==
    \A p \in Procs :
        At(p, "revoke") /\ job[p].alone /\ job[p].id \notin litter
            => job[p].cause \notin {"gone", "exists"}

\* Only -force destroys: contents leave the target or the source database, and a
\* file that was there is emptied or removed, only by a command that was given it,
\* also when the database was filled after it was inspected, or is the source under
\* a name SameTarget does not recognise (restore.go:79-106).  What was filled in
\* between gets the backup added to it, the source too.
OnlyForceDestroys ==
    [][/\ \A d \in {Target, Source} :
             db[d] \subseteq db'[d]
             \/ \E p \in Procs : At(p, "into") /\ job[p].force /\ job[p].target = d
       /\ out = Old => out' = Old \/ \E p \in Procs : At(p, "open") /\ job[p].force]_vars

\* A file that restore -to-file reported written, and that nobody else wrote at
\* the time, holds that backup until somebody opens it with -force: no command
\* that fails, or is refused the path, damages or removes it (restore.go:124).
DeliveredFileStays == given # None => out = given

-----------------------------------------------------------------------------
(* What a comment says and the code does not do.                           *)

\* verify/verify.go:42: a write error is a local environment issue, not a bad
\* backup.  A full disk is met inside Decrypt, whose errors are of stage
\* "decrypt", so the backup is revoked.
WriteErrorRevokesNothing == \A p \in Procs : At(p, "revoke") => job[p].cause # "disk"
=============================================================================
