------------------------------ MODULE Backwyn ------------------------------
(***************************************************************************)
(* The backup store and the commands that share it: backup, verify, prune  *)
(* (with its orphan sweep) and the daemon's cycle, which is backup, verify *)
(* and prune of one process.  A process runs one command at a time; every  *)
(* read or write of the store is one step, so the commands of different    *)
(* processes interleave between any two of them.  Nothing in the code      *)
(* locks the store.                                                        *)
(*                                                                         *)
(* A command that fails or is killed stops where it is (Abort); one whose  *)
(* store request failed after taking effect takes the step and then stops. *)
(* The content of a dump is a number: the n-th dump taken is n, and Junk   *)
(* is what a damaged artifact decrypts to, never a dump.  A checksum names *)
(* its content.                                                            *)
(***************************************************************************)
EXTENDS RetentionPolicy

CONSTANTS
    Procs,          \* processes: a daemon, cron jobs, operators' shells
    Commands,       \* the commands each process issues
    Policies,       \* the retention policies given to prune and run
    Absent,         \* no object under a key
    MaxDumps,       \* bound: dumps taken
    MinAge,         \* age below which the sweep leaves an orphan alone
    MaxBackup,      \* hypothesis: seconds a backup lasts, from its id to its manifest
    SpacedBackups   \* hypothesis: no two backups start in the same second, and share keys

Junk == 0
Dumps == 1..MaxDumps
Contents == Dumps \cup {Junk}
Manifest == [id : Stamps, sum : Dumps, verified : BOOLEAN]

Producing == {"backup", "run"}

ASSUME BoundsAreNatural == MaxDumps \in Nat /\ MinAge \in Nat /\ MaxBackup \in Nat
ASSUME CommandsTyped == Commands \in [Procs -> SUBSET {"backup", "verify", "prune", "run"}]
ASSUME PoliciesTyped == Policies \subseteq [last : Int, daily : Int, weekly : Int, monthly : Int]
ASSUME AbsentIsNoObject == Absent \notin Contents /\ Absent \notin Manifest
ASSUME SpacedBackupsTyped == SpacedBackups \in BOOLEAN

VARIABLES
    time,       \* the second the clocks show
    manifests,  \* the store: manifest and artifact under each id
    artifacts,
    proc,       \* what each process is doing, with the locals of its command
    dumped,     \* history: dumps taken so far
    starts,     \* history: the seconds at which a backup started
    restored    \* history: contents restored into a scratch database

store == <<manifests, artifacts>>
vars == <<time, manifests, artifacts, proc, dumped, starts, restored>>

InBackup == {"dump", "upload", "record"}
InVerify == {"fetch", "restore", "prove", "revoke"}

Process == [
    pc     : InBackup \cup InVerify \cup
             {"idle", "load", "list", "read", "retire", "reclaim",
              "live", "orphans", "sweep"},
    cmd    : {"none", "backup", "verify", "prune", "run"},
    stamp  : Stamps,                  \* the backup's id, or the sweep's "now"
    file   : Contents,                \* the temporary dump file
    held   : Manifest \cup {Absent},  \* the manifest verify will write back
    keys   : SUBSET Stamps,           \* keys listed and not yet dealt with
    seen   : SUBSET Manifest,         \* the manifests read so far
    sweeps : BOOLEAN]                 \* prune goes on to sweep orphans

TypeOK ==
    /\ time \in Stamps
    /\ manifests \in [Stamps -> Manifest \cup {Absent}]
    /\ artifacts \in [Stamps -> Contents \cup {Absent}]
    /\ proc \in [Procs -> Process]
    /\ dumped \in 0..MaxDumps
    /\ starts \subseteq Stamps
    /\ restored \subseteq Contents

Idle == [pc |-> "idle", cmd |-> "none", stamp |-> 0, file |-> Junk, held |-> Absent,
         keys |-> {}, seen |-> {}, sweeps |-> FALSE]

Catalogued == {i \in Stamps : manifests[i] # Absent}
Stored == {i \in Stamps : artifacts[i] # Absent}
Proven == {i \in Catalogued : manifests[i].verified}

Init ==
    /\ time = 0
    /\ manifests = [i \in Stamps |-> Absent]
    /\ artifacts = [i \in Stamps |-> Absent]
    /\ proc = [p \in Procs |-> Idle]
    /\ dumped = 0
    /\ starts = {}
    /\ restored = {}

At(p, step) == proc[p].pc = step
Issues(p, cmd) == At(p, "idle") /\ cmd \in Commands[p]
Becomes(p, local) == proc' = [proc EXCEPT ![p] = local]
Goes(p, step) == Becomes(p, [proc[p] EXCEPT !.pc = step])

Least(k, S) == k \in S /\ \A j \in S : k <= j
Greatest(k, S) == k \in S /\ \A j \in S : j <= k

-----------------------------------------------------------------------------
(* backup, and the first half of a daemon cycle.                           *)

StartBackup(p) ==
    \E cmd \in Producing :
        /\ Issues(p, cmd)
        /\ SpacedBackups => time \notin starts
        /\ Becomes(p, [Idle EXCEPT !.pc = "dump", !.cmd = cmd, !.stamp = time])
        /\ starts' = starts \cup {time}
        /\ UNCHANGED <<time, store, dumped, restored>>

Dump(p) ==
    /\ At(p, "dump")
    /\ dumped < MaxDumps
    /\ dumped' = dumped + 1
    /\ Becomes(p, [proc[p] EXCEPT !.pc = "upload", !.file = dumped + 1])
    /\ UNCHANGED <<time, store, starts, restored>>

\* Mutant: the dump is removed before its checksum is taken.
UploadBeforeHash(p) ==
    /\ At(p, "upload")
    /\ artifacts' = [artifacts EXCEPT ![proc[p].stamp] = proc[p].file]
    /\ Becomes(p, [proc[p] EXCEPT !.pc = "record", !.file = Junk])
    /\ UNCHANGED <<time, manifests, dumped, starts, restored>>

Upload(p) ==
    /\ At(p, "upload")
    /\ artifacts' = [artifacts EXCEPT ![proc[p].stamp] = proc[p].file]
    /\ Goes(p, "record")
    /\ UNCHANGED <<time, manifests, dumped, starts, restored>>

\* The manifest is written last.  A cycle goes on to verify the new backup.
Record(p) ==
    /\ At(p, "record")
    /\ manifests' = [manifests EXCEPT ![proc[p].stamp] =
                        [id |-> proc[p].stamp, sum |-> proc[p].file, verified |-> FALSE]]
    /\ Becomes(p, IF proc[p].cmd = "run"
                    THEN [proc[p] EXCEPT !.pc = "load", !.file = Junk]
                    ELSE Idle)
    /\ UNCHANGED <<time, artifacts, dumped, starts, restored>>

-----------------------------------------------------------------------------
(* verify: read the manifest, prove the bytes, write the manifest back.    *)

StartVerify(p) ==
    /\ Issues(p, "verify")
    /\ \E i \in Stamps :
          Becomes(p, [Idle EXCEPT !.pc = "load", !.cmd = "verify", !.stamp = i])
    /\ UNCHANGED <<time, store, dumped, starts, restored>>

\* The verification record is reset in memory only.
Load(p) ==
    /\ At(p, "load")
    /\ proc[p].stamp \in Catalogued
    /\ Becomes(p, [proc[p] EXCEPT !.pc = "fetch",
                                  !.held = [manifests[proc[p].stamp] EXCEPT !.verified = FALSE]])
    /\ UNCHANGED <<time, store, dumped, starts, restored>>

\* Mutant: the checksum is not compared.
FetchUnchecked(p) ==
    /\ At(p, "fetch")
    /\ proc[p].held.id \in Stored
    /\ Becomes(p, [proc[p] EXCEPT !.pc = "restore", !.file = artifacts[proc[p].held.id]])
    /\ UNCHANGED <<time, store, dumped, starts, restored>>

\* Fetch, decrypt and compare the checksum with the manifest's.
Fetch(p) ==
    /\ At(p, "fetch")
    /\ artifacts[proc[p].held.id] = proc[p].held.sum
    /\ Becomes(p, [proc[p] EXCEPT !.pc = "restore", !.file = artifacts[proc[p].held.id]])
    /\ UNCHANGED <<time, store, dumped, starts, restored>>

Restore(p) ==
    /\ At(p, "restore")
    /\ restored' = restored \cup {proc[p].file}
    /\ Goes(p, "prove")
    /\ UNCHANGED <<time, store, dumped, starts>>

\* The whole manifest that was loaded is saved, stamped.  A cycle goes on to
\* check coverage and, if it is healthy, to prune; an unhealthy check stops it.
Prove(p) ==
    /\ At(p, "prove")
    /\ manifests' = [manifests EXCEPT ![proc[p].held.id] =
                        [proc[p].held EXCEPT !.verified = TRUE]]
    /\ Becomes(p, IF proc[p].cmd = "run"
                    THEN [proc[p] EXCEPT !.pc = "list", !.file = Junk, !.held = Absent]
                    ELSE Idle)
    /\ UNCHANGED <<time, artifacts, dumped, starts, restored>>

\* Fetch, decryption, checksum, archive listing, scratch database, restore,
\* table count or custom query failed.
VerifyFails(p) ==
    /\ proc[p].pc \in {"fetch", "restore", "prove"}
    /\ Goes(p, "revoke")
    /\ UNCHANGED <<time, store, dumped, starts, restored>>

\* The failure is saved.  A cycle whose verification failed never prunes.
Revoke(p) ==
    /\ At(p, "revoke")
    /\ manifests' = [manifests EXCEPT ![proc[p].held.id] = proc[p].held]
    /\ Becomes(p, Idle)
    /\ UNCHANGED <<time, artifacts, dumped, starts, restored>>

-----------------------------------------------------------------------------
(* prune: list, read every manifest, plan, delete.                         *)

StartPrune(p) ==
    /\ Issues(p, "prune")
    /\ \E sweeps \in BOOLEAN :
          Becomes(p, [Idle EXCEPT !.pc = "list", !.cmd = "prune", !.sweeps = sweeps])
    /\ UNCHANGED <<time, store, dumped, starts, restored>>

ListManifests(p) ==
    /\ At(p, "list")
    /\ Becomes(p, [proc[p] EXCEPT !.pc = "read", !.keys = Catalogued])
    /\ UNCHANGED <<time, store, dumped, starts, restored>>

\* A manifest that has gone since the listing fails the command.
ReadManifest(p) ==
    /\ At(p, "read")
    /\ \E k \in Catalogued :
          /\ Least(k, proc[p].keys)
          /\ Becomes(p, [proc[p] EXCEPT !.keys = @ \ {k}, !.seen = @ \cup {manifests[k]}])
    /\ UNCHANGED <<time, store, dumped, starts, restored>>

PlanIds(ms, pol) == {m.id : m \in Removed(ms, pol)}

MakePlan(p) ==
    /\ At(p, "read")
    /\ proc[p].keys = {}
    /\ \E pol \in Policies :
          Becomes(p, [proc[p] EXCEPT !.pc = "retire", !.seen = {},
                                     !.keys = PlanIds(proc[p].seen, pol)])
    /\ UNCHANGED <<time, store, dumped, starts, restored>>

\* Mutant: the artifact goes first.
DeleteArtifactFirst(p) ==
    /\ At(p, "retire")
    /\ \E k \in proc[p].keys :
          /\ Greatest(k, proc[p].keys)
          /\ artifacts' = [artifacts EXCEPT ![k] = Absent]
    /\ Goes(p, "reclaim")
    /\ UNCHANGED <<time, manifests, dumped, starts, restored>>

\* Newest first, the manifest before its artifact.
DeleteManifest(p) ==
    /\ At(p, "retire")
    /\ \E k \in proc[p].keys :
          /\ Greatest(k, proc[p].keys)
          /\ manifests' = [manifests EXCEPT ![k] = Absent]
    /\ Goes(p, "reclaim")
    /\ UNCHANGED <<time, artifacts, dumped, starts, restored>>

\* Mutant: a failed manifest delete goes on to the artifact.
DeleteManifestFailsOn(p) ==
    /\ At(p, "retire")
    /\ proc[p].keys # {}
    /\ Goes(p, "reclaim")
    /\ UNCHANGED <<time, store, dumped, starts, restored>>

\* The artifact is kept and the plan goes on; the command will report an
\* error, so it does not sweep.  The request may have taken effect.
DeleteManifestFails(p) ==
    /\ At(p, "retire")
    /\ \E k \in proc[p].keys :
          /\ Greatest(k, proc[p].keys)
          /\ manifests' \in {manifests, [manifests EXCEPT ![k] = Absent]}
          /\ Becomes(p, [proc[p] EXCEPT !.keys = @ \ {k}, !.sweeps = FALSE])
    /\ UNCHANGED <<time, artifacts, dumped, starts, restored>>

DeleteArtifact(p) ==
    /\ At(p, "reclaim")
    /\ \E k \in proc[p].keys :
          /\ Greatest(k, proc[p].keys)
          /\ artifacts' = [artifacts EXCEPT ![k] = Absent]
          /\ Becomes(p, [proc[p] EXCEPT !.pc = "retire", !.keys = @ \ {k}])
    /\ UNCHANGED <<time, manifests, dumped, starts, restored>>

DeleteArtifactFails(p) ==
    /\ At(p, "reclaim")
    /\ \E k \in proc[p].keys :
          /\ Greatest(k, proc[p].keys)
          /\ artifacts' \in {artifacts, [artifacts EXCEPT ![k] = Absent]}
          /\ Becomes(p, [proc[p] EXCEPT !.pc = "retire", !.keys = @ \ {k}, !.sweeps = FALSE])
    /\ UNCHANGED <<time, manifests, dumped, starts, restored>>

\* The sweep, if asked for and nothing failed, takes its "now" here.
ApplyDone(p) ==
    /\ At(p, "retire")
    /\ proc[p].keys = {}
    /\ Becomes(p, IF proc[p].sweeps
                    THEN [proc[p] EXCEPT !.pc = "live", !.stamp = time]
                    ELSE Idle)
    /\ UNCHANGED <<time, store, dumped, starts, restored>>

-----------------------------------------------------------------------------
(* prune -sweep-orphans: artifacts no manifest names, once old enough.     *)

SweepListManifests(p) ==
    /\ At(p, "live")
    /\ Becomes(p, [proc[p] EXCEPT !.pc = "orphans", !.keys = Catalogued])
    /\ UNCHANGED <<time, store, dumped, starts, restored>>

\* Mutant: no age guard.
OldEnoughAlways(i, now) == TRUE

OldEnough(i, now) == now - i >= MinAge

SweepListArtifacts(p) ==
    /\ At(p, "orphans")
    /\ Becomes(p, [proc[p] EXCEPT
                      !.pc = "sweep",
                      !.keys = {i \in Stored \ @ : OldEnough(i, proc[p].stamp)}])
    /\ UNCHANGED <<time, store, dumped, starts, restored>>

\* A failed delete is reported at the end and the next key is tried.
SweepDelete(p) ==
    /\ At(p, "sweep")
    /\ \E k \in proc[p].keys :
          /\ Least(k, proc[p].keys)
          /\ artifacts' \in {artifacts, [artifacts EXCEPT ![k] = Absent]}
          /\ Becomes(p, [proc[p] EXCEPT !.keys = @ \ {k}])
    /\ UNCHANGED <<time, manifests, dumped, starts, restored>>

SweepDone(p) ==
    /\ At(p, "sweep")
    /\ proc[p].keys = {}
    /\ Becomes(p, Idle)
    /\ UNCHANGED <<time, store, dumped, starts, restored>>

-----------------------------------------------------------------------------
(* The environment.                                                        *)

\* A crash, a signal, or an error that makes the command return.
Abort(p) ==
    /\ ~At(p, "idle")
    /\ Becomes(p, Idle)
    /\ UNCHANGED <<time, store, dumped, starts, restored>>

\* No backup lasts longer than MaxBackup: the code has no such limit, its
\* sweep relies on one.
Tick ==
    /\ time < MaxTime
    /\ \A p \in Procs : proc[p].pc \in InBackup => time + 1 - proc[p].stamp <= MaxBackup
    /\ time' = time + 1
    /\ UNCHANGED <<store, proc, dumped, starts, restored>>

\* Bytes decay in the store.
Rot(i) ==
    /\ i \in Stored
    /\ artifacts' = [artifacts EXCEPT ![i] = Junk]
    /\ UNCHANGED <<time, manifests, proc, dumped, starts, restored>>

BackupStep(p) == StartBackup(p) \/ Dump(p) \/ Upload(p) \/ Record(p)

VerifyStep(p) ==
    \/ StartVerify(p) \/ Load(p) \/ Fetch(p) \/ Restore(p) \/ Prove(p)
    \/ VerifyFails(p) \/ Revoke(p)

PruneStep(p) ==
    \/ StartPrune(p) \/ ListManifests(p) \/ ReadManifest(p) \/ MakePlan(p)
    \/ DeleteManifest(p) \/ DeleteManifestFails(p)
    \/ DeleteArtifact(p) \/ DeleteArtifactFails(p) \/ ApplyDone(p)

SweepStep(p) ==
    SweepListManifests(p) \/ SweepListArtifacts(p) \/ SweepDelete(p) \/ SweepDone(p)

Next ==
    \/ \E p \in Procs :
          BackupStep(p) \/ VerifyStep(p) \/ PruneStep(p) \/ SweepStep(p) \/ Abort(p)
    \/ Tick
    \/ \E i \in Stamps : Rot(i)

Spec == Init /\ [][Next]_vars

-----------------------------------------------------------------------------
(* What holds whatever commands run, the second where they do not overlap. *)

\* Only bytes that a verify really restored make a manifest verified: a
\* manifest's checksum names a content some verify fetched and restored, not
\* what the artifact holds now (verify.Run, artifact.Materialize).
VerifiedWasRestored == \A i \in Proven : manifests[i].sum \in restored

\* Pruning leaves coverage: a manifest that goes leaves a newer one behind, and
\* a verified one leaves a newer verified one (retention.Compute, guards 2, 3).
PruneLeavesNewer ==
    [][\A i \in Catalogued \ Catalogued' :
          /\ \E j \in Catalogued' : j > i
          /\ i \in Proven => \E j \in Proven' : j > i]_vars

-----------------------------------------------------------------------------
(* What holds of the deployment the documentation describes: one process   *)
(* makes the backups and verifies each as it makes it, the others only     *)
(* prune, and a backup ends before the sweep may take it for an orphan.    *)

Producer(d) ==
    /\ "verify" \notin Commands[d]
    /\ \A p \in Procs \ {d} : Commands[p] \subseteq {"prune"}

Supervised ==
    /\ \E d \in Procs : Producer(d)
    /\ SpacedBackups
    /\ MaxBackup < MinAge

\* A listed backup's bytes are in the store, and are the ones its manifest
\* describes unless they decayed there: neither prune, nor a sweep, nor a crash
\* between two steps of a backup, a verify or a prune leaves a manifest without
\* its artifact or beside another one's.
ManifestMatchesArtifact ==
    \A i \in Catalogued : artifacts[i] \in {manifests[i].sum, Junk}

\* Coverage never goes back in time: the newest verified backup is only ever replaced by a newer one,
\* whatever is pruned, re-recorded or fails, by any number of processes.
CoverageMonotone == [][\A i \in Proven : \E j \in Proven' : j >= i]_vars

\* The store keeps the promises of Catalog.  A manifest without its artifact is
\* none of Catalog's statuses.
Status == [i \in Stamps |->
    IF manifests[i] = Absent
      THEN IF artifacts[i] = Absent THEN "none" ELSE "stored"
      ELSE IF artifacts[i] = Absent THEN "dangling"
           ELSE IF manifests[i].verified THEN "proven" ELSE "listed"]

Promise == INSTANCE Catalog WITH Ids <- Stamps, status <- Status

KeepsPromises == Promise!Spec

-----------------------------------------------------------------------------
(* What holds when commands run one after the other, whichever they are:   *)
(* also verifies of old backups, which may fail.                           *)

OneAtATime ==
    /\ \A p, q \in Procs : p = q
    /\ SpacedBackups

\* The store keeps the promises of Catalog, but for a verify that fails on a
\* backup an earlier one had proven: it is listed again and no longer proven.
\* A crash or failure anywhere, and whatever command comes next, changes nothing
\* in this (backup.Run, verify.Run, retention.Apply, retention.SweepOrphans).
KeepsRevocablePromises == Promise!RevocableSpec

-----------------------------------------------------------------------------
(* What the documents say without those hypotheses, and the code does not  *)
(* keep.                                                                   *)

\* docs/architecture.md:45: a manifest's existence implies a complete artifact.
\* A verify that read its manifest before a prune deleted the backup writes the
\* manifest back afterwards.
ManifestHasArtifact == Catalogued \subseteq Stored
=============================================================================
