# Backwyn in TLA+

A verification development of backwyn: a tool that dumps a Postgres database,
stores the dump encrypted, proves each backup by restoring it into a throwaway
database, and prunes old backups. This directory models the parts where order,
interleaving and failure decide whether a "verified" backup can be trusted.

    tlc  -config MCSupervised.cfg MCBackwyn     model-check one run
    tlapm Backwyn_proofs.tla                    check proofs (and the other *_proofs modules)

## The system

| part | state | operations | interacts with |
|---|---|---|---|
| `internal/storage` | objects under `manifests/<id>...` and `artifacts/<id>...` | Put, Get, List, Stat, Delete | every command, of any number of processes; no locks |
| `internal/manifest` | one JSON record per backup: id, checksum, verification record | Encode, Decode | written by backup, rewritten by verify |
| `internal/artifact` | temporary files | Load, LoadAll, Save, Materialize | shared read path of verify, restore, check, prune |
| `internal/backup` | a temporary dump | Run: dump, hash, upload, manifest last | source database, store |
| `internal/verify` | a manifest held in memory, a temporary file, a scratch database | Run: load, fetch, restore, stamp or revoke | store, sandbox Postgres |
| `internal/retention` | a plan | Compute, Apply, SweepOrphans | store |
| `internal/check` | none | Run: is there a verified backup within `-max-age`? | store (manifests only) |
| `internal/runner` | the tracker, in memory | Cycle = backup, verify, check, prune, with alerts; `/healthz`, `/metrics` | all of the above, webhook, monitoring |
| `cmd/backwyn` | ticker and signal context of the daemon | commands, daemon loop, start-up cleanup of temporary files | operators, cron |
| `internal/restore` | target database or file | Run with its guards | store, target, temporary files |
| `internal/crypto` | framed AES-GCM stream | Encrypt, Decrypt | backup through a pipe, Materialize |
| `internal/pgtools` | scratch databases, archive lists | preflight, dump, restore, create, drop | backup, verify and restore; source, sandbox and target Postgres |
| `internal/alert` | none | Send | runner; webhook |
| `internal/config` | none | Load | every command; environment |

What is hard here:

* **Interleaving.** A daemon, cron jobs and operators share one store that
  nothing locks. verify writes back a whole manifest it read minutes before;
  prune carries out a plan made from earlier reads; the sweep tells an orphan
  from a backup in flight by age alone.
* **Failure.** Every store call can fail, also after taking effect; a process
  can die between any two of them; bytes can decay.
* **One host.** Commands share the directory of temporary files, which each of
  them sweeps when it starts, scratch databases named after backups, and the
  target of a restore.
* **A goroutine and a pipe.** The dump is encrypted on one side and uploaded on the
  other; either may fail, and the store must not get half a stream.
* **Absence.** The daemon has to notice that nothing good happens any more, also
  when the store cannot be read or the webhook is down.
* **Arithmetic of time.** Ids have one-second granularity; slots are per day,
  ISO week and month, which do not nest; a cycle uses the second it started.

What makes each part correct:

* store, backup, verify, prune together: a manifest's existence implies its
  bytes; only what was really restored is verified; coverage (the newest
  verified backup) never goes back in time; orphans, and only orphans, are swept;
* retention: the pass computes the grandfather-father-son policy, its three
  guards hold whatever the counts, and when it is run does not matter;
* runner: lost coverage is never silent, what it publishes is true of the store,
  it prunes only after its own backup was proven, and lost coverage is
  eventually paged;
* local backend: put, get and delete are atomic, and reading all manifests
  misses none that is there throughout;
* host: a backup is proven on its own scratch database, commands remove what they
  made, a verify left alone revokes for a reason, and only `-force` destroys;
* pipeline: what is accepted after decryption is what the database held, what is
  stored is a whole stream, and uploads end.

## Modules

**RetentionPolicy** defines the policy declaratively: `Kept` and `Removed` for a
set of manifests and a policy record. A backup's id is its creation second;
`DayOf`, `WeekOf` and `MonthOf` are constants, any functions that map later
seconds to the same or later periods (assumption `PeriodsAreIntervals`).

**Retention** is `retention.Compute` as it runs: the guards, then one step per
manifest, newest first, with the counters and remembered periods of the code.

**Backwyn** is the store and everything that changes it. `manifests` and
`artifacts` map each second to the object under its key or `Absent`; `proc[p]`
holds the locals of the command process `p` runs. Each action is one store call
of one command, or one local phase:

| command | actions, in code order |
|---|---|
| backup | StartBackup, Dump, Upload, Record |
| verify | StartVerify, Load, Fetch, Restore, Prove; or VerifyFails, Revoke |
| prune | StartPrune, ListManifests, ReadManifest (one per key), MakePlan, DeleteManifest / DeleteManifestFails, DeleteArtifact / DeleteArtifactFails, ApplyDone |
| prune -sweep-orphans | ... SweepListManifests, SweepListArtifacts, SweepDelete, SweepDone |
| run (a daemon cycle) | backup, then from Load the verify of that backup, then from ListManifests a prune without sweep |

`Abort` ends any command anywhere: a crash, a signal, a failed call, or a check
that finds the cycle unhealthy. A store call that reports failure after taking
effect is the action followed by `Abort`; for deletes, whose failure does not
end the command, it is the second outcome of the `...Fails` action. Contents of
dumps are numbers and a checksum is the number of its content; `Junk` is what a
damaged artifact decrypts to. `Rot` damages an artifact. `starts`, `dumped` and
`restored` are history.

**Catalog** is what the store promises, abstractly: each id is none, stored,
listed or proven, moves between these one step at a time, and leaves the catalog
only when a newer one stays, a proven one only for a newer proven one. `RevocableSpec`
adds that a proof may be withdrawn, as a verify of an old backup does that fails. Backwyn's
`Status` maps the store to it; a manifest without its artifact has no image.

**Runner** is the daemon: the select loop and ticker, the cycle with every way a
step can fail, the alerts in the order they are posted, the tracker. It sees the
store as a set of manifests with id and verified flag, and uses `Removed` of
RetentionPolicy for what prune deletes. Backups made elsewhere appear at any
time; verifies run elsewhere are left to Backwyn.

**LocalStore** is `storage.Local`, one action per system call whose order
matters. `names` is the directory tree, from names to inodes; `data` the content
of the inodes, a whole object or `Torn`; `jobs[p]` the locals of the call `p` is in.

| call | actions, in code order |
|---|---|
| Put | CallPut, CreateTemp / CreateFails, Copy / CopyFails, Rename / RenameFails, RemoveTemp / RemoveTempFails (the deferred remove, on every path, whose error nobody looks at) |
| Get | CallGet, Open / OpenFails, Read: the caller holds the file it opened |
| Delete | CallDelete, Delete / DeleteFails |
| artifact.LoadAll | CallLoad, ReadDir, Lstat / LstatFails (one per file of the tree), Walked, then LoadOpen / LoadOpenFails, Decode / DecodeFails (one per name), Loaded |

`Crash` kills a call anywhere. `stable`, `quiet` and `litter` are history: what a load has
to find, loads during which nobody else changed a file, and the temporary files that were
left by a killed put or by a remove that failed.

**ObjectStore** is the interface `storage.Backend` as everyone relies on it, and
as S3 provides it: requests that take effect at one moment or not at all.
Backwyn's store steps are these moments, so LocalStore implementing ObjectStore
is what lets Backwyn speak of one atomic store for both backends.

**Host** is what the commands of one host share besides the store. `dumps` and
`lists` are names of temporary files, `db` maps each scratch database and the
restore databases to what they hold, `out` is the file of `-to-file`, `job[p]` the
locals of the command `p` runs. A process that starts runs the cleanup first; a
daemon goes on with its next command without one.

| command | actions, in code order |
|---|---|
| any | Start, CleanOne (one per file found), CleanDone |
| verify | LoadForVerify / Refuse, CreateTemp / WriteFails, Fetch / FetchFails, ListArchive, CreateScratch / CreateScratchUnseen / ScratchExists, SandboxTOC, RestoreScratch / RestoreScratchFails, Count, Prove, Drop, Unlink; on a failure (ToolFails, DumpGone) Revoke, then Drop and Unlink |
| restore -to | LoadForRestore / Refuse, Inspect / InspectRefuses, CreateTemp / WriteFails, Fetch / FetchFails, RestoreInto / RestoreIntoFails, Unlink |
| restore -to-file | LoadForRestore / Refuse, OpenFile / OpenFileFails, WriteFile / WriteFileFails |
| backup | CreateTemp / WriteFails, Dump, Hash, Read, Unlink |

`Kill` ends any of them anywhere, with no deferred call run; `Filled` is somebody else's
use of the target, or the application's of the source. `CreateScratchUnseen` is a CREATE
DATABASE that takes effect although psql is cancelled or loses its connection: verify
takes it for a failure, and its Drop is deferred only after a success. The content of a
dump is its id; a database holds a set of contents. Manifests stay: Backwyn has the
commands that delete them. `given`, `cause` and `alone` are history, and so is `litter`:
the files and scratch databases that nobody will remove, because their command was killed,
could not drop its database, or was never told that it had made one.

**Pipeline** is the way of the bytes of one backup and one decryption of it.

| code | actions, in code order |
|---|---|
| backup.Run | Preflight / NoPreflight, Dump, Hash (starts the goroutine), Record; BackupFails |
| the goroutine: Encrypt | SendMagic, SealChunk (one per chunk), SendEnd, Close; EncryptFails |
| Put | PutReads (one per item), PutStores / PutFails / PutGivesUp |
| the store | Damage: items or bytes lost, repeated, exchanged, spoilt, cut off, appended |
| Materialize: Decrypt, checksum | Get / GetFails, ReadMagic, ReadFrame, ReadEnd / DecryptFails / ReadFails, Accept / Reject |

A dump is a sequence of rows, `ChunkSize` to a frame; the pipe holds at most the item
that is being written, and a write returns when it was read. A row is visible to
pg_dump under a set of policies by Postgres' rule (`Visible`); `Uncovered` is the
preflight's judgment. AES-GCM is assumed: a frame that was tampered with does not
authenticate. The cause of a failure is the stage the code gives it, fetch, decrypt or
checksum: everything that fails inside Decrypt is "decrypt", reads of the stream and writes
of the plaintext included. Which of these it was is history (`fault`).

**MCBackwyn, MCRetention, MCRunner, MCLocalStore, MCHost, MCPipeline** give the
constants their values; **Backwyn_proofs**, **Supervised_proofs** and
**Promises_proofs** hold the proofs about Backwyn, each extending the one before,
**Retention_proofs**, **Runner_proofs**, **LocalStore_proofs**, **Host_proofs** and
**Pipeline_proofs** those about the modules they are named after. Definitions introduced by `Mutant` are
variants of the definition that follows with a plausible bug: replacing the
definition by one makes the run named in PROJECT.json fail.

## Runs

| run | question | size |
|---|---|---|
| supervised | daemon and a pruning, sweeping cron job: do listed backups keep their bytes, is only what was restored verified, does coverage never go back, is Catalog implemented? | 319 thousand states |
| sequential | one shell running every command, whole cycles included, in any order: do the documented prune rules and the manifest invariant hold when commands do not overlap, and is Catalog implemented but for proofs that are withdrawn? | 378 thousand |
| retention | does the pass compute the policy, and is it independent of when prunes run? Every catalog of six seconds, 48 policies | 229 thousand |
| runner | no silent loss of coverage; tracker true to the store; "ok" off by at most a cycle; prunes only after proof; lost coverage is paged (liveness) | 394 thousand |
| local_store | what do two overlapping users of the local backend see: no listed manifest missed, nothing but manifests when undisturbed and nothing was left by a kill, and put, get and delete, killed anywhere, implement ObjectStore | 482 thousand |
| host | a daemon beside an operator on one host: proofs from a scratch database of one's own, nothing left behind but by a kill, a failed drop or an unseen creation, revocations for cause, delivered files stay, only -force destroys | 2.8 million |
| pipeline | is what is accepted what the database held, whatever fails or is damaged; is what is stored whole; do good bytes pass; do uploads end (liveness)? | 221 thousand |
| resurrected_manifest, blind_healthz, silent_warn, leftover_temp, full_disk | five statements of documentation and comments the code does not keep; see below | |

Bounds. Each run ends within a minute or two on two cores; what a smaller instance gives
up is left to the proofs, which have no bounds. Three seconds and three dumps
(supervised) let one backup be superseded twice, become an orphan as old as `MinAge`,
and be planned for deletion while the next two are made; sequential has a second
more. Policies are the empty one, one slot, and a negative count, under which only
the guards keep anything. In runner, `MaxTime` exceeds `MaxAge` by two cycles so that
coverage runs out, and the clock's last value stands for all later ones, so liveness
is not cut off by the bound. In LocalStore two processes use the keys of one backup
with two versions of each object, enough for a manifest to be replaced, deleted and
written again during one load. One temporary name per directory lets two puts meet
when one writes the artifact and the other the manifest; two puts into one directory, also
under one key, are left to the proof. Crashed puts leave files behind; when names or
inodes run out, further puts fail at CreateTemp. In Host the daemon runs any of {backup,
verify} and the operator any of {verify, restore, restore -to-file}, on a good and a
damaged backup: two verifies of one id overlap, and each of the daemon's commands
with each of the operator's; two backups, two restores into one database and two
writers of one file are left to the proofs. Two names are two less than two verifies
would use, a dump and a list each, so that one of them also waits for the other's
files, and three less when one is litter.
`MaxLitter` 1 lets something be killed and its leftovers meet both processes; more
litter of the same kind meets them in the same way. In Pipeline a frame holds two rows
and a dump up to five: empty, short, whole and several frames. Two accidents reach
every pair of one loss and one repetition, and every exchange; two policies are one
that admits and one that restricts. Deadlock is checked for Backwyn, LocalStore and
Host; Retention ends when its plan is made, the daemon may be stopped and a pipeline
carries one backup, so their configurations switch it off.

Hypotheses, all visible as constants:

* `Supervised`: one process makes the backups and verifies each in the same
  cycle, the others only prune; `SpacedBackups`, no two backups in one second;
  `MaxBackup < MinAge`, a backup ends before the sweep's 24 hours. The code
  enforces none of them; resurrected_manifest shows what happens without the first,
  the next section says what two backups in one second do, and a backup that takes longer
  than a day could lose its artifact to a sweep before it is listed.
* `OneAtATime`: one process, which runs any commands, one after the other, and again
  `SpacedBackups`. It needs no bound on how long a backup takes: no sweep runs beside it.
* `MaxCycle`: a bound on the length of a cycle, in which `HealthyIsNearlyCurrent`
  is stated. LossIsPaged needs `MaxCycle <= MaxAge`.
* `Steady`: row security policies do not change between the preflight and the dump,
  in which `RestoredIsSource` is stated. Nothing in the code could see that they did.

Fairness. `WF(DaemonStep)`: the calls a cycle makes return (the code sets no
deadlines, so this is an assumption on Postgres and the store, and for the webhook
its ten-second timeout). `WF(TickerFires)`: time.Ticker. `SF(AlertDelivered)`:
a webhook that is tried again and again works some time; alerts are not retried,
but an uncovered cycle raises a new one. Signals and crashes are not fair.
`WF(EncryptStep)`, `WF(PutStep)`: the goroutine and the upload go on, Put giving up
being a step it need not take; again an assumption on calls that have no deadline.

## Disagreements between documents and code

* *resurrected_manifest.* verify reads the manifest, a prune deletes manifest and
  artifact, verify saves the manifest: it is listed, possibly verified, without
  bytes. `docs/architecture.md:45` says existence implies a complete artifact.
* *blind_healthz.* a check that cannot read the store leaves `/healthz` at 200 while
  coverage runs out; `docs/operations.md:53`.
* *silent_warn.* a cycle whose backup fails verification while an older one is
  coverage returns before it comes to the warn event `docs/configuration.md:133`
  promises (an error event is sent instead).
* *leftover_temp.* a process killed inside the local Put leaves `manifests/.tmp-*`;
  the deferred remove has not run and nothing else looks for it. List returns it,
  LoadAll fails to decode it, and list, check, prune and every cycle's check fail
  until somebody removes it. `internal/artifact/artifact.go:104`: "loadall reads
  all manifests from storage."
* *full_disk.* the plaintext is written inside Decrypt, so a disk that fills up is an
  error of stage "decrypt", and verify revokes the backup.
  `internal/verify/verify.go:42`: "a write error is a local environment issue, not a
  bad backup."

Met while modelling, without a run of their own because the models show them
as the cases their hypotheses or histories exclude:

* A plan goes stale: prune reads, a re-verify fails and revokes the newest verified
  backup, prune deletes an older one that has become the newest verified
  (`docs/architecture.md:60` says that one is never deleted). Excluded by
  `Supervised`.
* Two backups in one second share keys, so that a manifest verified for one can end
  up beside the bytes of the other (`README.md:41`: verified means restored).
  Excluded by `SpacedBackups`.
* verify ignores an error of the save that revokes (`verify.go:36`), so the record
  need not reflect "the latest proof attempt" (`docs/commands.md:34`). `Revoke` has
  both outcomes.
* The cleanup at the start of any command removes the dumps of commands that run
  (`main.go:33`), whose verify then revokes a good backup; a scratch database left by a
  verify that was killed makes every later verify of that id do so. `RevocationIsEarned`
  is stated for verifies that meet neither.
* A CREATE DATABASE that takes effect although psql was cancelled or lost its connection
  leaves a scratch database that no Drop was deferred for (`verify.go:59`), with the same
  consequence for later verifies of that id. `NothingIsLeft` counts it as litter.
* Emptiness is looked at once (`restore.go:86`). A target, or a source under an alias that
  `SameTarget` does not recognise, that is filled after that gets the backup added to what
  it holds by then, without `-force`. What was there stays, which is all that
  `OnlyForceDestroys` claims.
* Two restores can both find the target empty and both restore into it. Nothing that
  was there is lost (`OnlyForceDestroys`), but the target holds a mixture. (In the proofs
  only: the run has one process that restores into databases.)
* A `restore -to-file` that fails removes the path, whatever file it leads to by then:
  with `-force`, also one that another command has written since. `DeliveredFileStays` is about
  files that nobody opened with `-force`.

## Proofs

The proofs about Backwyn are for any set of processes, commands, policies, any
calendar and any bounds that satisfy the named assumptions of RetentionPolicy
and Backwyn; those about Retention for every catalog, calendar and policy; those about
Runner for any history, calendar, policy, age limit, cycle length and number of crashes;
those about LocalStore for any processes, ids, versions, temporary
names and inodes, crashes included; those about Host for any processes, commands,
backups, damaged or not, names and bound on litter; those about Pipeline for dumps of any
length, any frame size, any sets of policies and any number of accidents.

`Backwyn_proofs` needs none of the hypotheses above:

* `TypeCorrect`: `Spec => []TypeOK`;
* `ProofIsEarned`: `Spec => []VerifiedWasRestored`, only bytes a verify really
  restored make a manifest verified.

`VerifiedWasRestored` is not inductive: `Prove` writes back a manifest read long
before, and nothing in the store says that its bytes were restored. The
inductive invariant is

    IInv == TypeOK /\ LocalsOK /\ VerifiedWasRestored

where `LocalsOK` says what each process knows from the steps behind it: at
upload and record its file is a dump; during a verify it holds a manifest
without a verification record; at restore the file has that manifest's checksum;
at prove that checksum was restored. `restored` only grows, so what one process
knows stays true while others act.

`Supervised_proofs` and most of `Promises_proofs` assume `Supervised`, with any number
of pruning processes (TLC has one):

* `BytesStay`: every listed backup has its artifact, the one its manifest
  describes unless it decayed;
* `CoverageStays`, `PrunesTogetherLeaveNewer`: the newest verified backup only
  gives way to a newer one, and the guards of one prune hold for any number of
  them together;
* `ImplementsCatalog`: `Spec => KeepsPromises`, the refinement.

Their invariant is `IInv /\ SInv(d)`, d being the producer. Its parts:

* `Roles`, `KeysOK`: only d backs up and verifies; every key is the id of a
  backup that was started; every manifest is under its own id.
* `Maker`: the backup d works on is the newest ever started, has no manifest
  before Record and is unproven until Prove; until it is listed it is younger than
  `MaxBackup`, and d still holds the manifest that is in the store.
* `Pruner`: what stays true of a read after others have acted. A manifest that
  was read verified still has something proven at least as new; one read unverified may
  have been proven since, but only if it is the newest of those listed, which no
  plan removes. So the keys of a plan stay `Superseded` until they are deleted: something
  newer is listed, and if they are proven something newer is proven. The sweep's keys are
  older than `MinAge`, hence not d's, and stay unlisted.

The argument turns on `PrunerStays`: a step of anyone changes the catalog only
in a way that `Grows`, what goes leaves something at least as new and what comes is
the newest there ever was, and what a pruner knows survives such a change. `SInv` was
checked with TLC on the instance of the supervised run before it was proved. Backup,
verify and the rest of `Next` have one lemma each with one step per action. The steps of
prune and sweep have `PruneSteps` and `SweepSteps`, which say of all of them what both
hypotheses need: a step of `Prunes` changes nothing in the store, retires something superseded
or reclaims something unlisted, and leaves a pruner that knows what a pruner must.

`Promises_proofs` ends with the same promises under `OneAtATime`:

* `BytesStayInTurn`, `PrunesInTurnLeaveNewer`;
* `ImplementsRevocableCatalog`: `Spec => KeepsRevocablePromises`.

Here a verify may be of any listed backup, proven before or not, and may withdraw the proof,
so `Maker` is too strong and coverage may go back. The invariant is `IInv /\ OInv`, checked
with TLC on the sequential run first. `OInv` keeps `KeysOK`, the manifests' bytes and
`Pruners`, and replaces `Roles` and `Maker` by `Shell`, which is what the one process knows:
a backup in the making has a key nothing is stored or listed under, and the
manifest a verify holds describes the same bytes as the one in the store. That
is where the write-back of a manifest read long before gets its justification
(`HeldIsCurrent`, `WriteBackOInv`), and what fails in resurrected_manifest.

`LocalStore_proofs`:

* `TypeCorrect`: what a load has decoded is an object, never `Torn`;
* `LocalStoreIsAtomic`: `Spec => ImplementsObjectStore`. The inductive invariant is
  `TypeOK /\ JobsOK /\ FilesOK`. `JobsOK` says which locals a call has at each
  point. `FilesOK` says that files under keys are whole (`KeysWhole`), and why they
  stay whole: the file a call is writing has no name but the call's own temporary
  one and is nobody else's open file (`Private`, `OwnTemps`), it is whole when it
  comes to the rename (`Complete`), and an open file is whole (`OpenWhole`).
  Rename, Delete and Open are the steps at which the abstract put, delete and get
  happen; every other step is a call, a return or invisible.
* `LoadsMissNothing`: `Spec => []LoadFindsListed`;
* `LoadsAreExact`: `Spec => []UndisturbedLoadIsExact`: as long as nothing was left by a kill or
  by a remove that failed, every temporary file is one that a running put still holds and
  will remove (`TempsOwned`), so while a load is undisturbed there is none (`QuietAlone`).

Loads are not atomic, so these two need more than the refinement: `LInv` adds to `IInv`
what was just said of temporary files, that ids in `stable` are listed, that an object is
under its own id, that a file being copied is torn until it is whole, that each stable id
is still to be looked at, found or loaded (`Accounted`), and what an undisturbed load has
done of the tree (`Exact`). `Steady` says what a step of one process leaves to the loads of
the others.

`Retention_proofs`:

* `PassComputesPolicy`: `Spec => []ComputesPolicy`. `PassOK` relates the counters to the
  part of the catalog the pass has seen: everything newer than the next manifest, and
  nothing else, has been seen; a slot that is not full has counted all leaders seen and
  remembers the period of the oldest verified manifest seen; what is kept so far is what the
  policy keeps of that part. `FillsIfEarned` is the step: since periods are
  intervals of time, a different period than the last one remembered is a new
  leader. "last" is the policy whose periods are seconds.
* `PrunesCompose`: `Spec => []PruneTimesDoNotMatter`. It follows from `ThinnedSlots`, a
  fact about the policy alone: a leader has as many newer leaders as there are later
  periods (`CountByPeriod`), and a period whose leader an earlier prune took has at least
  n later ones, whose leaders are still there.
* `TypeCorrect`: no counter passes the number of verified backups.

`Runner_proofs` proves the five safety properties of its run: `TypeCorrect`, `LossIsTold`,
`TrackerTellsTheTruth`, `OkIsNearlyCurrent` and `OnlyProvenCyclesPrune`, from

    IInv == TypeOK /\ TimesOK /\ CycleOK /\ TrackerOK

* `TimesOK`: nothing in the store is from the future, what is verified is no later than the
  cycle's second, and a cycle lasts at most `MaxCycle`.
* `CycleOK`: past backup and verify a cycle has its own backup proven, or has raised an error; it
  comes to prune only with its own proven backup.
* `TrackerOK`: what the check found stays true until the next check.

The argument: the cycle's own proven backup is the newest verified one (`OwnIsNewest`), which
every policy keeps, so a prune can take neither the coverage nor what the gauges
say; a cycle that failed before has raised its error, whatever its check then
sees; and "ok" is as old as the check's limit allows plus the time until the cycle
ends.

`Host_proofs` proves all six properties of its run: `TypeCorrect`, `ProvedOnOwnScratch`,
`CommandsCleanUp`, `RevokedForCause`, `FilesStay` and `ForceAloneDestroys`. None of the
invariants is inductive by itself, because each speaks about one command while the
others act. The inductive invariant is

    IInv == TypeOK /\ ShapeInv /\ NamesInv /\ ScratchInv /\ AloneInv /\ OutInv

* `ShapeInv`: which locals a command has at which point: it has a temporary dump from
  the step that made it, a list only during the restore, and a scratch database of
  its own from its creation until Drop.
* `NamesInv`: every file and scratch database has an owner that is still to remove it,
  or is litter, and no name of a list is a dump's or in anybody's cleanup.
* `ScratchInv`: a scratch database has at most one maker, since CREATE DATABASE fails
  for a second, and what it holds at each point is what that maker has restored.
* `AloneInv`: while a verify is alone the others are idle, its dump is there, and it
  found its database free unless one was left as litter.
* `OutInv`: while somebody writes the file it is neither what was there before nor a delivered
  one; two writers know of each other.

`ForceAloneDestroys` needs of a database no more than `ShapeInv`: who cleans was given
`-force`, and who does not clean only adds, whatever the database holds by then.

Each action has one lemma or step per part it can disturb; `Start`, which clears the
`alone` of everyone else, is the one that touches all of them.

`Pipeline_proofs` proves the five invariants of its run: `TypeCorrect`,
`AcceptedIsSource`, `StoredStreamsAreWhole`, `DecryptCatchesTruncation` and
`UndamagedBytesPass`, in three layers:

* `IInv` (types, `DumpOK`, `ReadOK`) is enough for AcceptedIsSource, which needs no fact
  about streams: what is accepted equals the checksum, the checksum was taken of the
  dump, and the dump equals the source because a preflight that passes
  leaves every row visible.
* `SInv` adds `WriteOK`: what Put has read and what is in the pipe are together a
  beginning of the sealed stream, as long as the goroutine's place says; only a
  goroutine that has written all of it closes the pipe with "eof". So what is
  stored is the whole stream. `SealChunkWrites` does the arithmetic of full and
  short chunks.
* `RInv` adds `ReadPosOK`: while Decrypt reads an object whose every item is either the
  one that belongs at its place or torn (`Clean`), it has read so many frames and
  written their rows, and a failure on an undamaged one goes back to a `fault`. Only the sealed stream has its terminator where all rows
  have been written, and an undamaged one goes on as Decrypt expects.

Every invariant, action property and refinement of the passing runs is proved, those of
Backwyn that need a hypothesis under `Supervised`, `OneAtATime` or, where a run of each
checks them, both. Only model-checked: liveness under fairness (LossIsPaged, UploadEnds), which is out of
the prover's reach; and the statements the code does not keep.

## Not modelled, or not yet

* config, SQL roles, packaging: one-time setup without state. What config checks is
  assumed of the constants.
* pgtools only by what its calls do to databases and files and that they may fail:
  version parsing, quoting and labels of DSNs, SQL texts are left out. The sandbox is
  assumed to run only this tool's scratch databases.
* Command line flags, printing and exit codes; payloads of alerts. Sizes, durations and
  table counts.
* The paged listing of S3: Backwyn lists in one step, as if nothing changed between two
  pages of a thousand keys.
* Hanging calls: nothing has a deadline, so a hang stops the daemon; stating that
  as a run would only restate it.
* Input/output errors of List and of opening a listed file: a load that meets one
  fails, as it does when a file has vanished. Stat and object sizes. Power loss: Put
  does not sync, so after one the renamed file may be incomplete; `Crash` kills a
  process, not the machine.
* A store request, or a CREATE DATABASE, that takes effect long after its client gave up.
* Failing to remove one's own temporary file on the host; LocalStore has it for the store's
  temporary files, where it matters to every later load.

## Plan

1. *Done:* RetentionPolicy, Retention, Catalog, Backwyn, Runner and the proofs
   about Backwyn, with the refinement of Catalog; LocalStore, ObjectStore and the
   proof that one implements the other; Host and Pipeline with the proofs of
   all their invariants.
2. *Done:* the proofs about Retention, Runner and what loads return.
3. *Done:* the proofs of Backwyn's promises for one process that runs every command in turn.
4. Compositions left: Host with Backwyn, so that a prune deletes the manifest a verify on
   the same host is about to save. Each shows its half today.
