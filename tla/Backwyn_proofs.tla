--------------------------- MODULE Backwyn_proofs ---------------------------
(***************************************************************************)
(* What holds of Backwyn whatever commands run, in any number of processes *)
(* and for every value of the bounds.                                      *)
(***************************************************************************)
EXTENDS Backwyn, TLAPS

\* What a process knows from the steps its command has behind it: a dump before
\* it is uploaded, the manifest it verifies, and that the bytes it fetched have
\* that manifest's checksum and were restored.
Knows(local, done) ==
    /\ local.pc \in {"upload", "record"} => local.file \in Dumps
    /\ local.pc \in InVerify => local.held \in Manifest /\ ~local.held.verified
    /\ local.pc = "restore" => local.file = local.held.sum
    /\ local.pc = "prove" => local.held.sum \in done

LocalsOK == \A p \in Procs : Knows(proc[p], restored)

IInv == TypeOK /\ LocalsOK /\ VerifiedWasRestored

\* What a plan removes are ids of manifests it was made from.
LEMMA PlanIdsAreStamps ==
    ASSUME NEW ms \in SUBSET Manifest, NEW pol
    PROVE  PlanIds(ms, pol) \subseteq Stamps
BY DEF PlanIds, Removed, Manifest

LEMMA IdleIsProcess == Idle \in Process
BY MaxTimeIsNatural, BoundsAreNatural DEF Idle, Process, Contents, Stamps, InBackup, InVerify

LEMMA IdleKnows == \A done : Knows(Idle, done)
BY DEF Idle, Knows, InVerify

LEMMA InitIInv == Init => IInv
<1> SUFFICES ASSUME Init PROVE IInv
  OBVIOUS
<1>1. TypeOK
  BY IdleIsProcess, MaxTimeIsNatural, BoundsAreNatural DEF Init, TypeOK, Stamps
<1>2. LocalsOK
  BY IdleKnows DEF Init, LocalsOK
<1>3. VerifiedWasRestored
  BY DEF Init, VerifiedWasRestored, Proven, Catalogued
<1> QED
  BY <1>1, <1>2, <1>3 DEF IInv

\* A step of one process, by the locals it goes on with and the objects it puts
\* into the store, deletes from it or leaves alone.
LEMMA StepIInv ==
    ASSUME IInv,
           NEW p \in Procs, NEW local, Becomes(p, local),
           local \in Process, Knows(local, restored'),
           time' \in Stamps, dumped' \in 0..MaxDumps, starts' \subseteq Stamps,
           restored \subseteq restored', restored' \subseteq Contents,
           artifacts' \in [Stamps -> Contents \cup {Absent}],
           manifests' \in [Stamps -> Manifest \cup {Absent}],
           \A i \in Stamps : \/ manifests'[i] \in {manifests[i], Absent}
                             \/ manifests'[i].verified => manifests'[i].sum \in restored'
    PROVE  IInv'
<1>1. /\ proc' \in [Procs -> Process]
      /\ proc'[p] = local
      /\ \A q \in Procs : q # p => proc'[q] = proc[q]
  BY DEF Becomes, IInv, TypeOK
<1>2. TypeOK'
  BY <1>1 DEF TypeOK
<1>3. LocalsOK'
  <2> SUFFICES ASSUME NEW q \in Procs PROVE Knows(proc'[q], restored')
    BY DEF LocalsOK
  <2>1. CASE q = p
    BY <1>1, <2>1
  <2>2. CASE q # p
    BY <1>1, <2>2 DEF IInv, LocalsOK, Knows
  <2> QED
    BY <2>1, <2>2
<1>4. VerifiedWasRestored'
  BY DEF IInv, VerifiedWasRestored, Proven, Catalogued
<1> QED
  BY <1>2, <1>3, <1>4 DEF IInv

\* Most steps leave the store and the history alone.
LEMMA LocalStepIInv ==
    ASSUME IInv,
           NEW p \in Procs, NEW local, Becomes(p, local),
           local \in Process, Knows(local, restored),
           UNCHANGED <<time, store, dumped, starts, restored>>
    PROVE  IInv'
BY StepIInv DEF IInv, TypeOK, store

-----------------------------------------------------------------------------
(* One lemma per part of Next, one step per action.                        *)

LEMMA BackupStepIInv ==
    ASSUME IInv, NEW p \in Procs, BackupStep(p)
    PROVE  IInv'
<1> USE MaxTimeIsNatural, BoundsAreNatural
<1> DEFINE me == proc[p]
<1>0. me \in Process /\ Knows(me, restored)
  BY DEF IInv, TypeOK, LocalsOK
<1>1. CASE StartBackup(p)
  <2>1. PICK cmd \in Producing :
          Becomes(p, [Idle EXCEPT !.pc = "dump", !.cmd = cmd, !.stamp = time])
    BY <1>1 DEF StartBackup
  <2>2. /\ [Idle EXCEPT !.pc = "dump", !.cmd = cmd, !.stamp = time] \in Process
        /\ Knows([Idle EXCEPT !.pc = "dump", !.cmd = cmd, !.stamp = time], restored')
    BY IdleIsProcess DEF IInv, TypeOK, Process, Idle, Producing, InBackup, Knows, InVerify
  <2> QED
    BY <1>1, <2>1, <2>2, StepIInv DEF StartBackup, IInv, TypeOK, store
<1>2. CASE Dump(p)
  <2>1. dumped + 1 \in Dumps /\ dumped + 1 \in 0..MaxDumps
    BY <1>2 DEF Dump, IInv, TypeOK, Dumps
  <2>2. /\ [me EXCEPT !.pc = "upload", !.file = dumped + 1] \in Process
        /\ Knows([me EXCEPT !.pc = "upload", !.file = dumped + 1], restored')
    BY <1>0, <2>1 DEF Process, InBackup, InVerify, Contents, Knows
  <2> QED
    BY <1>2, <2>1, <2>2, StepIInv DEF Dump, IInv, TypeOK, store
<1>3. CASE Upload(p)
  <2>1. me.file \in Dumps /\ me.stamp \in Stamps
    BY <1>0, <1>3 DEF Upload, At, Knows, Process
  <2>2. /\ [me EXCEPT !.pc = "record"] \in Process
        /\ Knows([me EXCEPT !.pc = "record"], restored')
    BY <1>0, <2>1 DEF Process, InBackup, InVerify, Knows
  <2>3. artifacts' \in [Stamps -> Contents \cup {Absent}]
    BY <1>3, <2>1 DEF Upload, IInv, TypeOK, Contents
  <2> QED
    BY <1>3, <2>2, <2>3, StepIInv DEF Upload, Goes, IInv, TypeOK
<1>4. CASE Record(p)
  <2> DEFINE local == IF me.cmd = "run" THEN [me EXCEPT !.pc = "load", !.file = Junk] ELSE Idle
             new == [id |-> me.stamp, sum |-> me.file, verified |-> FALSE]
  <2>1. me.file \in Dumps /\ me.stamp \in Stamps
    BY <1>0, <1>4 DEF Record, At, Knows, Process
  <2>2. local \in Process /\ Knows(local, restored')
    <3>1. /\ [me EXCEPT !.pc = "load", !.file = Junk] \in Process
          /\ Knows([me EXCEPT !.pc = "load", !.file = Junk], restored')
      BY <1>0 DEF Process, Contents, InVerify, Knows
    <3> QED
      BY <3>1, IdleIsProcess, IdleKnows
  <2>3. new \in Manifest /\ ~new.verified
    BY <2>1 DEF Manifest
  <2>4. manifests' = [manifests EXCEPT ![me.stamp] = new]
    BY <1>4 DEF Record
  <2>5. manifests' \in [Stamps -> Manifest \cup {Absent}]
    BY <2>1, <2>3, <2>4 DEF IInv, TypeOK
  <2>6. \A i \in Stamps : manifests'[i] = manifests[i] \/ ~manifests'[i].verified
    BY <2>1, <2>3, <2>4 DEF IInv, TypeOK
  <2> HIDE DEF local, new
  <2>7. Becomes(p, local)
    BY <1>4 DEF Record, local
  <2> QED
    BY <1>4, <2>2, <2>5, <2>6, <2>7, StepIInv DEF Record, IInv, TypeOK
<1> QED
  BY <1>1, <1>2, <1>3, <1>4 DEF BackupStep

LEMMA VerifyStepIInv ==
    ASSUME IInv, NEW p \in Procs, VerifyStep(p)
    PROVE  IInv'
<1> USE MaxTimeIsNatural, BoundsAreNatural
<1> DEFINE me == proc[p]
<1>0. me \in Process /\ Knows(me, restored)
  BY DEF IInv, TypeOK, LocalsOK
<1>1. CASE StartVerify(p)
  <2>1. PICK i \in Stamps :
          Becomes(p, [Idle EXCEPT !.pc = "load", !.cmd = "verify", !.stamp = i])
    BY <1>1 DEF StartVerify
  <2>2. /\ [Idle EXCEPT !.pc = "load", !.cmd = "verify", !.stamp = i] \in Process
        /\ Knows([Idle EXCEPT !.pc = "load", !.cmd = "verify", !.stamp = i], restored)
    BY IdleIsProcess DEF Process, Idle, Knows, InVerify
  <2> QED
    BY <1>1, <2>1, <2>2, LocalStepIInv DEF StartVerify
<1>2. CASE Load(p)
  <2> DEFINE reset == [manifests[me.stamp] EXCEPT !.verified = FALSE]
  <2>1. reset \in Manifest /\ ~reset.verified
    BY <1>0, <1>2 DEF Load, Catalogued, IInv, TypeOK, Manifest
  <2> HIDE DEF reset
  <2>2. /\ [me EXCEPT !.pc = "fetch", !.held = reset] \in Process
        /\ Knows([me EXCEPT !.pc = "fetch", !.held = reset], restored)
    BY <1>0, <2>1 DEF Process, InVerify, Knows
  <2> QED
    BY <1>2, <2>2, LocalStepIInv DEF Load, reset
<1>3. CASE Fetch(p)
  <2> DEFINE bytes == artifacts[me.held.id]
  <2>1. me.held \in Manifest /\ ~me.held.verified /\ bytes = me.held.sum
    BY <1>0, <1>3 DEF Fetch, At, Knows, InVerify
  <2>2. bytes \in Contents
    BY <2>1 DEF Manifest, Contents
  <2> HIDE DEF bytes
  <2>3. /\ [me EXCEPT !.pc = "restore", !.file = bytes] \in Process
        /\ Knows([me EXCEPT !.pc = "restore", !.file = bytes], restored)
    BY <1>0, <2>1, <2>2 DEF Process, InVerify, Knows
  <2> QED
    BY <1>3, <2>3, LocalStepIInv DEF Fetch, bytes
<1>4. CASE Restore(p)
  <2>1. me.held \in Manifest /\ ~me.held.verified /\ me.file = me.held.sum
    BY <1>0, <1>4 DEF Restore, At, Knows, InVerify
  <2>2. restored' = restored \cup {me.file} /\ me.file \in Contents
    BY <1>0, <1>4 DEF Restore, Process
  <2>3. /\ [me EXCEPT !.pc = "prove"] \in Process
        /\ Knows([me EXCEPT !.pc = "prove"], restored')
    BY <1>0, <2>1, <2>2 DEF Process, InVerify, Knows
  <2> QED
    BY <1>4, <2>2, <2>3, StepIInv DEF Restore, Goes, IInv, TypeOK, store
<1>5. CASE Prove(p)
  <2> DEFINE local == IF me.cmd = "run"
                        THEN [me EXCEPT !.pc = "list", !.file = Junk, !.held = Absent]
                        ELSE Idle
             new == [me.held EXCEPT !.verified = TRUE]
  <2>1. me.held \in Manifest /\ me.held.sum \in restored
    BY <1>0, <1>5 DEF Prove, At, Knows, InVerify
  <2>2. local \in Process /\ Knows(local, restored')
    <3>1. /\ [me EXCEPT !.pc = "list", !.file = Junk, !.held = Absent] \in Process
          /\ Knows([me EXCEPT !.pc = "list", !.file = Junk, !.held = Absent], restored')
      BY <1>0 DEF Process, Contents, InVerify, Knows
    <3> QED
      BY <3>1, IdleIsProcess, IdleKnows
  <2>3. new \in Manifest /\ new.sum \in restored
    BY <2>1 DEF Manifest
  <2>4. me.held.id \in Stamps
    BY <2>1 DEF Manifest
  <2>5. manifests' = [manifests EXCEPT ![me.held.id] = new]
    BY <1>5 DEF Prove
  <2>6. manifests' \in [Stamps -> Manifest \cup {Absent}]
    BY <2>3, <2>4, <2>5 DEF IInv, TypeOK
  <2>7. \A i \in Stamps : manifests'[i] = manifests[i] \/ manifests'[i].sum \in restored
    BY <2>3, <2>4, <2>5 DEF IInv, TypeOK
  <2> HIDE DEF local, new
  <2>8. Becomes(p, local)
    BY <1>5 DEF Prove, local
  <2> QED
    BY <1>5, <2>2, <2>6, <2>7, <2>8, StepIInv DEF Prove, IInv, TypeOK
<1>6. CASE VerifyFails(p)
  <2>1. /\ [me EXCEPT !.pc = "revoke"] \in Process
        /\ Knows([me EXCEPT !.pc = "revoke"], restored)
    BY <1>0, <1>6 DEF VerifyFails, Process, InVerify, Knows
  <2> QED
    BY <1>6, <2>1, LocalStepIInv DEF VerifyFails, Goes
<1>7. CASE Revoke(p)
  <2>1. me.held \in Manifest /\ ~me.held.verified /\ me.held.id \in Stamps
    BY <1>0, <1>7 DEF Revoke, At, Knows, InVerify, Manifest
  <2>2. manifests' \in [Stamps -> Manifest \cup {Absent}]
    BY <1>7, <2>1 DEF Revoke, IInv, TypeOK
  <2>3. \A i \in Stamps : manifests'[i] = manifests[i] \/ ~manifests'[i].verified
    BY <1>7, <2>1 DEF Revoke, IInv, TypeOK
  <2> QED
    BY <1>7, <2>2, <2>3, IdleIsProcess, IdleKnows, StepIInv DEF Revoke, IInv, TypeOK
<1> QED
  BY <1>1, <1>2, <1>3, <1>4, <1>5, <1>6, <1>7 DEF VerifyStep

LEMMA PruneStepIInv ==
    ASSUME IInv, NEW p \in Procs, PruneStep(p)
    PROVE  IInv'
<1> USE MaxTimeIsNatural, BoundsAreNatural
<1> DEFINE me == proc[p]
<1>0. me \in Process /\ Knows(me, restored)
  BY DEF IInv, TypeOK, LocalsOK
<1>1. CASE StartPrune(p)
  <2>1. PICK sweeps \in BOOLEAN :
          Becomes(p, [Idle EXCEPT !.pc = "list", !.cmd = "prune", !.sweeps = sweeps])
    BY <1>1 DEF StartPrune
  <2>2. /\ [Idle EXCEPT !.pc = "list", !.cmd = "prune", !.sweeps = sweeps] \in Process
        /\ Knows([Idle EXCEPT !.pc = "list", !.cmd = "prune", !.sweeps = sweeps], restored)
    BY IdleIsProcess DEF Process, Idle, Knows, InVerify
  <2> QED
    BY <1>1, <2>1, <2>2, LocalStepIInv DEF StartPrune
<1>2. CASE ListManifests(p)
  <2>1. /\ [me EXCEPT !.pc = "read", !.keys = Catalogued] \in Process
        /\ Knows([me EXCEPT !.pc = "read", !.keys = Catalogued], restored)
    BY <1>0 DEF Process, Catalogued, Knows, InVerify
  <2> QED
    BY <1>2, <2>1, LocalStepIInv DEF ListManifests
<1>3. CASE ReadManifest(p)
  <2>1. PICK k \in Catalogued :
          Becomes(p, [me EXCEPT !.keys = me.keys \ {k}, !.seen = me.seen \cup {manifests[k]}])
    BY <1>3 DEF ReadManifest
  <2>2. manifests[k] \in Manifest
    BY <2>1 DEF Catalogued, IInv, TypeOK
  <2>3. /\ [me EXCEPT !.keys = me.keys \ {k}, !.seen = me.seen \cup {manifests[k]}] \in Process
        /\ Knows([me EXCEPT !.keys = me.keys \ {k}, !.seen = me.seen \cup {manifests[k]}], restored)
    BY <1>0, <2>2 DEF Process, Knows
  <2> QED
    BY <1>3, <2>1, <2>3, LocalStepIInv DEF ReadManifest
<1>4. CASE MakePlan(p)
  <2>1. PICK pol \in Policies :
          Becomes(p, [me EXCEPT !.pc = "retire", !.seen = {}, !.keys = PlanIds(me.seen, pol)])
    BY <1>4 DEF MakePlan
  <2>2. PlanIds(me.seen, pol) \subseteq Stamps
    BY <1>0, PlanIdsAreStamps DEF Process
  <2>3. /\ [me EXCEPT !.pc = "retire", !.seen = {}, !.keys = PlanIds(me.seen, pol)] \in Process
        /\ Knows([me EXCEPT !.pc = "retire", !.seen = {}, !.keys = PlanIds(me.seen, pol)], restored)
    BY <1>0, <2>2 DEF Process, Knows, InVerify
  <2> QED
    BY <1>4, <2>1, <2>3, LocalStepIInv DEF MakePlan
<1>5. CASE DeleteManifest(p)
  <2>1. /\ [me EXCEPT !.pc = "reclaim"] \in Process
        /\ Knows([me EXCEPT !.pc = "reclaim"], restored')
    BY <1>0 DEF Process, Knows, InVerify
  <2>2. PICK k \in me.keys : manifests' = [manifests EXCEPT ![k] = Absent]
    BY <1>5 DEF DeleteManifest
  <2> QED
    BY <1>5, <2>1, <2>2, StepIInv DEF DeleteManifest, Goes, IInv, TypeOK
<1>6. CASE DeleteManifestFails(p)
  <2>1. PICK k \in me.keys :
          /\ manifests' \in {manifests, [manifests EXCEPT ![k] = Absent]}
          /\ Becomes(p, [me EXCEPT !.keys = me.keys \ {k}, !.sweeps = FALSE])
    BY <1>6 DEF DeleteManifestFails
  <2>2. /\ [me EXCEPT !.keys = me.keys \ {k}, !.sweeps = FALSE] \in Process
        /\ Knows([me EXCEPT !.keys = me.keys \ {k}, !.sweeps = FALSE], restored')
    BY <1>0, <1>6 DEF DeleteManifestFails, At, Process, Knows, InVerify
  <2> QED
    BY <1>6, <2>1, <2>2, StepIInv DEF DeleteManifestFails, IInv, TypeOK
<1>7. CASE DeleteArtifact(p)
  <2>1. PICK k \in me.keys :
          /\ artifacts' = [artifacts EXCEPT ![k] = Absent]
          /\ Becomes(p, [me EXCEPT !.pc = "retire", !.keys = me.keys \ {k}])
    BY <1>7 DEF DeleteArtifact
  <2>2. /\ [me EXCEPT !.pc = "retire", !.keys = me.keys \ {k}] \in Process
        /\ Knows([me EXCEPT !.pc = "retire", !.keys = me.keys \ {k}], restored')
    BY <1>0 DEF Process, Knows, InVerify
  <2> QED
    BY <1>7, <2>1, <2>2, StepIInv DEF DeleteArtifact, IInv, TypeOK
<1>8. CASE DeleteArtifactFails(p)
  <2>1. PICK k \in me.keys :
          /\ artifacts' \in {artifacts, [artifacts EXCEPT ![k] = Absent]}
          /\ Becomes(p, [me EXCEPT !.pc = "retire", !.keys = me.keys \ {k}, !.sweeps = FALSE])
    BY <1>8 DEF DeleteArtifactFails
  <2>2. /\ [me EXCEPT !.pc = "retire", !.keys = me.keys \ {k}, !.sweeps = FALSE] \in Process
        /\ Knows([me EXCEPT !.pc = "retire", !.keys = me.keys \ {k}, !.sweeps = FALSE], restored')
    BY <1>0 DEF Process, Knows, InVerify
  <2> QED
    BY <1>8, <2>1, <2>2, StepIInv DEF DeleteArtifactFails, IInv, TypeOK
<1>9. CASE ApplyDone(p)
  <2>1. /\ [me EXCEPT !.pc = "live", !.stamp = time] \in Process
        /\ Knows([me EXCEPT !.pc = "live", !.stamp = time], restored)
    BY <1>0 DEF IInv, TypeOK, Process, Knows, InVerify
  <2>2. CASE me.sweeps
    BY <1>9, <2>1, <2>2, LocalStepIInv DEF ApplyDone
  <2>3. CASE ~me.sweeps
    BY <1>9, <2>3, IdleIsProcess, IdleKnows, LocalStepIInv DEF ApplyDone
  <2> QED
    BY <2>2, <2>3
<1> QED
  BY <1>1, <1>2, <1>3, <1>4, <1>5, <1>6, <1>7, <1>8, <1>9 DEF PruneStep

LEMMA SweepStepIInv ==
    ASSUME IInv, NEW p \in Procs, SweepStep(p)
    PROVE  IInv'
<1> USE MaxTimeIsNatural, BoundsAreNatural
<1> DEFINE me == proc[p]
<1>0. me \in Process /\ Knows(me, restored)
  BY DEF IInv, TypeOK, LocalsOK
<1>1. CASE SweepListManifests(p)
  <2>1. /\ [me EXCEPT !.pc = "orphans", !.keys = Catalogued] \in Process
        /\ Knows([me EXCEPT !.pc = "orphans", !.keys = Catalogued], restored)
    BY <1>0 DEF Process, Catalogued, Knows, InVerify
  <2> QED
    BY <1>1, <2>1, LocalStepIInv DEF SweepListManifests
<1>2. CASE SweepListArtifacts(p)
  <2> DEFINE old == {i \in Stored \ me.keys : OldEnough(i, me.stamp)}
  <2>1. old \subseteq Stamps
    BY DEF Stored
  <2>2. Becomes(p, [me EXCEPT !.pc = "sweep", !.keys = old])
    BY <1>2 DEF SweepListArtifacts
  <2> HIDE DEF old
  <2>3. /\ [me EXCEPT !.pc = "sweep", !.keys = old] \in Process
        /\ Knows([me EXCEPT !.pc = "sweep", !.keys = old], restored)
    BY <1>0, <2>1 DEF Process, Knows, InVerify
  <2> QED
    BY <1>2, <2>2, <2>3, LocalStepIInv DEF SweepListArtifacts
<1>3. CASE SweepDelete(p)
  <2>1. PICK k \in me.keys :
          /\ artifacts' \in {artifacts, [artifacts EXCEPT ![k] = Absent]}
          /\ Becomes(p, [me EXCEPT !.keys = me.keys \ {k}])
    BY <1>3 DEF SweepDelete
  <2>2. /\ [me EXCEPT !.keys = me.keys \ {k}] \in Process
        /\ Knows([me EXCEPT !.keys = me.keys \ {k}], restored')
    BY <1>0, <1>3 DEF SweepDelete, At, Process, Knows, InVerify
  <2> QED
    BY <1>3, <2>1, <2>2, StepIInv DEF SweepDelete, IInv, TypeOK
<1>4. CASE SweepDone(p)
  BY <1>4, IdleIsProcess, IdleKnows, LocalStepIInv DEF SweepDone
<1> QED
  BY <1>1, <1>2, <1>3, <1>4 DEF SweepStep

LEMMA NextIInv == IInv /\ [Next]_vars => IInv'
<1> SUFFICES ASSUME IInv, [Next]_vars PROVE IInv'
  OBVIOUS
<1>1. ASSUME NEW p \in Procs,
             BackupStep(p) \/ VerifyStep(p) \/ PruneStep(p) \/ SweepStep(p)
      PROVE  IInv'
  BY <1>1, BackupStepIInv, VerifyStepIInv, PruneStepIInv, SweepStepIInv
<1>2. ASSUME NEW p \in Procs, Abort(p) PROVE IInv'
  BY <1>2, IdleIsProcess, IdleKnows, LocalStepIInv DEF Abort
<1>3. CASE Tick
  <2>1. time' \in Stamps
    BY <1>3, MaxTimeIsNatural DEF Tick, IInv, TypeOK, Stamps
  <2>2. TypeOK'
    BY <1>3, <2>1 DEF Tick, IInv, TypeOK, store
  <2>3. LocalsOK' /\ VerifiedWasRestored'
    BY <1>3 DEF Tick, IInv, LocalsOK, VerifiedWasRestored, Proven, Catalogued, store
  <2> QED
    BY <2>2, <2>3 DEF IInv
<1>4. ASSUME NEW i \in Stamps, Rot(i) PROVE IInv'
  <2>1. artifacts' \in [Stamps -> Contents \cup {Absent}]
    BY <1>4 DEF Rot, IInv, TypeOK, Contents
  <2>2. TypeOK'
    BY <1>4, <2>1 DEF Rot, IInv, TypeOK
  <2>3. LocalsOK' /\ VerifiedWasRestored'
    BY <1>4 DEF Rot, IInv, LocalsOK, VerifiedWasRestored, Proven, Catalogued
  <2> QED
    BY <2>2, <2>3 DEF IInv
<1>5. CASE UNCHANGED vars
  BY <1>5 DEF vars, store, IInv, TypeOK, LocalsOK, VerifiedWasRestored, Proven, Catalogued
<1> QED
  BY <1>1, <1>2, <1>3, <1>4, <1>5 DEF Next

-----------------------------------------------------------------------------

THEOREM InvariantHolds == Spec => []IInv
BY InitIInv, NextIInv, PTL DEF Spec

\* Every variable keeps its type: in particular only hashed dumps and their
\* manifests reach the store, under keys the clock has shown.
THEOREM TypeCorrect == Spec => []TypeOK
<1>1. IInv => TypeOK
  BY DEF IInv
<1> QED
  BY <1>1, InvariantHolds, PTL

\* However many processes back up, verify and prune at once, also in the same
\* second and over each other's keys, a manifest is verified only if bytes with
\* its checksum were restored by a verify.
THEOREM ProofIsEarned == Spec => []VerifiedWasRestored
<1>1. IInv => VerifiedWasRestored
  BY DEF IInv
<1> QED
  BY <1>1, InvariantHolds, PTL
=============================================================================
