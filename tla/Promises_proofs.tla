-------------------------- MODULE Promises_proofs --------------------------
(***************************************************************************)
(* What the steps of Backwyn do to the catalog, first when it is           *)
(* Supervised, then when commands run OneAtATime: no prune goes back       *)
(* behind the backups and proofs there are, and the store implements       *)
(* Catalog, in the second case with proofs that may be withdrawn.          *)
(***************************************************************************)
EXTENDS Supervised_proofs

(* What a step does to the store.                                          *)

ArtifactStep(i) ==
    /\ UNCHANGED manifests
    /\ \/ /\ i \notin Catalogued \cup Stored
          /\ \E c \in Contents : artifacts' = [artifacts EXCEPT ![i] = c]
       \/ i \in Stored /\ artifacts' = [artifacts EXCEPT ![i] = Junk]
       \/ i \notin Catalogued /\ artifacts' = [artifacts EXCEPT ![i] = Absent]

ManifestStep(i) ==
    /\ UNCHANGED artifacts
    /\ \/ /\ i \in Stored \ Catalogued
          /\ \E m \in Manifest : ~m.verified /\ manifests' = [manifests EXCEPT ![i] = m]
       \/ /\ i \in Catalogued \ Proven
          /\ \E m \in Manifest : m.verified /\ manifests' = [manifests EXCEPT ![i] = m]
       \/ /\ Superseded(i, Catalogued, Proven)
          /\ manifests' = [manifests EXCEPT ![i] = Absent]

StoreStep == UNCHANGED store \/ \E i \in Stamps : ArtifactStep(i) \/ ManifestStep(i)

LEMMA PrunesAreStoreSteps ==
    ASSUME NEW p, NEW local, Prunes(p, local)
    PROVE  StoreStep
BY DEF Prunes, Retires, Reclaims, StoreStep, ArtifactStep, ManifestStep, store

LEMMA StoreSteps ==
    ASSUME NEW d, Alone(d), IInv, SInv(d), [Next]_vars
    PROVE  StoreStep
<1>0. \A p \in Procs : proc[p] \in Process /\ Pruner(proc[p], Catalogued, Proven, starts, time)
  BY DEF IInv, TypeOK, SInv, Pruners
<1>1. ASSUME NEW p \in Procs, BackupStep(p) \/ VerifyStep(p) PROVE StoreStep
  <2>0. p = d
    BY <1>1, OnlyTheProducer
  <2>1. CASE Upload(p)
    <3>1. /\ UNCHANGED manifests
          /\ artifacts' = [artifacts EXCEPT ![proc[d].stamp] = proc[d].file]
          /\ proc[d].pc = "upload" /\ proc[d].stamp \in Stamps /\ proc[d].file \in Contents
      BY <1>0, <2>0, <2>1 DEF Upload, At, Process
    <3>2. proc[d].stamp \notin Catalogued \cup Stored
      BY <3>1 DEF SInv, Maker, InBackup
    <3> QED
      BY <3>1, <3>2 DEF StoreStep, ArtifactStep
  <2>2. CASE Record(p)
    <3> DEFINE new == [id |-> proc[d].stamp, sum |-> proc[d].file, verified |-> FALSE]
    <3>1. /\ UNCHANGED artifacts /\ manifests' = [manifests EXCEPT ![proc[d].stamp] = new]
          /\ proc[d].pc = "record" /\ proc[d].stamp \in Stamps /\ proc[d].file \in Dumps
      BY <1>0, <2>0, <2>2 DEF Record, At, Process, IInv, LocalsOK, Knows
    <3>2. proc[d].stamp \notin Catalogued /\ artifacts[proc[d].stamp] \in {proc[d].file, Junk}
      BY <3>1 DEF SInv, Maker, InBackup
    <3>3. proc[d].stamp \in Stored
      BY <3>1, <3>2, AbsentIsNoObject DEF Stored, Contents
    <3>4. new \in Manifest /\ ~new.verified
      BY <3>1 DEF Manifest
    <3> HIDE DEF new
    <3> QED
      BY <3>1, <3>2, <3>3, <3>4 DEF StoreStep, ManifestStep
  <2>3. CASE Prove(p)
    <3> DEFINE new == [proc[d].held EXCEPT !.verified = TRUE]
    <3>1. /\ UNCHANGED artifacts /\ manifests' = [manifests EXCEPT ![proc[d].held.id] = new]
          /\ proc[d].pc \in InVerify
      BY <2>0, <2>3 DEF Prove, At, InVerify
    <3>2. /\ proc[d].held.id \in Catalogued \ Proven /\ proc[d].held.id \in Stamps
          /\ proc[d].held \in Manifest
      BY <3>1, HeldIsOwn, IdsAreStamps
    <3>3. new \in Manifest /\ new.verified
      BY <3>2 DEF Manifest
    <3> HIDE DEF new
    <3> QED
      BY <3>1, <3>2, <3>3 DEF StoreStep, ManifestStep
  <2>4. CASE Revoke(p)
    <3>1. /\ UNCHANGED artifacts
          /\ manifests' = [manifests EXCEPT ![proc[d].held.id] = proc[d].held]
          /\ proc[d].pc \in InVerify
      BY <2>0, <2>4 DEF Revoke, At, InVerify
    <3>2. manifests' = manifests
      BY <3>1, HeldIsOwn DEF IInv, TypeOK
    <3> QED
      BY <3>1, <3>2 DEF StoreStep, store
  <2> QED
    BY <1>1, <2>1, <2>2, <2>3, <2>4
    DEF StoreStep, BackupStep, StartBackup, Dump, VerifyStep, StartVerify, Load, Fetch, Restore, VerifyFails
<1>2. ASSUME NEW p \in Procs, PruneStep(p) \/ SweepStep(p) PROVE StoreStep
  <2>1. PICK local : Prunes(p, local)
    BY <1>0, <1>2, PruneSteps, SweepSteps DEF SInv
  <2> QED
    BY <2>1, PrunesAreStoreSteps
<1>3. ASSUME NEW p \in Procs, Abort(p) PROVE StoreStep
  BY <1>3 DEF Abort, StoreStep
<1>4. CASE Tick
  BY <1>4 DEF Tick, StoreStep
<1>5. ASSUME NEW i \in Stamps, Rot(i) PROVE StoreStep
  BY <1>5 DEF Rot, StoreStep, ArtifactStep
<1>6. CASE UNCHANGED vars
  BY <1>6 DEF vars, store, StoreStep
<1> QED
  BY <1>1, <1>2, <1>3, <1>4, <1>5, <1>6 DEF Next

-----------------------------------------------------------------------------
(* The theorems.                                                           *)

LEMMA StepLeavesNewer ==
    ASSUME IInv, StoreStep
    PROVE  /\ \A i \in Catalogued \ Catalogued' :
                /\ \E j \in Catalogued' : j > i
                /\ i \in Proven => \E j \in Proven' : j > i
           /\ \A i \in Proven : \E j \in Proven' : j >= i
<1>0. Stamps \subseteq Int
  BY MaxTimeIsNatural DEF Stamps
<1>1. CASE manifests' = manifests
  BY <1>0, <1>1, IdsAreStamps DEF Catalogued, Proven
<1>2. ASSUME NEW i \in Stamps, ManifestStep(i),
             NEW m \in Manifest, manifests' = [manifests EXCEPT ![i] = m],
             i \notin Proven
      PROVE  Catalogued \subseteq Catalogued' /\ Proven \subseteq Proven'
  <2>1. m # Absent /\ manifests'[i] = m /\ \A j \in Stamps : j # i => manifests'[j] = manifests[j]
    BY <1>2, AbsentIsNoObject DEF IInv, TypeOK
  <2> QED
    BY <1>2, <2>1 DEF Catalogued, Proven
<1>3. ASSUME NEW i \in Stamps, Superseded(i, Catalogued, Proven),
             manifests' = [manifests EXCEPT ![i] = Absent]
      PROVE  /\ \A k \in Catalogued \ Catalogued' :
                  /\ \E j \in Catalogued' : j > k
                  /\ k \in Proven => \E j \in Proven' : j > k
             /\ \A k \in Proven : \E j \in Proven' : j >= k
  <2>1. /\ \A k \in Stamps : k # i => (k \in Catalogued' <=> k \in Catalogued)
        /\ \A k \in Stamps : k # i => (k \in Proven' <=> k \in Proven)
    BY <1>3 DEF IInv, TypeOK, Catalogued, Proven
  <2>2. \E j \in Catalogued' : j > i
    BY <1>0, <1>3, <2>1, IdsAreStamps DEF Superseded
  <2>3. i \in Proven => \E j \in Proven' : j > i
    BY <1>0, <1>3, <2>1, IdsAreStamps DEF Superseded
  <2>4. \A k \in Catalogued \ Catalogued' : k = i
    BY <2>1, IdsAreStamps
  <2>5. Proven' \subseteq Stamps
    BY DEF Proven, Catalogued
  <2>6. ASSUME NEW k \in Proven PROVE \E j \in Proven' : j >= k
    <3>1. k \in Int /\ i \in Int /\ k >= k
      BY <1>0, IdsAreStamps
    <3>2. CASE k # i
      BY <2>1, <3>1, <3>2, IdsAreStamps
    <3>3. CASE k = i
      BY <1>0, <2>3, <2>5, <3>1, <3>3
    <3> QED
      BY <3>2, <3>3
  <2> QED
    BY <2>2, <2>3, <2>4, <2>6
<1>4. CASE Catalogued \subseteq Catalogued' /\ Proven \subseteq Proven'
  BY <1>0, <1>4, IdsAreStamps
<1>5. /\ \/ manifests' = manifests
         \/ \E i \in Stamps : ManifestStep(i)
  BY DEF StoreStep, ArtifactStep, store
<1> QED
  BY <1>1, <1>2, <1>3, <1>4, <1>5 DEF ManifestStep, Proven

\* Coverage never goes back in time: the newest verified backup stays or gives
\* way to a newer one, whatever is pruned by whom and wherever a command dies.
THEOREM CoverageStays == Supervised => (Spec => CoverageMonotone)
<1> SUFFICES ASSUME Supervised PROVE Spec => CoverageMonotone
  OBVIOUS
<1>1. PICK d : Alone(d)
  BY DEF Supervised, Alone
<1>2. Spec => [](IInv /\ SInv(d))
  BY <1>1, SupervisedInvariant
<1>3. IInv /\ SInv(d) /\ [Next]_vars => [\A i \in Proven : \E j \in Proven' : j >= i]_vars
  BY <1>1, StoreSteps, StepLeavesNewer
<1> QED
  BY <1>2, <1>3, PTL DEF Spec, CoverageMonotone

\* Prunes of several processes, each on a plan made from what it read before,
\* together never remove a backup without leaving a newer one, or a verified
\* one without leaving a newer verified one.
THEOREM PrunesTogetherLeaveNewer == Supervised => (Spec => PruneLeavesNewer)
<1> SUFFICES ASSUME Supervised PROVE Spec => PruneLeavesNewer
  OBVIOUS
<1>1. PICK d : Alone(d)
  BY DEF Supervised, Alone
<1>2. Spec => [](IInv /\ SInv(d))
  BY <1>1, SupervisedInvariant
<1>3. IInv /\ SInv(d) /\ [Next]_vars =>
        [\A i \in Catalogued \ Catalogued' :
            /\ \E j \in Catalogued' : j > i
            /\ i \in Proven => \E j \in Proven' : j > i]_vars
  BY <1>1, StoreSteps, StepLeavesNewer
<1> QED
  BY <1>2, <1>3, PTL DEF Spec, PruneLeavesNewer

-----------------------------------------------------------------------------
(* Backwyn implements Catalog.                                             *)

LEMMA StatusSays ==
    ASSUME IInv, ManifestMatchesArtifact, NEW i \in Stamps
    PROVE  /\ i \in Catalogued => i \in Stored
           /\ Status[i] = "none" <=> i \notin Catalogued \cup Stored
           /\ Status[i] = "stored" <=> i \in Stored \ Catalogued
           /\ Status[i] = "listed" <=> i \in Catalogued \ Proven
           /\ Status[i] = "proven" <=> i \in Proven
<1>1. ASSUME i \in Catalogued PROVE i \in Stored
  <2>1. artifacts[i] \in {manifests[i].sum, Junk} /\ manifests[i] \in Manifest
    BY <1>1 DEF ManifestMatchesArtifact, IInv, TypeOK, Catalogued
  <2>2. artifacts[i] \in Contents
    BY <2>1 DEF Manifest, Contents
  <2> QED
    BY <2>2, AbsentIsNoObject DEF Stored
<1> QED
  BY <1>1 DEF Status, Catalogued, Stored, Proven

LEMMA StatusBecomes ==
    ASSUME NEW i \in Stamps
    PROVE  /\ i \notin Catalogued' \cup Stored' => Status'[i] = "none"
           /\ i \in Stored' \ Catalogued' => Status'[i] = "stored"
           /\ i \in Stored' \cap (Catalogued' \ Proven') => Status'[i] = "listed"
           /\ i \in Stored' \cap Proven' => Status'[i] = "proven"
BY DEF Status, Catalogued, Stored, Proven

LEMMA StatusMoves ==
    ASSUME NEW i \in Stamps,
           \A j \in Stamps : j # i => manifests'[j] = manifests[j] /\ artifacts'[j] = artifacts[j]
    PROVE  Status' = [Status EXCEPT ![i] = Status'[i]]
BY DEF Status

LEMMA StepKeepsPromises ==
    ASSUME IInv, ManifestMatchesArtifact, StoreStep
    PROVE  [Promise!Next]_Status
<1> USE DEF Promise!Moves
<1>1. CASE UNCHANGED store
  BY <1>1 DEF store, Status
<1>2. ASSUME NEW i \in Stamps, ArtifactStep(i) PROVE [Promise!Next]_Status
  <2>1. UNCHANGED manifests
    BY <1>2 DEF ArtifactStep
  <2>2. \A j \in Stamps : j # i => manifests'[j] = manifests[j] /\ artifacts'[j] = artifacts[j]
    BY <1>2 DEF ArtifactStep, IInv, TypeOK
  <2>3. Status' = [Status EXCEPT ![i] = Status'[i]]
    BY <2>2, StatusMoves
  <2>4. Catalogued' = Catalogued /\ Proven' = Proven
    BY <2>1 DEF Catalogued, Proven
  <2>5. CASE i \notin Catalogued \cup Stored /\ \E c \in Contents : artifacts' = [artifacts EXCEPT ![i] = c]
    <3>1. i \in Stored'
      BY <2>5, AbsentIsNoObject DEF Stored, IInv, TypeOK
    <3>2. Status[i] = "none" /\ Status'[i] = "stored"
      BY <2>4, <2>5, <3>1, StatusSays, StatusBecomes
    <3> QED
      BY <2>3, <3>2 DEF Promise!Next, Promise!Store
  <2>6. CASE i \in Stored /\ artifacts' = [artifacts EXCEPT ![i] = Junk]
    <3>1. Stored' = Stored
      BY <2>2, <2>6, AbsentIsNoObject DEF Stored, Contents, IInv, TypeOK
    <3>2. Status' = Status
      BY <2>1, <2>2, <3>1 DEF Status, Stored
    <3> QED
      BY <3>2
  <2>7. CASE i \notin Catalogued /\ artifacts' = [artifacts EXCEPT ![i] = Absent]
    <3>1. i \notin Stored'
      BY <2>7 DEF Stored, IInv, TypeOK
    <3>2. Status'[i] = "none"
      BY <2>4, <2>7, <3>1, StatusBecomes
    <3>3. CASE i \in Stored
      <4>1. Status[i] = "stored"
        BY <2>7, <3>3, StatusSays
      <4> QED
        BY <2>3, <3>2, <4>1 DEF Promise!Next, Promise!Reclaim
    <3>4. CASE i \notin Stored
      <4>1. Status[i] = "none" /\ Status' = [Status EXCEPT ![i] = Status[i]]
        BY <2>3, <2>7, <3>2, <3>4, StatusSays
      <4>2. Status' = Status
        BY <4>1 DEF Status
      <4> QED
        BY <4>2
    <3> QED
      BY <3>3, <3>4
  <2> QED
    BY <1>2, <2>5, <2>6, <2>7 DEF ArtifactStep
<1>3. ASSUME NEW i \in Stamps, ManifestStep(i) PROVE [Promise!Next]_Status
  <2>1. UNCHANGED artifacts /\ Stored' = Stored
    BY <1>3 DEF ManifestStep, Stored
  <2>2. \A j \in Stamps : j # i => manifests'[j] = manifests[j] /\ artifacts'[j] = artifacts[j]
    BY <1>3 DEF ManifestStep, IInv, TypeOK
  <2>3. Status' = [Status EXCEPT ![i] = Status'[i]]
    BY <2>2, StatusMoves
  <2>4. ASSUME NEW m \in Manifest, manifests' = [manifests EXCEPT ![i] = m]
        PROVE  i \in Catalogued' /\ (i \in Proven' <=> m.verified)
    BY <2>4, AbsentIsNoObject DEF Catalogued, Proven, IInv, TypeOK
  <2>5. CASE /\ i \in Stored \ Catalogued
             /\ \E m \in Manifest : ~m.verified /\ manifests' = [manifests EXCEPT ![i] = m]
    <3>1. Status[i] = "stored" /\ Status'[i] = "listed"
      BY <2>1, <2>4, <2>5, StatusSays, StatusBecomes
    <3> QED
      BY <2>3, <3>1 DEF Promise!Next, Promise!List
  <2>6. CASE /\ i \in Catalogued \ Proven
             /\ \E m \in Manifest : m.verified /\ manifests' = [manifests EXCEPT ![i] = m]
    <3>1. Status[i] = "listed" /\ Status'[i] = "proven"
      BY <2>1, <2>4, <2>6, StatusSays, StatusBecomes
    <3> QED
      BY <2>3, <3>1 DEF Promise!Next, Promise!Prove
  <2>7. CASE Superseded(i, Catalogued, Proven) /\ manifests' = [manifests EXCEPT ![i] = Absent]
    <3>1. i \notin Catalogued'
      BY <2>7 DEF Catalogued, IInv, TypeOK
    <3>2. CASE i \in Catalogued
      <4>1. Status'[i] = "stored" /\ i \in Stored
        BY <2>1, <3>1, <3>2, StatusSays, StatusBecomes
      <4>2. PICK j \in Catalogued : j > i
        BY <2>7 DEF Superseded
      <4>3. j \in Stamps /\ Status[j] \in {"listed", "proven"}
        BY <4>2, IdsAreStamps, StatusSays
      <4>4. \E k \in Stamps : Status[k] = "proven"
        BY <2>7, IdsAreStamps, StatusSays DEF Superseded
      <4>5. CASE i \in Proven
        <5>1. PICK k \in Proven : k > i
          BY <2>7, <4>5 DEF Superseded
        <5>2. k \in Stamps /\ Status[k] = "proven" /\ Status[i] = "proven"
          BY <4>5, <5>1, IdsAreStamps, StatusSays
        <5> QED
          BY <2>3, <4>1, <5>1, <5>2 DEF Promise!Next, Promise!RetireProven
      <4>6. CASE i \notin Proven
        <5>1. Status[i] = "listed"
          BY <3>2, <4>6, StatusSays
        <5> QED
          BY <2>3, <4>1, <4>2, <4>3, <4>4, <5>1 DEF Promise!Next, Promise!RetireUnproven
      <4> QED
        BY <4>5, <4>6
    <3>3. CASE i \notin Catalogued
      <4>1. manifests' = manifests
        BY <2>7, <3>3 DEF Catalogued, IInv, TypeOK
      <4> QED
        BY <2>1, <4>1 DEF Status
    <3> QED
      BY <3>2, <3>3
  <2> QED
    BY <1>3, <2>5, <2>6, <2>7 DEF ManifestStep
<1> QED
  BY <1>1, <1>2, <1>3 DEF StoreStep

\* Whatever the processes of a supervised deployment do, the store changes as
\* Catalog says: bytes before their manifest, proof of listed backups only, no
\* backup dropped that nothing newer replaces, no listed bytes reclaimed.
THEOREM ImplementsCatalog == Supervised => (Spec => KeepsPromises)
<1> SUFFICES ASSUME Supervised PROVE Spec => KeepsPromises
  OBVIOUS
<1>1. PICK d : Alone(d)
  BY DEF Supervised, Alone
<1>2. Spec => [](IInv /\ SInv(d))
  BY <1>1, SupervisedInvariant
<1>3. Init => Promise!Init
  BY DEF Init, Status, Promise!Init
<1>4. IInv /\ SInv(d) /\ [Next]_vars => [Promise!Next]_Status
  BY <1>1, StoreSteps, StepKeepsPromises DEF SInv
<1> QED
  BY <1>2, <1>3, <1>4, PTL DEF Spec, KeepsPromises, Promise!Spec

-----------------------------------------------------------------------------
(* One command after the other.                                            *)

\* What the process knows of the backup it is making or verifying.  It may be
\* an old one, proven before, and the only guards are that nobody interferes and
\* that no key is used twice.
Shell(me) ==
    /\ me.pc \in InBackup => me.stamp \in starts \ Catalogued
    /\ me.pc \in {"dump", "upload"} => me.stamp \notin Stored
    /\ me.pc = "record" => artifacts[me.stamp] \in {me.file, Junk}
    /\ me.pc \in InVerify => /\ me.held.id \in Catalogued
                             /\ me.held.sum = manifests[me.held.id].sum

OInv ==
    /\ KeysOK
    /\ ManifestMatchesArtifact
    /\ Pruners
    /\ \A p \in Procs : Shell(proc[p])

\* A verification that fails, of a backup that may have been proven.
RevokeStep(i) ==
    /\ UNCHANGED artifacts
    /\ i \in Catalogued
    /\ \E m \in Manifest : ~m.verified /\ manifests' = [manifests EXCEPT ![i] = m]

LEMMA InitOInv == ASSUME Init PROVE OInv
<1>1. Catalogued = {} /\ Stored = {} /\ starts = {}
  BY DEF Init, Catalogued, Stored
<1>2. \A p \in Procs : proc[p] = Idle
  BY DEF Init
<1>3. KeysOK /\ ManifestMatchesArtifact
  BY <1>1 DEF KeysOK, ManifestMatchesArtifact
<1>4. Pruners
  BY <1>2, IdleKnowsNothing DEF Pruners
<1>5. Shell(Idle)
  BY DEF Shell, Idle, InBackup, InVerify
<1> QED
  BY <1>2, <1>3, <1>4, <1>5 DEF OInv

LEMMA StepOInv ==
    ASSUME OneAtATime, IInv, NEW p \in Procs, NEW local, Becomes(p, local),
           Pruner(local, Catalogued', Proven', starts', time'),
           KeysOK', ManifestMatchesArtifact', Shell(proc[p])'
    PROVE  OInv'
<1>1. proc'[p] = local
  BY DEF Becomes, IInv, TypeOK
<1>2. \A q \in Procs : q = p
  BY DEF OneAtATime
<1>3. Pruners'
  BY <1>1, <1>2 DEF Pruners
<1>4. \A q \in Procs : Shell(proc[q])'
  BY <1>2
<1> QED
  BY <1>3, <1>4 DEF OInv

LEMMA LocalStepOInv ==
    ASSUME OneAtATime, IInv, OInv, UNCHANGED <<time, store, starts>>,
           NEW p \in Procs, NEW local, Becomes(p, local),
           Pruner(local, Catalogued, Proven, starts, time), Shell(local)
    PROVE  OInv'
<1>1. proc'[p] = local
  BY DEF Becomes, IInv, TypeOK
<1>2. /\ Catalogued' = Catalogued /\ Stored' = Stored /\ Proven' = Proven
      /\ time' = time /\ starts' = starts /\ manifests' = manifests /\ artifacts' = artifacts
  BY DEF Catalogued, Stored, Proven, store
<1>3. KeysOK' /\ ManifestMatchesArtifact'
  BY <1>2 DEF OInv, KeysOK, ManifestMatchesArtifact
<1>4. Shell(proc[p])'
  BY <1>1, <1>2 DEF Shell
<1> QED
  BY <1>2, <1>3, <1>4, StepOInv

LEMMA IdleStepOInv ==
    ASSUME OneAtATime, IInv, OInv, UNCHANGED <<time, store, starts>>,
           NEW p \in Procs, Becomes(p, Idle)
    PROVE  OInv'
<1>1. Pruner(Idle, Catalogued, Proven, starts, time)
  BY IdleKnowsNothing
<1>2. Shell(Idle)
  BY DEF Shell, Idle, InBackup, InVerify
<1> QED
  BY <1>1, <1>2, LocalStepOInv

LEMMA PruningOInv ==
    ASSUME OneAtATime, IInv, OInv, NEW p \in Procs, PruneStep(p) \/ SweepStep(p)
    PROVE  OInv'
<1>1. PICK local : Prunes(p, local)
  BY PruneSteps, SweepSteps DEF OInv, Pruners
<1>2. /\ Becomes(p, local) /\ UNCHANGED <<time, starts>> /\ local.pc \in Pruning
      /\ Pruner(local, Catalogued', Proven', starts, time)
  BY <1>1 DEF Prunes
<1>3. proc'[p] = local
  BY <1>2 DEF Becomes, IInv, TypeOK
<1>4. Shell(proc[p])'
  BY <1>2, <1>3 DEF Shell, Pruning, InBackup, InVerify
<1>5. CASE UNCHANGED store
  <2>1. Catalogued' = Catalogued /\ Stored' = Stored
    BY <1>5 DEF store, Catalogued, Stored
  <2>2. KeysOK' /\ ManifestMatchesArtifact'
    BY <1>2, <1>5, <2>1 DEF store, OInv, KeysOK, ManifestMatchesArtifact
  <2> QED
    BY <1>2, <1>4, <2>2, StepOInv
<1>6. ASSUME NEW k \in Stamps, Retires(k) PROVE OInv'
  <2>1. UNCHANGED artifacts /\ Stored' = Stored
    BY <1>6 DEF Retires, Stored
  <2>2. Catalogued' \subseteq Catalogued /\ \A i \in Catalogued' : manifests'[i] = manifests[i]
    BY <1>2, <1>6, RetireGrows DEF Retires
  <2>3. KeysOK' /\ ManifestMatchesArtifact'
    BY <1>2, <2>1, <2>2 DEF OInv, KeysOK, ManifestMatchesArtifact
  <2> QED
    BY <1>2, <1>4, <2>3, StepOInv
<1>7. ASSUME NEW k \in Stamps, Reclaims(k, proc[p].stamp) PROVE OInv'
  <2>1. UNCHANGED manifests /\ Catalogued' = Catalogued /\ k \notin Catalogued
    BY <1>7 DEF Reclaims, Catalogued
  <2>2. Stored' \subseteq Stored /\ \A i \in Stamps : i # k => artifacts'[i] = artifacts[i]
    BY <1>7 DEF Reclaims, Stored, IInv, TypeOK
  <2>3. KeysOK' /\ ManifestMatchesArtifact'
    BY <1>2, <2>1, <2>2, IdsAreStamps DEF OInv, KeysOK, ManifestMatchesArtifact
  <2> QED
    BY <1>2, <1>4, <2>3, StepOInv
<1> QED
  BY <1>1, <1>5, <1>6, <1>7 DEF Prunes

LEMMA BackupStepOInv ==
    ASSUME OneAtATime, IInv, OInv, NEW p \in Procs, BackupStep(p)
    PROVE  OInv'
<1> DEFINE me == proc[p]
<1>0. me \in Process /\ Pruner(me, Catalogued, Proven, starts, time) /\ Shell(me)
  BY DEF IInv, TypeOK, OInv, Pruners
<1>1. /\ time \in Stamps /\ starts \subseteq Stamps /\ Stamps \subseteq Int
      /\ Catalogued \subseteq starts /\ Stored \subseteq starts
      /\ \A s \in starts : s <= time
  BY MaxTimeIsNatural DEF IInv, TypeOK, OInv, KeysOK, Stamps
<1>2. ASSUME NEW local, Becomes(p, local) PROVE proc'[p] = local
  BY <1>2 DEF Becomes, IInv, TypeOK
<1>3. CASE StartBackup(p)
  <2>1. PICK cmd \in Producing :
          Becomes(p, [Idle EXCEPT !.pc = "dump", !.cmd = cmd, !.stamp = time])
    BY <1>3 DEF StartBackup
  <2> DEFINE local == [Idle EXCEPT !.pc = "dump", !.cmd = cmd, !.stamp = time]
  <2>2. local.pc = "dump" /\ local.stamp = time /\ local.seen = {}
    BY DEF Idle
  <2>3. Becomes(p, local)
    BY <2>1
  <2> HIDE DEF local
  <2>4. /\ time \notin starts /\ starts' = starts \cup {time} /\ time' = time
        /\ manifests' = manifests /\ artifacts' = artifacts
    BY <1>3 DEF StartBackup, OneAtATime, store
  <2>5. Catalogued' = Catalogued /\ Stored' = Stored
    BY <2>4 DEF Catalogued, Stored
  <2>6. KeysOK' /\ ManifestMatchesArtifact'
    BY <1>1, <2>4, <2>5 DEF OInv, KeysOK, ManifestMatchesArtifact
  <2>7. Shell(proc[p])'
    BY <1>1, <1>2, <2>2, <2>3, <2>4, <2>5 DEF Shell, InVerify
  <2>8. Pruner(local, Catalogued', Proven', starts', time')
    BY <2>2 DEF Pruner
  <2> QED
    BY <2>3, <2>6, <2>7, <2>8, StepOInv
<1>4. CASE Dump(p)
  <2> DEFINE local == [me EXCEPT !.pc = "upload", !.file = dumped + 1]
  <2>1. local.pc = "upload" /\ local.stamp = me.stamp /\ local.seen = me.seen
    BY <1>0 DEF Process
  <2>2. me.pc = "dump" /\ Becomes(p, local) /\ UNCHANGED <<time, store, starts>>
    BY <1>4 DEF Dump, At
  <2> HIDE DEF local
  <2>3. Shell(local) /\ Pruner(local, Catalogued, Proven, starts, time)
    BY <1>0, <2>1, <2>2 DEF Shell, Pruner, InBackup, Verifying, InVerify
  <2> QED
    BY <2>2, <2>3, LocalStepOInv
<1>5. CASE Upload(p)
  <2> DEFINE local == [me EXCEPT !.pc = "record"]
  <2>1. /\ local.pc = "record" /\ local.stamp = me.stamp
        /\ local.seen = me.seen /\ local.file = me.file
    BY <1>0 DEF Process
  <2>2. /\ me.pc = "upload" /\ Becomes(p, local) /\ me.stamp \in Stamps
        /\ artifacts' = [artifacts EXCEPT ![me.stamp] = me.file]
        /\ manifests' = manifests /\ time' = time /\ starts' = starts
    BY <1>0, <1>5 DEF Upload, At, Goes, Process
  <2> HIDE DEF local
  <2>3. me.stamp \in starts \ Catalogued /\ me.seen = {}
    BY <1>0, <2>2 DEF Shell, Pruner, InBackup
  <2>4. /\ artifacts'[me.stamp] = me.file
        /\ \A i \in Stamps : i # me.stamp => artifacts'[i] = artifacts[i]
    BY <2>2 DEF IInv, TypeOK
  <2>5. Catalogued' = Catalogued /\ Stored' \subseteq starts
    BY <1>1, <2>2, <2>3, <2>4 DEF Catalogued, Stored
  <2>6. KeysOK' /\ ManifestMatchesArtifact'
    BY <1>1, <2>2, <2>3, <2>4, <2>5 DEF OInv, KeysOK, ManifestMatchesArtifact
  <2>7. Shell(proc[p])'
    BY <1>2, <2>1, <2>2, <2>3, <2>4, <2>5 DEF Shell, InVerify
  <2>8. Pruner(local, Catalogued', Proven', starts', time')
    BY <2>1, <2>3 DEF Pruner
  <2> QED
    BY <2>2, <2>6, <2>7, <2>8, StepOInv
<1>6. CASE Record(p)
  <2> DEFINE local == IF me.cmd = "run" THEN [me EXCEPT !.pc = "load", !.file = Junk] ELSE Idle
             new == [id |-> me.stamp, sum |-> me.file, verified |-> FALSE]
  <2>1. \/ local.pc = "load" /\ local.seen = me.seen
        \/ local = Idle
    BY <1>0 DEF Process
  <2>2. /\ me.pc = "record" /\ Becomes(p, local) /\ me.stamp \in Stamps
        /\ manifests' = [manifests EXCEPT ![me.stamp] = new]
        /\ artifacts' = artifacts /\ time' = time /\ starts' = starts
    BY <1>0, <1>6 DEF Record, At, Process
  <2>3. new.id = me.stamp /\ new.sum = me.file
    OBVIOUS
  <2> HIDE DEF local, new
  <2>4. /\ me.stamp \in starts \ Catalogued /\ me.seen = {}
        /\ artifacts[me.stamp] \in {me.file, Junk}
    BY <1>0, <2>2 DEF Shell, Pruner, InBackup
  <2>5. /\ manifests'[me.stamp] = new
        /\ \A i \in Stamps : i # me.stamp => manifests'[i] = manifests[i]
    BY <2>2 DEF IInv, TypeOK
  <2>6. Catalogued' \subseteq Catalogued \cup {me.stamp} /\ Stored' = Stored
    BY <2>2, <2>5 DEF Catalogued, Stored
  <2>7. KeysOK' /\ ManifestMatchesArtifact'
    BY <1>1, <2>2, <2>3, <2>4, <2>5, <2>6 DEF OInv, KeysOK, ManifestMatchesArtifact
  <2>8. Shell(proc[p])'
    BY <1>2, <2>1, <2>2 DEF Shell, Idle, InBackup, InVerify
  <2>9. Pruner(local, Catalogued', Proven', starts', time')
    <3>1. CASE local = Idle
      BY <3>1, IdleKnowsNothing
    <3>2. CASE local.pc = "load" /\ local.seen = {}
      BY <3>2 DEF Pruner
    <3> QED
      BY <2>1, <2>4, <3>1, <3>2
  <2> QED
    BY <2>2, <2>7, <2>8, <2>9, StepOInv
<1> QED
  BY <1>3, <1>4, <1>5, <1>6 DEF BackupStep

\* What a verify writes back is the manifest it read, but for the proof.
LEMMA HeldIsCurrent ==
    ASSUME IInv, OInv, NEW p \in Procs, proc[p].pc \in InVerify
    PROVE  LET i == proc[p].held.id IN
           /\ i \in Catalogued
           /\ proc[p].held \in Manifest /\ ~proc[p].held.verified
           /\ proc[p].held.sum = manifests[i].sum
           /\ manifests[i] \in Manifest /\ manifests[i].id = i
           /\ proc[p].seen = {}
<1>1. Shell(proc[p]) /\ Knows(proc[p], restored) /\ Pruner(proc[p], Catalogued, Proven, starts, time)
  BY DEF OInv, Pruners, IInv, LocalsOK
<1>2. \A i \in Catalogued : manifests[i] \in Manifest /\ manifests[i].id = i
  BY DEF OInv, KeysOK, Catalogued, IInv, TypeOK
<1> QED
  BY <1>1, <1>2 DEF Shell, Knows, Pruner, Verifying

\* Writing it back, proven or not.
LEMMA WriteBackOInv ==
    ASSUME OneAtATime, IInv, OInv, UNCHANGED <<time, artifacts, starts>>,
           NEW p \in Procs, proc[p].pc \in InVerify,
           NEW m \in Manifest, m.id = proc[p].held.id, m.sum = proc[p].held.sum,
           manifests' = [manifests EXCEPT ![proc[p].held.id] = m],
           NEW local, Becomes(p, local), local.pc \in {"idle", "list"}, local.seen = {}
    PROVE  OInv'
<1> DEFINE i == proc[p].held.id
<1>1. i \in Catalogued /\ i \in Stamps /\ m.sum = manifests[i].sum /\ m # Absent
  BY HeldIsCurrent, AbsentIsNoObject DEF Catalogued
<1>2. manifests'[i] = m /\ \A j \in Stamps : j # i => manifests'[j] = manifests[j]
  BY <1>1 DEF IInv, TypeOK
<1>3. Catalogued' = Catalogued /\ Stored' = Stored
  BY <1>1, <1>2 DEF Catalogued, Stored
<1> HIDE DEF i
<1>4. KeysOK' /\ ManifestMatchesArtifact'
  <2>1. i = proc[p].held.id
    BY DEF i
  <2> QED
    BY <1>1, <1>2, <1>3, <2>1, IdsAreStamps DEF OInv, KeysOK, ManifestMatchesArtifact
<1>5. proc'[p] = local
  BY DEF Becomes, IInv, TypeOK
<1>6. Shell(proc[p])'
  BY <1>5 DEF Shell, InBackup, InVerify
<1>7. Pruner(local, Catalogued', Proven', starts', time')
  BY DEF Pruner
<1> QED
  BY <1>4, <1>6, <1>7, StepOInv

\* A step to another phase of verify that leaves the manifest in memory as it is.
LEMMA PhaseStepOInv ==
    ASSUME OneAtATime, IInv, OInv, UNCHANGED <<time, store, starts>>,
           NEW p \in Procs, proc[p].pc \in InVerify,
           NEW local, Becomes(p, local), local.pc \in InVerify,
           local.seen = proc[p].seen, local.held = proc[p].held
    PROVE  OInv'
<1>1. Shell(proc[p]) /\ Pruner(proc[p], Catalogued, Proven, starts, time)
  BY DEF OInv, Pruners
<1>2. Shell(local) /\ Pruner(local, Catalogued, Proven, starts, time)
  BY <1>1 DEF Shell, Pruner, InBackup, Verifying, InVerify
<1> QED
  BY <1>2, LocalStepOInv

LEMMA VerifyStepOInv ==
    ASSUME OneAtATime, IInv, OInv, NEW p \in Procs, VerifyStep(p)
    PROVE  OInv'
<1> DEFINE me == proc[p]
<1>0. me \in Process /\ Pruner(me, Catalogued, Proven, starts, time) /\ Shell(me)
  BY DEF IInv, TypeOK, OInv, Pruners
<1>1. CASE StartVerify(p)
  <2>1. PICK i \in Stamps :
          Becomes(p, [Idle EXCEPT !.pc = "load", !.cmd = "verify", !.stamp = i])
    BY <1>1 DEF StartVerify
  <2> DEFINE local == [Idle EXCEPT !.pc = "load", !.cmd = "verify", !.stamp = i]
  <2>2. local.pc = "load" /\ local.seen = {}
    BY DEF Idle
  <2>3. Becomes(p, local)
    BY <2>1
  <2> HIDE DEF local
  <2>4. Shell(local) /\ Pruner(local, Catalogued, Proven, starts, time)
    BY <2>2 DEF Shell, Pruner, InBackup, InVerify
  <2> QED
    BY <1>1, <2>3, <2>4, LocalStepOInv DEF StartVerify
<1>2. CASE Load(p)
  <2> DEFINE reset == [manifests[me.stamp] EXCEPT !.verified = FALSE]
             local == [me EXCEPT !.pc = "fetch", !.held = reset]
  <2>1. me.pc = "load" /\ me.stamp \in Catalogued /\ me.seen = {}
    BY <1>0, <1>2 DEF Load, At, Pruner, Verifying
  <2>2. manifests[me.stamp] \in Manifest /\ manifests[me.stamp].id = me.stamp
    BY <2>1 DEF Catalogued, IInv, TypeOK, OInv, KeysOK
  <2>3. reset.id = me.stamp /\ reset.sum = manifests[me.stamp].sum
    BY <2>2 DEF Manifest
  <2>4. local.pc = "fetch" /\ local.seen = me.seen /\ local.held = reset
    BY <1>0 DEF Process
  <2>5. Becomes(p, local) /\ UNCHANGED <<time, store, starts>>
    BY <1>2 DEF Load
  <2> HIDE DEF reset, local
  <2>6. Shell(local)
    BY <2>1, <2>3, <2>4 DEF Shell, InBackup
  <2>7. Pruner(local, Catalogued, Proven, starts, time)
    BY <2>1, <2>4 DEF Pruner
  <2> QED
    BY <2>5, <2>6, <2>7, LocalStepOInv
<1>3. CASE Fetch(p)
  <2> DEFINE local == [me EXCEPT !.pc = "restore", !.file = artifacts[me.held.id]]
  <2>1. me.pc \in InVerify /\ Becomes(p, local) /\ UNCHANGED <<time, store, starts>>
    BY <1>3 DEF Fetch, At, InVerify
  <2>2. local.pc \in InVerify /\ local.seen = me.seen /\ local.held = me.held
    BY <1>0 DEF Process, InVerify
  <2> HIDE DEF local
  <2> QED
    BY <2>1, <2>2, PhaseStepOInv
<1>4. CASE Restore(p)
  <2> DEFINE local == [me EXCEPT !.pc = "prove"]
  <2>1. me.pc \in InVerify /\ Becomes(p, local) /\ UNCHANGED <<time, store, starts>>
    BY <1>4 DEF Restore, At, Goes, InVerify
  <2>2. local.pc \in InVerify /\ local.seen = me.seen /\ local.held = me.held
    BY <1>0 DEF Process, InVerify
  <2> HIDE DEF local
  <2> QED
    BY <2>1, <2>2, PhaseStepOInv
<1>5. CASE Prove(p)
  <2> DEFINE local == IF me.cmd = "run"
                        THEN [me EXCEPT !.pc = "list", !.file = Junk, !.held = Absent]
                        ELSE Idle
             new == [me.held EXCEPT !.verified = TRUE]
  <2>1. /\ me.pc \in InVerify /\ Becomes(p, local)
        /\ manifests' = [manifests EXCEPT ![me.held.id] = new]
        /\ UNCHANGED <<time, artifacts, starts>>
    BY <1>5 DEF Prove, At, InVerify
  <2>2. me.held \in Manifest /\ me.seen = {}
    BY <2>1, HeldIsCurrent
  <2>3. local.pc \in {"idle", "list"} /\ local.seen = {}
    BY <1>0, <2>2 DEF Process, Idle
  <2>4. new \in Manifest /\ new.id = me.held.id /\ new.sum = me.held.sum
    BY <2>2 DEF Manifest
  <2> HIDE DEF local, new
  <2> QED
    BY <2>1, <2>3, <2>4, WriteBackOInv
<1>6. CASE VerifyFails(p)
  <2> DEFINE local == [me EXCEPT !.pc = "revoke"]
  <2>1. me.pc \in InVerify /\ Becomes(p, local) /\ UNCHANGED <<time, store, starts>>
    BY <1>6 DEF VerifyFails, Goes, InVerify
  <2>2. local.pc \in InVerify /\ local.seen = me.seen /\ local.held = me.held
    BY <1>0 DEF Process, InVerify
  <2> HIDE DEF local
  <2> QED
    BY <2>1, <2>2, PhaseStepOInv
<1>7. CASE Revoke(p)
  <2>1. /\ me.pc \in InVerify /\ Becomes(p, Idle)
        /\ manifests' = [manifests EXCEPT ![me.held.id] = me.held]
        /\ UNCHANGED <<time, artifacts, starts>>
    BY <1>7 DEF Revoke, At, InVerify
  <2>2. me.held \in Manifest /\ Idle.pc = "idle" /\ Idle.seen = {}
    BY <2>1, HeldIsCurrent DEF Idle
  <2> QED
    BY <2>1, <2>2, WriteBackOInv
<1> QED
  BY <1>1, <1>2, <1>3, <1>4, <1>5, <1>6, <1>7 DEF VerifyStep

\* The clock and decay.
LEMMA OutsideStepOInv ==
    ASSUME IInv, OInv, UNCHANGED <<manifests, proc, starts>>, time \in Int, time' >= time,
           time' \in Int,
           \/ UNCHANGED artifacts
           \/ \E i \in Stored : artifacts' = [artifacts EXCEPT ![i] = Junk]
    PROVE  OInv'
<1>1. Catalogued' = Catalogued /\ Proven' = Proven
  BY DEF Catalogued, Proven
<1>2. \A i \in Stamps : artifacts'[i] \in {artifacts[i], Junk} /\ (i \in Stored' => i \in Stored)
  BY DEF Stored, IInv, TypeOK
<1>3. KeysOK'
  <2>1. starts \subseteq Int /\ \A s \in starts : s <= time
    BY MaxTimeIsNatural DEF OInv, KeysOK, IInv, TypeOK, Stamps
  <2> QED
    BY <1>1, <1>2, <2>1 DEF OInv, KeysOK, Stored
<1>4. ManifestMatchesArtifact'
  BY <1>1, <1>2, IdsAreStamps DEF OInv, ManifestMatchesArtifact
<1>5. Pruners'
  <2> SUFFICES ASSUME NEW q \in Procs
               PROVE  Pruner(proc[q], Catalogued, Proven, starts, time')
    BY <1>1 DEF Pruners
  <2>1. Pruner(proc[q], Catalogued, Proven, starts, time) /\ proc[q].stamp \in Int
    BY MaxTimeIsNatural DEF OInv, Pruners, IInv, TypeOK, Process, Stamps
  <2>2. proc[q].stamp <= time => proc[q].stamp <= time'
    BY <2>1
  <2> QED
    BY <2>1, <2>2 DEF Pruner
<1>6. ASSUME NEW q \in Procs PROVE Shell(proc[q])'
  <2>1. Shell(proc[q]) /\ proc[q].stamp \in Stamps
    BY DEF OInv, IInv, TypeOK, Process
  <2> QED
    BY <1>1, <1>2, <2>1 DEF Shell
<1> QED
  BY <1>3, <1>4, <1>5, <1>6 DEF OInv

LEMMA NextOInv == ASSUME OneAtATime, IInv, OInv, [Next]_vars PROVE OInv'
<1>0. time \in Int /\ time >= time
  BY MaxTimeIsNatural DEF IInv, TypeOK, Stamps
<1>1. ASSUME NEW p \in Procs,
             BackupStep(p) \/ VerifyStep(p) \/ PruneStep(p) \/ SweepStep(p) \/ Abort(p)
      PROVE  OInv'
  BY <1>1, BackupStepOInv, VerifyStepOInv, PruningOInv, IdleStepOInv DEF Abort
<1>2. CASE Tick
  <2>1. /\ UNCHANGED <<manifests, artifacts, proc, starts>>
        /\ time' \in Int /\ time' >= time
    BY <1>0, <1>2 DEF Tick, store
  <2> QED
    BY <1>0, <2>1, OutsideStepOInv
<1>3. ASSUME NEW i \in Stamps, Rot(i) PROVE OInv'
  <2>1. /\ UNCHANGED <<manifests, proc, starts, time>>
        /\ i \in Stored /\ artifacts' = [artifacts EXCEPT ![i] = Junk]
    BY <1>3 DEF Rot
  <2> QED
    BY <1>0, <2>1, OutsideStepOInv
<1>4. CASE UNCHANGED vars
  <2>1. UNCHANGED <<manifests, artifacts, proc, starts, time>>
    BY <1>4 DEF vars, store
  <2> QED
    BY <1>0, <2>1, OutsideStepOInv
<1> QED
  BY <1>1, <1>2, <1>3, <1>4 DEF Next

LEMMA OneAtATimeInvariant == ASSUME OneAtATime PROVE Spec => [](IInv /\ OInv)
<1>1. Init => IInv /\ OInv
  BY InitIInv, InitOInv
<1>2. IInv /\ OInv /\ [Next]_vars => (IInv /\ OInv)'
  BY NextIInv, NextOInv
<1> QED
  BY <1>1, <1>2, PTL DEF Spec

\* A command that crashes, fails or is killed anywhere never leaves a manifest
\* without its artifact for the next command to find, whichever it is.
THEOREM BytesStayInTurn == OneAtATime => (Spec => []ManifestMatchesArtifact)
<1> SUFFICES ASSUME OneAtATime PROVE Spec => []ManifestMatchesArtifact
  OBVIOUS
<1>1. OInv => ManifestMatchesArtifact
  BY DEF OInv
<1> QED
  BY <1>1, OneAtATimeInvariant, PTL

\* What a step does to the store.
LEMMA OneAtATimeSteps ==
    ASSUME IInv, OInv, [Next]_vars
    PROVE  StoreStep \/ \E i \in Stamps : RevokeStep(i)
<1>0. \A p \in Procs : /\ proc[p] \in Process /\ Shell(proc[p]) /\ Knows(proc[p], restored)
                       /\ Pruner(proc[p], Catalogued, Proven, starts, time)
  BY DEF IInv, TypeOK, LocalsOK, OInv, Pruners
<1>1. ASSUME NEW p \in Procs, BackupStep(p) PROVE StoreStep
  <2>1. CASE Upload(p)
    <3>1. /\ UNCHANGED manifests
          /\ artifacts' = [artifacts EXCEPT ![proc[p].stamp] = proc[p].file]
          /\ proc[p].pc = "upload" /\ proc[p].stamp \in Stamps /\ proc[p].file \in Contents
      BY <1>0, <2>1 DEF Upload, At, Process
    <3>2. proc[p].stamp \notin Catalogued \cup Stored
      BY <1>0, <3>1 DEF Shell, InBackup
    <3> QED
      BY <3>1, <3>2 DEF StoreStep, ArtifactStep
  <2>2. CASE Record(p)
    <3> DEFINE new == [id |-> proc[p].stamp, sum |-> proc[p].file, verified |-> FALSE]
    <3>1. /\ UNCHANGED artifacts /\ manifests' = [manifests EXCEPT ![proc[p].stamp] = new]
          /\ proc[p].pc = "record" /\ proc[p].stamp \in Stamps /\ proc[p].file \in Dumps
      BY <1>0, <2>2 DEF Record, At, Process, Knows
    <3>2. proc[p].stamp \notin Catalogued /\ artifacts[proc[p].stamp] \in {proc[p].file, Junk}
      BY <1>0, <3>1 DEF Shell, InBackup
    <3>3. proc[p].stamp \in Stored
      BY <3>1, <3>2, AbsentIsNoObject DEF Stored, Contents
    <3>4. new \in Manifest /\ ~new.verified
      BY <3>1 DEF Manifest
    <3> HIDE DEF new
    <3> QED
      BY <3>1, <3>2, <3>3, <3>4 DEF StoreStep, ManifestStep
  <2> QED
    BY <1>1, <2>1, <2>2 DEF BackupStep, StartBackup, Dump, StoreStep
<1>2. ASSUME NEW p \in Procs, Prove(p) PROVE StoreStep
  <2> DEFINE i == proc[p].held.id
             new == [proc[p].held EXCEPT !.verified = TRUE]
  <2>1. /\ UNCHANGED artifacts /\ manifests' = [manifests EXCEPT ![i] = new]
        /\ proc[p].pc \in InVerify
    BY <1>2 DEF Prove, At, InVerify
  <2>2. /\ i \in Catalogued /\ i \in Stamps /\ proc[p].held \in Manifest
        /\ proc[p].held.sum = manifests[i].sum
        /\ manifests[i] \in Manifest /\ manifests[i].id = i
    BY <2>1, HeldIsCurrent, IdsAreStamps
  <2>3. new \in Manifest /\ new.verified = TRUE /\ new.id = i /\ new.sum = proc[p].held.sum
    BY <2>2 DEF Manifest
  <2> HIDE DEF i, new
  <2>4. CASE i \in Proven
    <3>1. manifests[i].verified = TRUE
      BY <2>2, <2>4 DEF Proven, Manifest
    <3>2. manifests[i] = new
      BY <2>2, <2>3, <3>1 DEF Manifest
    <3>3. manifests' = manifests
      BY <2>1, <3>2 DEF IInv, TypeOK
    <3> QED
      BY <2>1, <3>3 DEF StoreStep, store
  <2>5. CASE i \notin Proven
    BY <2>1, <2>2, <2>3, <2>5 DEF StoreStep, ManifestStep
  <2> QED
    BY <2>4, <2>5
<1>3. ASSUME NEW p \in Procs, Revoke(p) PROVE \E i \in Stamps : RevokeStep(i)
  <2>1. /\ UNCHANGED artifacts
        /\ manifests' = [manifests EXCEPT ![proc[p].held.id] = proc[p].held]
        /\ proc[p].pc \in InVerify
    BY <1>3 DEF Revoke, At, InVerify
  <2>2. /\ proc[p].held.id \in Catalogued /\ proc[p].held.id \in Stamps
        /\ proc[p].held \in Manifest /\ ~proc[p].held.verified
    BY <2>1, HeldIsCurrent, IdsAreStamps
  <2> QED
    BY <2>1, <2>2 DEF RevokeStep
<1>4. ASSUME NEW p \in Procs, VerifyStep(p), ~Prove(p), ~Revoke(p) PROVE StoreStep
  BY <1>4 DEF VerifyStep, StartVerify, Load, Fetch, Restore, VerifyFails, StoreStep
<1>5. ASSUME NEW p \in Procs, PruneStep(p) \/ SweepStep(p) PROVE StoreStep
  <2>1. PICK local : Prunes(p, local)
    BY <1>0, <1>5, PruneSteps, SweepSteps DEF OInv
  <2> QED
    BY <2>1, PrunesAreStoreSteps
<1>6. ASSUME NEW p \in Procs, Abort(p) PROVE StoreStep
  BY <1>6 DEF Abort, StoreStep
<1>7. CASE Tick
  BY <1>7 DEF Tick, StoreStep
<1>8. ASSUME NEW i \in Stamps, Rot(i) PROVE StoreStep
  BY <1>8 DEF Rot, StoreStep, ArtifactStep
<1>9. CASE UNCHANGED vars
  BY <1>9 DEF vars, store, StoreStep
<1> QED
  BY <1>1, <1>2, <1>3, <1>4, <1>5, <1>6, <1>7, <1>8, <1>9 DEF Next

\* Revoking takes nothing out of the catalog.
LEMMA RevokeKeepsCatalog ==
    ASSUME IInv, NEW i \in Stamps, RevokeStep(i)
    PROVE  /\ Catalogued' = Catalogued /\ Stored' = Stored
           /\ i \notin Proven'
           /\ \A j \in Stamps : j # i => manifests'[j] = manifests[j] /\ artifacts'[j] = artifacts[j]
<1>1. PICK m \in Manifest : ~m.verified /\ manifests' = [manifests EXCEPT ![i] = m]
  BY DEF RevokeStep
<1>2. manifests'[i] = m /\ \A j \in Stamps : j # i => manifests'[j] = manifests[j]
  BY <1>1 DEF IInv, TypeOK
<1>3. m # Absent /\ i \in Catalogued /\ UNCHANGED artifacts
  BY AbsentIsNoObject DEF RevokeStep
<1>4. Catalogued' = Catalogued
  BY <1>2, <1>3 DEF Catalogued
<1>5. Stored' = Stored
  BY <1>3 DEF Stored
<1>6. i \notin Proven'
  BY <1>1, <1>2 DEF Proven
<1> QED
  BY <1>2, <1>3, <1>4, <1>5, <1>6

\* When commands run one after the other, the guards of a prune are those of the
\* catalog as it is when manifests are deleted, whatever earlier commands left
\* undone and whichever verifications failed before.
THEOREM PrunesInTurnLeaveNewer == OneAtATime => (Spec => PruneLeavesNewer)
<1> SUFFICES ASSUME OneAtATime PROVE Spec => PruneLeavesNewer
  OBVIOUS
<1> DEFINE LeavesNewer == \A i \in Catalogued \ Catalogued' :
                             /\ \E j \in Catalogued' : j > i
                             /\ i \in Proven => \E j \in Proven' : j > i
<1>1. IInv /\ OInv /\ [Next]_vars => [LeavesNewer]_vars
  <2> SUFFICES ASSUME IInv, OInv, [Next]_vars PROVE LeavesNewer
    OBVIOUS
  <2>1. CASE StoreStep
    BY <2>1, StepLeavesNewer
  <2>2. CASE \E i \in Stamps : RevokeStep(i)
    BY <2>2, RevokeKeepsCatalog
  <2> QED
    BY <2>1, <2>2, OneAtATimeSteps
<1> QED
  BY <1>1, OneAtATimeInvariant, PTL DEF Spec, PruneLeavesNewer

LEMMA RevokeStepKeepsPromises ==
    ASSUME IInv, ManifestMatchesArtifact, NEW i \in Stamps, RevokeStep(i)
    PROVE  [Promise!Revoke(i)]_Status
<1>1. /\ Catalogued' = Catalogued /\ Stored' = Stored /\ i \notin Proven'
      /\ \A j \in Stamps : j # i => manifests'[j] = manifests[j] /\ artifacts'[j] = artifacts[j]
  BY RevokeKeepsCatalog
<1>2. i \in Catalogued /\ i \in Stored
  BY StatusSays DEF RevokeStep
<1>3. Status'[i] = "listed" /\ Status' = [Status EXCEPT ![i] = Status'[i]]
  BY <1>1, <1>2, StatusBecomes, StatusMoves
<1>4. CASE i \in Proven
  BY <1>3, <1>4, StatusSays DEF Promise!Revoke, Promise!Moves
<1>5. CASE i \notin Proven
  <2>1. Status[i] = "listed" /\ Status' = [Status EXCEPT ![i] = Status[i]]
    BY <1>2, <1>3, <1>5, StatusSays
  <2>2. Status' = Status
    BY <2>1 DEF Status
  <2> QED
    BY <2>2
<1> QED
  BY <1>4, <1>5

\* Commands that run one after the other, in any order, failing and crashing
\* anywhere, change the store as Catalog says, proofs that a later verification
\* withdraws apart.
THEOREM ImplementsRevocableCatalog == OneAtATime => (Spec => KeepsRevocablePromises)
<1> SUFFICES ASSUME OneAtATime PROVE Spec => KeepsRevocablePromises
  OBVIOUS
<1>1. Init => Promise!Init
  BY DEF Init, Status, Promise!Init
<1>2. IInv /\ OInv /\ [Next]_vars =>
        [Promise!Next \/ \E i \in Stamps : Promise!Revoke(i)]_Status
  <2> SUFFICES ASSUME IInv, OInv, [Next]_vars
               PROVE  [Promise!Next \/ \E i \in Stamps : Promise!Revoke(i)]_Status
    OBVIOUS
  <2>1. CASE StoreStep
    BY <2>1, StepKeepsPromises DEF OInv
  <2>2. CASE \E i \in Stamps : RevokeStep(i)
    BY <2>2, RevokeStepKeepsPromises DEF OInv
  <2> QED
    BY <2>1, <2>2, OneAtATimeSteps
<1> QED
  BY <1>1, <1>2, OneAtATimeInvariant, PTL DEF Spec, KeepsRevocablePromises, Promise!RevocableSpec
=============================================================================
