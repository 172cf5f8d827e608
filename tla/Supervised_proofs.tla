------------------------- MODULE Supervised_proofs -------------------------
(***************************************************************************)
(* What holds of Backwyn when it is Supervised: one process, d, makes the  *)
(* backups and verifies each as it makes it, and any number of others      *)
(* prune and sweep.                                                        *)
(***************************************************************************)
EXTENDS Backwyn_proofs

Pruning == {"idle", "list", "read", "retire", "reclaim", "live", "orphans", "sweep"}

Verifying == InVerify \cup {"load"}

Roles(d) == \A p \in Procs \ {d} : proc[p].pc \in Pruning

\* Every key was a backup's id, every manifest is under its own key.
KeysOK ==
    /\ Catalogued \cup Stored \subseteq starts
    /\ \A s \in starts : s <= time
    /\ \A i \in Catalogued : manifests[i].id = i

\* What d knows of the backup it is making or verifying: it is the newest there
\* is, it is young enough for the sweep to leave it alone, nothing has been
\* listed under its key before its manifest is, and nobody but d proves it.
Maker(me) ==
    /\ me.pc \in InBackup \cup Verifying => Greatest(me.stamp, starts)
    /\ me.pc \in InBackup => me.stamp \notin Catalogued /\ time - me.stamp <= MaxBackup
    /\ me.pc \in {"dump", "upload"} => me.stamp \notin Stored
    /\ me.pc = "record" => artifacts[me.stamp] \in {me.file, Junk}
    /\ me.pc \in Verifying => me.stamp \in Catalogued \ Proven
    /\ me.pc \in InVerify => me.held = manifests[me.stamp]

\* What lets a backup k go: a newer one is listed, something is proven and, if k
\* is, something newer is.
Superseded(k, cat, proven) ==
    /\ \E j \in cat : j > k
    /\ proven # {}
    /\ k \in proven => \E j \in proven : j > k

\* What a manifest that was read still tells of the catalog.  An unverified one
\* may since have been proven, but then it is the newest of those listed.
StillTells(m, me, cat, proven) ==
    /\ m.id \notin me.keys
    /\ \E j \in cat : j >= m.id
    /\ m.verified => \E j \in proven : j >= m.id
    /\ ~m.verified /\ m.id \in proven =>
          /\ \A k \in me.keys : k <= m.id
          /\ \A n \in me.seen : n.id <= m.id

\* What a pruning or sweeping process knows, by the ids now listed and proven,
\* those ever used, and the time.
Reads(me, cat, proven, begun) ==
    /\ me.keys \subseteq begun
    /\ \A m \in me.seen : m.id \in begun /\ StillTells(m, me, cat, proven)
    /\ \A m, n \in me.seen : m.id = n.id => m = n

Pruner(me, cat, proven, begun, now) ==
    /\ me.pc \in InBackup \cup Verifying \cup {"list"} => me.seen = {}
    /\ me.pc = "read" => Reads(me, cat, proven, begun)
    /\ me.pc \in {"retire", "reclaim"} => \A k \in me.keys : Superseded(k, cat, proven)
    /\ me.pc = "reclaim" => \A k \in me.keys : Greatest(k, me.keys) => k \notin cat
    /\ me.pc \in {"live", "orphans", "sweep"} => me.stamp <= now
    /\ me.pc = "orphans" => \A i \in cat \ me.keys : ~OldEnough(i, me.stamp)
    /\ me.pc = "sweep" => \A k \in me.keys : OldEnough(k, me.stamp) /\ k \notin cat

Pruners == \A p \in Procs : Pruner(proc[p], Catalogued, Proven, starts, time)

SInv(d) ==
    /\ Roles(d)
    /\ KeysOK
    /\ ManifestMatchesArtifact
    /\ Maker(proc[d])
    /\ Pruners

-----------------------------------------------------------------------------
(* Plans, and what stays true while others act.                            *)

LEMMA NewerThanAnyOther ==
    ASSUME NEW S \in SUBSET Manifest, \A x, y \in S : x.id = y.id => x = y,
           NEW m \in S, m # NewestOf(S)
    PROVE  \E x \in S : x.id > m.id
<1> SUFFICES ASSUME \A x \in S : ~(x.id > m.id) PROVE FALSE
  OBVIOUS
<1>1. Newer(S, m) = {}
  BY DEF Newer
<1>2. NewestOf(S) \in S /\ Newer(S, NewestOf(S)) = {}
  BY <1>1 DEF NewestOf
<1>3. ~(m.id > NewestOf(S).id) /\ ~(NewestOf(S).id > m.id)
  BY <1>2 DEF Newer
<1>4. m.id \in Int /\ NewestOf(S).id \in Int
  BY <1>2, MaxTimeIsNatural DEF Manifest, Stamps
<1>5. m.id = NewestOf(S).id
  BY <1>3, <1>4
<1> QED
  BY <1>2, <1>5

\* A plan removes only backups the catalog does without.
LEMMA PlanIsSuperseded ==
    ASSUME NEW me \in Process,
           NEW cat \in SUBSET Stamps, NEW proven \in SUBSET Stamps, NEW begun,
           Reads(me, cat, proven, begun),
           NEW pol, NEW k \in PlanIds(me.seen, pol)
    PROVE  Superseded(k, cat, proven)
<1> DEFINE sound == VerifiedOf(me.seen)
<1>1. PICK m \in Removed(me.seen, pol) : k = m.id
  BY DEF PlanIds
<1>2. /\ me.seen \subseteq Manifest /\ sound \subseteq me.seen
      /\ \A x, y \in me.seen : x.id = y.id => x = y
  BY DEF Process, Reads, VerifiedOf
<1>3. m \in me.seen /\ sound # {} /\ m # NewestOf(sound) /\ m # NewestOf(me.seen)
  BY <1>1 DEF Removed, Kept
<1>4. PICK x \in me.seen : x.id > m.id
  BY <1>2, <1>3, NewerThanAnyOther
<1>5. \A n \in me.seen : n.id \in Int /\ StillTells(n, me, cat, proven)
  BY <1>2, MaxTimeIsNatural DEF Reads, Manifest, Stamps
<1>6. cat \subseteq Int /\ proven \subseteq Int
  BY MaxTimeIsNatural DEF Stamps
<1>7. \E j \in cat : j > k
  BY <1>1, <1>3, <1>4, <1>5, <1>6 DEF StillTells
<1>8. proven # {}
  BY <1>3, <1>5 DEF StillTells, VerifiedOf
<1>9. ASSUME k \in proven PROVE \E j \in proven : j > k
  <2>1. m.verified
    BY <1>1, <1>3, <1>4, <1>5, <1>9 DEF StillTells
  <2>2. PICK y \in sound : y.id > m.id
    BY <1>2, <1>3, <2>1, NewerThanAnyOther DEF VerifiedOf
  <2> QED
    BY <1>1, <1>3, <1>5, <1>6, <2>2 DEF StillTells, VerifiedOf
<1> QED
  BY <1>7, <1>8, <1>9 DEF Superseded

\* How a step changes the catalog: what goes leaves something at least as new,
\* and what comes is the newest there ever was.
Covers(S, T) == \A i \in S : \E j \in T : j >= i

Grows(cat, cat2, proven, proven2, begun, now) ==
    /\ Covers(cat, cat2)
    /\ Covers(proven, proven2)
    /\ \A i \in cat2 \ cat : Greatest(i, begun) /\ now - i <= MaxBackup
    /\ \A i \in proven2 \ proven : Greatest(i, begun)

LEMMA PrunerStays ==
    ASSUME NEW me \in Process, MaxBackup < MinAge,
           NEW cat \in SUBSET Stamps, NEW cat2 \in SUBSET Stamps,
           NEW proven \in SUBSET cat, NEW proven2 \in SUBSET cat2,
           NEW begun \in SUBSET Stamps, NEW begun2 \in SUBSET Stamps,
           NEW now \in Stamps, NEW now2 \in Stamps,
           cat \subseteq begun, begun \subseteq begun2, now <= now2,
           Grows(cat, cat2, proven, proven2, begun, now),
           Pruner(me, cat, proven, begun, now)
    PROVE  Pruner(me, cat2, proven2, begun2, now2)
<1> USE MaxTimeIsNatural, BoundsAreNatural DEF Stamps
<1>0. cat \subseteq Int /\ cat2 \subseteq Int
  OBVIOUS
<1>1. me.stamp \in Int /\ me.keys \subseteq Stamps /\ me.seen \subseteq Manifest
  BY DEF Process
<1>2. ASSUME me.pc = "read" PROVE Reads(me, cat2, proven2, begun2)
  <2>1. Reads(me, cat, proven, begun)
    BY <1>2 DEF Pruner
  <2>2. ASSUME NEW m \in me.seen PROVE m.id \in begun2 /\ StillTells(m, me, cat2, proven2)
    <3>1. m.id \in begun /\ m.id \in Int /\ StillTells(m, me, cat, proven)
      BY <1>1, <2>1 DEF Reads, Manifest
    <3>2. \E j \in cat2 : j >= m.id
      BY <3>1 DEF StillTells, Grows, Covers
    <3>3. m.verified => \E j \in proven2 : j >= m.id
      BY <3>1 DEF StillTells, Grows, Covers
    <3>4. ASSUME ~m.verified, m.id \in proven2
          PROVE  (\A k \in me.keys : k <= m.id) /\ (\A n \in me.seen : n.id <= m.id)
      <4>1. CASE m.id \in proven
        BY <3>1, <3>4, <4>1 DEF StillTells
      <4>2. CASE m.id \notin proven
        BY <2>1, <3>4, <4>2 DEF Grows, Greatest, Reads
      <4> QED
        BY <4>1, <4>2
    <3> QED
      BY <3>1, <3>2, <3>3, <3>4 DEF StillTells
  <2> QED
    BY <2>1, <2>2 DEF Reads
<1>3. ASSUME me.pc \in {"retire", "reclaim"}, NEW k \in me.keys
      PROVE  Superseded(k, cat2, proven2) /\ (k \in cat2 => k \in cat)
  <2>1. Superseded(k, cat, proven) /\ k \in Int
    BY <1>1, <1>3 DEF Pruner
  <2>2. ~Greatest(k, begun)
    <3>1. PICK j \in cat : j > k
      BY <2>1 DEF Superseded
    <3>2. j \in Int /\ j \in begun
      BY <1>0
    <3>3. ~(j <= k)
      BY <2>1, <3>1, <3>2
    <3> QED
      BY <3>2, <3>3 DEF Greatest
  <2>3. \E j \in cat2 : j > k
    BY <1>0, <2>1 DEF Superseded, Grows, Covers
  <2>4. proven2 # {}
    BY <2>1 DEF Superseded, Grows, Covers
  <2>5. k \in proven2 => \E j \in proven2 : j > k
    BY <2>1, <2>2 DEF Superseded, Grows, Covers
  <2> QED
    BY <2>2, <2>3, <2>4, <2>5 DEF Superseded, Grows
<1>4. ASSUME me.pc \in {"live", "orphans", "sweep"},
             NEW i \in cat2, OldEnough(i, me.stamp)
      PROVE  i \in cat
  BY <1>1, <1>4 DEF Pruner, Grows, OldEnough
<1>5. me.pc \in {"live", "orphans", "sweep"} => me.stamp <= now2
  BY <1>1 DEF Pruner
<1>6. me.pc = "orphans" => \A i \in cat2 \ me.keys : ~OldEnough(i, me.stamp)
  BY <1>4 DEF Pruner
<1>7. me.pc = "sweep" => \A k \in me.keys : OldEnough(k, me.stamp) /\ k \notin cat2
  BY <1>4 DEF Pruner
<1>8. me.pc = "reclaim" => \A k \in me.keys : Greatest(k, me.keys) => k \notin cat2
  BY <1>3 DEF Pruner
<1>9. me.pc \in {"retire", "reclaim"} => \A k \in me.keys : Superseded(k, cat2, proven2)
  BY <1>3
<1>10. me.pc \in InBackup \cup Verifying \cup {"list"} => me.seen = {}
  BY DEF Pruner
<1> QED
  BY <1>2, <1>5, <1>6, <1>7, <1>8, <1>9, <1>10 DEF Pruner

LEMMA IdleKnowsNothing ==
    /\ Maker(Idle)
    /\ \A cat, proven, begun, now : Pruner(Idle, cat, proven, begun, now)
BY DEF Idle, Maker, Pruner, InBackup, Verifying, InVerify

LEMMA IdsAreStamps ==
    /\ Catalogued \in SUBSET Stamps
    /\ Proven \in SUBSET Catalogued
BY DEF Catalogued, Proven

-----------------------------------------------------------------------------
(* What a prune or sweep does to the store, and what it knows afterwards,  *)
(* whoever else is at work.                                                *)

Retires(k) ==
    /\ Superseded(k, Catalogued, Proven)
    /\ manifests' \in {manifests, [manifests EXCEPT ![k] = Absent]}
    /\ UNCHANGED artifacts

Reclaims(k, now) ==
    /\ k \notin Catalogued
    /\ Superseded(k, Catalogued, Proven) \/ (OldEnough(k, now) /\ now <= time)
    /\ artifacts' \in {artifacts, [artifacts EXCEPT ![k] = Absent]}
    /\ UNCHANGED manifests

Prunes(p, local) ==
    /\ Becomes(p, local) /\ UNCHANGED <<time, starts>>
    /\ local.pc \in Pruning
    /\ Pruner(local, Catalogued', Proven', starts, time)
    /\ UNCHANGED store \/ \E k \in Stamps : Retires(k) \/ Reclaims(k, proc[p].stamp)

LEMMA LocalPrunes ==
    ASSUME UNCHANGED <<time, store, starts>>,
           NEW p \in Procs, NEW local, Becomes(p, local), local.pc \in Pruning,
           Pruner(local, Catalogued, Proven, starts, time)
    PROVE  \E me : Prunes(p, me)
<1>1. Catalogued' = Catalogued /\ Proven' = Proven
  BY DEF store, Catalogued, Proven
<1>2. Prunes(p, local)
  BY <1>1 DEF Prunes
<1> QED
  BY <1>2

LEMMA IdlePrunes ==
    ASSUME UNCHANGED <<time, store, starts>>, NEW p \in Procs, Becomes(p, Idle)
    PROVE  \E me : Prunes(p, me)
<1>1. Idle.pc \in Pruning /\ Pruner(Idle, Catalogued, Proven, starts, time)
  BY IdleKnowsNothing DEF Idle, Pruning
<1> QED
  BY <1>1, LocalPrunes

LEMMA ReclaimPrunes ==
    ASSUME UNCHANGED <<time, manifests, starts>>,
           NEW p \in Procs, NEW local, Becomes(p, local), local.pc \in Pruning,
           Pruner(local, Catalogued, Proven, starts, time),
           NEW k \in Stamps, k \notin Catalogued,
           \/ Superseded(k, Catalogued, Proven)
           \/ OldEnough(k, proc[p].stamp) /\ proc[p].stamp <= time,
           artifacts' \in {artifacts, [artifacts EXCEPT ![k] = Absent]}
    PROVE  \E me : Prunes(p, me)
<1>1. Catalogued' = Catalogued /\ Proven' = Proven
  BY DEF Catalogued, Proven
<1>2. Reclaims(k, proc[p].stamp)
  BY DEF Reclaims
<1>3. Prunes(p, local)
  BY <1>1, <1>2 DEF Prunes
<1> QED
  BY <1>3

LEMMA RetirePrunes ==
    ASSUME UNCHANGED <<time, artifacts, starts>>,
           NEW p \in Procs, NEW local, Becomes(p, local), local.pc \in Pruning,
           Pruner(local, Catalogued', Proven', starts, time),
           NEW k \in Stamps, Superseded(k, Catalogued, Proven),
           manifests' \in {manifests, [manifests EXCEPT ![k] = Absent]}
    PROVE  \E me : Prunes(p, me)
<1>1. Retires(k)
  BY DEF Retires
<1>2. Prunes(p, local)
  BY <1>1 DEF Prunes
<1> QED
  BY <1>2

\* A manifest a plan removes leaves the catalog, or its deletion fails.
LEMMA RetireGrows ==
    ASSUME IInv, NEW k \in Stamps,
           Superseded(k, Catalogued, Proven), UNCHANGED <<time, starts>>,
           manifests' \in {manifests, [manifests EXCEPT ![k] = Absent]}
    PROVE  /\ Grows(Catalogued, Catalogued', Proven, Proven', starts, time)
           /\ Catalogued' \subseteq Catalogued /\ Proven' \subseteq Proven
           /\ time <= time'
           /\ manifests' # manifests => k \notin Catalogued'
           /\ \A i \in Stamps : i # k => manifests'[i] = manifests[i]
           /\ \A i \in Catalogued' : manifests'[i] = manifests[i]
<1>1. Stamps \subseteq Int /\ time <= time'
  BY MaxTimeIsNatural DEF Stamps, IInv, TypeOK
<1>2. \A i \in Stamps : i # k => manifests'[i] = manifests[i]
  BY DEF IInv, TypeOK
<1>3. manifests' # manifests => manifests'[k] = Absent
  BY DEF IInv, TypeOK
<1>4. /\ \A i \in Stamps : i # k => (i \in Catalogued' <=> i \in Catalogued)
      /\ \A i \in Stamps : i # k => (i \in Proven' <=> i \in Proven)
      /\ manifests' # manifests => k \notin Catalogued'
      /\ Catalogued' \subseteq Stamps /\ Proven' \subseteq Catalogued'
  BY <1>2, <1>3 DEF Catalogued, Proven
<1>5. manifests' = manifests => Catalogued' = Catalogued /\ Proven' = Proven
  BY DEF Catalogued, Proven
<1>6. Catalogued' \subseteq Catalogued /\ Proven' \subseteq Proven
  BY <1>4, <1>5
<1>7. Covers(Catalogued, Catalogued')
  <2> SUFFICES ASSUME NEW i \in Catalogued PROVE \E j \in Catalogued' : j >= i
    BY DEF Covers
  <2>1. PICK j \in Catalogued : j > k
    BY DEF Superseded
  <2>2. i \in Stamps /\ j \in Stamps /\ j # k /\ i >= i
    BY <1>1, <2>1, IdsAreStamps
  <2>3. j \in Catalogued' /\ (i # k => i \in Catalogued')
    BY <1>4, <2>2
  <2> QED
    BY <1>1, <2>1, <2>2, <2>3
<1>8. Covers(Proven, Proven')
  <2> SUFFICES ASSUME NEW i \in Proven PROVE \E j \in Proven' : j >= i
    BY DEF Covers
  <2>1. i \in Stamps /\ i >= i
    BY <1>1, IdsAreStamps
  <2>2. CASE i # k
    BY <1>4, <2>1, <2>2
  <2>3. CASE i = k
    <3>1. PICK j \in Proven : j > k
      BY <2>3 DEF Superseded
    <3>2. j \in Stamps /\ j # k
      BY <1>1, <3>1, IdsAreStamps
    <3>3. j \in Proven'
      BY <1>4, <3>1, <3>2
    <3> QED
      BY <1>1, <2>3, <3>1, <3>2, <3>3
  <2> QED
    BY <2>2, <2>3
<1>9. \A i \in Catalogued' : manifests'[i] = manifests[i]
  BY <1>2, <1>4, <1>5 DEF IInv, TypeOK
<1> QED
  BY <1>1, <1>2, <1>4, <1>6, <1>7, <1>8, <1>9 DEF Grows

LEMMA RetireStaysSuperseded ==
    ASSUME IInv, NEW k \in Stamps, Superseded(k, Catalogued, Proven),
           UNCHANGED <<time, starts>>,
           manifests' \in {manifests, [manifests EXCEPT ![k] = Absent]},
           NEW j \in Stamps, Superseded(j, Catalogued, Proven)
    PROVE  Superseded(j, Catalogued', Proven')
<1>1. /\ Covers(Catalogued, Catalogued') /\ Covers(Proven, Proven')
      /\ Proven' \subseteq Proven
  BY RetireGrows DEF Grows
<1>2. /\ Stamps \subseteq Int /\ Catalogued \subseteq Stamps /\ Proven \subseteq Stamps
      /\ Catalogued' \subseteq Stamps /\ Proven' \subseteq Stamps
  BY MaxTimeIsNatural DEF Stamps, Catalogued, Proven
<1>3. \E i \in Catalogued' : i > j
  BY <1>1, <1>2 DEF Superseded, Covers
<1>4. Proven' # {}
  BY <1>1 DEF Superseded, Covers
<1>5. j \in Proven' => \E i \in Proven' : i > j
  BY <1>1, <1>2 DEF Superseded, Covers
<1> QED
  BY <1>3, <1>4, <1>5 DEF Superseded

LEMMA PruneSteps ==
    ASSUME IInv, KeysOK, NEW p \in Procs, PruneStep(p),
           Pruner(proc[p], Catalogued, Proven, starts, time)
    PROVE  \E local : Prunes(p, local)
<1> DEFINE me == proc[p]
<1>0. me \in Process /\ Pruner(me, Catalogued, Proven, starts, time)
  BY DEF IInv, TypeOK
<1>1. CASE StartPrune(p)
  <2>1. PICK sweeps \in BOOLEAN :
          Becomes(p, [Idle EXCEPT !.pc = "list", !.cmd = "prune", !.sweeps = sweeps])
    BY <1>1 DEF StartPrune
  <2> DEFINE local == [Idle EXCEPT !.pc = "list", !.cmd = "prune", !.sweeps = sweeps]
  <2>2. local.pc = "list" /\ local.seen = {}
    BY DEF Idle
  <2> HIDE DEF local
  <2>3. local.pc \in Pruning /\ Pruner(local, Catalogued, Proven, starts, time)
    BY <2>2 DEF Pruner, Pruning
  <2> QED
    BY <1>1, <2>1, <2>3, LocalPrunes DEF StartPrune, local
<1>2. CASE ListManifests(p)
  <2> DEFINE local == [me EXCEPT !.pc = "read", !.keys = Catalogued]
  <2>1. me.seen = {}
    BY <1>0, <1>2 DEF ListManifests, At, Pruner
  <2>2. local.pc = "read" /\ local.seen = {} /\ local.keys = Catalogued
    BY <1>0, <2>1 DEF Process
  <2>3. Becomes(p, local) /\ UNCHANGED <<time, store, starts>>
    BY <1>2 DEF ListManifests
  <2> HIDE DEF local
  <2>4. Reads(local, Catalogued, Proven, starts)
    BY <2>2 DEF Reads, KeysOK
  <2>5. local.pc \in Pruning /\ Pruner(local, Catalogued, Proven, starts, time)
    BY <2>2, <2>4 DEF Pruner, Pruning, InBackup, Verifying, InVerify
  <2> QED
    BY <2>3, <2>5, LocalPrunes
<1>3. CASE ReadManifest(p)
  <2>1. PICK k \in Catalogued :
          /\ Least(k, me.keys)
          /\ Becomes(p, [me EXCEPT !.keys = me.keys \ {k}, !.seen = me.seen \cup {manifests[k]}])
    BY <1>3 DEF ReadManifest
  <2> DEFINE local == [me EXCEPT !.keys = me.keys \ {k}, !.seen = me.seen \cup {manifests[k]}]
  <2>2. me.pc = "read" /\ Reads(me, Catalogued, Proven, starts)
    BY <1>0, <1>3 DEF ReadManifest, At, Pruner
  <2>3. /\ local.pc = "read" /\ local.keys = me.keys \ {k}
        /\ local.seen = me.seen \cup {manifests[k]}
    BY <1>0, <2>2 DEF Process
  <2>4. Becomes(p, local) /\ UNCHANGED <<time, store, starts>>
    BY <1>3, <2>1 DEF ReadManifest
  <2> HIDE DEF local
  <2>5. /\ k \in me.keys /\ k \in starts /\ k >= k /\ manifests[k].id = k
        /\ manifests[k].verified <=> k \in Proven
        /\ \A j \in me.keys : k <= j
    BY <2>1, MaxTimeIsNatural DEF Least, KeysOK, Proven, Catalogued, Stamps
  <2>6. ASSUME NEW m \in local.seen
        PROVE  m.id \in starts /\ StillTells(m, local, Catalogued, Proven)
    <3>1. CASE m \in me.seen
      BY <2>2, <2>3, <2>5, <3>1 DEF Reads, StillTells
    <3>2. CASE m = manifests[k]
      BY <2>3, <2>5, <3>2 DEF Reads, StillTells
    <3> QED
      BY <2>3, <3>1, <3>2
  <2>7. \A m, n \in local.seen : m.id = n.id => m = n
    BY <2>2, <2>3, <2>5 DEF Reads, StillTells
  <2>8. Reads(local, Catalogued, Proven, starts)
    BY <2>2, <2>3, <2>6, <2>7 DEF Reads
  <2>9. local.pc \in Pruning /\ Pruner(local, Catalogued, Proven, starts, time)
    BY <2>3, <2>8 DEF Pruner, Pruning, InBackup, Verifying, InVerify
  <2> QED
    BY <2>4, <2>9, LocalPrunes
<1>4. CASE MakePlan(p)
  <2>1. PICK pol \in Policies :
          Becomes(p, [me EXCEPT !.pc = "retire", !.seen = {}, !.keys = PlanIds(me.seen, pol)])
    BY <1>4 DEF MakePlan
  <2> DEFINE local == [me EXCEPT !.pc = "retire", !.seen = {}, !.keys = PlanIds(me.seen, pol)]
  <2>2. local.pc = "retire" /\ local.keys = PlanIds(me.seen, pol)
    BY <1>0 DEF Process
  <2>3. Becomes(p, local) /\ UNCHANGED <<time, store, starts>>
    BY <1>4, <2>1 DEF MakePlan
  <2> HIDE DEF local
  <2>4. Reads(me, Catalogued, Proven, starts)
    BY <1>0, <1>4 DEF MakePlan, At, Pruner
  <2>5. \A k \in local.keys : Superseded(k, Catalogued, Proven)
    BY <1>0, <2>2, <2>4, PlanIsSuperseded DEF Catalogued, Proven
  <2>6. local.pc \in Pruning /\ Pruner(local, Catalogued, Proven, starts, time)
    BY <2>2, <2>5 DEF Pruner, Pruning, InBackup, Verifying, InVerify
  <2> QED
    BY <2>3, <2>6, LocalPrunes
<1>5. CASE DeleteManifest(p)
  <2>1. PICK k \in me.keys :
          Greatest(k, me.keys) /\ manifests' = [manifests EXCEPT ![k] = Absent]
    BY <1>5 DEF DeleteManifest
  <2> DEFINE local == [me EXCEPT !.pc = "reclaim"]
  <2>2. local.pc = "reclaim" /\ local.keys = me.keys
    BY <1>0 DEF Process
  <2>3. me.pc = "retire" /\ Becomes(p, local) /\ UNCHANGED <<time, artifacts, starts>>
    BY <1>5 DEF DeleteManifest, At, Goes
  <2> HIDE DEF local
  <2>4. k \in Stamps /\ me.keys \subseteq Int /\ Superseded(k, Catalogued, Proven)
    BY <1>0, <2>1, <2>3, MaxTimeIsNatural DEF Pruner, Process, Stamps
  <2>5. \A j \in me.keys : Superseded(j, Catalogued', Proven')
    BY <1>0, <2>1, <2>3, <2>4, RetireStaysSuperseded DEF Pruner, Process
  <2>6. k \notin Catalogued'
    BY <2>1, <2>4 DEF Catalogued, IInv, TypeOK
  <2>7. \A j \in me.keys : Greatest(j, me.keys) => j = k
    BY <2>1, <2>4 DEF Greatest
  <2>8. local.pc \in Pruning /\ Pruner(local, Catalogued', Proven', starts, time)
    BY <2>2, <2>5, <2>6, <2>7 DEF Pruner, Pruning, InBackup, Verifying, InVerify
  <2> QED
    BY <2>1, <2>3, <2>4, <2>8, RetirePrunes
<1>6. CASE DeleteManifestFails(p)
  <2>1. PICK k \in me.keys :
          /\ manifests' \in {manifests, [manifests EXCEPT ![k] = Absent]}
          /\ Becomes(p, [me EXCEPT !.keys = me.keys \ {k}, !.sweeps = FALSE])
    BY <1>6 DEF DeleteManifestFails
  <2> DEFINE local == [me EXCEPT !.keys = me.keys \ {k}, !.sweeps = FALSE]
  <2>2. me.pc = "retire" /\ UNCHANGED <<time, artifacts, starts>>
    BY <1>6 DEF DeleteManifestFails, At
  <2>3. local.pc = "retire" /\ local.keys = me.keys \ {k} /\ Becomes(p, local)
    BY <1>0, <2>1, <2>2 DEF Process
  <2> HIDE DEF local
  <2>4. k \in Stamps /\ Superseded(k, Catalogued, Proven)
    BY <1>0, <2>2 DEF Pruner, Process
  <2>5. \A j \in me.keys : Superseded(j, Catalogued', Proven')
    BY <1>0, <2>1, <2>2, <2>4, RetireStaysSuperseded DEF Pruner, Process
  <2>6. local.pc \in Pruning /\ Pruner(local, Catalogued', Proven', starts, time)
    BY <2>3, <2>5 DEF Pruner, Pruning, InBackup, Verifying, InVerify
  <2> QED
    BY <2>1, <2>2, <2>3, <2>4, <2>6, RetirePrunes
<1>7. CASE DeleteArtifact(p) \/ DeleteArtifactFails(p)
  <2>1. PICK k \in me.keys, sweeps \in BOOLEAN :
          /\ Greatest(k, me.keys)
          /\ artifacts' \in {artifacts, [artifacts EXCEPT ![k] = Absent]}
          /\ Becomes(p, [me EXCEPT !.pc = "retire", !.keys = me.keys \ {k}, !.sweeps = sweeps])
    <3>1. CASE DeleteArtifact(p)
      <4>1. PICK k \in me.keys :
              /\ Greatest(k, me.keys)
              /\ artifacts' = [artifacts EXCEPT ![k] = Absent]
              /\ Becomes(p, [me EXCEPT !.pc = "retire", !.keys = me.keys \ {k}])
        BY <3>1 DEF DeleteArtifact
      <4>2. /\ me.sweeps \in BOOLEAN
            /\ [me EXCEPT !.pc = "retire", !.keys = me.keys \ {k}] =
               [me EXCEPT !.pc = "retire", !.keys = me.keys \ {k}, !.sweeps = me.sweeps]
        BY <1>0 DEF Process
      <4> QED
        BY <4>1, <4>2
    <3>2. CASE DeleteArtifactFails(p)
      BY <3>2 DEF DeleteArtifactFails
    <3> QED
      BY <1>7, <3>1, <3>2
  <2> DEFINE local == [me EXCEPT !.pc = "retire", !.keys = me.keys \ {k}, !.sweeps = sweeps]
  <2>2. me.pc = "reclaim" /\ UNCHANGED <<time, manifests, starts>>
    BY <1>7 DEF DeleteArtifact, DeleteArtifactFails, At
  <2>3. local.pc = "retire" /\ local.keys = me.keys \ {k} /\ Becomes(p, local)
    BY <1>0, <2>1 DEF Process
  <2> HIDE DEF local
  <2>4. k \in Stamps /\ k \notin Catalogued /\ Superseded(k, Catalogued, Proven)
    BY <1>0, <2>1, <2>2 DEF Pruner, Process
  <2>5. local.pc \in Pruning /\ Pruner(local, Catalogued, Proven, starts, time)
    BY <1>0, <2>2, <2>3 DEF Pruner, Pruning, InBackup, Verifying, InVerify
  <2> QED
    BY <2>1, <2>2, <2>3, <2>4, <2>5, ReclaimPrunes
<1>8. CASE ApplyDone(p)
  <2> DEFINE local == [me EXCEPT !.pc = "live", !.stamp = time]
  <2>1. local.pc = "live" /\ local.stamp = time /\ time <= time
    BY <1>0, MaxTimeIsNatural DEF Process, IInv, TypeOK, Stamps
  <2>2. UNCHANGED <<time, store, starts>>
    BY <1>8 DEF ApplyDone
  <2>3. Becomes(p, local) \/ Becomes(p, Idle)
    BY <1>8 DEF ApplyDone
  <2> HIDE DEF local
  <2>4. local.pc \in Pruning /\ Pruner(local, Catalogued, Proven, starts, time)
    BY <2>1 DEF Pruner, Pruning, InBackup, Verifying, InVerify
  <2> QED
    BY <2>2, <2>3, <2>4, LocalPrunes, IdlePrunes
<1> QED
  BY <1>1, <1>2, <1>3, <1>4, <1>5, <1>6, <1>7, <1>8 DEF PruneStep

LEMMA SweepSteps ==
    ASSUME IInv, KeysOK, NEW p \in Procs, SweepStep(p),
           Pruner(proc[p], Catalogued, Proven, starts, time)
    PROVE  \E local : Prunes(p, local)
<1> DEFINE me == proc[p]
<1>0. me \in Process /\ Pruner(me, Catalogued, Proven, starts, time)
  BY DEF IInv, TypeOK
<1>1. CASE SweepListManifests(p)
  <2> DEFINE local == [me EXCEPT !.pc = "orphans", !.keys = Catalogued]
  <2>1. local.pc = "orphans" /\ local.keys = Catalogued /\ local.stamp = me.stamp
    BY <1>0 DEF Process
  <2>2. me.pc = "live" /\ Becomes(p, local) /\ UNCHANGED <<time, store, starts>>
    BY <1>1 DEF SweepListManifests, At
  <2> HIDE DEF local
  <2>3. local.pc \in Pruning /\ Pruner(local, Catalogued, Proven, starts, time)
    BY <1>0, <2>1, <2>2 DEF Pruner, Pruning, InBackup, Verifying, InVerify
  <2> QED
    BY <2>2, <2>3, LocalPrunes
<1>2. CASE SweepListArtifacts(p)
  <2> DEFINE old == {i \in Stored \ me.keys : OldEnough(i, me.stamp)}
             local == [me EXCEPT !.pc = "sweep", !.keys = old]
  <2>1. local.pc = "sweep" /\ local.keys = old /\ local.stamp = me.stamp
    BY <1>0 DEF Process
  <2>2. me.pc = "orphans" /\ Becomes(p, local) /\ UNCHANGED <<time, store, starts>>
    BY <1>2 DEF SweepListArtifacts, At
  <2>3. \A k \in old : OldEnough(k, me.stamp) /\ k \notin Catalogued
    BY <1>0, <2>2 DEF Pruner
  <2> HIDE DEF old, local
  <2>4. local.pc \in Pruning /\ Pruner(local, Catalogued, Proven, starts, time)
    BY <1>0, <2>1, <2>2, <2>3 DEF Pruner, Pruning, InBackup, Verifying, InVerify
  <2> QED
    BY <2>2, <2>4, LocalPrunes
<1>3. CASE SweepDelete(p)
  <2>1. PICK k \in me.keys :
          /\ artifacts' \in {artifacts, [artifacts EXCEPT ![k] = Absent]}
          /\ Becomes(p, [me EXCEPT !.keys = me.keys \ {k}])
    BY <1>3 DEF SweepDelete
  <2> DEFINE local == [me EXCEPT !.keys = me.keys \ {k}]
  <2>2. me.pc = "sweep" /\ UNCHANGED <<time, manifests, starts>>
    BY <1>3 DEF SweepDelete, At
  <2>3. /\ local.pc = "sweep" /\ local.keys = me.keys \ {k} /\ local.stamp = me.stamp
        /\ Becomes(p, local)
    BY <1>0, <2>1, <2>2 DEF Process
  <2> HIDE DEF local
  <2>4. k \in Stamps /\ k \notin Catalogued /\ OldEnough(k, me.stamp) /\ me.stamp <= time
    BY <1>0, <2>2 DEF Pruner, Process
  <2>5. local.pc \in Pruning /\ Pruner(local, Catalogued, Proven, starts, time)
    BY <1>0, <2>2, <2>3 DEF Pruner, Pruning, InBackup, Verifying, InVerify
  <2> QED
    BY <2>1, <2>2, <2>3, <2>4, <2>5, ReclaimPrunes
<1>4. CASE SweepDone(p)
  BY <1>4, IdlePrunes DEF SweepDone
<1> QED
  BY <1>1, <1>2, <1>3, <1>4 DEF SweepStep

-----------------------------------------------------------------------------
(* One step of one process.                                                *)

Alone(d) == d \in Procs /\ Producer(d) /\ SpacedBackups /\ MaxBackup < MinAge

LEMMA InitSInv == ASSUME NEW d \in Procs, Init PROVE SInv(d)
<1>1. Catalogued = {} /\ Stored = {} /\ starts = {}
  BY DEF Init, Catalogued, Stored
<1>2. \A p \in Procs : proc[p] = Idle
  BY DEF Init
<1>3. Roles(d)
  BY <1>2 DEF Roles, Pruning, Idle
<1>4. KeysOK /\ ManifestMatchesArtifact
  BY <1>1 DEF KeysOK, ManifestMatchesArtifact
<1>5. Maker(proc[d]) /\ Pruners
  BY <1>2, IdleKnowsNothing DEF Pruners
<1> QED
  BY <1>3, <1>4, <1>5 DEF SInv

\* What others know stays true when one process takes a step, or the clock does.
LEMMA StepSInv ==
    ASSUME NEW d, Alone(d), IInv, IInv', SInv(d),
           starts \subseteq starts', time <= time',
           Grows(Catalogued, Catalogued', Proven, Proven', starts, time),
           \A p \in Procs :
              \/ proc'[p] = proc[p]
              \/ /\ p # d => proc'[p].pc \in Pruning
                 /\ Pruner(proc'[p], Catalogued', Proven', starts', time'),
           KeysOK', ManifestMatchesArtifact', Maker(proc[d])'
    PROVE  SInv(d)'
<1>1. Roles(d)'
  BY DEF SInv, Roles
<1>2. ASSUME NEW p \in Procs
      PROVE  Pruner(proc'[p], Catalogued', Proven', starts', time')
  <2>1. CASE proc'[p] = proc[p]
    <3>1. Pruner(proc[p], Catalogued, Proven, starts, time)
      BY DEF SInv, Pruners
    <3>2. /\ proc[p] \in Process /\ starts \in SUBSET Stamps /\ starts' \in SUBSET Stamps
          /\ time \in Stamps /\ time' \in Stamps
      BY DEF IInv, TypeOK
    <3>3. /\ Catalogued' \in SUBSET Stamps /\ Proven' \in SUBSET Catalogued'
          /\ Catalogued \subseteq starts
      BY DEF Catalogued, Proven, SInv, KeysOK
    <3>4. Pruner(proc[p], Catalogued', Proven', starts', time')
      BY <3>1, <3>2, <3>3, IdsAreStamps, PrunerStays DEF Alone
    <3> QED
      BY <2>1, <3>4
  <2> QED
    BY <2>1
<1> QED
  BY <1>1, <1>2 DEF SInv, Pruners

\* Steps that leave the store alone.
LEMMA LocalStepSInv ==
    ASSUME NEW d, Alone(d), IInv, IInv', SInv(d),
           UNCHANGED <<time, store, starts>>,
           NEW p \in Procs, NEW local, Becomes(p, local),
           Pruner(local, Catalogued, Proven, starts, time),
           IF p = d THEN Maker(local) ELSE local.pc \in Pruning
    PROVE  SInv(d)'
<1>1. /\ proc'[p] = local
      /\ \A q \in Procs : q # p => proc'[q] = proc[q]
  BY DEF Becomes, IInv, TypeOK
<1>2. /\ Catalogued' = Catalogued /\ Stored' = Stored /\ Proven' = Proven
      /\ time' = time /\ starts' = starts /\ manifests' = manifests /\ artifacts' = artifacts
  BY DEF Catalogued, Stored, Proven, store
<1>3. KeysOK' /\ ManifestMatchesArtifact'
  BY <1>2 DEF SInv, KeysOK, ManifestMatchesArtifact
<1>4. Maker(proc'[d])
  BY <1>1 DEF Alone, SInv
<1>5. Maker(proc[d])'
  BY <1>2, <1>4 DEF Maker
<1>6. Grows(Catalogued, Catalogued', Proven, Proven', starts, time) /\ time <= time'
  BY <1>2, MaxTimeIsNatural DEF Grows, Covers, Catalogued, Proven, Stamps, IInv, TypeOK
<1> QED
  BY <1>1, <1>2, <1>3, <1>5, <1>6, StepSInv

\* Artifacts that are deleted while nothing lists them and none is in the making.
LEMMA DeletesArtifactSInv ==
    ASSUME NEW d, Alone(d), IInv, IInv', SInv(d),
           UNCHANGED <<time, manifests, starts>>,
           NEW k \in Stamps, k \notin Catalogued,
           proc[d].pc = "record" => k # proc[d].stamp,
           artifacts' \in {artifacts, [artifacts EXCEPT ![k] = Absent]},
           NEW p \in Procs, NEW local, Becomes(p, local),
           local.pc \in Pruning,
           Pruner(local, Catalogued, Proven, starts, time)
    PROVE  SInv(d)'
<1>1. /\ proc'[p] = local
      /\ \A q \in Procs : q # p => proc'[q] = proc[q]
  BY DEF Becomes, IInv, TypeOK
<1>2. /\ Catalogued' = Catalogued /\ Proven' = Proven
      /\ time' = time /\ starts' = starts /\ manifests' = manifests
  BY DEF Catalogued, Proven
<1>3. /\ \A i \in Stamps : i # k => artifacts'[i] = artifacts[i]
      /\ Stored' \subseteq Stored
  BY DEF IInv, TypeOK, Stored
<1>4. KeysOK' /\ ManifestMatchesArtifact'
  BY <1>2, <1>3 DEF SInv, KeysOK, ManifestMatchesArtifact, Catalogued
<1>5. Maker(proc[d])'
  <2>1. CASE p = d
    BY <1>1, <2>1 DEF Maker, Pruning, InBackup, Verifying, InVerify
  <2>2. CASE p # d
    <3>1. proc'[d] = proc[d] /\ Maker(proc[d]) /\ proc[d].stamp \in Stamps
      BY <1>1, <2>2 DEF Alone, SInv, IInv, TypeOK, Process
    <3> QED
      BY <1>2, <1>3, <3>1 DEF Maker
  <2> QED
    BY <2>1, <2>2
<1>6. Grows(Catalogued, Catalogued', Proven, Proven', starts, time) /\ time <= time'
  BY <1>2, MaxTimeIsNatural DEF Grows, Covers, Catalogued, Proven, Stamps, IInv, TypeOK
<1> QED
  BY <1>1, <1>2, <1>4, <1>5, <1>6, StepSInv

LEMMA PruningMakesNothing == ASSUME NEW local, local.pc \in Pruning PROVE Maker(local)
BY DEF Maker, Pruning, InBackup, Verifying, InVerify

\* Only d backs up and verifies, and it verifies nothing but its own backup.
LEMMA OnlyTheProducer ==
    ASSUME NEW d, Alone(d), SInv(d), NEW p \in Procs, BackupStep(p) \/ VerifyStep(p)
    PROVE  p = d /\ ~StartVerify(p)
<1>1. ASSUME p # d PROVE Commands[p] \subseteq {"prune"} /\ proc[p].pc \in Pruning
  BY <1>1 DEF Alone, Producer, SInv, Roles
<1>2. Commands[d] \cap {"verify"} = {}
  BY DEF Alone, Producer
<1>3. CASE BackupStep(p)
  <2>1. \/ \E cmd \in Commands[p] : cmd \in Producing
        \/ proc[p].pc \in InBackup
    BY <1>3 DEF BackupStep, StartBackup, Dump, Upload, Record, Issues, At, InBackup
  <2>2. p = d
    BY <1>1, <2>1 DEF Producing, Pruning, InBackup
  <2> QED
    BY <1>2, <2>2 DEF StartVerify, Issues
<1>4. CASE VerifyStep(p)
  <2>1. \/ "verify" \in Commands[p]
        \/ proc[p].pc \in Verifying
    BY <1>4 DEF VerifyStep, StartVerify, Load, Fetch, Restore, Prove, VerifyFails, Revoke,
                Issues, At, Verifying, InVerify
  <2>2. p = d
    BY <1>1, <2>1 DEF Verifying, Pruning, InVerify
  <2> QED
    BY <1>2, <2>2 DEF StartVerify, Issues
<1> QED
  BY <1>3, <1>4

-----------------------------------------------------------------------------
(* One lemma per part of Next, one step per action.                        *)

LEMMA BackupStepSInv ==
    ASSUME NEW d, Alone(d), IInv, IInv', SInv(d), BackupStep(d)
    PROVE  SInv(d)'
<1> USE MaxTimeIsNatural, BoundsAreNatural
<1> DEFINE me == proc[d]
<1>0. /\ d \in Procs /\ me \in Process /\ Maker(me)
      /\ Pruner(me, Catalogued, Proven, starts, time)
  BY DEF Alone, IInv, TypeOK, SInv, Pruners
<1>1. /\ time \in Int /\ starts \subseteq Stamps /\ Stamps \subseteq Int
      /\ \A s \in starts : s <= time
      /\ Catalogued \subseteq starts /\ Stored \subseteq starts
  BY DEF IInv, TypeOK, SInv, KeysOK, Stamps
<1>2. ASSUME NEW local, Becomes(d, local)
      PROVE  proc'[d] = local /\ \A q \in Procs : q # d => proc'[q] = proc[q]
  BY <1>2 DEF Becomes, IInv, TypeOK
<1>3. ASSUME UNCHANGED manifests
      PROVE  /\ Grows(Catalogued, Catalogued', Proven, Proven', starts, time)
             /\ Catalogued' = Catalogued /\ Proven' = Proven
  BY <1>1, <1>3 DEF Grows, Covers, Catalogued, Proven
<1>4. CASE StartBackup(d)
  <2>1. PICK cmd \in Producing :
          Becomes(d, [Idle EXCEPT !.pc = "dump", !.cmd = cmd, !.stamp = time])
    BY <1>4 DEF StartBackup
  <2> DEFINE local == [Idle EXCEPT !.pc = "dump", !.cmd = cmd, !.stamp = time]
  <2>2. local.pc = "dump" /\ local.stamp = time /\ local.seen = {}
    BY DEF Idle
  <2> HIDE DEF local
  <2>3. /\ time \notin starts /\ starts' = starts \cup {time} /\ time' = time
        /\ manifests' = manifests /\ artifacts' = artifacts
    BY <1>4 DEF StartBackup, Alone, store
  <2>4. KeysOK' /\ ManifestMatchesArtifact'
    BY <1>1, <1>3, <2>3 DEF SInv, KeysOK, ManifestMatchesArtifact, Catalogued, Stored
  <2>5. proc'[d] = local /\ \A q \in Procs : q # d => proc'[q] = proc[q]
    BY <1>2, <2>1 DEF local
  <2>6. Maker(proc[d])'
    <3>1. Greatest(time, starts')
      BY <1>1, <2>3 DEF Greatest
    <3>2. time \notin Catalogued' /\ time \notin Stored' /\ time' - time <= MaxBackup
      BY <1>1, <2>3 DEF Catalogued, Stored
    <3> QED
      BY <2>2, <2>3, <2>5, <3>1, <3>2 DEF Maker, Verifying, InVerify
  <2>7. Pruner(local, Catalogued', Proven', starts', time')
    BY <2>2 DEF Pruner
  <2> QED
    BY <1>1, <1>3, <2>3, <2>4, <2>5, <2>6, <2>7, StepSInv
<1>5. CASE Dump(d)
  <2> DEFINE local == [me EXCEPT !.pc = "upload", !.file = dumped + 1]
  <2>1. local.pc = "upload" /\ local.stamp = me.stamp /\ local.seen = me.seen
    BY <1>0 DEF Process
  <2>2. me.pc = "dump" /\ Becomes(d, local) /\ UNCHANGED <<time, store, starts>>
    BY <1>5 DEF Dump, At
  <2> HIDE DEF local
  <2>3. Maker(local) /\ Pruner(local, Catalogued, Proven, starts, time)
    BY <1>0, <2>1, <2>2 DEF Maker, Pruner, InBackup, Verifying, InVerify
  <2> QED
    BY <1>0, <2>2, <2>3, LocalStepSInv
<1>6. CASE Upload(d)
  <2> DEFINE local == [me EXCEPT !.pc = "record"]
  <2>1. /\ local.pc = "record" /\ local.stamp = me.stamp
        /\ local.seen = me.seen /\ local.file = me.file
    BY <1>0 DEF Process
  <2>2. /\ me.pc = "upload" /\ Becomes(d, local) /\ me.stamp \in Stamps
        /\ artifacts' = [artifacts EXCEPT ![me.stamp] = me.file]
        /\ manifests' = manifests /\ time' = time /\ starts' = starts
    BY <1>0, <1>6 DEF Upload, At, Goes, Process
  <2> HIDE DEF local
  <2>3. /\ Greatest(me.stamp, starts) /\ me.stamp \notin Catalogued
        /\ time - me.stamp <= MaxBackup /\ me.seen = {}
    BY <1>0, <2>2 DEF Maker, Pruner, InBackup
  <2>4. proc'[d] = local /\ \A q \in Procs : q # d => proc'[q] = proc[q]
    BY <1>2, <2>2
  <2>5. /\ artifacts'[me.stamp] = me.file
        /\ \A i \in Stamps : i # me.stamp => artifacts'[i] = artifacts[i]
    BY <2>2 DEF IInv, TypeOK
  <2>6. Stored' \subseteq starts
    BY <1>1, <2>3, <2>5 DEF Stored, Greatest
  <2>7. KeysOK' /\ ManifestMatchesArtifact'
    BY <1>3, <2>2, <2>3, <2>5, <2>6 DEF SInv, KeysOK, ManifestMatchesArtifact, Catalogued
  <2>8. Maker(proc[d])'
    BY <1>3, <2>1, <2>2, <2>3, <2>4, <2>5 DEF Maker, Verifying, InVerify
  <2>9. Pruner(local, Catalogued', Proven', starts', time')
    BY <2>1, <2>3 DEF Pruner
  <2> QED
    BY <1>1, <1>3, <2>2, <2>4, <2>7, <2>8, <2>9, StepSInv
<1>7. CASE Record(d)
  <2> DEFINE local == IF me.cmd = "run" THEN [me EXCEPT !.pc = "load", !.file = Junk] ELSE Idle
             new == [id |-> me.stamp, sum |-> me.file, verified |-> FALSE]
  <2>1. \/ local.pc = "load" /\ local.stamp = me.stamp /\ local.seen = me.seen
        \/ local = Idle
    BY <1>0 DEF Process
  <2>2. /\ me.pc = "record" /\ Becomes(d, local) /\ me.stamp \in Stamps /\ me.file \in Dumps
        /\ manifests' = [manifests EXCEPT ![me.stamp] = new]
        /\ artifacts' = artifacts /\ time' = time /\ starts' = starts
    BY <1>0, <1>7 DEF Record, At, Process, IInv, LocalsOK, Knows
  <2>3. /\ new.id = me.stamp /\ new.sum = me.file /\ ~new.verified /\ new # Absent
    <3>1. new \in Manifest
      BY <2>2 DEF Manifest
    <3>2. new.id = me.stamp /\ new.sum = me.file /\ new.verified = FALSE
      OBVIOUS
    <3> HIDE DEF new
    <3> QED
      BY <3>1, <3>2, AbsentIsNoObject
  <2> HIDE DEF local, new
  <2>4. /\ Greatest(me.stamp, starts) /\ me.stamp \notin Catalogued
        /\ time - me.stamp <= MaxBackup /\ me.seen = {}
        /\ artifacts[me.stamp] \in {me.file, Junk}
    BY <1>0, <2>2 DEF Maker, Pruner, InBackup
  <2>5. proc'[d] = local /\ \A q \in Procs : q # d => proc'[q] = proc[q]
    BY <1>2, <2>2
  <2>6. /\ manifests'[me.stamp] = new
        /\ \A i \in Stamps : i # me.stamp => manifests'[i] = manifests[i]
    BY <2>2 DEF IInv, TypeOK
  <2>7. Catalogued' = Catalogued \cup {me.stamp} /\ Proven' = Proven
    BY <2>2, <2>3, <2>4, <2>6 DEF Catalogued, Proven
  <2>8. Grows(Catalogued, Catalogued', Proven, Proven', starts, time)
    BY <1>1, <2>4, <2>7, IdsAreStamps DEF Grows, Covers
  <2>9. KeysOK' /\ ManifestMatchesArtifact'
    <3>1. Stored' = Stored /\ me.stamp \in starts
      BY <2>2, <2>4 DEF Stored, Greatest
    <3> QED
      BY <1>1, <2>2, <2>3, <2>4, <2>6, <2>7, <3>1, IdsAreStamps
      DEF SInv, KeysOK, ManifestMatchesArtifact
  <2>10. Maker(proc[d])'
    <3>1. CASE local = Idle
      BY <2>5, <3>1 DEF Maker, Idle, InBackup, Verifying, InVerify
    <3>2. CASE local.pc = "load" /\ local.stamp = me.stamp
      BY <2>2, <2>4, <2>5, <2>7, <3>2, IdsAreStamps DEF Maker, InBackup, Verifying, InVerify
    <3> QED
      BY <2>1, <3>1, <3>2
  <2>11. Pruner(local, Catalogued', Proven', starts', time')
    <3>1. CASE local = Idle
      BY <3>1, IdleKnowsNothing
    <3>2. CASE local.pc = "load" /\ local.seen = {}
      BY <3>2 DEF Pruner
    <3> QED
      BY <2>1, <2>4, <3>1, <3>2
  <2> QED
    BY <1>1, <2>2, <2>5, <2>8, <2>9, <2>10, <2>11, StepSInv
<1> QED
  BY <1>4, <1>5, <1>6, <1>7 DEF BackupStep

\* Going idle, after the last step of a command or in the middle of one.
LEMMA IdleStepSInv ==
    ASSUME NEW d, Alone(d), IInv, IInv', SInv(d),
           UNCHANGED <<time, store, starts>>, NEW p \in Procs, Becomes(p, Idle)
    PROVE  SInv(d)'
<1>1. Idle.pc \in Pruning
  BY DEF Idle, Pruning
<1>2. IF p = d THEN Maker(Idle) ELSE Idle.pc \in Pruning
  BY <1>1, IdleKnowsNothing
<1>3. Pruner(Idle, Catalogued, Proven, starts, time)
  BY IdleKnowsNothing
<1> QED
  BY <1>2, <1>3, LocalStepSInv

\* A step to another phase of verify that leaves the manifest in memory as it is.
LEMMA PhaseStepSInv ==
    ASSUME NEW d, Alone(d), IInv, IInv', SInv(d),
           UNCHANGED <<time, store, starts>>,
           proc[d].pc \in InVerify,
           NEW local, Becomes(d, local),
           local.pc \in InVerify, local.seen = proc[d].seen,
           local.stamp = proc[d].stamp, local.held = proc[d].held
    PROVE  SInv(d)'
<1>1. d \in Procs /\ Maker(proc[d]) /\ Pruner(proc[d], Catalogued, Proven, starts, time)
  BY DEF Alone, SInv, Pruners
<1>2. Maker(local)
  BY <1>1 DEF Maker, InBackup, Verifying, InVerify
<1>3. Pruner(local, Catalogued, Proven, starts, time)
  BY <1>1 DEF Pruner, InBackup, Verifying, InVerify
<1> QED
  BY <1>1, <1>2, <1>3, LocalStepSInv

\* What a verify writes back is the manifest of the producer's own backup.
LEMMA HeldIsOwn ==
    ASSUME NEW d, Alone(d), IInv, SInv(d), proc[d].pc \in InVerify
    PROVE  /\ proc[d].stamp \in Catalogued \ Proven
           /\ Greatest(proc[d].stamp, starts)
           /\ proc[d].held = manifests[proc[d].stamp]
           /\ proc[d].held.id = proc[d].stamp
           /\ proc[d].held \in Manifest
           /\ proc[d].seen = {}
<1>1. d \in Procs /\ Maker(proc[d]) /\ Pruner(proc[d], Catalogued, Proven, starts, time)
  BY DEF Alone, SInv, Pruners
<1>2. /\ proc[d].stamp \in Catalogued \ Proven
      /\ Greatest(proc[d].stamp, starts)
      /\ proc[d].held = manifests[proc[d].stamp]
      /\ proc[d].seen = {}
  BY <1>1 DEF Maker, Pruner, Verifying
<1>3. proc[d].held.id = proc[d].stamp
  BY <1>2 DEF SInv, KeysOK
<1>4. proc[d].held \in Manifest
  BY <1>1 DEF IInv, LocalsOK, Knows
<1> QED
  BY <1>2, <1>3, <1>4

LEMMA VerifyStepSInv ==
    ASSUME NEW d, Alone(d), IInv, IInv', SInv(d), VerifyStep(d)
    PROVE  SInv(d)'
<1> DEFINE me == proc[d]
<1>0. /\ d \in Procs /\ me \in Process /\ Maker(me)
      /\ Pruner(me, Catalogued, Proven, starts, time)
  BY DEF Alone, IInv, TypeOK, SInv, Pruners
<1>1. ~StartVerify(d)
  BY <1>0, OnlyTheProducer
<1>2. CASE Load(d)
  <2> DEFINE reset == [manifests[me.stamp] EXCEPT !.verified = FALSE]
             local == [me EXCEPT !.pc = "fetch", !.held = reset]
  <2>1. me.pc = "load" /\ me.stamp \in Catalogued \ Proven /\ me.seen = {}
    BY <1>0, <1>2 DEF Load, At, Maker, Pruner, Verifying
  <2>2. manifests[me.stamp] \in Manifest /\ ~manifests[me.stamp].verified
    BY <2>1 DEF Catalogued, Proven, IInv, TypeOK
  <2>3. reset = manifests[me.stamp]
    BY <2>2 DEF Manifest
  <2>4. /\ local.pc = "fetch" /\ local.stamp = me.stamp
        /\ local.seen = me.seen /\ local.held = reset
    BY <1>0 DEF Process
  <2>5. Becomes(d, local) /\ UNCHANGED <<time, store, starts>>
    BY <1>2 DEF Load
  <2> HIDE DEF reset, local
  <2>6. Maker(local)
    BY <1>0, <2>1, <2>3, <2>4 DEF Maker, InBackup, Verifying, InVerify
  <2>7. Pruner(local, Catalogued, Proven, starts, time)
    BY <2>1, <2>4 DEF Pruner
  <2> QED
    BY <1>0, <2>5, <2>6, <2>7, LocalStepSInv
<1>3. CASE Fetch(d)
  <2> DEFINE local == [me EXCEPT !.pc = "restore", !.file = artifacts[me.held.id]]
  <2>1. me.pc \in InVerify /\ Becomes(d, local) /\ UNCHANGED <<time, store, starts>>
    BY <1>3 DEF Fetch, At, InVerify
  <2>2. /\ local.pc \in InVerify /\ local.seen = me.seen
        /\ local.stamp = me.stamp /\ local.held = me.held
    BY <1>0 DEF Process, InVerify
  <2> HIDE DEF local
  <2> QED
    BY <2>1, <2>2, PhaseStepSInv
<1>4. CASE Restore(d)
  <2> DEFINE local == [me EXCEPT !.pc = "prove"]
  <2>1. me.pc \in InVerify /\ Becomes(d, local) /\ UNCHANGED <<time, store, starts>>
    BY <1>4 DEF Restore, At, Goes, InVerify
  <2>2. /\ local.pc \in InVerify /\ local.seen = me.seen
        /\ local.stamp = me.stamp /\ local.held = me.held
    BY <1>0 DEF Process, InVerify
  <2> HIDE DEF local
  <2> QED
    BY <2>1, <2>2, PhaseStepSInv
<1>5. CASE Prove(d)
  <2> DEFINE local == IF me.cmd = "run"
                        THEN [me EXCEPT !.pc = "list", !.file = Junk, !.held = Absent]
                        ELSE Idle
             new == [me.held EXCEPT !.verified = TRUE]
  <2>1. \/ local.pc = "list" /\ local.seen = me.seen
        \/ local = Idle
    BY <1>0 DEF Process
  <2>2. /\ me.pc \in InVerify /\ Becomes(d, local)
        /\ manifests' = [manifests EXCEPT ![me.held.id] = new]
        /\ artifacts' = artifacts /\ time' = time /\ starts' = starts
    BY <1>5 DEF Prove, At, InVerify
  <2>3. /\ me.stamp \in Catalogued \ Proven /\ Greatest(me.stamp, starts)
        /\ me.held = manifests[me.stamp] /\ me.held.id = me.stamp
        /\ me.held \in Manifest /\ me.seen = {}
    BY <2>2, HeldIsOwn
  <2>4. /\ new \in Manifest /\ new.id = me.stamp /\ new.sum = me.held.sum
        /\ new.verified = TRUE
    BY <2>3 DEF Manifest
  <2> HIDE DEF local, new
  <2>5. new # Absent
    BY <2>4, AbsentIsNoObject
  <2>6. /\ manifests'[me.stamp] = new /\ me.stamp \in Stamps
        /\ \A i \in Stamps : i # me.stamp => manifests'[i] = manifests[i]
    BY <2>2, <2>3 DEF IInv, TypeOK, Catalogued
  <2>7. Catalogued' = Catalogued /\ Proven' = Proven \cup {me.stamp}
    BY <2>3, <2>4, <2>5, <2>6 DEF Catalogued, Proven
  <2>8. Grows(Catalogued, Catalogued', Proven, Proven', starts, time) /\ time <= time'
    BY <2>2, <2>3, <2>7, MaxTimeIsNatural
    DEF Grows, Covers, Catalogued, Proven, Stamps, IInv, TypeOK
  <2>9. KeysOK' /\ ManifestMatchesArtifact'
    <3>1. Stored' = Stored
      BY <2>2 DEF Stored
    <3> QED
      BY <2>2, <2>3, <2>4, <2>6, <2>7, <3>1, IdsAreStamps
      DEF SInv, KeysOK, ManifestMatchesArtifact
  <2>10. /\ proc'[d] = local
         /\ \A q \in Procs : q # d => proc'[q] = proc[q]
    BY <2>2 DEF Becomes, IInv, TypeOK
  <2>11. Maker(proc[d])'
    BY <2>1, <2>10 DEF Maker, Idle, InBackup, Verifying, InVerify
  <2>12. Pruner(local, Catalogued', Proven', starts', time')
    <3>1. CASE local = Idle
      BY <3>1, IdleKnowsNothing
    <3>2. CASE local.pc = "list" /\ local.seen = {}
      BY <3>2 DEF Pruner
    <3> QED
      BY <2>1, <2>3, <3>1, <3>2
  <2> QED
    BY <2>2, <2>8, <2>9, <2>10, <2>11, <2>12, StepSInv
<1>6. CASE VerifyFails(d)
  <2> DEFINE local == [me EXCEPT !.pc = "revoke"]
  <2>1. me.pc \in InVerify /\ Becomes(d, local) /\ UNCHANGED <<time, store, starts>>
    BY <1>6 DEF VerifyFails, Goes, InVerify
  <2>2. /\ local.pc \in InVerify /\ local.seen = me.seen
        /\ local.stamp = me.stamp /\ local.held = me.held
    BY <1>0 DEF Process, InVerify
  <2> HIDE DEF local
  <2> QED
    BY <2>1, <2>2, PhaseStepSInv
<1>7. CASE Revoke(d)
  <2>1. me.pc \in InVerify /\ Becomes(d, Idle)
        /\ manifests' = [manifests EXCEPT ![me.held.id] = me.held]
        /\ artifacts' = artifacts /\ time' = time /\ starts' = starts
    BY <1>7 DEF Revoke, At, InVerify
  <2>2. manifests' = manifests
    BY <2>1, HeldIsOwn DEF IInv, TypeOK
  <2> QED
    BY <1>0, <2>1, <2>2, IdleStepSInv DEF store
<1> QED
  BY <1>1, <1>2, <1>3, <1>4, <1>5, <1>6, <1>7 DEF VerifyStep

\* Every process may prune.
LEMMA PruningStepSInv ==
    ASSUME NEW d, Alone(d), IInv, IInv', SInv(d),
           UNCHANGED <<time, store, starts>>,
           NEW p \in Procs, NEW local, Becomes(p, local), local.pc \in Pruning,
           Pruner(local, Catalogued, Proven, starts, time)
    PROVE  SInv(d)'
BY PruningMakesNothing, LocalStepSInv

\* A backup the catalog does without is not the one in the making.
LEMMA SupersededIsNotMade ==
    ASSUME NEW d, Alone(d), IInv, SInv(d), NEW k \in Stamps,
           Superseded(k, Catalogued, Proven),
           proc[d].pc \in InBackup \cup Verifying
    PROVE  k # proc[d].stamp
<1>1. PICK j \in Catalogued : j > k
  BY DEF Superseded
<1>2. j \in starts /\ j \in Int /\ k \in Int
  BY <1>1, MaxTimeIsNatural DEF SInv, KeysOK, Catalogued, Stamps
<1>3. Greatest(proc[d].stamp, starts)
  BY DEF SInv, Maker
<1> QED
  BY <1>1, <1>2, <1>3 DEF Greatest

LEMMA RetireStepSInv ==
    ASSUME NEW d, Alone(d), IInv, IInv', SInv(d),
           UNCHANGED <<time, artifacts, starts>>,
           NEW k \in Stamps, Superseded(k, Catalogued, Proven),
           manifests' \in {manifests, [manifests EXCEPT ![k] = Absent]},
           NEW p \in Procs, NEW local, Becomes(p, local), local.pc \in Pruning,
           Pruner(local, Catalogued', Proven', starts, time)
    PROVE  SInv(d)'
<1>1. /\ Grows(Catalogued, Catalogued', Proven, Proven', starts, time)
      /\ Catalogued' \subseteq Catalogued /\ Proven' \subseteq Proven
      /\ time <= time'
      /\ \A i \in Stamps : i # k => manifests'[i] = manifests[i]
      /\ \A i \in Catalogued' : manifests'[i] = manifests[i]
  BY RetireGrows
<1>2. /\ proc'[p] = local
      /\ \A q \in Procs : q # p => proc'[q] = proc[q]
  BY DEF Becomes, IInv, TypeOK
<1>3. KeysOK' /\ ManifestMatchesArtifact'
  <2>1. Stored' = Stored
    BY DEF Stored
  <2> QED
    BY <1>1, <2>1 DEF SInv, KeysOK, ManifestMatchesArtifact
<1>4. Maker(proc[d])'
  <2>1. CASE p = d
    BY <1>2, <2>1 DEF Maker, Pruning, InBackup, Verifying, InVerify
  <2>2. CASE p # d
    <3>1. proc'[d] = proc[d] /\ Maker(proc[d]) /\ proc[d].stamp \in Stamps
      BY <1>2, <2>2 DEF Alone, SInv, IInv, TypeOK, Process
    <3>2. CASE proc[d].pc \in InBackup \cup Verifying
      <4>1. k # proc[d].stamp
        BY <3>2, SupersededIsNotMade
      <4>2. manifests'[proc[d].stamp] = manifests[proc[d].stamp]
        BY <1>1, <3>1, <4>1
      <4>3. proc[d].stamp \in Catalogued' <=> proc[d].stamp \in Catalogued
        BY <4>2 DEF Catalogued
      <4>4. Stored' = Stored
        BY DEF Stored
      <4> QED
        BY <1>1, <3>1, <4>2, <4>3, <4>4 DEF Maker
    <3>3. CASE proc[d].pc \notin InBackup \cup Verifying
      BY <3>1, <3>3 DEF Maker, InBackup, Verifying
    <3> QED
      BY <3>2, <3>3
  <2> QED
    BY <2>1, <2>2
<1> QED
  BY <1>1, <1>2, <1>3, <1>4, StepSInv

LEMMA PruningSInv ==
    ASSUME NEW d, Alone(d), IInv, IInv', SInv(d), NEW p \in Procs, PruneStep(p) \/ SweepStep(p)
    PROVE  SInv(d)'
<1>1. Pruner(proc[p], Catalogued, Proven, starts, time) /\ KeysOK
  BY DEF SInv, Pruners
<1>2. PICK local : Prunes(p, local)
  BY <1>1, PruneSteps, SweepSteps
<1>3. /\ Becomes(p, local) /\ UNCHANGED <<time, starts>> /\ local.pc \in Pruning
      /\ Pruner(local, Catalogued', Proven', starts, time)
  BY <1>2 DEF Prunes
<1>4. UNCHANGED manifests => Pruner(local, Catalogued, Proven, starts, time)
  BY <1>3 DEF Catalogued, Proven
<1>5. CASE UNCHANGED store
  BY <1>3, <1>4, <1>5, PruningStepSInv DEF store
<1>6. ASSUME NEW k \in Stamps, Retires(k) PROVE SInv(d)'
  BY <1>3, <1>6, RetireStepSInv DEF Retires
<1>7. ASSUME NEW k \in Stamps, Reclaims(k, proc[p].stamp) PROVE SInv(d)'
  <2>1. /\ k \notin Catalogued /\ UNCHANGED manifests
        /\ artifacts' \in {artifacts, [artifacts EXCEPT ![k] = Absent]}
    BY <1>7 DEF Reclaims
  <2>2. ASSUME proc[d].pc = "record" PROVE k # proc[d].stamp
    <3>1. CASE Superseded(k, Catalogued, Proven)
      BY <2>2, <3>1, SupersededIsNotMade DEF InBackup
    <3>2. CASE OldEnough(k, proc[p].stamp) /\ proc[p].stamp <= time
      <4>1. time - proc[d].stamp <= MaxBackup
        BY <2>2 DEF SInv, Maker, InBackup
      <4>2. time \in Int /\ k \in Int /\ proc[p].stamp \in Int
        BY MaxTimeIsNatural DEF IInv, TypeOK, Process, Stamps
      <4> QED
        BY <3>2, <4>1, <4>2, BoundsAreNatural DEF OldEnough, Alone
    <3> QED
      BY <1>7, <3>1, <3>2 DEF Reclaims
  <2> QED
    BY <1>3, <1>4, <2>1, <2>2, DeletesArtifactSInv
<1> QED
  BY <1>2, <1>5, <1>6, <1>7 DEF Prunes

LEMMA TickSInv == ASSUME NEW d, Alone(d), IInv, IInv', SInv(d), Tick PROVE SInv(d)'
<1> USE MaxTimeIsNatural, BoundsAreNatural
<1>1. /\ time \in Int /\ time' = time + 1 /\ Stamps \subseteq Int /\ time <= time'
      /\ manifests' = manifests /\ artifacts' = artifacts /\ proc' = proc /\ starts' = starts
  BY DEF Tick, store, IInv, TypeOK, Stamps
<1>2. Catalogued' = Catalogued /\ Stored' = Stored /\ Proven' = Proven
  BY <1>1 DEF Catalogued, Stored, Proven
<1>3. starts \subseteq Int
  BY <1>1 DEF IInv, TypeOK
<1>4. KeysOK' /\ ManifestMatchesArtifact'
  BY <1>1, <1>2, <1>3 DEF SInv, KeysOK, ManifestMatchesArtifact
<1>5. Maker(proc[d])'
  <2>1. proc[d].pc \in InBackup => time' - proc[d].stamp <= MaxBackup
    <3>1. d \in Procs /\ proc[d].stamp \in Int
      BY <1>1 DEF Alone, IInv, TypeOK, Process
    <3>2. proc[d].pc \in InBackup => time + 1 - proc[d].stamp <= MaxBackup
      BY <3>1 DEF Tick
    <3>3. time + 1 - proc[d].stamp = time' - proc[d].stamp
      BY <1>1, <3>1
    <3> QED
      BY <3>2, <3>3
  <2>2. Maker(proc[d])
    BY DEF SInv
  <2> QED
    BY <1>1, <1>2, <2>1, <2>2 DEF Maker
<1>6. Grows(Catalogued, Catalogued', Proven, Proven', starts, time)
  BY <1>1, <1>2, IdsAreStamps DEF Grows, Covers
<1> QED
  BY <1>1, <1>4, <1>5, <1>6, StepSInv

LEMMA RotSInv ==
    ASSUME NEW d, Alone(d), IInv, IInv', SInv(d), NEW i \in Stamps, Rot(i)
    PROVE  SInv(d)'
<1>1. /\ time' = time /\ manifests' = manifests /\ proc' = proc /\ starts' = starts
      /\ i \in Stored /\ artifacts' = [artifacts EXCEPT ![i] = Junk]
  BY DEF Rot
<1>2. artifacts'[i] = Junk /\ \A j \in Stamps : j # i => artifacts'[j] = artifacts[j]
  BY <1>1 DEF IInv, TypeOK
<1>3. Catalogued' = Catalogued /\ Proven' = Proven
  BY <1>1 DEF Catalogued, Proven
<1>4. Stored' \subseteq Stored
  BY <1>1, <1>2 DEF Stored
<1>5. KeysOK' /\ ManifestMatchesArtifact'
  BY <1>1, <1>2, <1>3, <1>4, IdsAreStamps DEF SInv, KeysOK, ManifestMatchesArtifact
<1>6. Maker(proc[d])'
  <2>1. Maker(proc[d]) /\ proc[d].stamp \in Stamps
    BY DEF Alone, SInv, IInv, TypeOK, Process
  <2> QED
    BY <1>1, <1>2, <1>3, <1>4, <2>1 DEF Maker
<1>7. Grows(Catalogued, Catalogued', Proven, Proven', starts, time) /\ time <= time'
  BY <1>1, <1>3, IdsAreStamps, MaxTimeIsNatural DEF Grows, Covers, Stamps, IInv, TypeOK
<1> QED
  BY <1>1, <1>5, <1>6, <1>7, StepSInv

LEMMA NextSInv ==
    ASSUME NEW d, Alone(d), IInv, SInv(d), [Next]_vars
    PROVE  SInv(d)'
<1>0. IInv'
  BY NextIInv
<1>1. ASSUME NEW p \in Procs,
             BackupStep(p) \/ VerifyStep(p) \/ PruneStep(p) \/ SweepStep(p) \/ Abort(p)
      PROVE  SInv(d)'
  <2>1. CASE BackupStep(p) \/ VerifyStep(p)
    <3>1. p = d
      BY <2>1, OnlyTheProducer
    <3> QED
      BY <1>0, <2>1, <3>1, BackupStepSInv, VerifyStepSInv
  <2>2. CASE PruneStep(p) \/ SweepStep(p)
    BY <1>0, <2>2, PruningSInv
  <2>3. CASE Abort(p)
    BY <1>0, <2>3, IdleStepSInv DEF Abort
  <2> QED
    BY <1>1, <2>1, <2>2, <2>3
<1>2. CASE Tick
  BY <1>0, <1>2, TickSInv
<1>3. ASSUME NEW i \in Stamps, Rot(i) PROVE SInv(d)'
  BY <1>0, <1>3, RotSInv
<1>4. CASE UNCHANGED vars
  BY <1>4 DEF vars, SInv, Roles, KeysOK, ManifestMatchesArtifact, Maker, Pruners,
              Catalogued, Stored, Proven
<1> QED
  BY <1>1, <1>2, <1>3, <1>4 DEF Next

-----------------------------------------------------------------------------

\* The invariant of a supervised store holds throughout.
LEMMA SupervisedInvariant ==
    ASSUME NEW d, Alone(d) PROVE Spec => [](IInv /\ SInv(d))
<1>1. Init => IInv /\ SInv(d)
  BY InitIInv, InitSInv DEF Alone
<1>2. IInv /\ SInv(d) /\ [Next]_vars => (IInv /\ SInv(d))'
  BY NextIInv, NextSInv
<1> QED
  BY <1>1, <1>2, PTL DEF Spec

\* However long a verify takes and however many pruning and sweeping
\* processes interleave with them, a listed backup has its artifact, and the
\* one its manifest describes unless it decayed.
THEOREM BytesStay == Supervised => (Spec => []ManifestMatchesArtifact)
<1> SUFFICES ASSUME Supervised PROVE Spec => []ManifestMatchesArtifact
  OBVIOUS
<1>1. PICK d : Alone(d)
  BY DEF Supervised, Alone
<1>2. Spec => [](IInv /\ SInv(d))
  BY <1>1, SupervisedInvariant
<1>3. SInv(d) => ManifestMatchesArtifact
  BY DEF SInv
<1> QED
  BY <1>2, <1>3, PTL
=============================================================================
