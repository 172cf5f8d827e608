---------------------------- MODULE Runner_proofs ----------------------------
(***************************************************************************)
(* The daemon keeps what its run checks, for any history, calendar, policy *)
(* and age, and however often it crashes: no loss of coverage is silent,   *)
(* what it publishes is true of the store, and it prunes only what its own *)
(* proven backup makes superfluous.                                        *)
(***************************************************************************)
EXTENDS Runner, WellFoundedInduction, TLAPS

\* The clock only goes on, and nothing is from the future; of the backups that
\* are verified, none is from after the second the cycle started.
TimesOK ==
    /\ now # Never => now <= time
    /\ pc \in InCycle => now # Never /\ time - now <= MaxCycle
    /\ pc = "select" => now # Never
    /\ \A m \in catalog : m.id <= time
    /\ now # Never => \A m \in VerifiedOf(catalog) : m.id <= now

\* Past its backup and verification, a cycle has either proven its own backup or
\* told of its failure; past its check, it prunes and warns only with the first.
CycleOK ==
    /\ pc \in Errors => pc \in raised
    /\ pc \in {"backup", "verify"} => ~failed
    /\ pc \in {"backup failed", "verify failed"} => failed
    /\ pc = "check" => IF failed THEN raised \cap Errors # {} ELSE NewBackup(TRUE) \in catalog
    /\ pc \in {"prune", "warn"} \cup Warnings => NewBackup(TRUE) \in catalog
    /\ NoSilentLoss

Checked == {"select", "prune", "warn", "backup coverage unhealthy"} \cup Warnings

\* What the check found stays true until the next one.
Agrees ==
    /\ tracker.lastVerified = LastVerified(catalog)
    /\ tracker.healthy = CoveredAt(catalog, now)

TrackerOK ==
    /\ pc \in Checked /\ tracker.checked /\ ~blind => Agrees
    /\ tracker.checked => checkedAt \in Stamps
    /\ HealthyIsNearlyCurrent

IInv == TypeOK /\ TimesOK /\ CycleOK /\ TrackerOK

-----------------------------------------------------------------------------
(* Backups of a set.                                                       *)

\* A set of natural numbers that is not empty has a least one.
LEMMA LeastNumber ==
    ASSUME NEW T \in SUBSET Nat, T # {}
    PROVE  \E x \in T : \A y \in T : x <= y
  <1>1. PICK x \in T : \A y \in T : ~ (<<y, x>> \in OpToRel(<, Nat))
    BY NatLessThanWellFounded, WFMin
  <1>2. \A y \in T : ~ (y < x)
    BY <1>1 DEF OpToRel
  <1> QED
    BY <1>2

\* A set of backups that is not empty has a newest one.
LEMMA NewestIsNewest ==
    ASSUME NEW S \in SUBSET Backups, S # {}
    PROVE  /\ NewestOf(S) \in S
           /\ \A m \in S : m.id <= NewestOf(S).id
  <1> DEFINE T == {MaxTime - m.id : m \in S}
  <1>1. \A m \in S : m.id \in Stamps
    BY DEF Backups
  <1>2. T \in SUBSET Nat /\ T # {}
    BY <1>1, MaxTimeIsNatural DEF Stamps
  <1>3. PICK x \in T : \A y \in T : x <= y
    BY <1>2, LeastNumber
  <1>4. PICK m \in S : x = MaxTime - m.id
    BY <1>3
  <1>5. \A n \in S : n.id <= m.id
    <2> TAKE n \in S
    <2>1. MaxTime - m.id <= MaxTime - n.id
      BY <1>3, <1>4
    <2>2. m.id \in Nat /\ n.id \in Nat
      BY <1>1, MaxTimeIsNatural DEF Stamps
    <2> QED
      BY <2>1, <2>2, MaxTimeIsNatural
  <1>6. Newer(S, m) = {}
    BY <1>1, <1>5, MaxTimeIsNatural DEF Newer, Stamps
  <1>7. NewestOf(S) \in S /\ Newer(S, NewestOf(S)) = {}
    BY <1>6 DEF NewestOf
  <1> QED
    BY <1>1, <1>7, MaxTimeIsNatural DEF Newer, Stamps

LEMMA VerifiedAreBackups ==
    ASSUME NEW ms \in SUBSET Backups
    PROVE  VerifiedOf(ms) \in SUBSET Backups /\ VerifiedOf(ms) \subseteq ms
  BY DEF VerifiedOf

\* The backup of the cycle, if it is proven, is the newest of those that are.
LEMMA OwnIsNewest ==
    ASSUME NEW ms \in SUBSET Backups, NewBackup(TRUE) \in ms, now \in Stamps,
           \A x, y \in ms : x.id = y.id => x = y,
           \A m \in VerifiedOf(ms) : m.id <= now
    PROVE  /\ NewestOf(VerifiedOf(ms)) = NewBackup(TRUE)
           /\ LastVerified(ms) = now
           /\ CoveredAt(ms, now)
  <1> DEFINE own == NewBackup(TRUE)
  <1>1. own.id = now /\ own.verified
    BY DEF NewBackup
  <1>2. own \in VerifiedOf(ms)
    BY <1>1 DEF VerifiedOf
  <1>3. /\ NewestOf(VerifiedOf(ms)) \in VerifiedOf(ms)
        /\ now <= NewestOf(VerifiedOf(ms)).id
    BY <1>1, <1>2, VerifiedAreBackups, NewestIsNewest
  <1>4. NewestOf(VerifiedOf(ms)).id = now
    BY <1>3, MaxTimeIsNatural DEF Stamps, VerifiedOf, Backups
  <1>5. NewestOf(VerifiedOf(ms)) = own
    BY <1>1, <1>3, <1>4, VerifiedAreBackups
  <1>6. LastVerified(ms) = now
    BY <1>2, <1>4 DEF LastVerified
  <1>7. now - now <= MaxAge
    BY AgesAreNatural, MaxTimeIsNatural DEF Stamps
  <1>8. CoveredAt(ms, now)
    BY <1>1, <1>2, <1>7, Zenon DEF CoveredAt
  <1> QED
    BY <1>5, <1>6, <1>8

\* So no policy removes it, and pruning leaves it the newest.
LEMMA PruneKeepsOwn ==
    ASSUME NEW ms \in SUBSET Backups, NewBackup(TRUE) \in ms, now \in Stamps,
           \A x, y \in ms : x.id = y.id => x = y,
           \A m \in VerifiedOf(ms) : m.id <= now,
           NEW gone \in SUBSET Removed(ms, Policy)
    PROVE  NewBackup(TRUE) \in ms \ gone
  <1>1. NewestOf(VerifiedOf(ms)) = NewBackup(TRUE)
    BY OwnIsNewest
  <1>2. NewBackup(TRUE) \in Kept(ms, Policy)
    BY <1>1 DEF Kept
  <1> QED
    BY <1>2 DEF Removed

\* A manifest of the cycle's backup replaces the one of its second.
LEMMA WithIsCatalog ==
    ASSUME TypeOK, now \in Stamps, NEW b \in BOOLEAN,
           NEW ms, ms = With(catalog, NewBackup(b))
    PROVE  /\ NewBackup(b) \in ms
           /\ ms \subseteq Backups /\ \A x, y \in ms : x.id = y.id => x = y
           /\ \A m \in ms : m = NewBackup(b) \/ (m \in catalog /\ m.id # now)
           /\ \A m \in catalog \ ms : m.id = now
  <1>1. NewBackup(b) \in Backups /\ NewBackup(b).id = now
    BY DEF NewBackup, Backups
  <1>2. ms = {x \in catalog : x.id # now} \cup {NewBackup(b)}
    BY <1>1, Zenon DEF With
  <1> HIDE DEF TypeOK
  <1>3. catalog \subseteq Backups /\ \A x, y \in catalog : x.id = y.id => x = y
    BY DEF TypeOK
  <1> QED
    BY <1>1, <1>2, <1>3

\* Where the cycle goes after an alert.
LEMMA AfterAlert ==
    /\ pc \in {"backup failed", "verify failed"} => After(pc) = "check"
    /\ pc = "prune failed" => After(pc) = "warn"
    /\ pc \in {"backup coverage unhealthy", "backup coverage degraded"} => After(pc) = "select"
    /\ pc \in Titles => After(pc) \in {"check", "warn", "select"}
  BY DEF After, Titles, Errors, Warnings

-----------------------------------------------------------------------------

\* The daemon starts with nothing known and nothing told.
LEMMA InitOK == Init => IInv
  <1> SUFFICES ASSUME Init PROVE IInv
    OBVIOUS
  <1>1. 0 \in Stamps /\ 0 \in 0..MaxCrashes
    BY MaxTimeIsNatural, AgesAreNatural DEF Stamps
  <1>2. TypeOK
    BY <1>1, Zenon DEF Init, TypeOK, NoStatus, InCycle
  <1>3. TimesOK /\ CycleOK
    BY DEF Init, TimesOK, CycleOK, NoSilentLoss, Resting, InCycle, Titles, Errors, Warnings
  <1>4. ~tracker.checked
    BY DEF Init, NoStatus
  <1>5. TrackerOK
    BY <1>4 DEF TrackerOK, HealthyIsNearlyCurrent
  <1> QED
    BY <1>2, <1>3, <1>5 DEF IInv

\* Every variable but the flags, which no arithmetic is about.
Status == [backup : {"none", "success", "failed"}, verify : {"none", "success", "failed"},
           checked : BOOLEAN, healthy : BOOLEAN, lastVerified : Stamps \cup {Never}]
Flags == failed \in BOOLEAN /\ degraded \in BOOLEAN /\ stopping \in BOOLEAN
         /\ blind \in BOOLEAN /\ paged \in BOOLEAN

\* Every step keeps the flags and the tracker.
LEMMA FlagsStep ==
    ASSUME TypeOK, [Next]_vars
    PROVE  Flags' /\ tracker' \in Status
  <1>0. Flags /\ tracker \in Status /\ catalog \in SUBSET Backups
    BY DEF TypeOK, Flags, Status
  <1> USE <1>0, Zenon DEF Flags, vars, daemon, outside, history, Raise
  <1>1. CASE StartCycle
    BY <1>1 DEF StartCycle
  <1>2. CASE CreateTicker
    BY <1>2 DEF CreateTicker
  <1>3. CASE Stop
    BY <1>3 DEF Stop
  <1>4. CASE BackupSucceeds
    <2>1. [tracker EXCEPT !.backup = "success"] \in Status
      BY SMT DEF Status
    <2> QED
      BY <1>4, <2>1 DEF BackupSucceeds
  <1>5. CASE BackupFails
    <2>1. [tracker EXCEPT !.backup = "failed"] \in Status
      BY SMT DEF Status
    <2> QED
      BY <1>5, <2>1 DEF BackupFails
  <1>6. CASE VerifySucceeds
    <2>1. [tracker EXCEPT !.verify = "success"] \in Status
      BY SMT DEF Status
    <2> QED
      BY <1>6, <2>1 DEF VerifySucceeds
  <1>7. CASE VerifyFails
    <2>1. [tracker EXCEPT !.verify = "failed"] \in Status
      BY SMT DEF Status
    <2> QED
      BY <1>7, <2>1 DEF VerifyFails
  <1>8. CASE Check
    <2>1. Healthy(catalog) \in BOOLEAN
      BY DEF Healthy, CoveredAt
    <2>2. LastVerified(catalog) \in Stamps \cup {Never}
      <3>1. CASE VerifiedOf(catalog) = {}
        BY <3>1 DEF LastVerified
      <3>2. CASE VerifiedOf(catalog) # {}
        <4>1. NewestOf(VerifiedOf(catalog)) \in Backups
          BY <3>2, VerifiedAreBackups, NewestIsNewest
        <4> QED
          BY <3>2, <4>1, SMT DEF LastVerified, Backups
      <3> QED
        BY <3>1, <3>2
    <2>3. degraded' \in BOOLEAN
      BY <1>8 DEF Check
    <2>4. ASSUME NEW h \in BOOLEAN, NEW l \in Stamps \cup {Never}
          PROVE  [tracker EXCEPT !.checked = TRUE, !.healthy = h, !.lastVerified = l] \in Status
      BY Zenon DEF Status
    <2>5. tracker' \in Status
      BY <1>8, <2>1, <2>2, <2>4 DEF Check
    <2> QED
      BY <1>8, <2>3, <2>5 DEF Check
  <1>9. CASE CheckFails
    BY <1>9 DEF CheckFails
  <1>10. CASE Prune
    BY <1>10 DEF Prune
  <1>11. CASE PruneSkipped
    BY <1>11 DEF PruneSkipped
  <1>12. CASE PruneFails
    BY <1>12 DEF PruneFails
  <1>13. CASE Warn
    BY <1>13 DEF Warn
  <1>14. CASE AlertDelivered
    BY <1>14 DEF AlertDelivered
  <1>15. CASE AlertLost
    BY <1>15 DEF AlertLost
  <1>16. CASE TickerFires
    BY <1>16 DEF TickerFires
  <1>17. CASE Tick
    BY <1>17 DEF Tick
  <1>18. CASE Terminate
    BY <1>18 DEF Terminate
  <1>19. CASE BackupElsewhere
    BY <1>19 DEF BackupElsewhere
  <1>20. CASE Restart
    BY <1>20 DEF NoStatus, Status, Restart
  <1>21. CASE UNCHANGED vars
    BY <1>21
  <1> QED
    BY <1>1, <1>2, <1>3, <1>4, <1>5, <1>6, <1>7, <1>8, <1>9, <1>10, <1>11,
       <1>12, <1>13, <1>14, <1>15, <1>16, <1>17, <1>18, <1>19, <1>20, <1>21 DEF Next, DaemonStep, PostAlert

\* Every step keeps the other types.
LEMMA TypeStep ==
    ASSUME TypeOK, TimesOK, [Next]_vars
    PROVE  TypeOK'
  <1>0. pc \in InCycle => now \in Stamps
    BY DEF TimesOK, TypeOK
  <1>a. Flags' /\ tracker' \in Status
    BY FlagsStep
  <1> DEFINE Rest ==
        /\ time \in Stamps
        /\ catalog \subseteq Backups
        /\ \A x, y \in catalog : x.id = y.id => x = y
        /\ pc \in InCycle \cup {"start", "select", "stopped"}
        /\ now \in Stamps \cup {Never}
        /\ ticker \in {"none", "armed", "due"}
        /\ crashes \in 0..MaxCrashes
        /\ raised \subseteq Titles
        /\ checkedAt \in Stamps \cup {Never}
  <1>b. Rest
    BY DEF TypeOK
  <1>c. Rest' => TypeOK'
    BY <1>a, Zenon DEF TypeOK, Flags, Status
  <1>d. SUFFICES Rest'
    BY <1>c
  <1> USE <1>b DEF vars, daemon, outside, history, InCycle, Titles, Errors, Warnings
  <1>1. CASE StartCycle
    BY <1>1 DEF StartCycle
  <1>2. CASE CreateTicker
    BY <1>2 DEF CreateTicker
  <1>3. CASE Stop
    BY <1>3 DEF Stop
  <1>4. CASE BackupSucceeds
    <2>1. catalog' \in {catalog, With(catalog, NewBackup(FALSE))} /\ now \in Stamps
      BY <1>4, <1>0 DEF BackupSucceeds
    <2>2. catalog' \subseteq Backups /\ \A x, y \in catalog' : x.id = y.id => x = y
      BY <2>1, WithIsCatalog, Zenon
    <2> QED
      BY <1>4, <2>2 DEF BackupSucceeds, Raise
  <1>5. CASE BackupFails
    <2>1. catalog' \in {catalog, With(catalog, NewBackup(FALSE))} /\ now \in Stamps
      BY <1>5, <1>0 DEF BackupFails
    <2>2. catalog' \subseteq Backups /\ \A x, y \in catalog' : x.id = y.id => x = y
      BY <2>1, WithIsCatalog, Zenon
    <2> QED
      BY <1>5, <2>2 DEF BackupFails, Raise
  <1>6. CASE VerifySucceeds
    <2>1. catalog' \in {catalog, With(catalog, NewBackup(TRUE))} /\ now \in Stamps
      BY <1>6, <1>0 DEF VerifySucceeds
    <2>2. catalog' \subseteq Backups /\ \A x, y \in catalog' : x.id = y.id => x = y
      BY <2>1, WithIsCatalog, Zenon
    <2> QED
      BY <1>6, <2>2 DEF VerifySucceeds, Raise
  <1>7. CASE VerifyFails
    <2>1. catalog' \in {catalog, With(catalog, NewBackup(TRUE))} /\ now \in Stamps
      BY <1>7, <1>0 DEF VerifyFails
    <2>2. catalog' \subseteq Backups /\ \A x, y \in catalog' : x.id = y.id => x = y
      BY <2>1, WithIsCatalog, Zenon
    <2> QED
      BY <1>7, <2>2 DEF VerifyFails, Raise
  <1>8. CASE Check
    BY <1>8 DEF Raise, Check
  <1>9. CASE CheckFails
    BY <1>9 DEF CheckFails
  <1>10. CASE Prune
    BY <1>10 DEF Prune
  <1>11. CASE PruneSkipped
    BY <1>11 DEF PruneSkipped
  <1>12. CASE PruneFails
    BY <1>12 DEF Raise, PruneFails
  <1>13. CASE Warn
    BY <1>13 DEF Raise, Warn
  <1>14. CASE AlertDelivered
    BY <1>14, AfterAlert DEF AlertDelivered
  <1>15. CASE AlertLost
    BY <1>15, AfterAlert DEF AlertLost
  <1>16. CASE TickerFires
    BY <1>16 DEF TickerFires
  <1>17. CASE Tick
    <2>1. time \in Stamps /\ time < MaxTime /\ time' = time + 1
      BY <1>17, Zenon DEF Tick
    <2>2. time' \in Stamps
      <3> HIDE <1>b
      <3> QED
        BY <2>1, MaxTimeIsNatural, SMT DEF Stamps
    <2> QED
      BY <1>17, <2>2, Zenon DEF Tick
  <1>18. CASE Terminate
    BY <1>18 DEF Terminate
  <1>19. CASE BackupElsewhere
    <2>1. [id |-> time, verified |-> FALSE] \in Backups
      BY Zenon DEF Backups
    <2>2. catalog' \subseteq Backups
      BY <1>19, <2>1, Zenon DEF BackupElsewhere
    <2> DEFINE new == [id |-> time, verified |-> FALSE]
    <2>4. new.id = time
      OBVIOUS
    <2>5. \A m \in catalog : m.id # time
      BY <1>19, Zenon DEF BackupElsewhere
    <2>6. catalog' = catalog \cup {new}
      BY <1>19, Zenon DEF BackupElsewhere
    <2> HIDE DEF new
    <2>7. \A x, y \in catalog' : x.id = y.id => x = y
      BY <2>4, <2>5, <2>6, Zenon
    <2> QED
      BY <1>19, <2>2, <2>7, Zenon DEF BackupElsewhere
  <1>20. CASE Restart
    <2>0. crashes \in 0..MaxCrashes /\ crashes < MaxCrashes /\ crashes' = crashes + 1
      BY <1>20, Zenon DEF Restart
    <2>1. crashes' \in 0..MaxCrashes
      <3> HIDE <1>b
      <3> QED
        BY <2>0, AgesAreNatural, SMT
    <2> QED
      BY <1>20, <2>1, Zenon DEF Restart
  <1>21. CASE UNCHANGED vars
    BY <1>21
  <1> QED
    BY <1>1, <1>2, <1>3, <1>4, <1>5, <1>6, <1>7, <1>8, <1>9, <1>10, <1>11,
       <1>12, <1>13, <1>14, <1>15, <1>16, <1>17, <1>18, <1>19, <1>20, <1>21 DEF Next, DaemonStep, PostAlert

-----------------------------------------------------------------------------
(* Time.                                                                   *)

\* A step at the same second, and the same cycle, that adds no manifest but the
\* cycle's own or an unverified one of that second.
LEMMA TimesKept ==
    ASSUME TypeOK, TimesOK, UNCHANGED <<time, now>>,
           pc' \in InCycle => pc \in InCycle, pc' = "select" => now # Never,
           \A m \in catalog' : \/ m \in catalog
                               \/ now # Never /\ m.id = now
                               \/ m.id = time /\ ~m.verified
    PROVE  TimesOK'
  <1>1. time \in Int /\ (now # Never => now \in Int)
    BY MaxTimeIsNatural DEF TypeOK, Stamps
  <1>2. now # Never => now <= time
    BY DEF TimesOK
  <1>3. ASSUME NEW m \in catalog' PROVE m.id <= time
    BY <1>1, <1>2, <1>3 DEF TimesOK
  <1>4. ASSUME NEW m \in catalog', m.verified, now # Never PROVE m.id <= now
    <2>1. CASE m \in catalog
      BY <1>4, <2>1 DEF TimesOK, VerifiedOf
    <2>2. CASE m.id = now
      BY <1>1, <1>4, <2>2
    <2> QED
      BY <1>4, <2>1, <2>2
  <1>5. now' # Never => \A m \in VerifiedOf(catalog)' : m.id <= now'
    BY <1>4, Zenon DEF VerifiedOf
  <1> QED
    BY <1>2, <1>3, <1>5, Zenon DEF TimesOK

\* Every step keeps the order of time.
LEMMA TimesStep ==
    ASSUME TypeOK, TimesOK, [Next]_vars
    PROVE  TimesOK'
  <1>0. pc \in InCycle \cup {"select"} => now # Never /\ now \in Stamps
    BY DEF TimesOK, TypeOK
  <1>a. time \in Int /\ (now # Never => now \in Int)
    BY MaxTimeIsNatural DEF TypeOK, Stamps
  <1>b. ASSUME NEW b \in BOOLEAN, now \in Stamps
        PROVE  \A m \in With(catalog, NewBackup(b)) : m \in catalog \/ m.id = now
    <2>1. NewBackup(b).id = now
      BY DEF NewBackup
    <2> QED
      BY <2>1, Zenon DEF With
  <1> USE DEF vars, daemon, outside, history, InCycle, Titles, Errors, Warnings
  <1>1. CASE StartCycle
    <2>1. now' = time /\ time' = time /\ catalog' = catalog
      BY <1>1 DEF StartCycle
    <2>2. time <= time /\ time - time <= MaxCycle
      BY <1>a, AgesAreNatural
    <2>3. \A m \in catalog : m.id <= time
      BY DEF TimesOK
    <2>4. now' # Never
      BY <2>1, NeverIsNoSecond DEF TypeOK
    <2> QED
      BY <2>1, <2>2, <2>3, <2>4 DEF TimesOK, VerifiedOf
  <1>2. CASE CreateTicker
    BY <1>2, <1>0, TimesKept DEF CreateTicker
  <1>3. CASE Stop
    BY <1>3, <1>0, TimesKept DEF Stop
  <1>4. CASE BackupSucceeds
    <2>1. catalog' \in {catalog, With(catalog, NewBackup(FALSE))} /\ now \in Stamps /\ now # Never
      BY <1>4, <1>0 DEF BackupSucceeds
    <2>2. \A m \in catalog' : m \in catalog \/ m.id = now
      BY <2>1, <1>b
    <2> QED
      BY <1>4, <2>1, <2>2, TimesKept DEF BackupSucceeds, Raise
  <1>5. CASE BackupFails
    <2>1. catalog' \in {catalog, With(catalog, NewBackup(FALSE))} /\ now \in Stamps /\ now # Never
      BY <1>5, <1>0 DEF BackupFails
    <2>2. \A m \in catalog' : m \in catalog \/ m.id = now
      BY <2>1, <1>b
    <2> QED
      BY <1>5, <2>1, <2>2, TimesKept DEF BackupFails, Raise
  <1>6. CASE VerifySucceeds
    <2>1. catalog' \in {catalog, With(catalog, NewBackup(TRUE))} /\ now \in Stamps /\ now # Never
      BY <1>6, <1>0 DEF VerifySucceeds
    <2>2. \A m \in catalog' : m \in catalog \/ m.id = now
      BY <2>1, <1>b
    <2> QED
      BY <1>6, <2>1, <2>2, TimesKept DEF VerifySucceeds, Raise
  <1>7. CASE VerifyFails
    <2>1. catalog' \in {catalog, With(catalog, NewBackup(TRUE))} /\ now \in Stamps /\ now # Never
      BY <1>7, <1>0 DEF VerifyFails
    <2>2. \A m \in catalog' : m \in catalog \/ m.id = now
      BY <2>1, <1>b
    <2> QED
      BY <1>7, <2>1, <2>2, TimesKept DEF VerifyFails, Raise
  <1>8. CASE Check
    BY <1>8, <1>0, TimesKept DEF Raise, Check
  <1>9. CASE CheckFails
    BY <1>9, <1>0, TimesKept DEF CheckFails
  <1>10. CASE Prune
    BY <1>10, <1>0, TimesKept DEF Prune
  <1>11. CASE PruneSkipped
    BY <1>11, <1>0, TimesKept DEF PruneSkipped
  <1>12. CASE PruneFails
    BY <1>12, <1>0, TimesKept DEF Raise, PruneFails
  <1>13. CASE Warn
    BY <1>13, <1>0, TimesKept DEF Raise, Warn
  <1>14. CASE AlertDelivered
    BY <1>14, <1>0, AfterAlert, TimesKept DEF AlertDelivered
  <1>15. CASE AlertLost
    BY <1>15, <1>0, AfterAlert, TimesKept DEF AlertLost
  <1>16. CASE TickerFires
    BY <1>16, <1>0, TimesKept DEF TickerFires
  <1>17. CASE Tick
    <2>1. now' = now /\ pc' = pc /\ catalog' = catalog
      BY <1>17 DEF Tick
    <2>b. time' = time + 1
      BY <1>17 DEF Tick
    <2>c. pc \in InCycle => time' - now <= MaxCycle
      <3>1. pc \in InCycle => time + 1 - now <= MaxCycle
        BY <1>17, Zenon DEF Tick
      <3>2. ASSUME now \in Int, time + 1 - now <= MaxCycle PROVE time' - now <= MaxCycle
        BY <1>a, <2>b, <3>2, AgesAreNatural, SMT
      <3> QED
        BY <1>0, <1>a, <3>1, <3>2, Zenon
    <2>a. now # Never => now <= time
      BY DEF TimesOK
    <2>2. now # Never => now <= time'
      BY <1>a, <2>b, <2>a, SMT
    <2>3. \A m \in catalog : m.id <= time'
      <3>a. catalog \subseteq Backups
        BY DEF TypeOK
      <3>1. \A m \in catalog : m.id \in Int
        BY MaxTimeIsNatural, <3>a DEF Backups, Stamps
      <3>2. \A m \in catalog : m.id <= time
        BY DEF TimesOK
      <3> QED
        BY <1>a, <2>b, <3>1, <3>2, SMT
    <2>4. pc' \in InCycle => now' # Never /\ time' - now' <= MaxCycle
      BY <1>0, <2>1, <2>c
    <2>5. now' # Never => \A m \in VerifiedOf(catalog)' : m.id <= now'
      BY <2>1 DEF TimesOK, VerifiedOf
    <2> QED
      BY <1>0, <2>1, <2>2, <2>3, <2>4, <2>5, Zenon DEF TimesOK
  <1>18. CASE Terminate
    BY <1>18, <1>0, TimesKept DEF Terminate
  <1>19. CASE BackupElsewhere
    <2> DEFINE new == [id |-> time, verified |-> FALSE]
    <2>a. new.id = time /\ ~new.verified
      OBVIOUS
    <2>b. catalog' = catalog \cup {new}
      BY <1>19 DEF BackupElsewhere
    <2> HIDE DEF new
    <2>1. \A m \in catalog' : m \in catalog \/ (m.id = time /\ ~m.verified)
      BY <2>a, <2>b, Zenon
    <2> QED
      BY <1>19, <2>1, <1>0, TimesKept DEF BackupElsewhere
  <1>20. CASE Restart
    <2> QED
      BY <1>20 DEF Restart, TimesOK
  <1>21. CASE UNCHANGED vars
    BY <1>21, TimesKept, <1>0
  <1> QED
    BY <1>1, <1>2, <1>3, <1>4, <1>5, <1>6, <1>7, <1>8, <1>9, <1>10, <1>11,
       <1>12, <1>13, <1>14, <1>15, <1>16, <1>17, <1>18, <1>19, <1>20, <1>21 DEF Next, DaemonStep, PostAlert

-----------------------------------------------------------------------------
(* The cycle and its alerts.                                               *)

\* While a cycle has its own backup proven, the store is covered, and stays so
\* whatever part of its plan a prune carries out.
LEMMA OwnCovers ==
    ASSUME TypeOK, TimesOK, now # Never, NewBackup(TRUE) \in catalog,
           NEW gone \in SUBSET PrunePlan
    PROVE  /\ NewBackup(TRUE) \in catalog \ gone
           /\ CoveredAt(catalog, now) /\ CoveredAt(catalog \ gone, now)
           /\ LastVerified(catalog) = now /\ LastVerified(catalog \ gone) = now
  <1>1. /\ now \in Stamps /\ catalog \in SUBSET Backups
        /\ \A x, y \in catalog : x.id = y.id => x = y
        /\ \A m \in VerifiedOf(catalog) : m.id <= now
    BY DEF TypeOK, TimesOK
  <1>2. gone \in SUBSET Removed(catalog, Policy)
    BY DEF PrunePlan
  <1>3. NewBackup(TRUE) \in catalog \ gone
    BY <1>1, <1>2, PruneKeepsOwn
  <1>4. /\ catalog \ gone \in SUBSET Backups
        /\ \A x, y \in catalog \ gone : x.id = y.id => x = y
        /\ \A m \in VerifiedOf(catalog \ gone) : m.id <= now
    BY <1>1 DEF VerifiedOf
  <1> QED
    BY <1>1, <1>3, <1>4, OwnIsNewest

\* A step that tells nothing, goes nowhere and takes no manifest away.
LEMMA CycleKept ==
    ASSUME CycleOK, UNCHANGED <<pc, failed, raised, now>>, catalog \subseteq catalog'
    PROVE  CycleOK'
  <1>1. NewBackup(TRUE)' = NewBackup(TRUE)
    BY DEF NewBackup
  <1>2. CoveredAt(catalog, now) => CoveredAt(catalog, now)'
    BY DEF CoveredAt, VerifiedOf
  <1>3. NoSilentLoss'
    BY <1>2, Zenon DEF CycleOK, NoSilentLoss, Resting
  <1> QED
    BY <1>1, <1>3, Zenon DEF CycleOK

\* A step within a cycle says what it has to.
LEMMA CycleMoves ==
    ASSUME UNCHANGED now,
           pc' \in Errors => pc' \in raised',
           pc' \in {"backup", "verify"} => ~failed',
           pc' \in {"backup failed", "verify failed"} => failed',
           pc' = "check" => IF failed' THEN raised' \cap Errors # {} ELSE NewBackup(TRUE) \in catalog',
           pc' \in {"prune", "warn"} \cup Warnings => NewBackup(TRUE) \in catalog',
           pc' = "select" => CoveredAt(catalog', now) \/ raised' \cap Errors # {}
    PROVE  CycleOK'
  <1>1. NewBackup(TRUE)' = NewBackup(TRUE)
    BY DEF NewBackup
  <1>2. CoveredAt(catalog', now) => CoveredAt(catalog, now)'
    BY DEF CoveredAt, VerifiedOf
  <1>3. NoSilentLoss'
    BY <1>2, Zenon DEF NoSilentLoss, Resting
  <1> QED
    BY <1>1, <1>3, Zenon DEF CycleOK

\* Every step keeps the promise that loss is told.
LEMMA CycleStep ==
    ASSUME TypeOK, TimesOK, CycleOK, [Next]_vars
    PROVE  CycleOK'
  <1>0. pc \in InCycle => now # Never /\ now \in Stamps
    BY DEF TimesOK, TypeOK
  <1>a. pc \in {"prune", "warn"} \cup Warnings => NewBackup(TRUE) \in catalog
    BY DEF CycleOK
  <1>b. {} \in SUBSET PrunePlan
    OBVIOUS
  <1> USE DEF vars, daemon, outside, history, InCycle, Titles, Errors, Warnings
  <1>1. CASE StartCycle
    <2>1. pc' = "backup" /\ ~failed'
      BY <1>1 DEF StartCycle
    <2> QED
      BY <2>1 DEF CycleOK, NoSilentLoss, Resting
  <1>2. CASE CreateTicker
    BY <1>2, CycleKept DEF CreateTicker
  <1>3. CASE Stop
    <2>1. pc' = "stopped"
      BY <1>3 DEF Stop
    <2> QED
      BY <2>1 DEF CycleOK, NoSilentLoss, Resting
  <1>4. CASE BackupSucceeds
    <2>1. pc = "backup" /\ pc' = "verify" /\ now' = now /\ failed' = failed
      BY <1>4 DEF BackupSucceeds
    <2>2. ~failed
      BY <2>1, Zenon DEF CycleOK
    <2> QED
      BY <2>1, <2>2, CycleMoves
  <1>5. CASE BackupFails
    <2>1. pc' = "backup failed" /\ now' = now /\ failed' /\ pc' \in raised'
      BY <1>5, Zenon DEF BackupFails, Raise
    <2> QED
      BY <2>1, CycleMoves
  <1>6. CASE VerifySucceeds
    <2>1. pc = "verify" /\ pc' = "check" /\ now' = now /\ failed' = failed
      BY <1>6 DEF VerifySucceeds
    <2>2. ~failed
      BY <2>1, Zenon DEF CycleOK
    <2>3. NewBackup(TRUE) \in catalog'
      BY <1>6, <1>0, <2>1, WithIsCatalog, Zenon DEF VerifySucceeds
    <2> QED
      BY <2>1, <2>2, <2>3, CycleMoves
  <1>7. CASE VerifyFails
    <2>1. pc' = "verify failed" /\ now' = now /\ failed' /\ pc' \in raised'
      BY <1>7, Zenon DEF VerifyFails, Raise
    <2> QED
      BY <2>1, CycleMoves
  <1>8. CASE Check
    <2>1. pc = "check" /\ now' = now /\ catalog' = catalog /\ failed' = failed
      BY <1>8 DEF Check
    <2>2. ~failed => NewBackup(TRUE) \in catalog
      BY <2>1, Zenon DEF CycleOK
    <2>3. CASE Healthy(catalog) /\ failed
      <3>1. pc' = "select"
        BY <1>8, <2>3, Zenon DEF Check
      <3> QED
        BY <2>1, <2>3, <3>1, CycleMoves DEF Healthy
    <2>4. CASE Healthy(catalog) /\ ~failed
      <3>1. pc' = "prune"
        BY <1>8, <2>4, Zenon DEF Check
      <3> QED
        BY <2>1, <2>2, <2>4, <3>1, CycleMoves
    <2>5. CASE ~Healthy(catalog)
      <3>1. pc' = "backup coverage unhealthy" /\ pc' \in raised'
        BY <1>8, <2>5, Zenon DEF Check, Raise
      <3> QED
        BY <2>1, <3>1, CycleMoves
    <2> QED
      BY <2>3, <2>4, <2>5
  <1>9. CASE CheckFails
    <2>1. /\ pc = "check" /\ pc' = "select" /\ now' = now /\ now # Never
          /\ catalog' = catalog /\ raised' = raised
      BY <1>9, <1>0 DEF CheckFails
    <2>2. raised \cap Errors # {} \/ NewBackup(TRUE) \in catalog
      BY <2>1, Zenon DEF CycleOK
    <2>3. raised \cap Errors # {} \/ CoveredAt(catalog, now)
      BY <2>1, <2>2, <1>b, OwnCovers
    <2> QED
      BY <2>1, <2>3, CycleMoves
  <1>10. CASE Prune
    <2>1. pc = "prune" /\ pc' = "warn" /\ now' = now /\ now # Never /\ catalog' = catalog \ PrunePlan
      BY <1>10, <1>0 DEF Prune
    <2>2. NewBackup(TRUE) \in catalog'
      BY <1>a, <2>1, OwnCovers
    <2> QED
      BY <2>1, <2>2, CycleMoves
  <1>11. CASE PruneSkipped
    <2>1. pc = "prune" /\ pc' = "warn" /\ now' = now /\ catalog' = catalog
      BY <1>11 DEF PruneSkipped
    <2> QED
      BY <2>1, <1>a, CycleMoves
  <1>12. CASE PruneFails
    <2>1. pc = "prune" /\ pc' = "prune failed" /\ now' = now /\ now # Never
      BY <1>12, <1>0 DEF PruneFails, Raise
    <2>2. PICK gone \in SUBSET PrunePlan : catalog' = catalog \ gone
      BY <1>12 DEF PruneFails
    <2>3. NewBackup(TRUE) \in catalog'
      BY <1>a, <2>1, <2>2, OwnCovers
    <2> QED
      BY <2>1, <2>3, CycleMoves
  <1>13. CASE Warn
    <2>1. /\ pc = "warn" /\ now' = now /\ catalog' = catalog /\ now # Never
          /\ pc' \in {"backup coverage degraded", "select"}
      BY <1>13, <1>0 DEF Warn, Raise
    <2>2. CoveredAt(catalog, now)
      BY <1>a, <1>b, <2>1, OwnCovers
    <2> QED
      BY <1>a, <2>1, <2>2, CycleMoves
  <1>14. CASE AlertDelivered
    <2>1. /\ pc \in Titles /\ pc' = After(pc) /\ now' = now /\ now # Never
          /\ catalog' = catalog /\ raised' = raised /\ failed' = failed
      BY <1>14, <1>0 DEF AlertDelivered
    <2>2. CASE pc \in {"backup failed", "verify failed"}
      <3>1. pc' = "check"
        BY <2>1, <2>2, AfterAlert
      <3>2. failed
        BY <2>2, Zenon DEF CycleOK
      <3>3. raised \cap Errors # {}
        BY <2>2 DEF CycleOK
      <3> QED
        BY <2>1, <3>1, <3>2, <3>3, CycleMoves
    <2>3. CASE pc = "prune failed"
      BY <1>a, <2>1, <2>3, AfterAlert, CycleMoves
    <2>4. CASE pc = "backup coverage degraded"
      <3>1. CoveredAt(catalog, now)
        BY <1>a, <1>b, <2>1, <2>4, OwnCovers
      <3> QED
        BY <2>1, <2>4, <3>1, AfterAlert, CycleMoves
    <2>5. CASE pc = "backup coverage unhealthy"
      <3>1. raised \cap Errors # {}
        BY <2>5 DEF CycleOK
      <3> QED
        BY <2>1, <2>5, <3>1, AfterAlert, CycleMoves
    <2> QED
      BY <2>1, <2>2, <2>3, <2>4, <2>5
  <1>15. CASE AlertLost
    <2>1. /\ pc \in Titles /\ pc' = After(pc) /\ now' = now /\ now # Never
          /\ catalog' = catalog /\ raised' = raised /\ failed' = failed
      BY <1>15, <1>0 DEF AlertLost
    <2>2. CASE pc \in {"backup failed", "verify failed"}
      <3>1. pc' = "check"
        BY <2>1, <2>2, AfterAlert
      <3>2. failed
        BY <2>2, Zenon DEF CycleOK
      <3>3. raised \cap Errors # {}
        BY <2>2 DEF CycleOK
      <3> QED
        BY <2>1, <3>1, <3>2, <3>3, CycleMoves
    <2>3. CASE pc = "prune failed"
      BY <1>a, <2>1, <2>3, AfterAlert, CycleMoves
    <2>4. CASE pc = "backup coverage degraded"
      <3>1. CoveredAt(catalog, now)
        BY <1>a, <1>b, <2>1, <2>4, OwnCovers
      <3> QED
        BY <2>1, <2>4, <3>1, AfterAlert, CycleMoves
    <2>5. CASE pc = "backup coverage unhealthy"
      <3>1. raised \cap Errors # {}
        BY <2>5 DEF CycleOK
      <3> QED
        BY <2>1, <2>5, <3>1, AfterAlert, CycleMoves
    <2> QED
      BY <2>1, <2>2, <2>3, <2>4, <2>5
  <1>16. CASE TickerFires
    BY <1>16, CycleKept DEF TickerFires
  <1>17. CASE Tick
    BY <1>17, CycleKept DEF Tick
  <1>18. CASE Terminate
    BY <1>18, CycleKept DEF Terminate
  <1>19. CASE BackupElsewhere
    BY <1>19, CycleKept DEF BackupElsewhere
  <1>20. CASE Restart
    <2>1. pc' = "start"
      BY <1>20 DEF Restart
    <2> QED
      BY <2>1 DEF CycleOK, NoSilentLoss, Resting
  <1>21. CASE UNCHANGED vars
    BY <1>21, CycleKept
  <1> QED
    BY <1>1, <1>2, <1>3, <1>4, <1>5, <1>6, <1>7, <1>8, <1>9, <1>10, <1>11,
       <1>12, <1>13, <1>14, <1>15, <1>16, <1>17, <1>18, <1>19, <1>20, <1>21 DEF Next, DaemonStep, PostAlert

-----------------------------------------------------------------------------
(* The tracker.                                                            *)

Published == <<tracker.checked, tracker.healthy, tracker.lastVerified, checkedAt>>

\* A step that publishes nothing, and either leaves what was published or changes
\* neither the verified backups nor the second they are judged at.
LEMMA TrackerKept ==
    ASSUME TrackerOK, UNCHANGED Published,
           pc' \in Checked => \/ blind'
                              \/ pc \in Checked /\ UNCHANGED <<blind, now>>
                                 /\ VerifiedOf(catalog') = VerifiedOf(catalog)
    PROVE  TrackerOK'
  <1>1. (tracker.checked => checkedAt \in Stamps)' /\ HealthyIsNearlyCurrent'
    BY Zenon DEF TrackerOK, HealthyIsNearlyCurrent, Published
  <1>2. ASSUME pc' \in Checked, tracker'.checked, ~blind' PROVE Agrees'
    <2>1. pc \in Checked /\ UNCHANGED <<blind, now>> /\ VerifiedOf(catalog') = VerifiedOf(catalog)
      BY <1>2
    <2>2. Agrees
      BY <1>2, <2>1, Zenon DEF TrackerOK, Published
    <2>3. LastVerified(catalog)' = LastVerified(catalog)
      BY <2>1, Zenon DEF LastVerified, VerifiedOf
    <2>4. CoveredAt(catalog, now)' = CoveredAt(catalog, now)
      BY <2>1, Zenon DEF CoveredAt, VerifiedOf
    <2> QED
      BY <2>2, <2>3, <2>4, Zenon DEF Agrees, Published
  <1> QED
    BY <1>1, <1>2, Zenon DEF TrackerOK

\* A prune leaves the backup the gauges name.
LEMMA PruneAgrees ==
    ASSUME TypeOK, TimesOK, CycleOK, TrackerOK, pc = "prune", UNCHANGED <<now, tracker, blind, checkedAt>>,
           NEW gone \in SUBSET PrunePlan, catalog' = catalog \ gone
    PROVE  TrackerOK'
  <1>1. now # Never /\ NewBackup(TRUE) \in catalog
    BY DEF TimesOK, CycleOK, InCycle
  <1>2. /\ CoveredAt(catalog, now) /\ CoveredAt(catalog', now)
        /\ LastVerified(catalog) = now /\ LastVerified(catalog') = now
    BY <1>1, OwnCovers
  <1>3. (tracker.checked => checkedAt \in Stamps)' /\ HealthyIsNearlyCurrent'
    BY Zenon DEF TrackerOK, HealthyIsNearlyCurrent
  <1>4. ASSUME tracker.checked, ~blind PROVE Agrees'
    <2>1. Agrees
      BY <1>4, Zenon DEF TrackerOK, Checked
    <2>2. LastVerified(catalog)' = LastVerified(catalog)
      BY <1>2, Zenon DEF LastVerified, VerifiedOf
    <2>3. CoveredAt(catalog, now)' /\ CoveredAt(catalog, now)
      BY <1>2, Zenon DEF CoveredAt, VerifiedOf
    <2> QED
      BY <2>1, <2>2, <2>3, Zenon DEF Agrees
  <1> QED
    BY <1>3, <1>4, Zenon DEF TrackerOK

\* The backup that coverage rests on was young enough at the cycle's second, which
\* is no further back than a cycle is long.
LEMMA CheckIsNearlyCurrent ==
    ASSUME TypeOK, TimesOK, pc = "check", CoveredAt(catalog, now)
    PROVE  time - LastVerified(catalog) <= MaxAge + MaxCycle
  <1>1. now \in Stamps /\ time \in Stamps /\ time - now <= MaxCycle
    BY DEF TypeOK, TimesOK, InCycle
  <1>2. catalog \in SUBSET Backups
    BY DEF TypeOK
  <1>3. PICK m \in VerifiedOf(catalog) : now - m.id <= MaxAge
    BY DEF CoveredAt
  <1>4. VerifiedOf(catalog) \in SUBSET Backups
    BY <1>2, VerifiedAreBackups
  <1>5. /\ NewestOf(VerifiedOf(catalog)) \in Backups
        /\ m.id <= NewestOf(VerifiedOf(catalog)).id
    BY <1>3, <1>4, NewestIsNewest
  <1>6. LastVerified(catalog) = NewestOf(VerifiedOf(catalog)).id
    BY <1>3 DEF LastVerified
  <1> DEFINE last == LastVerified(catalog)
  <1>7. last \in Stamps /\ m.id \in Stamps /\ m.id <= last
    BY <1>3, <1>4, <1>5, <1>6 DEF Backups
  <1> HIDE DEF last
  <1>8. time - last <= MaxAge + MaxCycle
    BY <1>1, <1>3, <1>7, AgesAreNatural, MaxTimeIsNatural DEF Stamps
  <1> QED
    BY <1>8 DEF last

\* Every step keeps what was published true.
LEMMA TrackerStep ==
    ASSUME TypeOK, TimesOK, CycleOK, TrackerOK, [Next]_vars
    PROVE  TrackerOK'
  <1>0. tracker \in Status
    BY DEF TypeOK, Status
  <1> USE DEF vars, daemon, outside, history, InCycle, Titles, Errors, Warnings, Checked
  <1>1. CASE StartCycle
    <2>1. UNCHANGED Published
      BY <1>1 DEF StartCycle, Published
    <2> QED
      BY <1>1, <2>1, TrackerKept DEF StartCycle
  <1>2. CASE CreateTicker
    <2>1. UNCHANGED Published
      BY <1>2 DEF CreateTicker, Published
    <2> QED
      BY <1>2, <2>1, TrackerKept DEF CreateTicker
  <1>3. CASE Stop
    <2>1. UNCHANGED Published
      BY <1>3 DEF Stop, Published
    <2> QED
      BY <1>3, <2>1, TrackerKept DEF Stop
  <1>4. CASE BackupSucceeds
    <2>1. tracker' = [tracker EXCEPT !.backup = "success"] /\ checkedAt' = checkedAt
      BY <1>4 DEF BackupSucceeds
    <2>2. UNCHANGED Published
      BY <1>0, <2>1, Zenon DEF Published, Status
    <2>3. pc' \notin Checked
      BY <1>4 DEF BackupSucceeds, Raise
    <2> QED
      BY <2>2, <2>3, TrackerKept
  <1>5. CASE BackupFails
    <2>1. tracker' = [tracker EXCEPT !.backup = "failed"] /\ checkedAt' = checkedAt
      BY <1>5 DEF BackupFails
    <2>2. UNCHANGED Published
      BY <1>0, <2>1, Zenon DEF Published, Status
    <2>3. pc' \notin Checked
      BY <1>5 DEF BackupFails, Raise
    <2> QED
      BY <2>2, <2>3, TrackerKept
  <1>6. CASE VerifySucceeds
    <2>1. tracker' = [tracker EXCEPT !.verify = "success"] /\ checkedAt' = checkedAt
      BY <1>6 DEF VerifySucceeds
    <2>2. UNCHANGED Published
      BY <1>0, <2>1, Zenon DEF Published, Status
    <2>3. pc' \notin Checked
      BY <1>6 DEF VerifySucceeds, Raise
    <2> QED
      BY <2>2, <2>3, TrackerKept
  <1>7. CASE VerifyFails
    <2>1. tracker' = [tracker EXCEPT !.verify = "failed"] /\ checkedAt' = checkedAt
      BY <1>7 DEF VerifyFails
    <2>2. UNCHANGED Published
      BY <1>0, <2>1, Zenon DEF Published, Status
    <2>3. pc' \notin Checked
      BY <1>7 DEF VerifyFails, Raise
    <2> QED
      BY <2>2, <2>3, TrackerKept
  <1>8. CASE Check
    <2>1. /\ catalog' = catalog /\ now' = now /\ checkedAt' = time
          /\ tracker'.healthy = CoveredAt(catalog, now)
          /\ tracker'.lastVerified = LastVerified(catalog)
      BY <1>8, <1>0, Zenon DEF Check, Status, Healthy
    <2>2. CoveredAt(catalog, now)' = CoveredAt(catalog, now) /\ LastVerified(catalog)' = LastVerified(catalog)
      BY <2>1, Zenon DEF CoveredAt, LastVerified, VerifiedOf
    <2>3. Agrees'
      BY <2>1, <2>2, Zenon DEF Agrees
    <2>4. checkedAt' \in Stamps
      BY <2>1 DEF TypeOK
    <2>5. pc = "check"
      BY <1>8 DEF Check
    <2>6. tracker'.healthy => checkedAt' - tracker'.lastVerified <= MaxAge + MaxCycle
      <3>1. CoveredAt(catalog, now) => time - LastVerified(catalog) <= MaxAge + MaxCycle
        BY <2>5, CheckIsNearlyCurrent
      <3> QED
        BY <2>1, <3>1, Zenon
    <2> QED
      BY <2>3, <2>4, <2>6, Zenon DEF TrackerOK, HealthyIsNearlyCurrent
  <1>9. CASE CheckFails
    <2>1. UNCHANGED Published
      BY <1>9 DEF CheckFails, Published
    <2> QED
      BY <1>9, <2>1, TrackerKept DEF CheckFails
  <1>10. CASE Prune
    <2>1. PrunePlan \in SUBSET PrunePlan
      OBVIOUS
    <2> QED
      BY <1>10, <2>1, PruneAgrees DEF Prune
  <1>11. CASE PruneSkipped
    <2>1. UNCHANGED Published
      BY <1>11 DEF PruneSkipped, Published
    <2> QED
      BY <1>11, <2>1, TrackerKept DEF PruneSkipped
  <1>12. CASE PruneFails
    <2>1. PICK gone \in SUBSET PrunePlan : catalog' = catalog \ gone
      BY <1>12 DEF PruneFails
    <2> QED
      BY <1>12, <2>1, PruneAgrees DEF PruneFails
  <1>13. CASE Warn
    <2>1. UNCHANGED Published
      BY <1>13 DEF Warn, Published
    <2> QED
      BY <1>13, <2>1, TrackerKept DEF Warn, Raise
  <1>14. CASE AlertDelivered
    <2>1. UNCHANGED Published
      BY <1>14 DEF AlertDelivered, Published
    <2>2. pc' \in Checked => pc \in Checked
      BY <1>14, AfterAlert DEF AlertDelivered
    <2> QED
      BY <1>14, <2>1, <2>2, TrackerKept DEF AlertDelivered
  <1>15. CASE AlertLost
    <2>1. UNCHANGED Published
      BY <1>15 DEF AlertLost, Published
    <2>2. pc' \in Checked => pc \in Checked
      BY <1>15, AfterAlert DEF AlertLost
    <2> QED
      BY <1>15, <2>1, <2>2, TrackerKept DEF AlertLost
  <1>16. CASE TickerFires
    <2>1. UNCHANGED Published
      BY <1>16 DEF TickerFires, Published
    <2> QED
      BY <1>16, <2>1, TrackerKept DEF TickerFires
  <1>17. CASE Tick
    <2>1. UNCHANGED Published
      BY <1>17 DEF Tick, Published
    <2> QED
      BY <1>17, <2>1, TrackerKept DEF Tick
  <1>18. CASE Terminate
    <2>1. UNCHANGED Published
      BY <1>18 DEF Terminate, Published
    <2> QED
      BY <1>18, <2>1, TrackerKept DEF Terminate
  <1>19. CASE BackupElsewhere
    <2>1. UNCHANGED Published
      BY <1>19 DEF BackupElsewhere, Published
    <2> DEFINE new == [id |-> time, verified |-> FALSE]
    <2>2. ~new.verified
      OBVIOUS
    <2>3. catalog' = catalog \cup {new}
      BY <1>19 DEF BackupElsewhere
    <2> HIDE DEF new
    <2>4. VerifiedOf(catalog') = VerifiedOf(catalog)
      BY <2>2, <2>3 DEF VerifiedOf
    <2> QED
      BY <1>19, <2>1, <2>4, TrackerKept DEF BackupElsewhere
  <1>20. CASE Restart
    <2>1. ~tracker'.checked
      BY <1>20 DEF Restart, NoStatus
    <2> QED
      BY <2>1, Zenon DEF TrackerOK, HealthyIsNearlyCurrent
  <1>21. CASE UNCHANGED vars
    <2>1. UNCHANGED Published
      BY <1>21 DEF Published
    <2> QED
      BY <1>21, <2>1, TrackerKept
  <1> QED
    BY <1>1, <1>2, <1>3, <1>4, <1>5, <1>6, <1>7, <1>8, <1>9, <1>10, <1>11,
       <1>12, <1>13, <1>14, <1>15, <1>16, <1>17, <1>18, <1>19, <1>20, <1>21 DEF Next, DaemonStep, PostAlert

-----------------------------------------------------------------------------
(* Theorems.                                                               *)

\* One step of the daemon, its environment or its supervisor.
LEMMA StepOK == IInv /\ [Next]_vars => IInv'
  BY TypeStep, TimesStep, CycleStep, TrackerStep DEF IInv

LEMMA Invariance == Spec => []IInv
  BY InitOK, StepOK, PTL DEF Spec

\* Every variable of the daemon, its store and its environment keeps its type.
THEOREM TypeCorrect == Spec => []TypeOK
  <1>1. IInv => TypeOK
    BY DEF IInv
  <1> QED
    BY <1>1, Invariance, PTL

\* No cycle loses coverage in silence, also when its check could not read the
\* store and raised no alert of its own (runner.go:42, 66).
THEOREM LossIsTold == Spec => []NoSilentLoss
  <1>1. IInv => NoSilentLoss
    BY DEF IInv, CycleOK
  <1> QED
    BY <1>1, Invariance, PTL

\* What the tracker says after a cycle is true of the store the cycle left,
\* although it pruned after its check was recorded (runner.go:70).
THEOREM TrackerTellsTheTruth == Spec => []TrackerAgreesWithStore
  <1>1. IInv => TrackerAgreesWithStore
    BY Zenon DEF IInv, TrackerOK, TrackerAgreesWithStore, Agrees, Resting, Checked
  <1> QED
    BY <1>1, Invariance, PTL

\* When "ok" was found, the backup it rests on was no older than -max-age and the
\* length of a cycle (runner.go:41).
THEOREM OkIsNearlyCurrent == Spec => []HealthyIsNearlyCurrent
  <1>1. IInv => HealthyIsNearlyCurrent
    BY DEF IInv, TrackerOK
  <1> QED
    BY <1>1, Invariance, PTL

\* Manifests leave the store only in a cycle whose own backup is proven, and that
\* backup stays, whatever the policy and whichever deletions fail (runner.go:66).
THEOREM OnlyProvenCyclesPrune == Spec => PrunesOnlyAfterProof
  <1> DEFINE Earned ==
        catalog \ catalog' # {} =>
          \/ \A m \in catalog \ catalog' : m.id = now
          \/ NewBackup(TRUE) \in catalog \cap catalog'
  <1>1. IInv /\ [Next]_vars => [Earned]_vars
    <2> SUFFICES ASSUME IInv, Next, catalog \ catalog' # {} PROVE Earned
      OBVIOUS
    <2>0. TypeOK /\ TimesOK /\ CycleOK
      BY DEF IInv
    <2>1. ASSUME pc = "prune", NEW gone \in SUBSET PrunePlan, catalog' = catalog \ gone
          PROVE  NewBackup(TRUE) \in catalog \cap catalog'
      <3>1. now # Never /\ NewBackup(TRUE) \in catalog
        BY <2>0, <2>1 DEF TimesOK, CycleOK, InCycle
      <3> QED
        BY <2>0, <2>1, <3>1, OwnCovers
    <2>2. ASSUME pc \in InCycle, NEW b \in BOOLEAN, catalog' = With(catalog, NewBackup(b))
          PROVE  \A m \in catalog \ catalog' : m.id = now
      <3>1. now \in Stamps
        BY <2>0, <2>2 DEF TimesOK, TypeOK
      <3> QED
        BY <2>0, <2>2, <3>1, WithIsCatalog
    <2>3. CASE Prune \/ PruneFails
      <3>1. pc = "prune" /\ \E gone \in SUBSET PrunePlan : catalog' = catalog \ gone
        BY <2>3 DEF Prune, PruneFails
      <3> QED
        BY <2>1, <3>1
    <2>4. CASE BackupSucceeds \/ BackupFails
      <3>1. pc \in InCycle /\ catalog' = With(catalog, NewBackup(FALSE))
        BY <2>4 DEF BackupSucceeds, BackupFails, InCycle
      <3> QED
        BY <2>2, <3>1
    <2>5. CASE VerifySucceeds \/ VerifyFails
      <3>1. pc \in InCycle /\ catalog' = With(catalog, NewBackup(TRUE))
        BY <2>5 DEF VerifySucceeds, VerifyFails, InCycle
      <3> QED
        BY <2>2, <3>1
    <2>6. CASE catalog \subseteq catalog'
      BY <2>6
    <2> QED
      BY <2>3, <2>4, <2>5, <2>6
         DEF Next, DaemonStep, PostAlert, StartCycle, CreateTicker, Stop, Check, CheckFails, PruneSkipped,
             Warn, AlertDelivered, AlertLost, TickerFires, Tick, Terminate, BackupElsewhere, Restart
  <1> QED
    BY <1>1, Invariance, PTL DEF Spec, PrunesOnlyAfterProof
=============================================================================
