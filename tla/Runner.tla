------------------------------- MODULE Runner -------------------------------
(***************************************************************************)
(* The daemon: its select loop and ticker, the cycle backup -> verify ->   *)
(* check -> prune, the alerts a cycle raises, and the tracker behind       *)
(* /healthz and /metrics.                                                  *)
(*                                                                         *)
(* The store is what check and prune see of it: the manifests, each with   *)
(* its creation second and whether it is verified.  Backwyn.tla has the    *)
(* store itself and the other commands that use it.  Source database,      *)
(* sandbox, store and webhook may fail any step that calls them.           *)
(***************************************************************************)
EXTENDS RetentionPolicy

CONSTANTS
    MaxAge,      \* -max-age: the oldest verified backup that is coverage
    Policy,      \* the daemon's retention policy
    MaxCycle,    \* hypothesis: seconds a cycle lasts at most
    MaxCrashes,  \* bound: crashes of the daemon
    Never        \* no second: the zero time.Time

ASSUME AgesAreNatural == MaxAge \in Nat /\ MaxCycle \in Nat /\ MaxCrashes \in Nat
ASSUME PolicyTyped == Policy \in [last : Int, daily : Int, weekly : Int, monthly : Int]
ASSUME NeverIsNoSecond == Never \notin Stamps

VARIABLES
    time,      \* the second the clock shows; its last value stands for all later ones
    catalog,   \* the manifests in the store
    pc,        \* where the daemon is; the title of the alert it is posting, if any
    now,       \* the second the cycle started: every step of the cycle uses it
    failed,    \* backup or verify failed in this cycle (cycleErr)
    degraded,  \* the check of this cycle warned
    tracker,   \* in-memory status served over HTTP
    ticker,    \* "none" before the first cycle ends, "due" when a tick waits
    stopping,  \* a signal cancelled the daemon's context
    crashes,   \* history: crashes so far
    raised,    \* history: titles of the alerts raised in the current or last cycle
    blind,     \* history: the last check could not read the manifests
    checkedAt, \* history: the second of the last check that could
    paged      \* history: an error alert of the current or last cycle was delivered

daemon == <<pc, now, failed, degraded, tracker, ticker>>
outside == <<time, stopping, crashes>>
history == <<raised, blind, checkedAt, paged>>
vars == <<outside, catalog, daemon, history>>

Errors == {"backup failed", "verify failed", "backup coverage unhealthy"}
Warnings == {"backup coverage degraded", "prune failed"}
Titles == Errors \cup Warnings
InCycle == {"backup", "verify", "check", "prune", "warn"} \cup Titles

Backups == [id : Stamps, verified : BOOLEAN]

NoStatus == [backup |-> "none", verify |-> "none", checked |-> FALSE,
             healthy |-> FALSE, lastVerified |-> Never]

TypeOK ==
    /\ time \in Stamps
    /\ catalog \subseteq Backups
    /\ \A x, y \in catalog : x.id = y.id => x = y
    /\ pc \in InCycle \cup {"start", "select", "stopped"}
    /\ now \in Stamps \cup {Never}
    /\ failed \in BOOLEAN /\ degraded \in BOOLEAN
    /\ tracker \in [backup : {"none", "success", "failed"},
                    verify : {"none", "success", "failed"},
                    checked : BOOLEAN, healthy : BOOLEAN,
                    lastVerified : Stamps \cup {Never}]
    /\ ticker \in {"none", "armed", "due"} /\ stopping \in BOOLEAN
    /\ crashes \in 0..MaxCrashes
    /\ raised \subseteq Titles
    /\ blind \in BOOLEAN /\ paged \in BOOLEAN
    /\ checkedAt \in Stamps \cup {Never}

Init ==
    /\ time = 0
    /\ catalog = {}
    /\ pc = "start"
    /\ now = Never
    /\ failed = FALSE /\ degraded = FALSE
    /\ tracker = NoStatus
    /\ ticker = "none" /\ stopping = FALSE
    /\ crashes = 0
    /\ raised = {} /\ blind = FALSE /\ paged = FALSE
    /\ checkedAt = Never

\* The second of the newest verified backup of ms, or Never.
LastVerified(ms) ==
    IF VerifiedOf(ms) = {} THEN Never ELSE NewestOf(VerifiedOf(ms)).id

\* A verified backup of ms was no older than MaxAge at second t.
CoveredAt(ms, t) == \E m \in VerifiedOf(ms) : t - m.id <= MaxAge

\* Mutant: the manifest does not replace the one of its id.
WithBoth(ms, m) == ms \cup {m}

With(ms, m) == {x \in ms : x.id # m.id} \cup {m}

Raise(title) ==
    /\ pc' = title
    /\ raised' = raised \cup {title}

-----------------------------------------------------------------------------
(* The loop.  The ticker is created after the first cycle; its channel     *)
(* holds one tick, so ticks of a long cycle are dropped.                   *)

\* The first cycle runs at once; a later one takes a tick, and may win the
\* select against a signal that has arrived.
StartCycle ==
    /\ pc = "start" \/ (pc = "select" /\ ticker = "due")
    /\ pc' = "backup"
    /\ now' = time
    /\ failed' = FALSE /\ degraded' = FALSE
    /\ ticker' = IF ticker = "due" THEN "armed" ELSE ticker
    /\ raised' = {} /\ paged' = FALSE
    /\ UNCHANGED <<outside, catalog, tracker, blind, checkedAt>>

CreateTicker ==
    /\ pc = "select" /\ ticker = "none"
    /\ ticker' = "armed"
    /\ UNCHANGED <<outside, catalog, pc, now, failed, degraded, tracker, history>>

TickerFires ==
    /\ pc # "stopped" /\ ticker = "armed"
    /\ ticker' = "due"
    /\ UNCHANGED <<outside, catalog, pc, now, failed, degraded, tracker, history>>

Stop ==
    /\ pc = "select" /\ ticker # "none" /\ stopping
    /\ pc' = "stopped"
    /\ UNCHANGED <<outside, catalog, now, failed, degraded, tracker, ticker, history>>

-----------------------------------------------------------------------------
(* The cycle.                                                              *)

NewBackup(proven) == [id |-> now, verified |-> proven]

BackupSucceeds ==
    /\ pc = "backup"
    /\ catalog' = With(catalog, NewBackup(FALSE))
    /\ tracker' = [tracker EXCEPT !.backup = "success"]
    /\ pc' = "verify"
    /\ UNCHANGED <<outside, now, failed, degraded, ticker, history>>

\* Mutant: nobody is told of a failed backup.
BackupFailsQuietly ==
    /\ pc = "backup"
    /\ tracker' = [tracker EXCEPT !.backup = "failed"]
    /\ failed' = TRUE
    /\ pc' = "check"
    /\ UNCHANGED <<outside, catalog, now, degraded, ticker, history>>

\* The manifest may have landed although storing it reported an error.
BackupFails ==
    /\ pc = "backup"
    /\ catalog' \in {catalog, With(catalog, NewBackup(FALSE))}
    /\ tracker' = [tracker EXCEPT !.backup = "failed"]
    /\ failed' = TRUE
    /\ Raise("backup failed")
    /\ UNCHANGED <<outside, now, degraded, ticker, blind, checkedAt, paged>>

VerifySucceeds ==
    /\ pc = "verify"
    /\ catalog' = With(catalog, NewBackup(TRUE))
    /\ tracker' = [tracker EXCEPT !.verify = "success"]
    /\ pc' = "check"
    /\ UNCHANGED <<outside, now, failed, degraded, ticker, history>>

\* Not proven, or proven and saved although saving reported an error.
VerifyFails ==
    /\ pc = "verify"
    /\ catalog' \in {catalog, With(catalog, NewBackup(TRUE))}
    /\ tracker' = [tracker EXCEPT !.verify = "failed"]
    /\ failed' = TRUE
    /\ Raise("verify failed")
    /\ UNCHANGED <<outside, now, degraded, ticker, blind, checkedAt, paged>>

\* Mutant: any verified backup is coverage, however old.
HealthyAtAnyAge(ms) == VerifiedOf(ms) # {}

\* The check judges ages at the second the cycle started.
Healthy(ms) == CoveredAt(ms, now)

\* Mutant: a cycle whose backup or verification failed prunes all the same.
CheckThenPrune ==
    /\ pc = "check"
    /\ tracker' = [tracker EXCEPT !.checked = TRUE, !.healthy = Healthy(catalog),
                                   !.lastVerified = LastVerified(catalog)]
    /\ degraded' = (catalog # {} /\ ~NewestOf(catalog).verified)
    /\ blind' = FALSE
    /\ checkedAt' = time
    /\ IF Healthy(catalog)
         THEN pc' = "prune" /\ UNCHANGED raised
         ELSE Raise("backup coverage unhealthy")
    /\ UNCHANGED <<outside, catalog, now, failed, ticker, paged>>

\* What the cycle does after its check: an unhealthy one raises an alert, a
\* healthy one leads to pruning unless backup or verify failed.
Check ==
    /\ pc = "check"
    /\ tracker' = [tracker EXCEPT !.checked = TRUE, !.healthy = Healthy(catalog),
                                   !.lastVerified = LastVerified(catalog)]
    /\ degraded' = (catalog # {} /\ ~NewestOf(catalog).verified)
    /\ blind' = FALSE
    /\ checkedAt' = time
    /\ IF Healthy(catalog)
         THEN pc' = (IF failed THEN "select" ELSE "prune") /\ UNCHANGED raised
         ELSE Raise("backup coverage unhealthy")
    /\ UNCHANGED <<outside, catalog, now, failed, ticker, paged>>

\* The manifests cannot be listed, read or decoded: the cycle ends here, with
\* neither an alert of its own nor an update of the tracker.
CheckFails ==
    /\ pc = "check"
    /\ blind' = TRUE
    /\ pc' = "select"
    /\ UNCHANGED <<outside, catalog, now, failed, degraded, tracker, ticker,
                   raised, checkedAt, paged>>

\* Mutant: only the newest backup is kept, verified or not.
PruneAllButNewest == IF catalog = {} THEN {} ELSE catalog \ {NewestOf(catalog)}

PrunePlan == IF IsZero(Policy) THEN {} ELSE Removed(catalog, Policy)

Prune ==
    /\ pc = "prune"
    /\ catalog' = catalog \ PrunePlan
    /\ pc' = "warn"
    /\ UNCHANGED <<outside, now, failed, degraded, tracker, ticker, history>>

\* The manifests cannot be read: nothing is pruned and nobody is told.
PruneSkipped ==
    /\ pc = "prune" /\ ~IsZero(Policy)
    /\ pc' = "warn"
    /\ UNCHANGED <<outside, catalog, now, failed, degraded, tracker, ticker, history>>

\* Some of the deletions failed.
PruneFails ==
    /\ pc = "prune" /\ PrunePlan # {}
    /\ \E gone \in SUBSET PrunePlan : catalog' = catalog \ gone
    /\ Raise("prune failed")
    /\ UNCHANGED <<outside, now, failed, degraded, tracker, ticker, blind, checkedAt, paged>>

Warn ==
    /\ pc = "warn"
    /\ IF degraded THEN Raise("backup coverage degraded")
                   ELSE pc' = "select" /\ UNCHANGED raised
    /\ UNCHANGED <<outside, catalog, now, failed, degraded, tracker, ticker,
                   blind, checkedAt, paged>>

\* Where the cycle goes on after posting an alert.
After(title) ==
    CASE title \in {"backup failed", "verify failed"} -> "check"
      [] title = "prune failed" -> "warn"
      [] OTHER -> "select"

\* A cancelled context posts nothing.
AlertDelivered ==
    /\ pc \in Titles /\ ~stopping
    /\ pc' = After(pc)
    /\ paged' = (paged \/ pc \in Errors)
    /\ UNCHANGED <<outside, catalog, now, failed, degraded, tracker, ticker,
                   raised, blind, checkedAt>>

\* Only logged: the alert is not posted again.
AlertLost ==
    /\ pc \in Titles
    /\ pc' = After(pc)
    /\ UNCHANGED <<outside, catalog, now, failed, degraded, tracker, ticker, history>>

-----------------------------------------------------------------------------
(* The environment.                                                        *)

Tick ==
    /\ time < MaxTime
    /\ pc \in InCycle => time + 1 - now <= MaxCycle
    /\ time' = time + 1
    /\ UNCHANGED <<stopping, crashes, catalog, daemon, history>>

Terminate ==
    /\ pc # "stopped" /\ ~stopping
    /\ stopping' = TRUE
    /\ UNCHANGED <<time, crashes, catalog, daemon, history>>

\* A backup command run elsewhere, in a second of its own, and not verified yet.
BackupElsewhere ==
    /\ time # now /\ \A m \in catalog : m.id # time
    /\ catalog' = catalog \cup {[id |-> time, verified |-> FALSE]}
    /\ UNCHANGED <<outside, daemon, history>>

\* The daemon dies, or has stopped, and its supervisor starts it again: what
\* it kept in memory is gone.
Restart ==
    /\ pc # "start" /\ crashes < MaxCrashes
    /\ crashes' = crashes + 1
    /\ pc' = "start"
    /\ now' = Never
    /\ failed' = FALSE /\ degraded' = FALSE /\ stopping' = FALSE
    /\ tracker' = NoStatus
    /\ ticker' = "none"
    /\ raised' = {} /\ blind' = FALSE /\ paged' = FALSE
    /\ checkedAt' = Never
    /\ UNCHANGED <<time, catalog>>

PostAlert == AlertDelivered \/ AlertLost

DaemonStep ==
    \/ StartCycle \/ CreateTicker \/ Stop
    \/ BackupSucceeds \/ BackupFails \/ VerifySucceeds \/ VerifyFails
    \/ Check \/ CheckFails \/ Prune \/ PruneSkipped \/ PruneFails \/ Warn
    \/ PostAlert

Next == DaemonStep \/ TickerFires \/ Tick \/ Terminate \/ BackupElsewhere \/ Restart

Spec == Init /\ [][Next]_vars

\* The daemon goes on as long as the calls it makes return; the ticker fires
\* again and again; a webhook that is tried again and again gets an alert.
FairSpec ==
    /\ Spec
    /\ WF_vars(DaemonStep)
    /\ WF_vars(TickerFires)
    /\ SF_vars(AlertDelivered)

-----------------------------------------------------------------------------
(* Properties.                                                             *)

\* Between two cycles of the daemon, the last one complete.
Resting == pc = "select"

\* No cycle loses coverage in silence: if at its second no verified backup was
\* within MaxAge, the cycle raised an error alert, also when its check could
\* not read the store and raised none itself.
NoSilentLoss == Resting /\ ~CoveredAt(catalog, now) => raised \cap Errors # {}

\* What the tracker says of coverage is true of the store as the cycle left
\* it: pruning after the check was recorded did not take away the backup the
\* gauges name.
TrackerAgreesWithStore ==
    Resting /\ tracker.checked /\ ~blind =>
        /\ tracker.lastVerified = LastVerified(catalog)
        /\ tracker.healthy = CoveredAt(catalog, now)

\* "ok" is never further from the truth than the cycle is long: the check uses
\* the second its cycle started, so the backup "ok" rests on was no older than
\* MaxAge + MaxCycle when the check ran, not MaxAge (runner/status.go:70).
HealthyIsNearlyCurrent ==
    tracker.checked /\ tracker.healthy =>
        checkedAt - tracker.lastVerified <= MaxAge + MaxCycle

\* A manifest goes only in a cycle that has just proven its own backup, and
\* that backup stays.
PrunesOnlyAfterProof ==
    [][catalog \ catalog' # {} =>
          \/ \A m \in catalog \ catalog' : m.id = now
          \/ NewBackup(TRUE) \in catalog \cap catalog']_vars

\* Coverage that stays lost is paged: an error alert gets through, coverage
\* comes back, or the daemon is told to stop.
Lost == ~CoveredAt(catalog, time)
LossIsPaged == Lost ~> (paged \/ ~Lost \/ stopping)

-----------------------------------------------------------------------------
(* What comments and documents say and the code does not do.               *)

Healthz ==
    IF ~tracker.checked THEN "starting" ELSE IF tracker.healthy THEN "ok" ELSE "unhealthy"

\* docs/operations.md:53: /healthz answers the coverage question.  A check that
\* cannot read the manifests leaves the tracker alone, so "ok" outlives the
\* coverage it was about, one cycle after another.
HealthzTracksCycles == Resting /\ Healthz = "ok" => CoveredAt(catalog, now)

\* docs/configuration.md:133: warn fires when coverage is still healthy but the
\* most recent backup failed verification.  A cycle whose backup failed
\* verification returns before it comes to its warnings.
DegradedIsWarned ==
    Resting /\ ~blind /\ Healthz = "ok" /\ "verify failed" \in raised /\ NewBackup(FALSE) \in catalog
        => "backup coverage degraded" \in raised
=============================================================================
