-------------------------- MODULE RetentionPolicy --------------------------
(***************************************************************************)
(* The grandfather-father-son policy of internal/retention, stated         *)
(* declaratively: which manifests of a set a policy keeps and which it     *)
(* removes.  Retention.tla has the loop the code runs to compute it;       *)
(* Backwyn.tla uses the result inside a store other commands change.       *)
(*                                                                         *)
(* A manifest is a record with at least the fields id and verified.  Its   *)
(* id is its creation second, so "created after" is "has a larger id".     *)
(***************************************************************************)
EXTENDS Integers, FiniteSets

CONSTANTS
    MaxTime,  \* bound: the last second of the modelled history
    DayOf,    \* the calendar day, ISO week and month of each second
    WeekOf,
    MonthOf

Stamps == 0..MaxTime

\* Calendar periods are intervals of time: a later second is in the same or a
\* later period.
ASSUME MaxTimeIsNatural == MaxTime \in Nat

ASSUME PeriodsAreIntervals ==
    \A period \in {DayOf, WeekOf, MonthOf} :
        /\ period \in [Stamps -> Nat]
        /\ \A s, t \in Stamps : s <= t => period[s] <= period[t]

VerifiedOf(ms) == {m \in ms : m.verified}

Newer(ms, m) == {x \in ms : x.id > m.id}

NewestOf(ms) == CHOOSE m \in ms : Newer(ms, m) = {}

\* The n newest of ms.
LastOf(ms, n) == {m \in ms : Cardinality(Newer(ms, m)) < n}

\* The newest of ms in each period.
LeadersOf(ms, period) ==
    {m \in ms : \A x \in Newer(ms, m) : period[x.id] # period[m.id]}

SlotsOf(ms, period, n) == LastOf(LeadersOf(ms, period), n)

\* A policy says how many of the last, daily, weekly and monthly backups to
\* keep.  The counts are command line integers: nothing rejects negative ones.
IsZero(pol) == \A slot \in {"last", "daily", "weekly", "monthly"} : pol[slot] = 0

\* Mutants: the newest verified backup, or the newest one, has no guard.
KeptWithoutSafetyNet(ms, pol) ==
    LET proven == VerifiedOf(ms) IN
    IF IsZero(pol) \/ proven = {}
      THEN ms
      ELSE {NewestOf(ms)}
           \cup LastOf(proven, pol.last)
           \cup UNION {SlotsOf(proven, DayOf, pol.daily),
                       SlotsOf(proven, WeekOf, pol.weekly),
                       SlotsOf(proven, MonthOf, pol.monthly)}

KeptWithoutNewest(ms, pol) ==
    LET proven == VerifiedOf(ms) IN
    IF IsZero(pol) \/ proven = {}
      THEN ms
      ELSE {NewestOf(proven)} \cup LastOf(proven, pol.last) \cup SlotsOf(proven, DayOf, pol.daily)

Kept(ms, pol) ==
    LET proven == VerifiedOf(ms) IN
    IF IsZero(pol) \/ proven = {}
      THEN ms
      ELSE {NewestOf(proven), NewestOf(ms)}
           \cup LastOf(proven, pol.last)
           \cup SlotsOf(proven, DayOf, pol.daily)
           \cup SlotsOf(proven, WeekOf, pol.weekly)
           \cup SlotsOf(proven, MonthOf, pol.monthly)

Removed(ms, pol) == ms \ Kept(ms, pol)
=============================================================================
