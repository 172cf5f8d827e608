----------------------------- MODULE Retention -----------------------------
(***************************************************************************)
(* retention.Compute as it runs: the guards, then one pass over the        *)
(* manifests, newest first, that fills the policy's slots.  RetentionPolicy *)
(* says what it should keep.                                               *)
(***************************************************************************)
EXTENDS RetentionPolicy

CONSTANTS Policies, Unset  \* Unset: the empty period before a slot is filled

ASSUME PoliciesTyped == Policies \subseteq [last : Int, daily : Int, weekly : Int, monthly : Int]
ASSUME UnsetIsNoPeriod == Unset \notin Nat

Backups == [id : Stamps, verified : BOOLEAN]
Slots == {"last", "daily", "weekly", "monthly"}

VARIABLES
    ms,     \* the manifests given, and the policy
    pol,
    pc,
    rest,   \* the manifests the pass has not come to
    kept,   \* the manifests with a reason to keep them
    count,  \* slots filled so far
    last    \* the period of the last slot filled

vars == <<ms, pol, pc, rest, kept, count, last>>

TypeOK ==
    /\ ms \subseteq Backups /\ rest \subseteq ms /\ kept \subseteq ms
    /\ pol \in Policies
    /\ pc \in {"guards", "slots", "done"}
    /\ count \in [Slots -> 0..Cardinality(VerifiedOf(ms))]
    /\ last \in [Slots -> Nat \cup {Unset}]

\* Every set of manifests with different ids, under every policy.
Init ==
    /\ \E ids \in SUBSET Stamps : \E proven \in SUBSET ids :
          ms = {[id |-> i, verified |-> i \in proven] : i \in ids}
    /\ pol \in Policies
    /\ pc = "guards"
    /\ rest = ms
    /\ kept = {}
    /\ count = [slot \in Slots |-> 0]
    /\ last = [slot \in Slots |-> Unset]

Guards ==
    /\ pc = "guards"
    /\ IF IsZero(pol) \/ VerifiedOf(ms) = {}
         THEN /\ kept' = ms
              /\ pc' = "done"
         ELSE /\ kept' = {NewestOf(VerifiedOf(ms)), NewestOf(ms)}
              /\ pc' = "slots"
    /\ UNCHANGED <<ms, pol, rest, count, last>>

PeriodOf(slot, m) ==
    CASE slot = "daily"   -> DayOf[m.id]
      [] slot = "weekly"  -> WeekOf[m.id]
      [] slot = "monthly" -> MonthOf[m.id]
      [] slot = "last"    -> m.id

\* Mutants: an unverified backup fills a slot; one slot too many.
FillsUnverified(slot, m) ==
    /\ count[slot] < pol[slot]
    /\ PeriodOf(slot, m) # last[slot]

FillsOneMore(slot, m) ==
    /\ m.verified
    /\ count[slot] <= pol[slot]
    /\ PeriodOf(slot, m) # last[slot]

\* Unverified manifests fill no slot.
Fills(slot, m) ==
    /\ m.verified
    /\ count[slot] < pol[slot]
    /\ PeriodOf(slot, m) # last[slot]

Visit ==
    /\ pc = "slots" /\ rest # {}
    /\ LET m == NewestOf(rest)
           filled == {slot \in Slots : Fills(slot, m)}
       IN  /\ rest' = rest \ {m}
           /\ kept' = IF filled = {} THEN kept ELSE kept \cup {m}
           /\ count' = [slot \in Slots |-> count[slot] + IF slot \in filled THEN 1 ELSE 0]
           /\ last' = [slot \in Slots |-> IF slot \in filled THEN PeriodOf(slot, m) ELSE last[slot]]
    /\ UNCHANGED <<ms, pol, pc>>

Finish ==
    /\ pc = "slots" /\ rest = {}
    /\ pc' = "done"
    /\ UNCHANGED <<ms, pol, rest, kept, count, last>>

Next == Guards \/ Visit \/ Finish

Spec == Init /\ [][Next]_vars

\* The counters and remembered periods of the pass compute the declarative
\* policy: the newest of each of the last n days, weeks and months that have a
\* verified backup, the last n verified, and what the guards add.
ComputesPolicy == pc = "done" => kept = Kept(ms, pol)

\* It does not matter when prunes run: pruning at any second t and again when
\* more backups have been made keeps what one prune at the end keeps.
Until(t) == {m \in ms : m.id <= t}

PruneTimesDoNotMatter ==
    pc = "done" => \A t \in Stamps :
        Kept(Kept(Until(t), pol) \cup (ms \ Until(t)), pol) = Kept(ms, pol)
=============================================================================
