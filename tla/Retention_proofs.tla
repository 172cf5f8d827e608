-------------------------- MODULE Retention_proofs --------------------------
(***************************************************************************)
(* For every catalog, calendar and policy: the pass over the manifests     *)
(* computes the declarative policy, and it does not matter when prunes     *)
(* run.  Both rest on counting leaders by their periods.                   *)
(***************************************************************************)
EXTENDS Retention, FiniteSetTheorems, WellFoundedInduction, TLAPS

\* Manifests with different ids, and periods that are intervals of time.
Catalogs == {S \in SUBSET Backups : \A x, y \in S : x.id = y.id => x = y}

Calendars == {period \in [Stamps -> Nat] : \A s, t \in Stamps : s <= t => period[s] <= period[t]}

PeriodsOf(S, period) == {period[m.id] : m \in S}
After(S, period, q) == {r \in PeriodsOf(S, period) : r > q}

-----------------------------------------------------------------------------
(* Catalogs and their newest members.                                      *)

LEMMA StampsAreNat == Stamps \subseteq Nat /\ IsFiniteSet(Stamps)
  BY MaxTimeIsNatural, FS_Interval DEF Stamps

LEMMA SubCatalog ==
    ASSUME NEW S \in Catalogs, NEW T \in SUBSET S
    PROVE  T \in Catalogs
  BY DEF Catalogs

LEMMA MembersTyped ==
    ASSUME NEW S \in Catalogs, NEW m \in S
    PROVE  m.id \in Stamps /\ m.id \in Nat /\ m.verified \in BOOLEAN
  BY StampsAreNat DEF Catalogs, Backups

LEMMA CatalogsAreFinite ==
    ASSUME NEW S \in Catalogs PROVE IsFiniteSet(S)
  <1> DEFINE f == [m \in S |-> m.id]
  <1>1. f \in Injection(S, Stamps)
    BY MembersTyped DEF Catalogs, Injection, IsInjective
  <1> QED
    BY <1>1, StampsAreNat, FS_Injection

\* A set of natural numbers that is not empty has a least one.
LEMMA LeastNumber ==
    ASSUME NEW T \in SUBSET Nat, T # {}
    PROVE  \E x \in T : \A y \in T : x <= y
  <1>1. PICK x \in T : \A y \in T : ~ (<<y, x>> \in OpToRel(<, Nat))
    BY NatLessThanWellFounded, WFMin, Zenon
  <1>2. \A y \in T : ~ (y < x)
    BY <1>1 DEF OpToRel
  <1> QED
    BY <1>2

LEMMA NewestExists ==
    ASSUME NEW S \in Catalogs, S # {}
    PROVE  /\ NewestOf(S) \in S
           /\ \A m \in S : m.id <= NewestOf(S).id
  <1> DEFINE T == {MaxTime - m.id : m \in S}
  <1>1. \A m \in S : m.id \in Stamps
    BY MembersTyped
  <1>2. T \in SUBSET Nat /\ T # {}
    BY <1>1, MaxTimeIsNatural DEF Stamps
  <1>3. PICK x \in T : \A y \in T : x <= y
    BY <1>2, LeastNumber
  <1>4. PICK m \in S : x = MaxTime - m.id
    BY <1>3
  <1>5. \A n \in S : n.id <= m.id
    <2> TAKE n \in S
    <2>1. MaxTime - m.id <= MaxTime - n.id
      BY <1>3, <1>4
    <2>2. m.id \in Nat /\ n.id \in Nat
      BY <1>1, MaxTimeIsNatural DEF Stamps
    <2> QED
      BY <2>1, <2>2, MaxTimeIsNatural
  <1>6. Newer(S, m) = {}
    BY <1>1, <1>5, MaxTimeIsNatural DEF Newer, Stamps
  <1>7. NewestOf(S) \in S /\ Newer(S, NewestOf(S)) = {}
    BY <1>6 DEF NewestOf
  <1> QED
    BY <1>1, <1>7, MaxTimeIsNatural DEF Newer, Stamps

\* The newest of a catalog is the newest of every part it is in.
LEMMA NewestOfPart ==
    ASSUME NEW S \in Catalogs, NEW T \in SUBSET S, S # {}, NewestOf(S) \in T
    PROVE  NewestOf(T) = NewestOf(S)
  <1>1. T \in Catalogs
    BY SubCatalog
  <1>2. NewestOf(T) \in T /\ NewestOf(S).id <= NewestOf(T).id
    BY <1>1, NewestExists
  <1>3. NewestOf(T).id <= NewestOf(S).id
    BY <1>2, NewestExists
  <1>4. NewestOf(T).id = NewestOf(S).id
    BY <1>2, <1>3, MembersTyped
  <1> QED
    BY <1>2, <1>4 DEF Catalogs

LEMMA ProvenAreSome ==
    ASSUME NEW S \in Catalogs
    PROVE  VerifiedOf(S) \in Catalogs /\ VerifiedOf(S) \in SUBSET S
  <1>1. VerifiedOf(S) \in SUBSET S
    BY DEF VerifiedOf
  <1> QED
    BY <1>1, SubCatalog

-----------------------------------------------------------------------------
(* Leaders, counted by their periods.                                      *)

LEMMA EveryPeriodIsLed ==
    ASSUME NEW S \in Catalogs, NEW period \in Calendars, NEW r \in PeriodsOf(S, period)
    PROVE  \E l \in LeadersOf(S, period) : period[l.id] = r
  <1> DEFINE T == {m \in S : period[m.id] = r}
             l == NewestOf(T)
  <1>1. T \in SUBSET S /\ T # {}
    BY DEF PeriodsOf
  <1>2. T \in Catalogs
    BY <1>1, SubCatalog
  <1>3. l \in T /\ \A m \in T : m.id <= l.id
    BY <1>1, <1>2, NewestExists
  <1>4. ASSUME NEW x \in Newer(S, l) PROVE period[x.id] # period[l.id]
    <2>1. x \in S /\ x.id > l.id
      BY <1>4 DEF Newer
    <2>2. x.id \in Nat /\ l.id \in Nat
      BY <1>3, <2>1, MembersTyped
    <2>3. x \notin T
      BY <1>3, <2>1, <2>2
    <2> QED
      BY <1>3, <2>1, <2>3
  <1> HIDE DEF l
  <1> QED
    BY <1>3, <1>4 DEF LeadersOf

LEMMA OneLeaderEach ==
    ASSUME NEW S \in Catalogs, NEW period,
           NEW l \in LeadersOf(S, period), NEW m \in S,
           period[l.id] = period[m.id]
    PROVE  m.id <= l.id /\ (m \in LeadersOf(S, period) => m = l)
  <1>1. l \in S /\ ~ (m \in Newer(S, l))
    BY DEF LeadersOf
  <1>2. m.id \in Nat /\ l.id \in Nat
    BY <1>1, MembersTyped
  <1>3. m.id <= l.id
    BY <1>1, <1>2 DEF Newer
  <1>4. ASSUME m \in LeadersOf(S, period) PROVE m = l
    <2>1. ~ (l \in Newer(S, m))
      BY <1>4 DEF LeadersOf
    <2>2. m.id = l.id
      BY <1>1, <1>2, <1>3, <2>1 DEF Newer
    <2> QED
      BY <1>1, <2>2 DEF Catalogs
  <1> QED
    BY <1>3, <1>4

\* A leader has as many newer leaders as there are periods after its own.
LEMMA CountByPeriod ==
    ASSUME NEW S \in Catalogs, NEW period \in Calendars, NEW m \in LeadersOf(S, period)
    PROVE  Cardinality(Newer(LeadersOf(S, period), m)) = Cardinality(After(S, period, period[m.id]))
  <1> DEFINE N == Newer(LeadersOf(S, period), m)
             A == After(S, period, period[m.id])
             f == [l \in N |-> period[l.id]]
  <1>1. m \in S /\ N \in SUBSET S
    BY DEF LeadersOf, Newer
  <1>2. \A x \in S : x.id \in Stamps /\ x.id \in Nat /\ period[x.id] \in Nat
    BY MembersTyped DEF Calendars
  <1>3. ASSUME NEW l \in N PROVE f[l] \in A
    <2>1. l \in LeadersOf(S, period) /\ l \in S /\ l.id > m.id /\ l \in Newer(S, m)
      BY <1>1 DEF Newer, LeadersOf
    <2>2. period[l.id] # period[m.id]
      BY <2>1 DEF LeadersOf
    <2>3. period[m.id] <= period[l.id]
      BY <1>1, <1>2, <2>1 DEF Calendars
    <2>4. period[l.id] > period[m.id]
      BY <1>1, <1>2, <2>1, <2>2, <2>3
    <2> QED
      BY <2>1, <2>4 DEF After, PeriodsOf
  <1>4. ASSUME NEW r \in A PROVE \E l \in N : f[l] = r
    <2>1. r \in PeriodsOf(S, period) /\ r > period[m.id]
      BY DEF After
    <2>2. PICK l \in LeadersOf(S, period) : period[l.id] = r
      BY <2>1, EveryPeriodIsLed
    <2>3. l \in S
      BY DEF LeadersOf
    <2>4. ~ (l.id <= m.id)
      BY <1>1, <1>2, <2>1, <2>2, <2>3 DEF Calendars
    <2>5. l \in N
      BY <1>1, <1>2, <2>3, <2>4 DEF Newer
    <2> QED
      BY <2>2, <2>5
  <1>5. ASSUME NEW x \in N, NEW y \in N, f[x] = f[y] PROVE x = y
    <2>1. x \in LeadersOf(S, period) /\ y \in LeadersOf(S, period) /\ y \in S
      BY <1>1 DEF Newer
    <2> QED
      BY <1>5, <2>1, OneLeaderEach
  <1> HIDE DEF A, N
  <1>6. f \in Bijection(N, A)
    BY <1>3, <1>4, <1>5 DEF Bijection, Injection, Surjection, IsInjective
  <1>7. IsFiniteSet(N)
    BY <1>1, CatalogsAreFinite, FS_Subset
  <1> QED
    BY <1>6, <1>7, FS_Bijection DEF ExistsBijection, A, N

LEMMA PeriodsAreFinite ==
    ASSUME NEW S \in Catalogs, NEW period \in Calendars, NEW q \in Nat,
           NEW T \in SUBSET After(S, period, q)
    PROVE  /\ IsFiniteSet(T) /\ Cardinality(T) \in Nat
           /\ Cardinality(T) <= Cardinality(After(S, period, q))
           /\ Cardinality(After(S, period, q)) \in Nat
  <1> DEFINE f == [m \in S |-> period[m.id]]
  <1>1. f \in Surjection(S, PeriodsOf(S, period))
    BY DEF Surjection, PeriodsOf
  <1>2. IsFiniteSet(PeriodsOf(S, period))
    BY <1>1, CatalogsAreFinite, FS_Surjection
  <1>3. After(S, period, q) \in SUBSET PeriodsOf(S, period)
    BY DEF After
  <1>4. IsFiniteSet(After(S, period, q))
    BY <1>2, <1>3, FS_Subset
  <1> QED
    BY <1>4, FS_Subset, FS_CardinalityType

LEMMA SlotsByPeriod ==
    ASSUME NEW S \in Catalogs, NEW period \in Calendars, NEW n \in Int, NEW m
    PROVE  m \in SlotsOf(S, period, n) <=>
             /\ m \in LeadersOf(S, period)
             /\ Cardinality(After(S, period, period[m.id])) < n
  BY CountByPeriod DEF SlotsOf, LastOf

-----------------------------------------------------------------------------
(* Thinning: what a prune may take away without changing later slots.      *)

LEMMA LeadersOfPart ==
    ASSUME NEW S \in Catalogs, NEW T \in SUBSET S, NEW period,
           NEW l \in LeadersOf(S, period), l \in T
    PROVE  l \in LeadersOf(T, period)
  BY DEF LeadersOf, Newer

LEMMA AfterOfPart ==
    ASSUME NEW S, NEW T \in SUBSET S, NEW period, NEW q
    PROVE  After(T, period, q) \in SUBSET After(S, period, q)
  BY DEF After, PeriodsOf

\* D is pruned by a policy with n slots for these periods, B is what is left of A:
\* the n newest periods of A, for any n, still have their leaders in B.
LEMMA LeadersStay ==
    ASSUME NEW A \in Catalogs, NEW D \in SUBSET A, NEW B \in SUBSET A, A \ B \in SUBSET D,
           NEW period \in Calendars, NEW n \in Int, SlotsOf(D, period, n) \in SUBSET B,
           NEW l \in LeadersOf(A, period), Cardinality(After(A, period, period[l.id])) < n
    PROVE  l \in B
  <1> SUFFICES ASSUME l \notin B PROVE FALSE
    OBVIOUS
  <1> DEFINE q == period[l.id]
  <1>1. l \in A /\ l \in D /\ D \in Catalogs
    BY SubCatalog DEF LeadersOf
  <1>2. l \in LeadersOf(D, period)
    BY <1>1, LeadersOfPart
  <1>3. q \in Nat
    BY <1>1, MembersTyped DEF Calendars
  <1>4. After(D, period, q) \in SUBSET After(A, period, q)
    BY AfterOfPart
  <1> HIDE DEF q
  <1>5. /\ Cardinality(After(D, period, q)) <= Cardinality(After(A, period, q))
        /\ Cardinality(After(D, period, q)) \in Nat /\ Cardinality(After(A, period, q)) \in Nat
    BY <1>3, <1>4, PeriodsAreFinite
  <1>6. Cardinality(After(D, period, q)) < n
    BY <1>5 DEF q
  <1>7. l \in SlotsOf(D, period, n)
    BY <1>1, <1>2, <1>6, SlotsByPeriod DEF q
  <1> QED
    BY <1>7

\* So periods of A that B has lost come after no fewer than n that B still has.
LEMMA PeriodsStay ==
    ASSUME NEW A \in Catalogs, NEW D \in SUBSET A, NEW B \in SUBSET A, A \ B \in SUBSET D,
           NEW period \in Calendars, NEW n \in Int, SlotsOf(D, period, n) \in SUBSET B,
           NEW q \in Nat, Cardinality(After(B, period, q)) < n
    PROVE  After(A, period, q) = After(B, period, q)
  <1> DEFINE Lost == After(A, period, q) \ After(B, period, q)
  <1>1. After(B, period, q) \in SUBSET After(A, period, q)
    BY AfterOfPart
  <1>2. SUFFICES ASSUME Lost # {} PROVE FALSE
    BY <1>1
  <1>3. \A x \in A : period[x.id] \in Nat
    BY MembersTyped DEF Calendars
  <1>4. B \in Catalogs /\ D \in Catalogs
    BY SubCatalog
  \* The latest one lost.
  <1>5. PICK r \in Lost : \A s \in Lost : s <= r
    <2>1. PICK bound \in Nat : \A s \in Lost : s \in Nat /\ s <= bound
      <3> DEFINE m == NewestOf(A)
      <3>1. A # {}
        BY <1>2 DEF After, PeriodsOf
      <3>2. m \in A /\ \A x \in A : x.id <= m.id
        BY <3>1, NewestExists
      <3> HIDE DEF m
      <3>3. \A x \in A : period[x.id] <= period[m.id]
        BY <3>2, MembersTyped DEF Calendars
      <3>4. \A s \in Lost : s \in Nat /\ s <= period[m.id]
        BY <1>3, <3>3 DEF After, PeriodsOf
      <3> QED
        BY <1>3, <3>2, <3>4
    <2> DEFINE T == {bound - s : s \in Lost}
    <2> HIDE DEF Lost
    <2>2. T \in SUBSET Nat /\ T # {}
      BY <1>2, <2>1
    <2>3. PICK x \in T : \A y \in T : x <= y
      BY <2>2, LeastNumber
    <2>4. PICK r \in Lost : x = bound - r
      BY <2>3
    <2>5. \A s \in Lost : bound - s \in T
      OBVIOUS
    <2> HIDE DEF T
    <2>6. \A s \in Lost : bound - r <= bound - s
      BY <2>3, <2>4, <2>5
    <2>7. \A s \in Lost : s <= r
      BY <2>1, <2>6
    <2> QED
      BY <2>7
  <1>6. r \in PeriodsOf(A, period) /\ r \in Nat /\ r > q /\ r \notin PeriodsOf(B, period)
    BY <1>3, <1>5 DEF After, PeriodsOf
  <1>7. PICK l \in LeadersOf(A, period) : period[l.id] = r
    BY <1>6, EveryPeriodIsLed
  <1>8. l \notin B
    BY <1>6, <1>7 DEF PeriodsOf
  <1>9. ~ (Cardinality(After(A, period, r)) < n)
    BY <1>7, <1>8, LeadersStay
  <1>10. After(A, period, r) \in SUBSET After(B, period, q)
    <2> SUFFICES ASSUME NEW s \in After(A, period, r) PROVE s \in After(B, period, q)
      OBVIOUS
    <2>1. s \in Nat /\ s > r /\ s \in After(A, period, q)
      BY <1>3, <1>6 DEF After, PeriodsOf
    <2>2. s \notin Lost
      BY <1>5, <1>6, <2>1
    <2> QED
      BY <2>1, <2>2
  <1>11. /\ Cardinality(After(A, period, r)) <= Cardinality(After(B, period, q))
         /\ Cardinality(After(A, period, r)) \in Nat
         /\ Cardinality(After(B, period, q)) \in Nat
    BY <1>4, <1>10, PeriodsAreFinite
  <1> QED
    BY <1>9, <1>11

\* The slots of what an earlier prune has left, with whatever came later, are
\* the slots there would be had it never run.
LEMMA ThinnedSlots ==
    ASSUME NEW A \in Catalogs, NEW D \in SUBSET A, NEW B \in SUBSET A, A \ B \in SUBSET D,
           NEW period \in Calendars, NEW n \in Int, SlotsOf(D, period, n) \in SUBSET B
    PROVE  SlotsOf(B, period, n) = SlotsOf(A, period, n)
  <1>1. B \in Catalogs
    BY SubCatalog
  <1>2. ASSUME NEW m \in SlotsOf(A, period, n) PROVE m \in SlotsOf(B, period, n)
    <2>1. m \in LeadersOf(A, period) /\ Cardinality(After(A, period, period[m.id])) < n
      BY <1>2, SlotsByPeriod
    <2>2. m \in A /\ m \in B
      BY <2>1, LeadersStay DEF LeadersOf
    <2>3. m \in LeadersOf(B, period)
      BY <2>1, <2>2, LeadersOfPart
    <2> DEFINE q == period[m.id]
    <2>4. q \in Nat
      BY <2>2, MembersTyped DEF Calendars
    <2>5. After(B, period, q) \in SUBSET After(A, period, q)
      BY AfterOfPart
    <2>6. Cardinality(After(A, period, q)) < n
      BY <2>1
    <2> HIDE DEF q
    <2>7. Cardinality(After(B, period, q)) < n
      BY <2>4, <2>5, <2>6, PeriodsAreFinite
    <2> QED
      BY <1>1, <2>3, <2>7, SlotsByPeriod DEF q
  <1>3. ASSUME NEW m \in SlotsOf(B, period, n) PROVE m \in SlotsOf(A, period, n)
    <2>1. m \in LeadersOf(B, period) /\ Cardinality(After(B, period, period[m.id])) < n
      BY <1>1, <1>3, SlotsByPeriod
    <2>2. m \in B /\ m \in A
      BY <2>1 DEF LeadersOf
    <2> DEFINE q == period[m.id]
    <2>3. q \in Nat /\ q \in PeriodsOf(A, period)
      BY <2>2, MembersTyped DEF Calendars, PeriodsOf
    <2>4. Cardinality(After(B, period, q)) < n
      BY <2>1
    <2>5. PICK l \in LeadersOf(A, period) : period[l.id] = q
      BY <2>3, EveryPeriodIsLed
    <2> HIDE DEF q
    <2>6. Cardinality(After(A, period, q)) < n
      BY <2>3, <2>4, PeriodsStay
    <2>7. l \in B
      BY <2>5, <2>6, LeadersStay
    <2>8. l \in LeadersOf(B, period)
      BY <2>5, <2>7, LeadersOfPart
    <2>9. l = m
      BY <1>1, <2>1, <2>2, <2>5, <2>8, OneLeaderEach DEF q
    <2> QED
      BY <2>5, <2>6, <2>9, SlotsByPeriod
  <1> QED
    BY <1>2, <1>3 DEF SlotsOf, LastOf

-----------------------------------------------------------------------------
(* The four slots of a policy as slots of periods; "last" is the policy    *)
(* whose periods are the seconds.                                          *)

PerOf(slot) ==
    CASE slot = "daily"   -> DayOf
      [] slot = "weekly"  -> WeekOf
      [] slot = "monthly" -> MonthOf
      [] slot = "last"    -> [t \in Stamps |-> t]

PolicyType == [last : Int, daily : Int, weekly : Int, monthly : Int]

Earned(S, policy, m) ==
    \E slot \in Slots : m \in SlotsOf(VerifiedOf(S), PerOf(slot), policy[slot])

LEMMA SlotsAreCalendars ==
    ASSUME NEW slot \in Slots
    PROVE  /\ PerOf(slot) \in Calendars
           /\ \A m \in Backups : PeriodOf(slot, m) = PerOf(slot)[m.id]
  <1>1. [t \in Stamps |-> t] \in Calendars
    BY StampsAreNat DEF Calendars
  <1>2. DayOf \in Calendars /\ WeekOf \in Calendars /\ MonthOf \in Calendars
    BY PeriodsAreIntervals DEF Calendars
  <1>3. \A m \in Backups : m.id \in Stamps
    BY DEF Backups
  <1> QED
    BY <1>1, <1>2, <1>3 DEF Slots, PerOf, PeriodOf

LEMMA CountsAreIntegers ==
    ASSUME NEW policy \in PolicyType, NEW slot \in Slots
    PROVE  policy[slot] \in Int
  BY DEF PolicyType, Slots

LEMMA LastAsSlots ==
    ASSUME NEW S \in Catalogs, NEW n
    PROVE  SlotsOf(S, PerOf("last"), n) = LastOf(S, n)
  <1>1. PerOf("last") = [t \in Stamps |-> t]
    BY DEF PerOf
  <1>2. LeadersOf(S, PerOf("last")) = S
    BY <1>1, MembersTyped DEF LeadersOf, Newer
  <1> QED
    BY <1>2 DEF SlotsOf

LEMMA KeptBySlots ==
    ASSUME NEW S \in Catalogs, NEW policy \in PolicyType, ~IsZero(policy), VerifiedOf(S) # {}
    PROVE  \A m : m \in Kept(S, policy) <=>
             \/ m = NewestOf(VerifiedOf(S)) \/ m = NewestOf(S)
             \/ Earned(S, policy, m)
  <1> DEFINE P == VerifiedOf(S)
  <1>1. P \in Catalogs
    BY ProvenAreSome
  <1>2. LastOf(P, policy.last) = SlotsOf(P, PerOf("last"), policy["last"])
    BY <1>1, LastAsSlots
  <1>3. /\ SlotsOf(P, DayOf, policy.daily) = SlotsOf(P, PerOf("daily"), policy["daily"])
        /\ SlotsOf(P, WeekOf, policy.weekly) = SlotsOf(P, PerOf("weekly"), policy["weekly"])
        /\ SlotsOf(P, MonthOf, policy.monthly) = SlotsOf(P, PerOf("monthly"), policy["monthly"])
    BY DEF PerOf
  <1>4. Kept(S, policy) = {NewestOf(P), NewestOf(S)}
           \cup SlotsOf(P, PerOf("last"), policy["last"])
           \cup SlotsOf(P, PerOf("daily"), policy["daily"])
           \cup SlotsOf(P, PerOf("weekly"), policy["weekly"])
           \cup SlotsOf(P, PerOf("monthly"), policy["monthly"])
    BY <1>2, <1>3, Zenon DEF Kept
  <1>5. \A m : Earned(S, policy, m) <=>
           \/ m \in SlotsOf(P, PerOf("last"), policy["last"])
           \/ m \in SlotsOf(P, PerOf("daily"), policy["daily"])
           \/ m \in SlotsOf(P, PerOf("weekly"), policy["weekly"])
           \/ m \in SlotsOf(P, PerOf("monthly"), policy["monthly"])
    BY Zenon DEF Earned, Slots
  <1> HIDE DEF P
  <1> QED
    BY <1>4, <1>5, Zenon DEF P

LEMMA KeptIsPart ==
    ASSUME NEW S \in Catalogs, NEW policy \in PolicyType
    PROVE  Kept(S, policy) \in SUBSET S
  <1>1. CASE IsZero(policy) \/ VerifiedOf(S) = {}
    BY <1>1 DEF Kept
  <1>2. CASE ~IsZero(policy) /\ VerifiedOf(S) # {}
    <2>1. /\ VerifiedOf(S) \in Catalogs /\ VerifiedOf(S) \in SUBSET S
      BY ProvenAreSome
    <2>2. NewestOf(VerifiedOf(S)) \in S /\ NewestOf(S) \in S
      BY <1>2, <2>1, NewestExists
    <2>3. \A m : Earned(S, policy, m) => m \in S
      BY <2>1 DEF Earned, SlotsOf, LastOf, LeadersOf
    <2> QED
      BY <1>2, <2>2, <2>3, KeptBySlots
  <1> QED
    BY <1>1, <1>2

\* A prune of all manifests up to some second, before the later ones were made,
\* changes nothing for a prune of what is left with the later ones.
LEMMA EarlierPruneAddsNothing ==
    ASSUME NEW S \in Catalogs, NEW policy \in PolicyType, NEW U \in SUBSET S
    PROVE  Kept(Kept(U, policy) \cup (S \ U), policy) = Kept(S, policy)
  <1> DEFINE X == Kept(U, policy) \cup (S \ U)
  <1>1. U \in Catalogs
    BY SubCatalog
  <1>2. Kept(U, policy) \in SUBSET U
    BY <1>1, KeptIsPart
  <1>3. X \in SUBSET S /\ X \in Catalogs
    BY <1>2, SubCatalog
  <1>4. CASE IsZero(policy) \/ VerifiedOf(U) = {}
    <2>1. Kept(U, policy) = U
      BY <1>4 DEF Kept
    <2>2. X = S
      BY <2>1
    <2> QED
      BY <2>2
  <1>5. CASE ~IsZero(policy) /\ VerifiedOf(U) # {}
    <2> DEFINE A == VerifiedOf(S)
               B == VerifiedOf(X)
               D == VerifiedOf(U)
    <2>1. A \in Catalogs /\ D \in Catalogs /\ D \in SUBSET A /\ B \in SUBSET A /\ A \in SUBSET S
      BY <1>1, <1>3, ProvenAreSome DEF VerifiedOf
    <2>2. A \ B \in SUBSET D
      BY DEF VerifiedOf
    <2>3. \A m : m \in Kept(U, policy) <=>
            m = NewestOf(D) \/ m = NewestOf(U) \/ Earned(U, policy, m)
      BY <1>1, <1>5, KeptBySlots
    <2>4. NewestOf(D) \in D /\ D # {} /\ U # {}
      BY <1>5, <2>1, NewestExists DEF VerifiedOf
    <2>5. NewestOf(D) \in B
      BY <2>3, <2>4 DEF VerifiedOf
    \* The newest stay.
    <2>6. NewestOf(X) = NewestOf(S)
      <3>1. S # {} /\ NewestOf(S) \in S
        BY <2>4, NewestExists
      <3>2. CASE NewestOf(S) \in U
        <4>1. NewestOf(U) = NewestOf(S)
          BY <3>1, <3>2, NewestOfPart
        <4> QED
          BY <1>3, <2>3, <3>1, <4>1, NewestOfPart
      <3>3. CASE NewestOf(S) \notin U
        BY <1>3, <3>1, <3>3, NewestOfPart
      <3> QED
        BY <3>2, <3>3
    <2>7. NewestOf(B) = NewestOf(A)
      <3>1. A # {} /\ NewestOf(A) \in A
        BY <2>1, <2>4, NewestExists
      <3>2. CASE NewestOf(A) \in D
        <4>1. NewestOf(D) = NewestOf(A)
          BY <2>1, <3>1, <3>2, NewestOfPart
        <4> QED
          BY <2>1, <2>5, <3>1, <4>1, NewestOfPart
      <3>3. CASE NewestOf(A) \notin D
        <4>1. NewestOf(A) \in B
          BY <2>2, <3>1, <3>3
        <4> QED
          BY <2>1, <3>1, <4>1, NewestOfPart
      <3> QED
        BY <3>2, <3>3
    \* And so do the slots.
    <2>8. ASSUME NEW slot \in Slots
          PROVE  SlotsOf(B, PerOf(slot), policy[slot]) = SlotsOf(A, PerOf(slot), policy[slot])
      <3>1. PerOf(slot) \in Calendars /\ policy[slot] \in Int
        BY SlotsAreCalendars, CountsAreIntegers
      <3>2. ASSUME NEW m \in SlotsOf(D, PerOf(slot), policy[slot]) PROVE m \in B
        <4>1. m \in D
          BY <3>2 DEF SlotsOf, LastOf, LeadersOf
        <4>2. m \in Kept(U, policy)
          BY <2>3, <3>2 DEF Earned
        <4> QED
          BY <4>1, <4>2 DEF VerifiedOf
      <3>3. SlotsOf(D, PerOf(slot), policy[slot]) \in SUBSET B
        BY <3>2
      <3> HIDE DEF A, B, D
      <3> QED
        BY <2>1, <2>2, <3>1, <3>3, ThinnedSlots
    <2>9. \A m : Earned(X, policy, m) <=> Earned(S, policy, m)
      BY <2>8 DEF Earned
    <2>10. A # {} /\ B # {}
      BY <2>1, <2>4, <2>5
    <2>11. \A m : m \in Kept(X, policy) <=>
             m = NewestOf(B) \/ m = NewestOf(X) \/ Earned(X, policy, m)
      BY <1>3, <1>5, <2>10, KeptBySlots
    <2>12. \A m : m \in Kept(S, policy) <=>
             m = NewestOf(A) \/ m = NewestOf(S) \/ Earned(S, policy, m)
      BY <1>5, <2>10, KeptBySlots
    <2>13. Kept(X, policy) \in SUBSET X /\ Kept(S, policy) \in SUBSET S
      BY <1>3, KeptIsPart
    <2> HIDE DEF A, B, D, X
    <2>14. \A m : m \in Kept(X, policy) <=> m \in Kept(S, policy)
      BY <2>6, <2>7, <2>9, <2>11, <2>12
    <2> QED
      BY <2>13, <2>14 DEF X
  <1> QED
    BY <1>4, <1>5

-----------------------------------------------------------------------------
(* The pass.                                                               *)

Seen == VerifiedOf(ms \ rest)

\* The leaders the pass has come to.
Found(slot) == LeadersOf(VerifiedOf(ms), PerOf(slot)) \cap Seen

\* A slot that is not full has counted them all and remembers the period of the
\* oldest verified backup it has seen.
SlotOK(slot) ==
    /\ count[slot] <= Cardinality(Found(slot))
    /\ count[slot] < pol[slot] =>
          /\ count[slot] = Cardinality(Found(slot))
          /\ Seen = {} => last[slot] = Unset
          /\ Seen # {} => \E o \in Seen :
                (\A x \in Seen : o.id <= x.id) /\ last[slot] = PerOf(slot)[o.id]

StartOK == pc = "guards" =>
    rest = ms /\ count = [slot \in Slots |-> 0] /\ last = [slot \in Slots |-> Unset]

PassOK == pc = "slots" =>
    /\ ~IsZero(pol) /\ VerifiedOf(ms) # {}
    /\ \A m \in rest, x \in ms \ rest : m.id < x.id
    /\ \A slot \in Slots : SlotOK(slot)
    /\ kept = {NewestOf(VerifiedOf(ms)), NewestOf(ms)} \cup {m \in ms \ rest : Earned(ms, pol, m)}

IInv == ms \in Catalogs /\ TypeOK /\ StartOK /\ PassOK /\ ComputesPolicy

LEMMA PoliciesArePolicies == Policies \subseteq PolicyType
  BY PoliciesTyped DEF PolicyType

LEMMA InitOK == Init => IInv
  <1> SUFFICES ASSUME Init PROVE IInv
    OBVIOUS
  <1>1. PICK ids \in SUBSET Stamps : \E proven \in SUBSET ids :
          ms = {[id |-> i, verified |-> i \in proven] : i \in ids}
    BY DEF Init
  <1>2. ms \in Catalogs
    <2>1. PICK proven \in SUBSET ids :
            ms = {[id |-> i, verified |-> i \in proven] : i \in ids}
      BY <1>1
    <2>2. \A i \in ids : [id |-> i, verified |-> i \in proven] \in Backups
      BY DEF Backups
    <2>3. ms \in SUBSET Backups
      BY <2>1, <2>2
    <2>4. \A x, y \in ms : x.id = y.id => x = y
      BY <2>1
    <2> QED
      BY <2>3, <2>4 DEF Catalogs
  <1>3. Cardinality(VerifiedOf(ms)) \in Nat
    BY <1>2, ProvenAreSome, CatalogsAreFinite, FS_CardinalityType
  <1>4. ms \subseteq Backups
    BY <1>2 DEF Catalogs
  <1>5. TypeOK
    BY <1>3, <1>4 DEF Init, TypeOK
  <1>6. StartOK /\ PassOK /\ ComputesPolicy
    BY DEF Init, StartOK, PassOK, ComputesPolicy
  <1> QED
    BY <1>2, <1>5, <1>6 DEF IInv

LEMMA GuardsOK == IInv /\ Guards => IInv'
  <1> SUFFICES ASSUME IInv, Guards PROVE IInv'
    OBVIOUS
  <1> DEFINE P == VerifiedOf(ms)
  <1>1. /\ ms \in Catalogs /\ TypeOK /\ UNCHANGED <<ms, pol, rest, count, last>>
        /\ rest = ms /\ count = [slot \in Slots |-> 0] /\ last = [slot \in Slots |-> Unset]
    BY DEF IInv, Guards, StartOK
  <1>2. CASE IsZero(pol) \/ P = {}
    <2>1. kept' = ms /\ pc' = "done"
      BY <1>2 DEF Guards
    <2>2. TypeOK'
      BY <1>1, <2>1 DEF TypeOK
    <2>3. Kept(ms, pol) = ms
      BY <1>2 DEF Kept
    <2> QED
      BY <1>1, <2>1, <2>2, <2>3 DEF IInv, StartOK, PassOK, ComputesPolicy
  <1>3. CASE ~(IsZero(pol) \/ P = {})
    <2>1. kept' = {NewestOf(P), NewestOf(ms)} /\ pc' = "slots"
      BY <1>3 DEF Guards
    <2>2. NewestOf(P) \in ms /\ NewestOf(ms) \in ms
      <3>1. P \in Catalogs /\ P \in SUBSET ms
        BY <1>1, ProvenAreSome
      <3> QED
        BY <1>1, <1>3, <3>1, NewestExists
    <2>3. TypeOK'
      BY <1>1, <2>1, <2>2 DEF TypeOK
    <2>4. ms' \ rest' = {} /\ Seen' = {}
      BY <1>1 DEF Seen, VerifiedOf
    <2>5. ASSUME NEW slot \in Slots PROVE SlotOK(slot)'
      <3>1. Found(slot)' = {} /\ count'[slot] = 0 /\ last'[slot] = Unset
        BY <1>1, <2>4 DEF Found
      <3>2. Cardinality({}) = 0
        BY FS_EmptySet
      <3> QED
        BY <2>4, <3>1, <3>2 DEF SlotOK
    <2>6. PassOK'
      BY <1>1, <1>3, <2>1, <2>4, <2>5 DEF PassOK
    <2> QED
      BY <1>1, <2>1, <2>3, <2>6 DEF IInv, StartOK, ComputesPolicy
  <1> QED
    BY <1>2, <1>3

\* What is newer than the manifest the pass comes to, it has seen.
LEMMA NextOne ==
    ASSUME IInv, pc = "slots", rest # {}
    PROVE  LET m == NewestOf(rest) IN
           /\ m \in rest /\ m \in ms /\ m \in Backups
           /\ \A x \in rest \ {m}, y \in (ms \ rest) \cup {m} : x.id < y.id
           /\ Newer(VerifiedOf(ms), m) = Seen
           /\ \A y \in ms \ rest : m.id < y.id
  <1> DEFINE m == NewestOf(rest)
  <1>1. /\ ms \in Catalogs /\ rest \in SUBSET ms /\ rest \in Catalogs
        /\ \A x \in rest, y \in ms \ rest : x.id < y.id
    BY SubCatalog DEF IInv, TypeOK, PassOK
  <1>2. m \in rest /\ \A x \in rest : x.id <= m.id
    BY <1>1, NewestExists
  <1> HIDE DEF m
  <1>3. \A x \in rest \ {m} : x.id < m.id
    <2> TAKE x \in rest \ {m}
    <2>1. x.id # m.id
      BY <1>1, <1>2 DEF Catalogs
    <2> QED
      BY <1>1, <1>2, <2>1, MembersTyped
  <1>4. Newer(VerifiedOf(ms), m) = Seen
    <2>1. \A x \in ms : x.id > m.id <=> x \notin rest
      BY <1>1, <1>2, MembersTyped
    <2> QED
      BY <2>1 DEF Newer, VerifiedOf, Seen
  <1> QED
    BY <1>1, <1>2, <1>3, <1>4 DEF m, Catalogs

\* It fills a slot of the pass exactly if the policy keeps it for that slot.
LEMMA FillsIfEarned ==
    ASSUME IInv, pc = "slots", rest # {}, NEW slot \in Slots
    PROVE  Fills(slot, NewestOf(rest)) <=>
             NewestOf(rest) \in SlotsOf(VerifiedOf(ms), PerOf(slot), pol[slot])
  <1> DEFINE m == NewestOf(rest)
             P == VerifiedOf(ms)
             period == PerOf(slot)
  <1>1. m \in rest /\ m \in ms /\ m \in Backups /\ Newer(P, m) = Seen
    BY NextOne
  <1>2. period \in Calendars /\ PeriodOf(slot, m) = period[m.id]
    BY <1>1, SlotsAreCalendars
  <1>3. SlotOK(slot) /\ pol[slot] \in Int /\ count[slot] \in Nat
    <2>1. pol \in PolicyType /\ count \in [Slots -> 0..Cardinality(VerifiedOf(ms))]
      BY PoliciesArePolicies DEF IInv, TypeOK
    <2>2. Cardinality(VerifiedOf(ms)) \in Nat
      BY ProvenAreSome, CatalogsAreFinite, FS_CardinalityType DEF IInv
    <2> QED
      BY <2>1, <2>2, CountsAreIntegers DEF IInv, PassOK
  <1>4. /\ P \in Catalogs /\ Seen \in SUBSET P
        /\ \A x \in P : x.id \in Stamps /\ period[x.id] \in Nat
    <2>1. P \in Catalogs
      BY ProvenAreSome DEF IInv
    <2> QED
      BY <1>2, <2>1, MembersTyped DEF Seen, VerifiedOf, Calendars
  <1>5. CASE ~m.verified
    <2>1. m \notin P
      BY <1>5 DEF VerifiedOf
    <2>2. m \notin SlotsOf(P, period, pol[slot])
      BY <2>1 DEF SlotsOf, LastOf, LeadersOf
    <2> QED
      BY <1>5, <2>2 DEF Fills
  <1>6. CASE m.verified
    <2>1. m \in P
      BY <1>1, <1>6 DEF VerifiedOf
    <2>2. Newer(LeadersOf(P, period), m) = Found(slot)
      BY <1>1 DEF Newer, LeadersOf, Found
    <2>3. m \in LeadersOf(P, period) <=> \A x \in Seen : period[x.id] # period[m.id]
      BY <1>1, <2>1 DEF LeadersOf
    <2>4. /\ Cardinality(Found(slot)) \in Nat
          /\ count[slot] < pol[slot] <=> Cardinality(Found(slot)) < pol[slot]
      <3>1. Found(slot) \in SUBSET P
        BY <1>4 DEF Found
      <3>2. Cardinality(Found(slot)) \in Nat
        BY <1>4, <3>1, SubCatalog, CatalogsAreFinite, FS_CardinalityType
      <3> QED
        BY <1>3, <3>2 DEF SlotOK
    <2>5. ASSUME count[slot] < pol[slot]
          PROVE  period[m.id] # last[slot] <=> \A x \in Seen : period[x.id] # period[m.id]
      <3>1. CASE Seen = {}
        <4>1. last[slot] = Unset /\ period[m.id] \in Nat
          BY <1>3, <1>4, <2>1, <2>5, <3>1 DEF SlotOK
        <4> QED
          BY <3>1, <4>1, UnsetIsNoPeriod
      <3>2. CASE Seen # {}
        <4>1. PICK o \in Seen : (\A x \in Seen : o.id <= x.id) /\ last[slot] = period[o.id]
          BY <1>3, <2>5, <3>2 DEF SlotOK
        <4>2. /\ m.id \in Stamps /\ o.id \in Stamps /\ m.id < o.id
              /\ period[m.id] \in Nat /\ period[o.id] \in Nat
          BY <1>1, <1>4, <2>1, MembersTyped DEF Newer
        <4>3. period[m.id] <= period[o.id]
          <5> HIDE DEF m, period
          <5>1. m.id <= o.id
            BY <4>2, MaxTimeIsNatural DEF Stamps
          <5> QED
            BY <1>2, <4>2, <5>1 DEF Calendars
        <4>4. \A x \in Seen : period[x.id] \in Nat /\ period[o.id] <= period[x.id]
          BY <1>2, <1>4, <4>1, <4>2 DEF Calendars
        <4> HIDE DEF period
        <4> QED
          BY <4>1, <4>2, <4>3, <4>4
      <3> QED
        BY <3>1, <3>2
    <2>6. m \in SlotsOf(P, period, pol[slot]) <=>
            m \in LeadersOf(P, period) /\ Cardinality(Found(slot)) < pol[slot]
      BY <2>2 DEF SlotsOf, LastOf
    <2> HIDE DEF m, P, period
    <2>7. Fills(slot, m) <=> count[slot] < pol[slot] /\ period[m.id] # last[slot]
      BY <1>2, <1>6 DEF Fills
    <2>8. Fills(slot, m) <=> m \in SlotsOf(P, period, pol[slot])
      BY <2>3, <2>4, <2>5, <2>6, <2>7
    <2> QED
      BY <2>8 DEF m, P, period
  <1> QED
    BY <1>5, <1>6

LEMMA VisitSlot ==
    ASSUME IInv, Visit, NEW slot \in Slots
    PROVE  SlotOK(slot)' /\ count'[slot] \in 0..Cardinality(VerifiedOf(ms))
  <1> DEFINE m == NewestOf(rest)
             P == VerifiedOf(ms)
             period == PerOf(slot)
             filled == {sl \in Slots : Fills(sl, m)}
  <1>1. /\ pc = "slots" /\ rest # {} /\ UNCHANGED <<ms, pol>>
        /\ rest' = rest \ {m}
        /\ count' = [sl \in Slots |-> count[sl] + IF sl \in filled THEN 1 ELSE 0]
        /\ last' = [sl \in Slots |-> IF sl \in filled THEN PeriodOf(sl, m) ELSE last[sl]]
    BY DEF Visit
  <1>2. /\ m \in rest /\ m \in ms /\ m \in Backups /\ Newer(P, m) = Seen
        /\ \A y \in ms \ rest : m.id < y.id
    BY <1>1, NextOne
  <1>3. Fills(slot, m) <=> m \in SlotsOf(P, period, pol[slot])
    BY <1>1, FillsIfEarned
  <1>4. /\ P \in Catalogs /\ rest \in SUBSET ms /\ SlotOK(slot)
        /\ pol[slot] \in Int /\ count[slot] \in Nat
    <2>1. P \in Catalogs /\ Cardinality(P) \in Nat
      BY ProvenAreSome, CatalogsAreFinite, FS_CardinalityType DEF IInv
    <2>2. pol \in PolicyType /\ count \in [Slots -> 0..Cardinality(P)] /\ rest \in SUBSET ms
      BY PoliciesArePolicies DEF IInv, TypeOK
    <2>3. count[slot] \in Nat
      BY <2>1, <2>2
    <2> QED
      BY <1>1, <2>1, <2>2, <2>3, CountsAreIntegers DEF IInv, PassOK
  <1>5. PeriodOf(slot, m) = period[m.id]
    BY <1>2, SlotsAreCalendars
  <1>6. Seen' = IF m.verified THEN Seen \cup {m} ELSE Seen
    BY <1>1, <1>2 DEF Seen, VerifiedOf
  <1>7. m \in P <=> m.verified
    BY <1>2 DEF VerifiedOf
  <1>8. m \notin Seen
    BY <1>2 DEF Seen, VerifiedOf
  <1>9. Found(slot)' = IF m \in LeadersOf(P, period) THEN Found(slot) \cup {m} ELSE Found(slot)
    BY <1>1, <1>6, <1>7 DEF Found, LeadersOf
  <1>10. /\ m \notin Found(slot) /\ Cardinality(Found(slot)) \in Nat /\ Cardinality(Found(slot)') \in Nat
         /\ Cardinality(Found(slot)') <= Cardinality(P)
         /\ Cardinality(Found(slot)') = Cardinality(Found(slot))
              + IF m \in LeadersOf(P, period) THEN 1 ELSE 0
    <2>1. Found(slot) \in SUBSET P /\ Found(slot)' \in SUBSET P /\ m \notin Found(slot)
      BY <1>8, <1>9 DEF Found, LeadersOf
    <2>2. IsFiniteSet(P)
      BY <1>4, CatalogsAreFinite
    <2>3. IsFiniteSet(Found(slot)) /\ IsFiniteSet(Found(slot)')
          /\ Cardinality(Found(slot)') <= Cardinality(P)
      BY <2>1, <2>2, FS_Subset
    <2>4. Cardinality(Found(slot)) \in Nat /\ Cardinality(Found(slot)') \in Nat
      BY <2>3, FS_CardinalityType
    <2>5. Cardinality(Found(slot) \cup {m}) = Cardinality(Found(slot)) + 1
      BY <2>1, <2>3, FS_AddElement
    <2> QED
      BY <1>9, <2>1, <2>3, <2>4, <2>5
  <1>11. m.verified => \A x \in Seen' : m.id <= x.id
    <2>1. \A x \in Seen : m.id < x.id
      BY <1>2 DEF Seen, VerifiedOf
    <2>2. \A x \in Seen : x.id \in Nat
      <3>1. Seen \in SUBSET P
        BY DEF Seen, VerifiedOf
      <3> QED
        BY <1>4, <3>1, MembersTyped
    <2>3. m.id \in Nat
      BY <1>2, StampsAreNat DEF Backups
    <2> QED
      BY <1>6, <2>1, <2>2, <2>3
  <1>12. m \in SlotsOf(P, period, pol[slot]) <=>
           m \in LeadersOf(P, period) /\ Cardinality(Found(slot)) < pol[slot]
    <2>1. Newer(LeadersOf(P, period), m) = Found(slot)
      BY <1>2 DEF Newer, LeadersOf, Found
    <2> QED
      BY <2>1 DEF SlotsOf, LastOf
  <1>13. m \in LeadersOf(P, period) => m.verified
    BY <1>7 DEF LeadersOf
  <1> HIDE DEF m, P, period
  <1>14. CASE Fills(slot, m)
    <2>1. /\ count'[slot] = count[slot] + 1 /\ last'[slot] = period[m.id]
          /\ count[slot] < pol[slot] /\ m \in LeadersOf(P, period) /\ m.verified
      BY <1>1, <1>3, <1>5, <1>12, <1>14 DEF Fills
    <2>2. /\ count'[slot] <= Cardinality(Found(slot)')
          /\ count'[slot] = Cardinality(Found(slot)')
      BY <1>4, <1>10, <2>1 DEF SlotOK
    <2>3. m \in Seen' /\ Seen' # {}
      BY <1>6, <2>1
    <2>4. PerOf(slot)' = period
      BY DEF PerOf, period
    <2> QED
      BY <1>1, <1>4, <1>10, <1>11, <2>1, <2>2, <2>3, <2>4 DEF SlotOK, P
  <1>15. CASE ~Fills(slot, m)
    <2>1. count'[slot] = count[slot] /\ last'[slot] = last[slot]
      BY <1>1, <1>4, <1>15
    <2>2. count[slot] <= Cardinality(Found(slot)) /\ count'[slot] <= Cardinality(Found(slot)')
      BY <1>4, <1>10, <2>1 DEF SlotOK
    <2>3. PerOf(slot)' = period /\ PerOf(slot) = period
      BY DEF PerOf, period
    <2>4. ASSUME count[slot] < pol[slot]
          PROVE  /\ count[slot] = Cardinality(Found(slot)')
                 /\ Seen' = {} => last[slot] = Unset
                 /\ Seen' # {} => \E o \in Seen' :
                      (\A x \in Seen' : o.id <= x.id) /\ last[slot] = period[o.id]
      <3>1. /\ count[slot] = Cardinality(Found(slot))
            /\ Seen = {} => last[slot] = Unset
            /\ Seen # {} => \E o \in Seen :
                      (\A x \in Seen : o.id <= x.id) /\ last[slot] = period[o.id]
        BY <1>4, <2>3, <2>4 DEF SlotOK
      <3>2. m \notin LeadersOf(P, period)
        BY <1>3, <1>12, <1>15, <2>4, <3>1
      <3>3. count[slot] = Cardinality(Found(slot)')
        BY <1>10, <3>1, <3>2
      <3>4. CASE m.verified
        <4>1. last[slot] = period[m.id] /\ m \in Seen'
          BY <1>5, <1>6, <1>15, <2>4, <3>4 DEF Fills
        <4> QED
          BY <1>11, <3>3, <3>4, <4>1
      <3>5. CASE ~m.verified
        BY <1>6, <3>1, <3>3, <3>5
      <3> QED
        BY <3>4, <3>5
    <2>5. pol' = pol /\ count' [slot] = count[slot] /\ last' [slot] = last[slot]
      BY <1>1, <2>1
    <2> DEFINE found == Cardinality(Found(slot)')
    <2>6. /\ count[slot] <= found
          /\ count[slot] < pol[slot] =>
                /\ count[slot] = found
                /\ Seen' = {} => last[slot] = Unset
                /\ Seen' # {} => \E o \in Seen' :
                     (\A x \in Seen' : o.id <= x.id) /\ last[slot] = period[o.id]
      BY <2>1, <2>2, <2>4
    <2>7. SlotOK(slot)'
      BY <2>3, <2>5, <2>6, Zenon DEF SlotOK
    <2>8. count[slot] \in 0..Cardinality(P)
      <3>1. Cardinality(P) \in Nat
        BY <1>4, CatalogsAreFinite, FS_CardinalityType
      <3> HIDE DEF found
      <3> QED
        BY <1>4, <1>10, <2>1, <2>2, <3>1
    <2> QED
      BY <2>5, <2>7, <2>8 DEF P
  <1> QED
    BY <1>14, <1>15

LEMMA VisitOK == IInv /\ Visit => IInv'
  <1> SUFFICES ASSUME IInv, Visit PROVE IInv'
    OBVIOUS
  <1> DEFINE m == NewestOf(rest)
             filled == {slot \in Slots : Fills(slot, m)}
  <1>1. /\ pc = "slots" /\ rest # {} /\ UNCHANGED <<ms, pol, pc>>
        /\ rest' = rest \ {m}
        /\ kept' = IF filled = {} THEN kept ELSE kept \cup {m}
    BY DEF Visit
  <1>2. /\ m \in rest /\ m \in ms
        /\ \A x \in rest \ {m}, y \in (ms \ rest) \cup {m} : x.id < y.id
    BY <1>1, NextOne
  <1>3. \A slot \in Slots : SlotOK(slot)' /\ count'[slot] \in 0..Cardinality(VerifiedOf(ms))
    BY VisitSlot
  <1>4. TypeOK /\ ms \in Catalogs
    BY DEF IInv
  <1>5. TypeOK'
    <2>1. rest' \subseteq ms /\ kept' \subseteq ms
      BY <1>1, <1>2, <1>4 DEF TypeOK
    <2>2. count' \in [Slots -> 0..Cardinality(VerifiedOf(ms))]
      BY <1>3, Zenon DEF Visit
    <2>3. last' \in [Slots -> Nat \cup {Unset}]
      <3>1. ASSUME NEW slot \in Slots PROVE PeriodOf(slot, m) \in Nat
        <4>1. m \in Backups /\ m.id \in Stamps
          BY <1>2, <1>4 DEF TypeOK, Backups
        <4> QED
          BY <4>1, SlotsAreCalendars DEF Calendars
      <3>2. last' = [slot \in Slots |-> IF slot \in filled THEN PeriodOf(slot, m) ELSE last[slot]]
        BY DEF Visit
      <3>3. last \in [Slots -> Nat \cup {Unset}]
        BY <1>4 DEF TypeOK
      <3> HIDE DEF filled, m
      <3> QED
        BY <3>1, <3>2, <3>3
    <2> QED
      BY <1>1, <1>4, <2>1, <2>2, <2>3 DEF TypeOK
  <1>6. filled # {} <=> Earned(ms, pol, m)
    BY <1>1, FillsIfEarned DEF Earned
  <1>7. kept' = {NewestOf(VerifiedOf(ms)), NewestOf(ms)} \cup {x \in ms \ rest' : Earned(ms, pol, x)}
    <2>1. kept = {NewestOf(VerifiedOf(ms)), NewestOf(ms)} \cup {x \in ms \ rest : Earned(ms, pol, x)}
      BY <1>1 DEF IInv, PassOK
    <2>2. ms \ rest' = (ms \ rest) \cup {m}
      BY <1>1, <1>2
    <2> HIDE DEF m, filled
    <2> QED
      BY <1>1, <1>6, <2>1, <2>2
  <1>8. PassOK'
    <2>1. \A x \in rest', y \in ms \ rest' : x.id < y.id
      BY <1>1, <1>2
    <2>2. ~IsZero(pol) /\ VerifiedOf(ms) # {}
      BY <1>1 DEF IInv, PassOK
    <2>3. \A slot \in Slots : SlotOK(slot)'
      BY <1>3
    <2>4. {x \in ms \ rest' : Earned(ms, pol, x)} = {x \in ms' \ rest' : Earned(ms', pol', x)}
      BY <1>1
    <2> QED
      BY <1>1, <1>7, <2>1, <2>2, <2>3, <2>4 DEF PassOK
  <1> QED
    BY <1>1, <1>4, <1>5, <1>8 DEF IInv, StartOK, ComputesPolicy

LEMMA FinishOK == IInv /\ Finish => IInv'
  <1> SUFFICES ASSUME IInv, Finish PROVE IInv'
    OBVIOUS
  <1>1. /\ pc = "slots" /\ rest = {} /\ pc' = "done"
        /\ UNCHANGED <<ms, pol, rest, kept, count, last>> /\ ms \in Catalogs
    BY DEF Finish, IInv
  <1>2. pol \in PolicyType
    BY PoliciesArePolicies DEF IInv, TypeOK
  <1>3. /\ ~IsZero(pol) /\ VerifiedOf(ms) # {}
        /\ kept = {NewestOf(VerifiedOf(ms)), NewestOf(ms)} \cup {m \in ms : Earned(ms, pol, m)}
    BY <1>1 DEF IInv, PassOK
  <1>4. Kept(ms, pol) \in SUBSET ms
    BY <1>1, <1>2, KeptIsPart
  <1>5. \A m : m \in Kept(ms, pol) <=>
          m = NewestOf(VerifiedOf(ms)) \/ m = NewestOf(ms) \/ Earned(ms, pol, m)
    BY <1>1, <1>2, <1>3, KeptBySlots
  <1>6. kept = Kept(ms, pol)
    BY <1>3, <1>4, <1>5
  <1>7. TypeOK'
    BY <1>1 DEF IInv, TypeOK
  <1> QED
    BY <1>1, <1>6, <1>7 DEF IInv, StartOK, PassOK, ComputesPolicy

LEMMA StepOK == IInv /\ [Next]_vars => IInv'
  <1>1. IInv /\ UNCHANGED vars => IInv'
    <2> SUFFICES ASSUME IInv, UNCHANGED vars PROVE IInv'
      OBVIOUS
    <2> USE DEF vars
    <2>1. TypeOK'
      BY DEF IInv, TypeOK
    <2>2. StartOK' /\ ComputesPolicy'
      BY DEF IInv, StartOK, ComputesPolicy
    <2>3. ASSUME NEW slot \in Slots, SlotOK(slot) PROVE SlotOK(slot)'
      BY <2>3 DEF SlotOK, Found, Seen
    <2>4. PassOK'
      BY <2>3 DEF IInv, PassOK
    <2> QED
      BY <2>1, <2>2, <2>4 DEF IInv
  <1> QED
    BY <1>1, GuardsOK, VisitOK, FinishOK DEF Next

LEMMA Invariance == Spec => []IInv
  BY InitOK, StepOK, PTL DEF Spec

-----------------------------------------------------------------------------
(* Theorems.                                                               *)

\* The counters of the pass never pass the number of verified backups, and the
\* other variables keep their types.
THEOREM TypeCorrect == Spec => []TypeOK
  <1>1. IInv => TypeOK
    BY DEF IInv
  <1> QED
    BY <1>1, Invariance, PTL

\* The loop of Compute keeps what the policy says, for every catalog, calendar
\* and policy, negative counts included (retention.go:78).
THEOREM PassComputesPolicy == Spec => []ComputesPolicy
  <1>1. IInv => ComputesPolicy
    BY DEF IInv
  <1> QED
    BY <1>1, Invariance, PTL

\* Pruning after every backup keeps what one prune at the end would keep.
THEOREM PrunesCompose == Spec => []PruneTimesDoNotMatter
  <1>1. IInv => PruneTimesDoNotMatter
    <2> SUFFICES ASSUME IInv, NEW t \in Stamps
                 PROVE  Kept(Kept(Until(t), pol) \cup (ms \ Until(t)), pol) = Kept(ms, pol)
      BY DEF PruneTimesDoNotMatter
    <2>1. ms \in Catalogs /\ pol \in PolicyType
      BY PoliciesArePolicies DEF IInv, TypeOK
    <2>2. Until(t) \in SUBSET ms
      BY DEF Until
    <2> QED
      BY <2>1, <2>2, EarlierPruneAddsNothing
  <1> QED
    BY <1>1, Invariance, PTL
=============================================================================
