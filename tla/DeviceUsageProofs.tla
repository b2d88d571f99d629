------------------------- MODULE DeviceUsageProofs -------------------------
(***************************************************************************)
(* The device ledger for any devices, months, retention and bounds: the    *)
(* types, the exactness and availability of reports, the exactness of      *)
(* invoices, and what pruning may do to an active enrollment.              *)
(***************************************************************************)
EXTENDS DeviceUsage, FiniteSetTheorems, SequenceTheorems, WellFoundedInduction, TLAPS

-----------------------------------------------------------------------------
(* The invariant. *)

\* The number of enrollments at tick t, from the whole history.
EnrolledAt(t) == Count({e \in recorded : e.at <= t})

\* The history is numbered without gaps in the order of its timestamps, and no
\* transaction under way has a timestamp before its end.
LedgerInv ==
    /\ \A e \in recorded : e.seq \in 1..stream /\ e.gen \in 1..stream /\ e.at <= since
    /\ \A n \in 1..stream : \E e \in recorded : e.seq = n
    /\ \A e, f \in recorded : e.seq = f.seq => e = f
    /\ \A e, f \in recorded : e.seq < f.seq => e.at <= f.at

CountInv ==
    /\ Count(recorded) = Cardinality(activeEnrollments)
    /\ \A t \in Ticks : EnrolledAt(t) \in 0..Cardinality(Devices)

\* The generation of an enrollment row was started and not revoked, and no
\* other row has it.
EnrolInv ==
    /\ \A d \in activeEnrollments :
        /\ \E e \in recorded : e.gen = enrolled[d] /\ e.seq = e.gen
        /\ \A e \in recorded : e.gen = enrolled[d] => e.kind = "enrolled" /\ e.seq = e.gen
    /\ \A d, o \in activeEnrollments : enrolled[d] = enrolled[o] => d = o

\* Pruned are whole months, and only behind the latest checkpoint.
PruneInv ==
    /\ events = {e \in recorded : \A m \in pruned : e.at \notin MonthTicks(m)}
    /\ \A m \in pruned : MonthEnd(m) - 1 <= Latest.boundary

\* A checkpoint stands for the history up to its boundary, the end of a month.
Stands(c) ==
    /\ \E m \in Months : c.boundary = MonthEnd(m) - 1
    /\ \A e \in recorded : e.at <= c.boundary <=> e.seq <= c.seq
    /\ c.count = EnrolledAt(c.boundary)
    /\ c.seq <= stream

CheckpointInv ==
    /\ \A i \in DOMAIN checkpoints : Stands(checkpoints[i])
    /\ \A i, j \in DOMAIN checkpoints : i < j => checkpoints[i].boundary < checkpoints[j].boundary

TimeInv == since <= now /\ now - MaxOpen <= since

\* Periods follow each other; only the current one of an enabled collection
\* is open, and it is complete so far.
PeriodInv ==
    /\ Len(periods) \in 1..MaxPeriods /\ unseen \subseteq 1..Len(periods)
    /\ \A i \in DOMAIN periods :
        /\ periods[i].start <= since
        /\ i < Len(periods) \/ ~enabled => periods[i].end <= since
    /\ enabled => periods[Len(periods)].end = Open /\ periods[Len(periods)].complete
    /\ \A i, j \in DOMAIN periods : i < j => periods[i].end <= periods[j].start

\* While a period is complete the history has the members, and the members
\* have not changed since the last transaction.
TruthInv ==
    /\ \A t \in Ticks : \A i \in Covering(t) :
        periods[i].complete /\ i \notin unseen => truth[t] = EnrolledAt(t)
    /\ enabled => \A t \in Ticks : t >= since => truth[t] = Cardinality(members)

\* No transaction can reach back into the month of a sound invoice.
InvoiceInv ==
    \A m \in Months :
        invoices[m].drawn /\ invoices[m].sound =>
            /\ MonthEnd(m) <= since
            /\ \A t \in MonthTicks(m) : invoices[m].devices[t] = truth[t]

\* The checkpoint c, or the beginning, stands for the history up to its base,
\* which is not after a.
Base(c) == IF c.seq = 0 THEN -1 ELSE c.boundary
Based(c, a) ==
    /\ Base(c) <= a /\ c.seq <= stream /\ c.count = EnrolledAt(Base(c))
    /\ \A e \in recorded : e.at <= Base(c) <=> e.seq <= c.seq

\* Only invoiced months are pruned, so the month of a draft has its events.
\* While a draft may still become a sound invoice, no transaction can reach back
\* into its month, and what it has read stands for the history.
DraftInv ==
    /\ \A m \in pruned : invoices[m].drawn
    /\ draft.step # "none" => ~invoices[draft.month].drawn
    /\ draft.step # "none" /\ draft.sound =>
        /\ MonthEnd(draft.month) <= since
        /\ \A t \in MonthTicks(draft.month) : truth[t] = EnrolledAt(t)
        /\ draft.step # "checkpoint" => Based(draft.from, MonthStart(draft.month))
        /\ draft.step = "events" => draft.count = EnrolledAt(MonthStart(draft.month))

IInv ==
    /\ TypeOK /\ LedgerInv /\ CountInv /\ EnrolInv /\ PruneInv /\ CheckpointInv
    /\ TimeInv /\ PeriodInv /\ TruthInv /\ InvoiceInv /\ DraftInv

-----------------------------------------------------------------------------
(* Counting events. *)

LEMMA EventFinite == ASSUME NEW es \in SUBSET event PROVE IsFiniteSet(es)
<1> DEFINE A == 1..MaxSeq
           K == {"enrolled", "revoked"}
           P == A \X (A \X (K \X Ticks))
           f == [q \in P |-> [seq |-> q[1], gen |-> q[2][1], kind |-> q[2][2][1],
                              at |-> q[2][2][2]]]
<1>1. IsFiniteSet(A) /\ IsFiniteSet(Ticks)
  BY FS_Interval, DeviceUsageAssumption DEF Ticks
<1>2. IsFiniteSet(K)
  <2>1. IsFiniteSet({"enrolled"}) /\ IsFiniteSet({"enrolled"} \cup {"revoked"})
    BY FS_Singleton, FS_Union
  <2>2. K = {"enrolled"} \cup {"revoked"}
    OBVIOUS
  <2> QED BY <2>1, <2>2
<1>3. IsFiniteSet(P)
  <2> HIDE DEF A, K
  <2>1. IsFiniteSet(K \X Ticks)
    BY <1>1, <1>2, FS_Product
  <2>2. IsFiniteSet(A \X (K \X Ticks))
    BY <1>1, <2>1, FS_Product
  <2> QED BY <1>1, <2>2, FS_Product
<1>4. f \in Surjection(P, event)
  <2>1. f \in [P -> event]
    BY DEF event
  <2>2. \A e \in event : \E q \in P : f[q] = e
    <3> TAKE e \in event
    <3>1. <<e.seq, <<e.gen, <<e.kind, e.at>>>>>> \in P
      BY DEF event
    <3>2. f[<<e.seq, <<e.gen, <<e.kind, e.at>>>>>>] = e
      BY <3>1 DEF event
    <3> QED BY <3>1, <3>2
  <2> QED BY <2>1, <2>2 DEF Surjection
<1> HIDE DEF P, f
<1>5. IsFiniteSet(event)
  BY <1>3, <1>4, FS_Surjection
<1> QED BY <1>5, FS_Subset

LEMMA CountType ==
    ASSUME NEW es \in SUBSET event
    PROVE  Count(es) \in Int /\ Cardinality(es) \in Nat
<1> DEFINE A == {e \in es : e.kind = "enrolled"}
           B == {e \in es : e.kind = "revoked"}
<1>1. A \in SUBSET event /\ B \in SUBSET event
  OBVIOUS
<1> HIDE DEF A, B
<1>2. IsFiniteSet(A) /\ IsFiniteSet(B) /\ IsFiniteSet(es)
  BY <1>1, EventFinite
<1>3. Cardinality(A) \in Nat /\ Cardinality(B) \in Nat /\ Cardinality(es) \in Nat
  BY <1>2, FS_CardinalityType
<1>4. Count(es) = Cardinality(A) - Cardinality(B)
  BY DEF Count, A, B
<1> QED BY <1>3, <1>4

LEMMA DisjointUnion ==
    ASSUME NEW A, NEW B, IsFiniteSet(A), IsFiniteSet(B), A \cap B = {}
    PROVE  /\ Cardinality(A \cup B) = Cardinality(A) + Cardinality(B)
           /\ Cardinality(A) \in Nat /\ Cardinality(B) \in Nat
<1>1. /\ Cardinality(A) \in Nat /\ Cardinality(B) \in Nat
      /\ Cardinality({}) = 0
  BY FS_CardinalityType, FS_EmptySet
<1>2. Cardinality(A \cup B) = Cardinality(A) + Cardinality(B) - Cardinality({})
  BY FS_Union
<1> QED BY <1>1, <1>2

LEMMA CountUnion ==
    ASSUME NEW es \in SUBSET event, NEW fs \in SUBSET event, es \cap fs = {}
    PROVE  Count(es \cup fs) = Count(es) + Count(fs)
<1> DEFINE On(S) == {e \in S : e.kind = "enrolled"}
           Off(S) == {e \in S : e.kind = "revoked"}
<1>1. /\ On(es \cup fs) = On(es) \cup On(fs) /\ On(es) \cap On(fs) = {}
      /\ Off(es \cup fs) = Off(es) \cup Off(fs) /\ Off(es) \cap Off(fs) = {}
  OBVIOUS
<1>2. /\ On(es) \in SUBSET event /\ On(fs) \in SUBSET event
      /\ Off(es) \in SUBSET event /\ Off(fs) \in SUBSET event
  OBVIOUS
<1>3. \A S : Count(S) = Cardinality(On(S)) - Cardinality(Off(S))
  BY DEF Count
<1> HIDE DEF On, Off
<1>4. /\ IsFiniteSet(On(es)) /\ IsFiniteSet(On(fs))
      /\ IsFiniteSet(Off(es)) /\ IsFiniteSet(Off(fs))
  BY <1>2, EventFinite
<1>5. /\ Cardinality(On(es \cup fs)) = Cardinality(On(es)) + Cardinality(On(fs))
      /\ Cardinality(On(es)) \in Nat /\ Cardinality(On(fs)) \in Nat
  BY <1>1, <1>4, DisjointUnion
<1>6. /\ Cardinality(Off(es \cup fs)) = Cardinality(Off(es)) + Cardinality(Off(fs))
      /\ Cardinality(Off(es)) \in Nat /\ Cardinality(Off(fs)) \in Nat
  BY <1>1, <1>4, DisjointUnion
<1>7. /\ Count(es \cup fs) = Cardinality(On(es \cup fs)) - Cardinality(Off(es \cup fs))
      /\ Count(es) = Cardinality(On(es)) - Cardinality(Off(es))
      /\ Count(fs) = Cardinality(On(fs)) - Cardinality(Off(fs))
  BY <1>3
<1> QED BY <1>5, <1>6, <1>7

LEMMA CountNothing == Count({}) = 0
<1>1. \A x : {e \in {} : e.kind = x} = {}
  OBVIOUS
<1> QED BY <1>1, FS_EmptySet DEF Count

\* Events with different sequence numbers are as many as these numbers.
LEMMA Numbered ==
    ASSUME NEW es \in SUBSET event, NEW K, \A e, f \in es : e.seq = f.seq => e = f,
           \A e \in es : e.seq \in K, \A n \in K : \E e \in es : e.seq = n
    PROVE  Cardinality(es) = Cardinality(K)
<1> DEFINE f == [e \in es |-> e.seq]
<1>1. f \in [es -> K] /\ \A a, b \in es : f[a] = f[b] => a = b
  OBVIOUS
<1>2. \A n \in K : \E e \in es : f[e] = n
  OBVIOUS
<1>3. f \in Surjection(es, K) /\ f \in Injection(es, K)
  BY <1>1, <1>2 DEF Surjection, Injection, IsInjective
<1>4. IsFiniteSet(es)
  BY EventFinite
<1> HIDE DEF f
<1> QED BY <1>3, <1>4, FS_Surjection

\* A set of numbers below a bound has a largest one.
LEMMA MaxOf ==
    ASSUME NEW S \in SUBSET Nat, S # {}, NEW b \in Nat, \A x \in S : x <= b
    PROVE  Max(S) \in S /\ \A x \in S : x <= Max(S)
<1> DEFINE T == {b - x : x \in S}
<1>0. \A x \in S : x \in Nat /\ b - x \in Nat
  OBVIOUS
<1>1. T \subseteq Nat /\ T # {}
  BY <1>0
<1>2. PICK m \in T : \A y \in T : ~(<<y, m>> \in OpToRel(<, Nat))
  BY <1>1, NatLessThanWellFounded, WFMin
<1>3. \A y \in T : ~(y < m)
  BY <1>1, <1>2 DEF OpToRel
<1>4. PICK x \in S : m = b - x
  OBVIOUS
<1>5. \A y \in S : x >= y
  <2> TAKE y \in S
  <2>1. ~(b - y < b - x)
    BY <1>3, <1>4
  <2> QED BY <1>0, <2>1
<1>6. \A z \in S : (\A y \in S : z >= y) => z = x
  BY <1>0, <1>5
<1>7. Max(S) = x
  BY <1>5, <1>6 DEF Max
<1> QED BY <1>5, <1>7

-----------------------------------------------------------------------------
(* Months and checkpoints. *)

LEMMA MonthBounds ==
    ASSUME NEW m \in Months
    PROVE  /\ MonthStart(m) \in Nat /\ MonthEnd(m) \in Nat
           /\ MonthStart(m) < MonthEnd(m)
<1>1. m \in Nat /\ MonthLen \in Nat \ {0}
  BY DeviceUsageAssumption DEF Months
<1>2. m * MonthLen \in Nat /\ (m + 1) * MonthLen = m * MonthLen + MonthLen
  BY <1>1
<1> QED BY <1>1, <1>2 DEF MonthStart, MonthEnd

LEMMA MonthOrder ==
    ASSUME NEW k \in Months, NEW m \in Months, MonthEnd(k) < MonthEnd(m)
    PROVE  MonthEnd(k) <= MonthStart(m)
<1>1. k \in Nat /\ m \in Nat /\ MonthLen \in Nat \ {0}
  BY DeviceUsageAssumption DEF Months
<1>2. \A a, b \in Nat : a <= b => a * MonthLen <= b * MonthLen
  BY <1>1
<1>3. (m + 1) * MonthLen \in Nat /\ (k + 1) * MonthLen \in Nat
  BY <1>1
<1>4. k + 1 <= m
  <2>1. CASE m + 1 <= k + 1
    <3>1. (m + 1) * MonthLen <= (k + 1) * MonthLen
      BY <1>1, <1>2, <2>1
    <3> QED BY <1>3, <3>1 DEF MonthEnd
  <2> QED BY <1>1, <2>1
<1> QED BY <1>1, <1>2, <1>4 DEF MonthStart, MonthEnd

\* What the latest checkpoint, or the beginning, stands for.
LatestStands ==
    /\ Latest.seq \in 0..stream /\ Latest.boundary \in Int
    /\ \A e \in recorded : e.at <= Latest.boundary <=> e.seq <= Latest.seq
    /\ Latest.count = EnrolledAt(Latest.boundary)
    /\ Latest.count \in 0..Cardinality(Devices)
    /\ \/ checkpoints = <<>> /\ Latest.boundary = -1 /\ Latest.seq = 0
       \/ /\ checkpoints # <<>> /\ Len(checkpoints) \in DOMAIN checkpoints
          /\ Latest = checkpoints[Len(checkpoints)] /\ Latest.seq # 0
          /\ Latest.boundary \in Ticks
          /\ \E m \in Months : Latest.boundary = MonthEnd(m) - 1

LEMMA DevicesFinite ==
    ASSUME NEW ds \in SUBSET Devices
    PROVE  IsFiniteSet(ds) /\ Cardinality(ds) \in 0..Cardinality(Devices)
<1>1. IsFiniteSet(ds) /\ Cardinality(ds) <= Cardinality(Devices)
  BY DeviceUsageAssumption, FS_Subset
<1>2. Cardinality(ds) \in Nat /\ Cardinality(Devices) \in Nat
  BY <1>1, DeviceUsageAssumption, FS_CardinalityType
<1> QED BY <1>1, <1>2

LEMMA LatestFacts ==
    ASSUME TypeOK, LedgerInv, CheckpointInv
    PROVE  LatestStands
<1>1. CASE checkpoints = <<>>
  <2>1. Latest = [seq |-> 0, boundary |-> -1, count |-> 0]
    BY <1>1 DEF Latest
  <2>2. Latest.seq = 0 /\ Latest.boundary = -1 /\ Latest.count = 0
    BY <2>1
  <2>3. \A e \in recorded : e.seq \in Nat \ {0} /\ e.at \in Nat
    BY DEF TypeOK, event, Ticks
  <2>4. {e \in recorded : e.at <= -1} = {}
    BY <2>3
  <2>5. EnrolledAt(Latest.boundary) = 0
    BY <2>2, <2>4, CountNothing DEF EnrolledAt
  <2>6. 0 \in 0..stream /\ 0 \in 0..Cardinality(Devices)
    BY DevicesFinite DEF TypeOK
  <2> QED BY <1>1, <2>2, <2>3, <2>5, <2>6 DEF LatestStands
<1>2. CASE checkpoints # <<>>
  <2> DEFINE n == Len(checkpoints)
  <2>1. /\ n \in Nat \ {0} /\ n \in DOMAIN checkpoints /\ checkpoints[n] \in deviceCheckpoint
    BY <1>2, LenProperties, EmptySeq, ElementOfSeq DEF TypeOK
  <2>2. Latest = checkpoints[n]
    BY <1>2 DEF Latest, Last
  <2>3. Stands(checkpoints[n])
    BY <2>1 DEF CheckpointInv
  <2>4. /\ Latest.seq \in Nat \ {0} /\ Latest.boundary \in Ticks
        /\ Latest.count \in 0..Cardinality(Devices)
    BY <2>1, <2>2 DEF deviceCheckpoint
  <2>5. Latest.boundary \in Int /\ Latest.seq \in 0..stream
    BY <2>2, <2>3, <2>4 DEF Stands, Ticks, TypeOK
  <2> HIDE DEF n
  <2> QED BY <1>2, <2>1, <2>2, <2>3, <2>4, <2>5 DEF LatestStands, Stands, n
<1> QED BY <1>1, <1>2

-----------------------------------------------------------------------------
(* Appending to the ledger. *)

LEMMA IntervalSize ==
    ASSUME NEW n \in Nat, NEW c \in Nat
    PROVE  IsFiniteSet((n + 1)..(n + c)) /\ Cardinality((n + 1)..(n + c)) = c
<1> DEFINE lo == n + 1
           hi == n + c
<1>1. lo \in Int /\ hi \in Int /\ lo = n + 1 /\ hi = n + c
  OBVIOUS
<1> HIDE DEF lo, hi
<1>2. IsFiniteSet(lo..hi) /\ Cardinality(lo..hi) = IF lo > hi THEN 0 ELSE hi - lo + 1
  BY <1>1, FS_Interval
<1> QED BY <1>1, <1>2 DEF lo, hi

\* The numbers of Orders are all used.
LEMMA OrdersOnto ==
    ASSUME NEW ds \in SUBSET Devices, NEW n \in Nat, NEW f \in Orders(ds, n)
    PROVE  /\ f \in [ds -> (n + 1)..(n + Cardinality(ds))]
           /\ \A d, o \in ds : f[d] = f[o] => d = o
           /\ \A k \in (n + 1)..(n + Cardinality(ds)) : \E d \in ds : f[d] = k
<1> DEFINE c == Cardinality(ds)
           K == (n + 1)..(n + c)
<1>1. f \in [ds -> K] /\ \A d, o \in ds : f[d] = f[o] => d = o
  BY DEF Orders
<1>2. c \in Nat
  BY DevicesFinite
<1> HIDE DEF c
<1>3. IsFiniteSet(K) /\ Cardinality(K) = c
  BY <1>2, IntervalSize
<1> HIDE DEF K
<1>4. f \in Injection(ds, K)
  BY <1>1 DEF Injection, IsInjective
<1>5. f \in Surjection(ds, K)
  BY <1>3, <1>4, FS_Injection DEF c
<1> QED BY <1>1, <1>5 DEF Surjection, K, c

\* What a synchronized ledger has more than before.
Synced(wanted, at, added) ==
    /\ recorded' = recorded \cup added /\ events' = events \cup added
    /\ stream' \in 0..MaxSeq /\ stream <= stream'
    /\ \A e \in added : /\ e \in event /\ e.at = at
                        /\ e.seq \in (stream + 1)..stream' /\ e.gen \in 1..stream'
    /\ \A n \in (stream + 1)..stream' : \E e \in added : e.seq = n
    /\ \A e, f \in added : e.seq = f.seq => e = f
    /\ \A e \in added : \/ e.kind = "enrolled" /\ e.gen = e.seq
                        \/ \E d \in activeEnrollments \ wanted : e.gen = enrolled[d]
    /\ Count(added) = Cardinality(wanted) - Cardinality(activeEnrollments)
    /\ added # {} => at > Latest.boundary
    /\ enrolled' \in [Devices -> 0..MaxSeq]
    /\ activeEnrollments' = wanted
    /\ \A d \in wanted \cap activeEnrollments : enrolled'[d] = enrolled[d]
    /\ \A d \in wanted \ activeEnrollments :
        \E e \in added : e.gen = enrolled'[d] /\ e.seq = e.gen
    /\ \A d, o \in wanted \ activeEnrollments : enrolled'[d] = enrolled'[o] => d = o

\* Records made from different devices are as many as the devices.
LEMMA CountRevocations ==
    ASSUME TypeOK, NEW ds \in SUBSET Devices, NEW f, NEW at,
           \A d, o \in ds : f[d] = f[o] => d = o
    PROVE  Cardinality({e \in Revocations(ds, f, at) : e.kind = "revoked"}) = Cardinality(ds)
<1> DEFINE R == Revocations(ds, f, at)
           g == [d \in ds |-> [seq |-> f[d], gen |-> enrolled[d], kind |-> "revoked", at |-> at]]
<1>1. \A e \in R : e.kind = "revoked"
  BY DEF Revocations
<1>2. {e \in R : e.kind = "revoked"} = R
  BY <1>1
<1>3. g \in [ds -> R] /\ \A e \in R : \E d \in ds : g[d] = e
  BY DEF Revocations
<1>4. \A d, o \in ds : g[d] = g[o] => d = o
  <2> TAKE d, o \in ds
  <2>1. g[d].seq = f[d] /\ g[o].seq = f[o]
    OBVIOUS
  <2> QED BY <2>1
<1> HIDE DEF g, R
<1>5. g \in Surjection(ds, R) /\ g \in Injection(ds, R)
  BY <1>3, <1>4 DEF Surjection, Injection, IsInjective
<1>6. IsFiniteSet(ds)
  BY DevicesFinite
<1>7. Cardinality(R) = Cardinality(ds)
  BY <1>5, <1>6, FS_Surjection
<1> QED BY <1>2, <1>7 DEF R

LEMMA CountEnrolments ==
    ASSUME NEW ds \in SUBSET Devices, NEW f, NEW at,
           \A d, o \in ds : f[d] = f[o] => d = o
    PROVE  Cardinality({e \in Enrolments(ds, f, at) : e.kind = "enrolled"}) = Cardinality(ds)
<1> DEFINE R == Enrolments(ds, f, at)
           g == [d \in ds |-> [seq |-> f[d], gen |-> f[d], kind |-> "enrolled", at |-> at]]
<1>1. \A e \in R : e.kind = "enrolled"
  BY DEF Enrolments
<1>2. {e \in R : e.kind = "enrolled"} = R
  BY <1>1
<1>3. g \in [ds -> R] /\ \A e \in R : \E d \in ds : g[d] = e
  BY DEF Enrolments
<1>4. \A d, o \in ds : g[d] = g[o] => d = o
  <2> TAKE d, o \in ds
  <2>1. g[d].seq = f[d] /\ g[o].seq = f[o]
    OBVIOUS
  <2> QED BY <2>1
<1> HIDE DEF g, R
<1>5. g \in Surjection(ds, R) /\ g \in Injection(ds, R)
  BY <1>3, <1>4 DEF Surjection, Injection, IsInjective
<1>6. IsFiniteSet(ds)
  BY DevicesFinite
<1>7. Cardinality(R) = Cardinality(ds)
  BY <1>5, <1>6, FS_Surjection
<1> QED BY <1>2, <1>7 DEF R

LEMMA SynchronizeEffect ==
    ASSUME TypeOK, LedgerInv, EnrolInv, NEW wanted \in SUBSET Devices, NEW at \in Ticks,
           synchronize(wanted, at)
    PROVE  \E added : Synced(wanted, at, added)
<1> DEFINE active == activeEnrollments
           gone == active \ wanted
           new == wanted \ active
           first == stream + Cardinality(gone)
<1>0. /\ active \in SUBSET Devices /\ gone \in SUBSET Devices /\ new \in SUBSET Devices
      /\ stream \in Nat /\ MaxSeq \in Nat
  BY DeviceUsageAssumption DEF activeEnrollments, TypeOK
<1>1. PICK seq \in Orders(gone, stream), gen \in Orders(new, first) :
        /\ events' = events \cup (Revocations(gone, seq, at) \cup Enrolments(new, gen, at))
        /\ recorded' = recorded \cup (Revocations(gone, seq, at) \cup Enrolments(new, gen, at))
        /\ enrolled' = [d \in Devices |-> IF d \in new THEN gen[d]
                                          ELSE IF d \in gone THEN 0 ELSE enrolled[d]]
  BY DEF synchronize
<1>2. /\ gone \cup new # {} => at > Latest.boundary
      /\ first + Cardinality(new) <= MaxSeq
      /\ stream' = first + Cardinality(new)
  BY DEF synchronize
<1> DEFINE R == Revocations(gone, seq, at)
           E == Enrolments(new, gen, at)
<1>3. PICK added : added = R \cup E
  OBVIOUS
<1>4. Cardinality(gone) \in Nat /\ Cardinality(new) \in Nat /\ first \in Nat
  BY <1>0, DevicesFinite
<1> HIDE DEF active, gone, new, first
<1>5. /\ seq \in [gone -> (stream + 1)..(stream + Cardinality(gone))]
      /\ \A d, o \in gone : seq[d] = seq[o] => d = o
      /\ \A k \in (stream + 1)..(stream + Cardinality(gone)) : \E d \in gone : seq[d] = k
  <2>1. seq \in Orders(gone, stream) /\ gone \in SUBSET Devices /\ stream \in Nat
    BY <1>0
  <2> QED BY <2>1, OrdersOnto
<1>6. /\ gen \in [new -> (first + 1)..(first + Cardinality(new))]
      /\ \A d, o \in new : gen[d] = gen[o] => d = o
      /\ \A k \in (first + 1)..(first + Cardinality(new)) : \E d \in new : gen[d] = k
  BY <1>0, <1>4, OrdersOnto
<1>7. /\ \A d \in gone : seq[d] \in Nat /\ stream < seq[d] /\ seq[d] <= first
      /\ \A d \in new : gen[d] \in Nat /\ first < gen[d] /\ gen[d] <= stream'
  BY <1>0, <1>2, <1>4, <1>5, <1>6 DEF first
<1>8. stream <= first /\ first <= stream' /\ stream' \in 0..MaxSeq
  BY <1>0, <1>2, <1>4 DEF first
<1>9. \A d \in gone : enrolled[d] \in 1..stream
  <2> TAKE d \in gone
  <2>1. d \in activeEnrollments
    BY DEF gone, active
  <2>2. PICK e \in recorded : e.gen = enrolled[d]
    BY <2>1 DEF EnrolInv
  <2> QED BY <2>2 DEF LedgerInv
<1>10. \A e \in R : \E d \in gone : /\ e.seq = seq[d] /\ e.gen = enrolled[d]
                                     /\ e.kind = "revoked" /\ e.at = at
  BY DEF Revocations
<1>11. \A e \in E : \E d \in new : /\ e.seq = gen[d] /\ e.gen = gen[d]
                                    /\ e.kind = "enrolled" /\ e.at = at
  BY DEF Enrolments
<1>12. R \in SUBSET event
  <2> SUFFICES ASSUME NEW d \in gone
               PROVE  [seq |-> seq[d], gen |-> enrolled[d], kind |-> "revoked", at |-> at] \in event
    BY DEF Revocations
  <2>1. seq[d] \in 1..MaxSeq /\ enrolled[d] \in 1..MaxSeq
    BY <1>0, <1>4, <1>7, <1>8, <1>9
  <2> QED BY <2>1 DEF event
<1>13. E \in SUBSET event
  <2> SUFFICES ASSUME NEW d \in new
               PROVE  [seq |-> gen[d], gen |-> gen[d], kind |-> "enrolled", at |-> at] \in event
    BY DEF Enrolments
  <2>1. gen[d] \in 1..MaxSeq
    BY <1>0, <1>4, <1>7, <1>8
  <2> QED BY <2>1 DEF event
<1>14. Count(R) = 0 - Cardinality(gone)
  <2>1. Cardinality({e \in R : e.kind = "revoked"}) = Cardinality(gone)
    BY <1>0, <1>5, CountRevocations
  <2>2. {e \in R : e.kind = "enrolled"} = {}
    BY <1>10
  <2> QED BY <2>1, <2>2, FS_EmptySet DEF Count
<1>15. Count(E) = Cardinality(new)
  <2>1. Cardinality({e \in E : e.kind = "enrolled"}) = Cardinality(new)
    BY <1>0, <1>6, CountEnrolments
  <2>2. {e \in E : e.kind = "revoked"} = {}
    BY <1>11
  <2>3. Cardinality({}) = 0
    BY FS_EmptySet
  <2>4. Count(E) = Cardinality(new) - 0
    BY <2>1, <2>2, <2>3 DEF Count
  <2> QED BY <1>4, <2>4
<1>16. R \cap E = {}
  BY <1>10, <1>11
<1>17. \A d \in gone : \E e \in R : e.seq = seq[d]
  <2> TAKE d \in gone
  <2>1. [seq |-> seq[d], gen |-> enrolled[d], kind |-> "revoked", at |-> at] \in R
    BY DEF Revocations
  <2> QED BY <2>1
<1>18. \A d \in new : \E e \in E : e.seq = gen[d] /\ e.gen = gen[d]
  <2> TAKE d \in new
  <2>1. [seq |-> gen[d], gen |-> gen[d], kind |-> "enrolled", at |-> at] \in E
    BY DEF Enrolments
  <2> QED BY <2>1
<1>a. \A e, f \in R : e.seq = f.seq => e = f
  <2> TAKE e, f \in R
  <2>1. PICK d \in gone :
            e = [seq |-> seq[d], gen |-> enrolled[d], kind |-> "revoked", at |-> at]
    BY DEF Revocations
  <2>2. PICK o \in gone :
            f = [seq |-> seq[o], gen |-> enrolled[o], kind |-> "revoked", at |-> at]
    BY DEF Revocations
  <2>3. e.seq = seq[d] /\ f.seq = seq[o]
    BY <2>1, <2>2
  <2> QED BY <1>5, <2>1, <2>2, <2>3
<1>b. \A e, f \in E : e.seq = f.seq => e = f
  <2> TAKE e, f \in E
  <2>1. PICK d \in new :
            e = [seq |-> gen[d], gen |-> gen[d], kind |-> "enrolled", at |-> at]
    BY DEF Enrolments
  <2>2. PICK o \in new :
            f = [seq |-> gen[o], gen |-> gen[o], kind |-> "enrolled", at |-> at]
    BY DEF Enrolments
  <2>3. e.seq = gen[d] /\ f.seq = gen[o]
    BY <2>1, <2>2
  <2> QED BY <2>1, <2>2, <2>3
<1> HIDE DEF R, E
<1>19. recorded' = recorded \cup added /\ events' = events \cup added
  BY <1>1, <1>3 DEF R, E
<1>20. \A e \in added : /\ e \in event /\ e.at = at
                        /\ e.seq \in (stream + 1)..stream' /\ e.gen \in 1..stream'
  <2>1. ASSUME NEW e \in R
        PROVE  e \in event /\ e.at = at /\ e.seq \in (stream + 1)..stream' /\ e.gen \in 1..stream'
    <3>1. PICK d \in gone : e.seq = seq[d] /\ e.gen = enrolled[d] /\ e.at = at
      BY <1>10
    <3> QED BY <1>0, <1>4, <1>7, <1>8, <1>9, <1>12, <3>1
  <2>2. ASSUME NEW e \in E
        PROVE  e \in event /\ e.at = at /\ e.seq \in (stream + 1)..stream' /\ e.gen \in 1..stream'
    <3>1. PICK d \in new : e.seq = gen[d] /\ e.gen = gen[d] /\ e.at = at
      BY <1>11
    <3> QED BY <1>0, <1>4, <1>7, <1>8, <1>13, <3>1
  <2> QED BY <1>3, <2>1, <2>2
<1>21. \A n \in (stream + 1)..stream' : \E e \in added : e.seq = n
  <2> TAKE n \in (stream + 1)..stream'
  <2>1. CASE n <= first
    <3>1. n \in (stream + 1)..(stream + Cardinality(gone))
      BY <1>0, <1>4, <1>8, <2>1 DEF first
    <3> QED BY <1>3, <1>5, <1>17, <3>1
  <2>2. CASE n > first
    <3>1. n \in (first + 1)..(first + Cardinality(new))
      BY <1>0, <1>2, <1>4, <1>8, <2>2
    <3> QED BY <1>3, <1>6, <1>18, <3>1
  <2> QED BY <1>0, <1>4, <2>1, <2>2
<1>22. \A e, f \in added : e.seq = f.seq => e = f
  <2>1. \A e \in R, f \in E : e.seq # f.seq
    <3> TAKE e \in R, f \in E
    <3>1. PICK d \in gone : e.seq = seq[d]
      BY <1>10
    <3>2. PICK o \in new : f.seq = gen[o]
      BY <1>11
    <3> QED BY <1>4, <1>7, <3>1, <3>2
  <2> QED BY <1>3, <1>a, <1>b, <2>1
<1>23. \A e \in added : \/ e.kind = "enrolled" /\ e.gen = e.seq
                        \/ \E d \in activeEnrollments \ wanted : e.gen = enrolled[d]
  BY <1>3, <1>10, <1>11 DEF gone, active
<1>24. Count(added) = Cardinality(wanted) - Cardinality(activeEnrollments)
  <2> DEFINE both == active \cap wanted
  <2>1. /\ active = both \cup gone /\ both \cap gone = {}
        /\ wanted = both \cup new /\ both \cap new = {}
    BY DEF gone, new
  <2>2. both \in SUBSET Devices
    BY <1>0
  <2> HIDE DEF both
  <2>3. IsFiniteSet(both) /\ IsFiniteSet(gone) /\ IsFiniteSet(new)
    BY <1>0, <2>2, DevicesFinite
  <2>4. /\ Cardinality(active) = Cardinality(both) + Cardinality(gone)
        /\ Cardinality(both) \in Nat
    BY <2>1, <2>3, DisjointUnion
  <2>5. Cardinality(wanted) = Cardinality(both) + Cardinality(new)
    BY <2>1, <2>3, DisjointUnion
  <2>6. Count(added) = Count(R) + Count(E)
    BY <1>3, <1>12, <1>13, <1>16, CountUnion
  <2> QED BY <1>4, <1>14, <1>15, <2>4, <2>5, <2>6 DEF active
<1>25. added # {} => at > Latest.boundary
  BY <1>2, <1>3, <1>10, <1>11
<1>26. enrolled' \in [Devices -> 0..MaxSeq]
  <2> SUFFICES ASSUME NEW d \in Devices PROVE enrolled'[d] \in 0..MaxSeq
    BY <1>1
  <2>1. d \in new => gen[d] \in 0..MaxSeq
    BY <1>0, <1>4, <1>7, <1>8
  <2>2. enrolled[d] \in 0..MaxSeq /\ 0 \in 0..MaxSeq
    BY <1>0 DEF TypeOK
  <2> QED BY <1>1, <2>1, <2>2
<1>27. /\ \A d \in new : enrolled'[d] = gen[d]
       /\ \A d \in wanted \cap active : enrolled'[d] = enrolled[d]
  BY <1>0, <1>1 DEF new, gone
<1>28. activeEnrollments' = wanted
  <2> SUFFICES ASSUME NEW d \in Devices PROVE enrolled'[d] # 0 <=> d \in wanted
    BY DEF activeEnrollments
  <2>1. CASE d \in new
    BY <1>4, <1>7, <1>27, <2>1 DEF new
  <2>2. CASE d \in wanted \cap active
    BY <1>27, <2>2 DEF active, activeEnrollments
  <2>3. CASE d \notin wanted
    <3>1. CASE d \in gone
      BY <1>1, <2>3, <3>1 DEF new
    <3>2. CASE d \notin gone
      BY <1>1, <2>3, <3>2 DEF new, gone, active, activeEnrollments
    <3> QED BY <3>1, <3>2
  <2> QED BY <2>1, <2>2, <2>3 DEF new
<1>29. \A d \in new : \E e \in added : e.gen = enrolled'[d] /\ e.seq = e.gen
  BY <1>3, <1>18, <1>27
<1>30. \A d, o \in new : enrolled'[d] = enrolled'[o] => d = o
  BY <1>6, <1>27
<1>31. Synced(wanted, at, added)
  BY <1>0, <1>8, <1>4, <1>19, <1>20, <1>21, <1>22, <1>23, <1>24, <1>25, <1>26, <1>27, <1>28, <1>29, <1>30
     DEF Synced, new, active
<1> QED BY <1>31

-----------------------------------------------------------------------------
(* The ledger's own invariants. *)

\* A checkpoint is not beyond the latest one.
LEMMA BeforeLatest ==
    ASSUME TypeOK, CheckpointInv, LatestStands, NEW i \in DOMAIN checkpoints
    PROVE  checkpoints[i].boundary \in Nat /\ checkpoints[i].boundary <= Latest.boundary
<1>1. /\ i \in 1..Len(checkpoints) /\ Len(checkpoints) \in Nat
      /\ checkpoints[i] \in deviceCheckpoint
  BY LenProperties, ElementOfSeq DEF TypeOK
<1>2. checkpoints[i].boundary \in Nat
  BY <1>1 DEF deviceCheckpoint, Ticks
<1>3. checkpoints # <<>>
  BY <1>1
<1>4. /\ Latest = checkpoints[Len(checkpoints)] /\ Len(checkpoints) \in DOMAIN checkpoints
      /\ Latest.boundary \in Nat
  BY <1>3 DEF LatestStands, Ticks
<1>5. CASE i = Len(checkpoints)
  BY <1>2, <1>4, <1>5
<1>6. CASE i < Len(checkpoints)
  <2>1. checkpoints[i].boundary < checkpoints[Len(checkpoints)].boundary
    BY <1>4, <1>6 DEF CheckpointInv
  <2> QED BY <1>2, <1>4, <2>1
<1> QED BY <1>1, <1>5, <1>6

LedgerType ==
    /\ enrolled \in [Devices -> 0..MaxSeq] /\ stream \in 0..MaxSeq
    /\ events \subseteq event /\ recorded \subseteq event

Books == LedgerInv /\ CountInv /\ EnrolInv /\ PruneInv /\ CheckpointInv

\* The history only grows, by later events.
Grows ==
    /\ recorded \subseteq recorded' /\ stream <= stream'
    /\ \A e \in recorded' \ recorded : since <= e.at /\ stream < e.seq

\* What is added leaves the past as it was.
LEMMA AppendStep ==
    ASSUME TypeOK, Books, TimeInv, NEW wanted \in SUBSET Devices, NEW at \in since..now,
           NEW added, Synced(wanted, at, added),
           UNCHANGED <<now, checkpoints, pruned>>, since' \in at..now
    PROVE  /\ (LedgerType /\ Books)' /\ Grows
           /\ \A t \in Ticks : t < at => EnrolledAt(t)' = EnrolledAt(t)
           /\ \A t \in Ticks : t >= at => EnrolledAt(t)' = Cardinality(wanted)
<1>0. /\ LedgerInv /\ CountInv /\ EnrolInv /\ PruneInv /\ CheckpointInv
      /\ stream \in Nat /\ stream' \in Nat /\ at \in Nat /\ since \in Nat /\ now \in Nat
      /\ since <= at /\ at <= now /\ recorded \in SUBSET event /\ added \in SUBSET event
      /\ recorded' = recorded \cup added
  BY DeviceUsageAssumption DEF Books, TypeOK, Synced, Ticks
<1>L. LatestStands
  BY <1>0, LatestFacts
<1>a. /\ \A e \in recorded : e.at \in Nat /\ e.at <= at /\ e.seq \in Nat /\ e.seq <= stream
      /\ \A e \in added : e.at = at /\ e.seq \in Nat /\ e.seq > stream /\ e.seq <= stream'
  BY <1>0 DEF LedgerInv, Synced, event, Ticks
<1>1. LedgerType'
  BY <1>0 DEF LedgerType, Synced, TypeOK
<1>2. LedgerInv'
  <2>1. \A e \in recorded' : e.seq \in 1..stream' /\ e.gen \in 1..stream' /\ e.at <= since'
    <3>1. ASSUME NEW e \in recorded PROVE e.seq \in 1..stream' /\ e.gen \in 1..stream' /\ e.at <= at
      <4>1. e.seq \in 1..stream /\ e.gen \in 1..stream
        BY <1>0 DEF LedgerInv
      <4> QED BY <1>0, <1>a, <4>1 DEF Synced
    <3>2. ASSUME NEW e \in added PROVE e.seq \in 1..stream' /\ e.gen \in 1..stream' /\ e.at <= at
      BY <1>0, <1>a DEF Synced
    <3>3. \A e \in recorded' : e.at \in Nat
      BY <1>0 DEF event, Ticks
    <3> QED BY <1>0, <3>1, <3>2, <3>3
  <2>2. \A n \in 1..stream' : \E e \in recorded' : e.seq = n
    <3> TAKE n \in 1..stream'
    <3>1. CASE n <= stream
      BY <1>0, <3>1 DEF LedgerInv
    <3>2. CASE n > stream
      <4>1. n \in (stream + 1)..stream'
        BY <1>0, <3>2
      <4> QED BY <1>0, <4>1 DEF Synced
    <3> QED BY <1>0, <3>1, <3>2
  <2>3. \A e, f \in recorded' : e.seq = f.seq => e = f
    BY <1>0, <1>a DEF LedgerInv, Synced
  <2>4. \A e, f \in recorded' : e.seq < f.seq => e.at <= f.at
    <3> SUFFICES ASSUME NEW e \in recorded', NEW f \in recorded', e.seq < f.seq
                 PROVE  e.at <= f.at
      OBVIOUS
    <3>1. CASE f \in recorded
      <4>1. e \in recorded
        BY <1>0, <1>a, <3>1
      <4> QED BY <1>0, <3>1, <4>1 DEF LedgerInv
    <3>2. CASE f \in added
      BY <1>0, <1>a, <3>2
    <3> QED BY <1>0, <3>1, <3>2
  <2> QED BY <2>1, <2>2, <2>3, <2>4 DEF LedgerInv
<1>3. Count(recorded') = Cardinality(wanted)
  <2>1. recorded \cap added = {}
    BY <1>0, <1>a
  <2>2. Count(recorded \cup added) = Count(recorded) + Count(added)
    BY <1>0, <2>1, CountUnion
  <2>3. Count(recorded) = Cardinality(activeEnrollments)
    BY <1>0 DEF CountInv
  <2>4. Count(added) = Cardinality(wanted) - Cardinality(activeEnrollments)
    BY DEF Synced
  <2>5. Cardinality(wanted) \in Int /\ Cardinality(activeEnrollments) \in Int
    BY DevicesFinite DEF activeEnrollments
  <2> QED BY <1>0, <2>2, <2>3, <2>4, <2>5
<1>4. \A t \in Int : t < at => EnrolledAt(t)' = EnrolledAt(t)
  <2> SUFFICES ASSUME NEW t \in Int, t < at PROVE EnrolledAt(t)' = EnrolledAt(t)
    OBVIOUS
  <2>1. {e \in recorded' : e.at <= t} = {e \in recorded : e.at <= t}
    BY <1>0, <1>a
  <2> QED BY <2>1 DEF EnrolledAt, Count
<1>5. \A t \in Int : t >= at => EnrolledAt(t)' = Cardinality(wanted)
  <2> SUFFICES ASSUME NEW t \in Int, t >= at PROVE EnrolledAt(t)' = Cardinality(wanted)
    OBVIOUS
  <2>1. {e \in recorded' : e.at <= t} = recorded'
    BY <1>0, <1>a
  <2>2. EnrolledAt(t)' = Count(recorded')
    BY <2>1 DEF EnrolledAt, Count
  <2> QED BY <1>3, <2>2
<1>6. CountInv'
  <2>1. Count(recorded)' = Cardinality(activeEnrollments)'
    BY <1>3 DEF Synced, Count
  <2>2. \A t \in Ticks : EnrolledAt(t)' \in 0..Cardinality(Devices)
    <3> TAKE t \in Ticks
    <3>1. t \in Int
      BY DEF Ticks
    <3>2. CASE t < at
      BY <1>0, <1>4, <3>1, <3>2 DEF CountInv
    <3>3. CASE t >= at
      BY <1>5, <3>1, <3>3, DevicesFinite
    <3> QED BY <1>0, <3>1, <3>2, <3>3
  <2> QED BY <2>1, <2>2 DEF CountInv
<1>7. EnrolInv'
  <2>1. \A d \in activeEnrollments : enrolled[d] \in Nat /\ enrolled[d] <= stream
    <3> TAKE d \in activeEnrollments
    <3>1. PICK e \in recorded : e.gen = enrolled[d]
      BY <1>0 DEF EnrolInv
    <3> QED BY <1>0, <3>1 DEF LedgerInv
  <2>2. \A d \in wanted \ activeEnrollments : enrolled'[d] \in Nat /\ enrolled'[d] > stream
    <3> TAKE d \in wanted \ activeEnrollments
    <3>1. PICK e \in added : e.gen = enrolled'[d] /\ e.seq = e.gen
      BY DEF Synced
    <3> QED BY <1>a, <3>1
  <2>3. \A e \in recorded : e.gen \in Nat /\ e.gen <= stream
    BY <1>0 DEF LedgerInv
  <2>4. ASSUME NEW d \in wanted
        PROVE  \E e \in recorded' : e.gen = enrolled'[d] /\ e.seq = e.gen
    <3>1. CASE d \in activeEnrollments
      BY <1>0, <3>1 DEF EnrolInv, Synced
    <3>2. CASE d \notin activeEnrollments
      BY <1>0, <3>2 DEF Synced
    <3> QED BY <3>1, <3>2
  <2>5. ASSUME NEW d \in wanted, NEW e \in recorded', e.gen = enrolled'[d]
        PROVE  e.kind = "enrolled" /\ e.seq = e.gen
    <3>1. CASE e \in recorded
      <4>1. d \in activeEnrollments
        BY <1>0, <2>2, <2>3, <2>5, <3>1
      <4>2. enrolled'[d] = enrolled[d]
        BY <4>1 DEF Synced
      <4> QED BY <1>0, <2>5, <3>1, <4>1, <4>2 DEF EnrolInv
    <3>2. CASE e \in added /\ ~(e.kind = "enrolled" /\ e.gen = e.seq)
      <4>1. PICK o \in activeEnrollments \ wanted : e.gen = enrolled[o]
        BY <3>2 DEF Synced
      <4>2. d \in activeEnrollments
        <5>1. enrolled'[d] \in Nat /\ enrolled'[d] <= stream
          BY <2>1, <2>5, <4>1
        <5> QED BY <1>0, <2>2, <5>1
      <4>3. enrolled'[d] = enrolled[d]
        BY <4>2 DEF Synced
      <4>4. d = o
        BY <1>0, <2>5, <4>1, <4>2, <4>3 DEF EnrolInv
      <4> QED BY <4>1, <4>4
    <3> QED BY <1>0, <3>1, <3>2
  <2>6. ASSUME NEW d \in wanted, NEW o \in wanted, enrolled'[d] = enrolled'[o]
        PROVE  d = o
    <3>1. CASE d \in activeEnrollments /\ o \in activeEnrollments
      BY <1>0, <2>6, <3>1 DEF EnrolInv, Synced
    <3>2. CASE d \notin activeEnrollments /\ o \notin activeEnrollments
      BY <2>6, <3>2 DEF Synced
    <3>3. CASE d \in activeEnrollments /\ o \notin activeEnrollments
      <4>1. enrolled'[d] = enrolled[d]
        BY <3>3 DEF Synced
      <4>2. enrolled'[o] \in Nat /\ enrolled'[o] <= stream
        BY <2>1, <2>6, <3>3, <4>1
      <4> QED BY <1>0, <2>2, <3>3, <4>2
    <3>4. CASE d \notin activeEnrollments /\ o \in activeEnrollments
      <4>1. enrolled'[o] = enrolled[o]
        BY <3>4 DEF Synced
      <4>2. enrolled'[d] \in Nat /\ enrolled'[d] <= stream
        BY <2>1, <2>6, <3>4, <4>1
      <4> QED BY <1>0, <2>2, <3>4, <4>2
    <3> QED BY <3>1, <3>2, <3>3, <3>4
  <2>7. activeEnrollments' = wanted
    BY DEF Synced
  <2> QED BY <2>4, <2>5, <2>6, <2>7 DEF EnrolInv
<1>8. PruneInv'
  <2>1. Latest' = Latest
    BY DEF Latest
  <2>2. \A m \in pruned : m \in Months /\ MonthEnd(m) \in Nat /\ MonthEnd(m) - 1 <= Latest.boundary
    BY <1>0, MonthBounds DEF PruneInv, TypeOK
  <2>3. \A e \in added : \A m \in pruned : e.at \notin MonthTicks(m)
    <3> TAKE e \in added
    <3>1. at > Latest.boundary /\ e.at = at /\ Latest.boundary \in Int
      BY <1>a, <1>L DEF Synced, LatestStands
    <3> QED BY <1>0, <2>2, <3>1 DEF MonthTicks
  <2>4. events' = {e \in recorded' : \A m \in pruned : e.at \notin MonthTicks(m)}
    BY <1>0, <2>3 DEF PruneInv, Synced
  <2> QED BY <1>0, <2>1, <2>4 DEF PruneInv, MonthTicks, MonthEnd, MonthStart
<1>9. CheckpointInv'
  <2>1. ASSUME NEW i \in DOMAIN checkpoints PROVE Stands(checkpoints[i])'
    <3> DEFINE c == checkpoints[i]
    <3>0. c \in deviceCheckpoint
      BY ElementOfSeq, LenProperties DEF TypeOK
    <3>1. c.boundary \in Nat /\ c.boundary <= Latest.boundary /\ c.seq \in Nat
      BY <1>0, <1>L, <3>0, BeforeLatest DEF deviceCheckpoint
    <3>2. Stands(c) /\ c' = c
      BY <1>0 DEF CheckpointInv
    <3> HIDE DEF c
    <3>3. \A e \in added : ~(e.at <= c.boundary) /\ ~(e.seq <= c.seq)
      <4> TAKE e \in added
      <4>1. at > Latest.boundary /\ Latest.boundary \in Int
        BY <1>L DEF Synced, LatestStands
      <4> QED BY <1>0, <1>a, <3>1, <3>2, <4>1 DEF Stands
    <3>4. \A e \in recorded' : e.at <= c.boundary <=> e.seq <= c.seq
      BY <1>0, <3>2, <3>3 DEF Stands
    <3>5. EnrolledAt(c.boundary)' = EnrolledAt(c.boundary)
      <4>1. {e \in recorded' : e.at <= c.boundary} = {e \in recorded : e.at <= c.boundary}
        BY <1>0, <3>3
      <4> QED BY <3>2, <4>1 DEF EnrolledAt, Count
    <3>6. c.seq <= stream'
      BY <1>0, <3>1, <3>2 DEF Stands, Synced
    <3> QED BY <3>2, <3>4, <3>5, <3>6 DEF Stands, c, MonthEnd, Months
  <2> QED BY <1>0, <2>1 DEF CheckpointInv
<1>10. \A t \in Ticks : t \in Int
  BY DEF Ticks
<1>11. Grows
  BY <1>0, <1>a DEF Synced, Grows
<1> QED BY <1>1, <1>2, <1>4, <1>5, <1>6, <1>7, <1>8, <1>9, <1>10, <1>11 DEF Books

LEMMA BooksSame ==
    ASSUME TypeOK, Books, UNCHANGED <<ledger, checkpoints, pruned>>, since' \in Nat, since <= since'
    PROVE  (LedgerType /\ Books)' /\ Grows /\ \A t : EnrolledAt(t)' = EnrolledAt(t)
<1>1. /\ UNCHANGED <<enrolled, events, recorded, stream, checkpoints, pruned>>
      /\ \A e \in recorded : e.at \in Nat /\ since \in Nat
  BY DEF ledger, TypeOK, event, Ticks
<1>2. LedgerType'
  BY <1>1 DEF LedgerType, TypeOK
<1>3. LedgerInv'
  BY <1>1 DEF Books, LedgerInv
<1>4. \A t : EnrolledAt(t)' = EnrolledAt(t)
  BY <1>1 DEF EnrolledAt, Count
<1>5. CountInv'
  BY <1>1 DEF Books, CountInv, activeEnrollments, EnrolledAt, Count
<1>6. EnrolInv'
  BY <1>1 DEF Books, EnrolInv, activeEnrollments
<1>7. PruneInv'
  BY <1>1 DEF Books, PruneInv, Latest, MonthTicks, MonthEnd, MonthStart
<1>8. CheckpointInv'
  BY <1>1 DEF Books, CheckpointInv, Stands, MonthEnd, Months, EnrolledAt, Count
<1>9. Grows
  BY <1>1 DEF Grows, TypeOK
<1> QED BY <1>2, <1>3, <1>4, <1>5, <1>6, <1>7, <1>8, <1>9 DEF Books

-----------------------------------------------------------------------------
(* Pruning. *)

LEMMA Retained ==
    ASSUME TypeOK, PruneInv, LatestStands
    PROVE  /\ \A e \in recorded : e.seq > Latest.seq => e \in events
           /\ events \in SUBSET recorded
           /\ \A e \in recorded : e.seq \in Nat /\ e.at \in Nat
<1>1. \A e \in recorded : e.seq \in Nat /\ e.at \in Nat
  BY DEF TypeOK, event, Ticks
<1>2. Latest.seq \in Nat /\ Latest.boundary \in Int
  BY DEF LatestStands, TypeOK
<1>3. ASSUME NEW e \in recorded, e.seq > Latest.seq PROVE e \in events
  <2>1. ~(e.at <= Latest.boundary)
    BY <1>1, <1>2, <1>3 DEF LatestStands
  <2>2. ASSUME NEW m \in pruned PROVE e.at \notin MonthTicks(m)
    <3>1. MonthEnd(m) \in Nat /\ MonthEnd(m) - 1 <= Latest.boundary
      BY MonthBounds DEF PruneInv, TypeOK
    <3> QED BY <1>1, <1>2, <2>1, <3>1 DEF MonthTicks
  <2> QED BY <1>3, <2>2 DEF PruneInv
<1> QED BY <1>1, <1>3 DEF PruneInv

LEMMA EnrolledBetween ==
    ASSUME TypeOK, NEW lo \in Int, NEW hi \in Int, lo <= hi
    PROVE  /\ EnrolledAt(hi) = EnrolledAt(lo) + Count({e \in recorded : lo < e.at /\ e.at <= hi})
           /\ EnrolledAt(lo) \in Int
<1> DEFINE A == {e \in recorded : e.at <= lo}
           B == {e \in recorded : lo < e.at /\ e.at <= hi}
<1>1. \A e \in recorded : e.at \in Int
  BY DEF TypeOK, event, Ticks
<1>2. {e \in recorded : e.at <= hi} = A \cup B /\ A \cap B = {}
  BY <1>1
<1>3. A \in SUBSET event /\ B \in SUBSET event
  BY DEF TypeOK
<1>4. EnrolledAt(lo) = Count(A) /\ EnrolledAt(hi) = Count(A \cup B)
  BY <1>2 DEF EnrolledAt
<1> HIDE DEF A, B
<1>5. Count(A \cup B) = Count(A) + Count(B) /\ Count(A) \in Int
  BY <1>2, <1>3, CountUnion, CountType
<1> QED BY <1>4, <1>5 DEF B

LEMMA PruneStep ==
    ASSUME TypeOK, Books, TimeInv, NEW m \in Months, PruneFinalizedPeriod(m)
    PROVE  /\ (LedgerType /\ Books)' /\ checkpoints' \in Seq(deviceCheckpoint)
           /\ \A t : EnrolledAt(t)' = EnrolledAt(t)
<1> DEFINE b == MonthEnd(m) - 1
           rows == {e \in events : e.seq > Latest.seq /\ e.at <= b}
           new == buildCheckpoint(b)
<1>0. /\ LedgerInv /\ CountInv /\ EnrolInv /\ PruneInv /\ CheckpointInv
      /\ UNCHANGED <<enrolled, recorded, stream, since>>
      /\ pruned' = pruned \cup {m} /\ events' = events \ InPeriod(m)
  BY DEF Books, PruneFinalizedPeriod
<1>L. LatestStands
  BY <1>0, LatestFacts
<1>R. /\ \A e \in recorded : e.seq > Latest.seq => e \in events
      /\ events \in SUBSET recorded
      /\ \A e \in recorded : e.seq \in Nat /\ e.at \in Nat
  BY <1>0, <1>L, Retained
<1>1. /\ Latest.seq \in Nat /\ stream \in Nat /\ Latest.seq <= stream /\ Latest.boundary \in Int
      /\ Latest.count \in Nat
  BY <1>L, DevicesFinite DEF LatestStands, TypeOK
<1>2. /\ MonthStart(m) \in Nat /\ MonthEnd(m) \in Nat /\ MonthStart(m) < MonthEnd(m)
      /\ b \in Ticks /\ b \in Nat
  <2>1. MonthStart(m) \in Nat /\ MonthEnd(m) \in Nat /\ MonthStart(m) < MonthEnd(m)
    BY MonthBounds
  <2>2. MonthEnd(m) <= now
    BY <2>1, DeviceUsageAssumption DEF PruneFinalizedPeriod, TypeOK, Ticks
  <2> QED BY <2>1, <2>2, DeviceUsageAssumption DEF TypeOK, Ticks
<1>3. /\ new.seq = Latest.seq + Cardinality(rows) /\ new.boundary = b
      /\ new.count = Latest.count + Count(rows)
      /\ new = [seq |-> Latest.seq + Cardinality(rows), boundary |-> b,
                count |-> Latest.count + Count(rows)]
  BY DEF buildCheckpoint
<1>4. rows \in SUBSET event /\ Cardinality(rows) \in Nat /\ new.seq \in Nat /\ Latest.seq <= new.seq
  <2>1. rows \in SUBSET event
    BY DEF TypeOK
  <2> HIDE DEF rows, b, new
  <2>2. Cardinality(rows) \in Nat
    BY <2>1, CountType
  <2> QED BY <1>1, <1>3, <2>1, <2>2
<1>5. rows = {e \in recorded : Latest.boundary < e.at /\ e.at <= b}
  <2>1. \A e \in recorded : e.seq > Latest.seq <=> Latest.boundary < e.at
    BY <1>1, <1>R, <1>L DEF LatestStands
  <2> QED BY <1>R, <2>1
<1>6. LedgerType' /\ LedgerInv' /\ CountInv' /\ EnrolInv' /\ \A t : EnrolledAt(t)' = EnrolledAt(t)
  BY <1>0 DEF LedgerType, LedgerInv, CountInv, EnrolInv, TypeOK, EnrolledAt, Count,
              activeEnrollments
<1>7. events' = {e \in recorded' : \A k \in pruned' : e.at \notin MonthTicks(k)}
  <2>1. \A e \in recorded : e.at \in MonthTicks(m) <=> MonthStart(m) <= e.at /\ e.at < MonthEnd(m)
    BY <1>2, <1>R DEF MonthTicks
  <2> QED BY <1>0, <2>1 DEF PruneInv, InPeriod
<1>8. CASE ~(b > Latest.boundary)
  <2>1. UNCHANGED checkpoints
    BY <1>8 DEF PruneFinalizedPeriod
  <2>2. CheckpointInv' /\ checkpoints' \in Seq(deviceCheckpoint) /\ Latest' = Latest
    BY <1>0, <2>1 DEF CheckpointInv, Stands, EnrolledAt, Count, TypeOK, Latest
  <2>3. \A k \in pruned' : MonthEnd(k) - 1 <= Latest.boundary
    BY <1>0, <1>1, <1>2, <1>8 DEF PruneInv
  <2>4. PruneInv'
    BY <1>7, <2>2, <2>3 DEF PruneInv, MonthTicks, MonthEnd, MonthStart
  <2> QED BY <1>6, <2>2, <2>4 DEF Books
<1>9. CASE b > Latest.boundary
  <2>0. Continuous(b) /\ checkpoints' = IF new.seq = Latest.seq THEN checkpoints
                                                                ELSE Append(checkpoints, new)
    BY <1>9 DEF PruneFinalizedPeriod
  <2>1. {e.seq : e \in rows} = (Latest.seq + 1)..new.seq
    BY <2>0 DEF Continuous
  <2> HIDE DEF new
  <2>2. \E e \in rows : TRUE
    <3>1. PICK e \in events : MonthStart(m) <= e.at /\ e.at < MonthEnd(m)
      BY DEF PruneFinalizedPeriod, InPeriod
    <3>2. e \in recorded /\ e.at \in Nat
      BY <1>R, <3>1
    <3>3. Latest.boundary < MonthStart(m)
      <4>1. CASE Latest.boundary = -1
        BY <1>2, <4>1
      <4>2. ASSUME NEW k \in Months, Latest.boundary = MonthEnd(k) - 1
            PROVE  Latest.boundary < MonthStart(m)
        <5>1. MonthEnd(k) \in Nat /\ MonthEnd(k) < MonthEnd(m)
          BY <1>2, <1>9, <4>2, MonthBounds
        <5>2. MonthEnd(k) <= MonthStart(m)
          BY <5>1, MonthOrder
        <5> QED BY <1>2, <4>2, <5>1, <5>2
      <4> QED BY <1>L, <4>1, <4>2 DEF LatestStands
    <3>4. Latest.boundary < e.at /\ e.at <= b
      BY <1>1, <1>2, <3>1, <3>2, <3>3
    <3> QED BY <1>5, <3>2, <3>4
  <2> HIDE DEF rows
  <2>3. new.seq # Latest.seq /\ Latest.seq < new.seq
    <3>1. PICK e \in rows : TRUE
      BY <2>2
    <3>2. e.seq \in (Latest.seq + 1)..new.seq
      BY <2>1, <3>1
    <3> QED BY <1>1, <1>4, <3>2
  <2>4. checkpoints' = Append(checkpoints, new)
    BY <2>0, <2>3
  <2>5. new.seq <= stream /\ new.seq \in 1..MaxSeq
    <3>1. new.seq \in (Latest.seq + 1)..new.seq
      BY <1>1, <1>4, <2>3
    <3>2. PICK e \in rows : e.seq = new.seq
      BY <2>1, <3>1
    <3>3. e \in recorded
      BY <1>5, <3>2
    <3>4. e.seq \in 1..stream
      BY <1>0, <3>3 DEF LedgerInv
    <3>5. stream \in 0..MaxSeq
      BY DEF TypeOK
    <3> QED BY <1>1, <1>4, <2>3, <3>2, <3>4, <3>5, DeviceUsageAssumption
  <2>6. new.count = EnrolledAt(b)
    <3>1. EnrolledAt(b) = EnrolledAt(Latest.boundary)
                + Count({e \in recorded : Latest.boundary < e.at /\ e.at <= b})
      BY <1>1, <1>2, <1>9, EnrolledBetween
    <3> QED BY <1>3, <1>5, <1>L, <3>1 DEF LatestStands
  <2>7. new.count \in 0..Cardinality(Devices)
    BY <1>0, <1>2, <2>6 DEF CountInv
  <2>8. new \in deviceCheckpoint
    BY <1>2, <1>3, <2>5, <2>7 DEF deviceCheckpoint
  <2>9. \A e \in recorded : e.at <= b <=> e.seq <= new.seq
    <3> TAKE e \in recorded
    <3>1. CASE e.seq <= Latest.seq
      <4>1. e.at <= Latest.boundary
        BY <1>L, <3>1 DEF LatestStands
      <4> QED BY <1>1, <1>2, <1>4, <1>9, <1>R, <3>1, <4>1
    <3>2. CASE e.seq > Latest.seq
      <4>1. e.at <= b => e.seq <= new.seq
        <5> SUFFICES ASSUME e.at <= b PROVE e.seq <= new.seq
          OBVIOUS
        <5>1. e \in rows
          BY <1>R, <3>2 DEF rows
        <5>2. e.seq \in (Latest.seq + 1)..new.seq
          BY <2>1, <5>1
        <5> QED BY <1>1, <1>4, <5>2
      <4>2. e.seq <= new.seq => e.at <= b
        <5> SUFFICES ASSUME e.seq <= new.seq PROVE e.at <= b
          OBVIOUS
        <5>1. e.seq \in (Latest.seq + 1)..new.seq
          BY <1>1, <1>4, <1>R, <3>2
        <5>2. PICK f \in rows : f.seq = e.seq
          BY <2>1, <5>1
        <5>3. f = e /\ f.at <= b
          BY <1>0, <1>5, <5>2 DEF LedgerInv
        <5> QED BY <5>3
      <4> QED BY <4>1, <4>2
    <3> QED BY <1>1, <1>R, <3>1, <3>2
  <2>10. Stands(new)
    BY <1>3, <2>5, <2>6, <2>9 DEF Stands
  <2> DEFINE n == Len(checkpoints)
  <2>11. n \in Nat /\ DOMAIN checkpoints = 1..n /\ checkpoints \in Seq(deviceCheckpoint)
    BY LenProperties DEF TypeOK
  <2>12. /\ checkpoints' \in Seq(deviceCheckpoint) /\ checkpoints' # <<>>
         /\ Len(checkpoints') = n + 1 /\ checkpoints'[n + 1] = new
         /\ \A i \in 1..n : checkpoints'[i] = checkpoints[i]
    BY <2>4, <2>8, <2>11, AppendProperties
  <2> HIDE DEF n
  <2>13. DOMAIN checkpoints' = 1..(n + 1)
    BY <2>12, LenProperties
  <2>14. Latest' = new
    BY <2>12 DEF Latest, Last
  <2>15. CheckpointInv'
    <3>2. \A i \in DOMAIN checkpoints' : Stands(checkpoints'[i])
      <4> TAKE i \in DOMAIN checkpoints'
      <4>1. CASE i \in 1..n
        BY <1>0, <2>11, <2>12, <4>1 DEF CheckpointInv
      <4>2. CASE i = n + 1
        BY <2>10, <2>12, <4>2
      <4> QED BY <2>11, <2>13, <4>1, <4>2
    <3>3. \A i \in DOMAIN checkpoints' : Stands(checkpoints[i])'
      BY <1>0, <3>2 DEF Stands, EnrolledAt, Count
    <3>4. \A i, j \in DOMAIN checkpoints' : i < j =>
                checkpoints'[i].boundary < checkpoints'[j].boundary
      <4> SUFFICES ASSUME NEW i \in DOMAIN checkpoints', NEW j \in DOMAIN checkpoints', i < j
                   PROVE  checkpoints'[i].boundary < checkpoints'[j].boundary
        OBVIOUS
      <4>1. i \in 1..n /\ checkpoints'[i] = checkpoints[i]
        BY <2>11, <2>12, <2>13
      <4>2. CASE j \in 1..n
        BY <1>0, <2>11, <2>12, <4>1, <4>2 DEF CheckpointInv
      <4>3. CASE j = n + 1
        <5>1. checkpoints[i].boundary \in Nat /\ checkpoints[i].boundary <= Latest.boundary
          BY <1>0, <1>L, <2>11, <4>1, BeforeLatest
        <5>2. checkpoints'[j].boundary = b
          BY <1>3, <2>12, <4>3
        <5> QED BY <1>1, <1>2, <1>9, <4>1, <5>1, <5>2
      <4> QED BY <2>11, <2>13, <4>2, <4>3
    <3> QED BY <3>3, <3>4 DEF CheckpointInv
  <2>16. PruneInv'
    <3>1. \A k \in pruned' : MonthEnd(k) - 1 <= b
      <4> TAKE k \in pruned'
      <4>1. CASE k = m
        BY <1>2, <4>1
      <4>2. CASE k \in pruned
        <5>1. MonthEnd(k) \in Nat /\ MonthEnd(k) - 1 <= Latest.boundary
          BY <1>0, <4>2, MonthBounds DEF PruneInv, TypeOK
        <5> QED BY <1>1, <1>2, <1>9, <5>1
      <4> QED BY <1>0, <4>1, <4>2
    <3> QED BY <1>3, <1>7, <2>14, <3>1 DEF PruneInv, MonthTicks, MonthEnd, MonthStart
  <2> QED BY <1>6, <2>12, <2>15, <2>16 DEF Books
<1> QED BY <1>8, <1>9

-----------------------------------------------------------------------------
(* Periods, and the members they vouch for. *)

LEMMA PeriodFacts ==
    ASSUME TypeOK, PeriodInv
    PROVE  /\ Len(periods) \in Nat \ {0} /\ DOMAIN periods = 1..Len(periods)
           /\ \A i \in 1..Len(periods) :
                /\ periods[i] \in Period /\ periods[i].start \in Nat /\ periods[i].end \in Nat
                /\ periods[i].complete \in BOOLEAN
<1>1. /\ Len(periods) \in Nat \ {0} /\ DOMAIN periods = 1..Len(periods)
      /\ \A i \in 1..Len(periods) : periods[i] \in Period
  BY LenProperties DEF TypeOK, PeriodInv
<1>2. \A p \in Period : p.start \in Nat /\ p.end \in Nat /\ p.complete \in BOOLEAN
  BY DeviceUsageAssumption DEF Period, Ticks, Open
<1> QED BY <1>1, <1>2

LEMMA ClosePeriod ==
    ASSUME TypeOK, PeriodInv, NEW at \in Ticks, NEW x \in BOOLEAN, NEW ps,
           ps = closePeriod(at, x)
    PROVE  /\ ps \in Seq(Period) /\ Len(ps) = Len(periods)
           /\ ps[Len(periods)].start = periods[Len(periods)].start
           /\ ps[Len(periods)].end = at /\ ps[Len(periods)].complete = x
           /\ \A i \in 1..Len(periods) : i # Len(periods) => ps[i] = periods[i]
<1> DEFINE n == Len(periods)
           p == [periods[n] EXCEPT !.end = at, !.complete = x]
<1>1. /\ n \in 1..n /\ periods \in Seq(Period) /\ periods[n] \in Period /\ DOMAIN periods = 1..n
      /\ n \in Nat \ {0}
  BY PeriodFacts DEF TypeOK
<1>2. /\ p \in Period /\ p.end = at /\ p.complete = x
      /\ p.start = periods[n].start
  <2> DEFINE q == periods[n]
             r == [q EXCEPT !.end = at]
  <2>1. r \in Period /\ r.end = at /\ r.start = q.start
    BY <1>1 DEF Period
  <2>2. p = [r EXCEPT !.complete = x]
    OBVIOUS
  <2> HIDE DEF r, q, p
  <2>3. p \in Period /\ p.complete = x /\ p.end = r.end /\ p.start = r.start
    BY <2>1, <2>2 DEF Period
  <2> QED BY <2>1, <2>3 DEF q
<1>4. ps = [periods EXCEPT ![n] = [periods[n] EXCEPT !.end = at, !.complete = x]]
  BY <1>1, Zenon DEF closePeriod
<1> HIDE DEF p, n
<1>5. ps = [periods EXCEPT ![n] = p]
  BY <1>4 DEF p
<1>7. /\ ps \in Seq(Period) /\ Len(ps) = Len(periods)
      /\ \A j \in 1..Len(periods) : ps[j] = IF j = n THEN p ELSE periods[j]
  BY <1>1, <1>2, <1>5, ExceptSeq DEF n
<1> QED BY <1>1, <1>2, <1>7 DEF n

LEMMA ObservedFacts ==
    ASSUME TypeOK, NEW ds \in SUBSET Devices, NEW at
    PROVE  /\ Observed(Cardinality(ds), at) \in [Ticks -> 0..Cardinality(Devices)]
           /\ \A t \in Ticks : t >= at => Observed(Cardinality(ds), at)[t] = Cardinality(ds)
           /\ \A t \in Ticks : ~(t >= at) => Observed(Cardinality(ds), at)[t] = truth[t]
<1>1. Cardinality(ds) \in 0..Cardinality(Devices)
  BY DevicesFinite
<1> QED BY <1>1 DEF Observed, TypeOK

LEMMA InvoiceSame ==
    ASSUME TypeOK, TimeInv, InvoiceInv, invoices' = invoices, since' \in Nat, since <= since',
           \A t \in Ticks : t < since => truth'[t] = truth[t]
    PROVE  InvoiceInv'
<1> SUFFICES ASSUME NEW m \in Months, invoices[m].drawn, invoices[m].sound
             PROVE  /\ MonthEnd(m) <= since'
                    /\ \A t \in MonthTicks(m) : invoices[m].devices[t] = truth'[t]
  BY DEF InvoiceInv, MonthEnd, MonthTicks, MonthStart
<1>1. /\ MonthEnd(m) <= since
      /\ \A t \in MonthTicks(m) : invoices[m].devices[t] = truth[t]
  BY DEF InvoiceInv
<1>2. /\ MonthEnd(m) \in Nat /\ MonthStart(m) \in Nat /\ since \in Nat /\ since <= MaxTime
  BY MonthBounds, DeviceUsageAssumption DEF TypeOK, Ticks
<1>3. \A t \in MonthTicks(m) : t \in Ticks /\ t < since
  BY <1>1, <1>2, DeviceUsageAssumption DEF MonthTicks, Ticks
<1> QED BY <1>1, <1>2, <1>3

LEMMA PastStays ==
    ASSUME TypeOK, LedgerType', Grows, NEW t \in Int, t < since
    PROVE  EnrolledAt(t)' = EnrolledAt(t)
<1>1. \A e \in recorded' : e.at \in Int /\ since \in Int
  BY DEF TypeOK, LedgerType, event, Ticks
<1>2. {e \in recorded' : e.at <= t} = {e \in recorded : e.at <= t}
  BY <1>1 DEF Grows
<1> QED BY <1>2 DEF EnrolledAt, Count

LEMMA BasedStays ==
    ASSUME TypeOK, LedgerType', Grows, NEW c, NEW a \in Nat, a < since,
           c.seq \in Nat, c.boundary \in Int, Based(c, a)
    PROVE  Based(c, a)'
<1>1. PICK base \in Int : base = Base(c)
  BY DEF Base
<1>2. /\ base <= a /\ c.seq <= stream /\ c.count = EnrolledAt(base)
      /\ \A e \in recorded : e.at <= base <=> e.seq <= c.seq
  BY <1>1 DEF Based
<1>3. /\ stream \in Nat /\ stream' \in Nat /\ stream <= stream' /\ since \in Nat
      /\ \A e \in recorded' : e.at \in Nat /\ e.seq \in Nat
  BY DEF TypeOK, LedgerType, event, Ticks, Grows
<1>4. base < since
  BY <1>2, <1>3
<1>5. EnrolledAt(base)' = EnrolledAt(base)
  BY <1>4, PastStays
<1>6. \A e \in recorded' : e.at <= base <=> e.seq <= c.seq
  BY <1>2, <1>3, <1>4 DEF Grows
<1>7. c.seq <= stream'
  BY <1>2, <1>3
<1>8. base = Base(c)'
  BY <1>1 DEF Base
<1> QED BY <1>2, <1>5, <1>6, <1>7, <1>8 DEF Based

LEMMA DraftSame ==
    ASSUME TypeOK, DraftInv, LedgerType', Grows, UNCHANGED <<draft, invoices>>,
           \A m \in pruned' : m \in pruned \/ invoices[m].drawn, since' \in Nat, since <= since',
           \A t \in Ticks : t < since => truth'[t] = truth[t]
    PROVE  DraftInv'
<1>1. /\ \A k \in pruned' : invoices'[k].drawn
      /\ draft'.step # "none" => ~invoices'[draft'.month].drawn
  BY DEF DraftInv
<1>2. CASE draft.step # "none" /\ draft.sound
  <2>1. PICK m, c, n : m = draft.month /\ c = draft.from /\ n = draft.count
    OBVIOUS
  <2>2. PICK a, b : a = MonthStart(m) /\ b = MonthEnd(m)
    OBVIOUS
  <2>3. m \in Months /\ c \in deviceCheckpoint \cup {NoCheckpoint}
    BY <2>1 DEF TypeOK, Draft
  <2>4. c.seq \in Nat /\ c.boundary \in Int
    BY <2>3 DEF deviceCheckpoint, NoCheckpoint, Ticks
  <2>5. /\ b <= since /\ \A t \in MonthTicks(m) : truth[t] = EnrolledAt(t)
        /\ draft.step # "checkpoint" => Based(c, a)
        /\ draft.step = "events" => n = EnrolledAt(a)
    BY <1>2, <2>1, <2>2 DEF DraftInv
  <2>6. /\ a \in Nat /\ b \in Nat /\ a < b /\ since \in Nat /\ since <= MaxTime /\ a < since
    BY <2>2, <2>3, <2>5, MonthBounds, DeviceUsageAssumption DEF TypeOK, Ticks
  <2>7. ASSUME NEW t \in MonthTicks(m) PROVE truth'[t] = EnrolledAt(t)'
    <3>1. t \in Ticks /\ t \in Int /\ t < since
      BY <2>2, <2>5, <2>6, DeviceUsageAssumption DEF MonthTicks, Ticks
    <3>2. EnrolledAt(t)' = EnrolledAt(t)
      BY <3>1, PastStays
    <3> QED BY <2>5, <3>1, <3>2
  <2>8. draft.step # "checkpoint" => Based(c, a)'
    BY <2>4, <2>5, <2>6, BasedStays
  <2>9. draft.step = "events" => n = EnrolledAt(a)'
    BY <2>5, <2>6, PastStays
  <2>10. b <= since'
    BY <2>5, <2>6
  <2>11. m = draft'.month /\ c = draft'.from /\ n = draft'.count /\ draft'.step = draft.step
    BY <2>1
  <2>12. a = MonthStart(m)' /\ b = MonthEnd(m)' /\ MonthTicks(m)' = MonthTicks(m)
    BY <2>2 DEF MonthStart, MonthEnd, MonthTicks
  <2> QED BY <1>1, <2>2, <2>7, <2>8, <2>9, <2>10, <2>11, <2>12 DEF DraftInv
<1>3. CASE ~(draft.step # "none" /\ draft.sound)
  BY <1>1, <1>3 DEF DraftInv
<1> QED BY <1>2, <1>3

\* Each tick a period vouches for stays as it was, or has its members anew.
LEMMA TruthMoves ==
    ASSUME TruthInv,
           \A t \in Ticks : \A i \in Covering(t)' :
              periods'[i].complete /\ i \notin unseen' =>
                 \/ truth'[t] = EnrolledAt(t)'
                 \/ /\ i \in Covering(t) /\ periods[i].complete /\ i \notin unseen
                    /\ truth'[t] = truth[t] /\ EnrolledAt(t)' = EnrolledAt(t),
           enabled' => \A t \in Ticks : t >= since' => truth'[t] = Cardinality(members')
    PROVE  TruthInv'
BY DEF TruthInv

\* From since on only the current period of an enabled collection covers a tick.
LEMMA CoveringFacts ==
    ASSUME TypeOK, PeriodInv, NEW t \in Ticks, NEW i \in Covering(t)
    PROVE  /\ i \in 1..Len(periods) /\ periods[i].start <= t /\ t < periods[i].end
           /\ t >= since => i = Len(periods) /\ enabled
<1>1. /\ i \in 1..Len(periods) /\ i \in DOMAIN periods /\ Len(periods) \in Nat
      /\ periods[i].end \in Nat /\ since \in Nat /\ t \in Nat
      /\ periods[i].start <= t /\ t < periods[i].end
  BY PeriodFacts DEF Covering, TypeOK, Ticks
<1>2. ASSUME t >= since PROVE i = Len(periods) /\ enabled
  <2>1. ~(periods[i].end <= since)
    BY <1>1, <1>2
  <2> QED BY <1>1, <2>1 DEF PeriodInv
<1> QED BY <1>1, <1>2

LEMMA PeriodsSame ==
    ASSUME TypeOK, PeriodInv, UNCHANGED <<enabled, periods>>, unseen' \subseteq 1..Len(periods),
           since' \in Nat, since <= since'
    PROVE  PeriodInv' /\ \A t : Covering(t)' = Covering(t)
<1>1. since \in Nat /\ \A i \in DOMAIN periods : periods[i].start \in Nat /\ periods[i].end \in Nat
  BY PeriodFacts DEF TypeOK, Ticks
<1>2. \A i \in DOMAIN periods : /\ periods[i].start <= since'
                                /\ i < Len(periods) \/ ~enabled => periods[i].end <= since'
  BY <1>1 DEF PeriodInv
<1> QED BY <1>2 DEF PeriodInv, Covering

LEMMA PeriodsClosed ==
    ASSUME TypeOK, PeriodInv, TimeInv, enabled, NEW at \in since..now, NEW x \in BOOLEAN,
           periods' = closePeriod(at, x), enabled' = FALSE, unseen' = unseen, since' = now
    PROVE  /\ PeriodInv' /\ periods' \in Seq(Period)
           /\ \A t \in Ticks : \A i \in Covering(t)' :
                /\ i \in Covering(t) /\ t < now
                /\ (i = Len(periods) => t < at)
                /\ (i # Len(periods) => periods'[i] = periods[i])
<1> DEFINE n == Len(periods)
<1>a. /\ n \in Nat \ {0} /\ DOMAIN periods = 1..n
      /\ \A i \in 1..n : periods[i].start \in Nat /\ periods[i].end \in Nat
  BY PeriodFacts
<1>b. /\ since \in Nat /\ now \in Nat /\ at \in Nat /\ since <= at /\ at <= now /\ at \in Ticks
  BY DeviceUsageAssumption DEF TypeOK, Ticks
<1>c. n \in 1..MaxPeriods /\ unseen \subseteq 1..n
  BY DEF PeriodInv
<1>0. /\ n \in Nat \ {0} /\ DOMAIN periods = 1..n
      /\ \A i \in 1..n : periods[i].start \in Nat /\ periods[i].end \in Nat
      /\ since \in Nat /\ now \in Nat /\ at \in Nat /\ since <= at /\ at <= now /\ at \in Ticks
      /\ n \in 1..MaxPeriods /\ unseen \subseteq 1..n
  BY <1>a, <1>b, <1>c
<1>1. /\ periods' \in Seq(Period) /\ Len(periods') = n
      /\ periods'[n].start = periods[n].start
      /\ periods'[n].end = at /\ periods'[n].complete = x
      /\ \A i \in 1..n : i # n => periods'[i] = periods[i]
  <2>1. PICK ps : ps = periods'
    OBVIOUS
  <2>2. ps = closePeriod(at, x) /\ at \in Ticks /\ x \in BOOLEAN
    BY <1>b, <2>1
  <2>3. /\ ps \in Seq(Period) /\ Len(ps) = Len(periods)
        /\ ps[Len(periods)].start = periods[Len(periods)].start
        /\ ps[Len(periods)].end = at /\ ps[Len(periods)].complete = x
        /\ \A i \in 1..Len(periods) : i # Len(periods) => ps[i] = periods[i]
    BY <2>2, ClosePeriod
  <2> QED BY <2>1, <2>3
<1>n. n = Len(periods)
  OBVIOUS
<1> HIDE DEF n
<1>2. DOMAIN periods' = 1..n
  BY <1>1, LenProperties
<1>3. \A i \in 1..n : periods[i].start <= since /\ (i < n => periods[i].end <= since)
  BY <1>0, <1>n DEF PeriodInv
<1>4. periods[n].end = Open
  BY <1>n DEF PeriodInv
<1>5. \A i \in 1..n : periods'[i].start <= now /\ periods'[i].end <= now
  <2> TAKE i \in 1..n
  <2>1. CASE i = n
    BY <1>0, <1>1, <1>3, <2>1
  <2>2. CASE i # n
    <3>1. i < n /\ periods'[i] = periods[i]
      BY <1>0, <1>1, <2>2
    <3> QED BY <1>0, <1>3, <3>1
  <2> QED BY <2>1, <2>2
<1>6. \A i, j \in 1..n : i < j => periods'[i].end <= periods'[j].start
  <2> SUFFICES ASSUME NEW i \in 1..n, NEW j \in 1..n, i < j
               PROVE  periods'[i].end <= periods'[j].start
    OBVIOUS
  <2>1. i # n /\ periods'[i] = periods[i] /\ periods'[j].start = periods[j].start
    BY <1>0, <1>1
  <2>2. periods[i].end <= periods[j].start
    BY <1>0 DEF PeriodInv
  <2> QED BY <2>1, <2>2
<1>7. PeriodInv'
  BY <1>0, <1>1, <1>2, <1>5, <1>6 DEF PeriodInv
<1>8. ASSUME NEW t \in Ticks, NEW i \in Covering(t)'
      PROVE  /\ i \in Covering(t) /\ t < now /\ (i = n => t < at)
             /\ (i # n => periods'[i] = periods[i])
  <2>1. i \in 1..n /\ periods'[i].start <= t /\ t < periods'[i].end
    BY <1>2 DEF Covering
  <2>2. t \in Nat /\ t < Open
    BY DeviceUsageAssumption DEF Ticks, Open
  <2>3. CASE i = n
    BY <1>0, <1>1, <1>4, <2>1, <2>2, <2>3 DEF Covering
  <2>4. CASE i # n
    <3>1. periods'[i] = periods[i] /\ i < n
      BY <1>0, <1>1, <2>1, <2>4
    <3> QED BY <1>0, <1>3, <2>1, <2>2, <2>4, <3>1 DEF Covering
  <2> QED BY <2>3, <2>4
<1> QED BY <1>1, <1>7, <1>8, <1>n

LEMMA PeriodsStarted ==
    ASSUME TypeOK, NEW ps \in Seq(Period), NEW n, Len(ps) = n, n \in 1..MaxPeriods, n < MaxPeriods,
           NEW at \in Ticks, at <= now,
           \A i \in 1..n : ps[i].start <= at /\ ps[i].end <= at,
           \A i, j \in 1..n : i < j => ps[i].end <= ps[j].start,
           periods' = startPeriod(ps, at), enabled' = TRUE, unseen' \subseteq 1..n, since' = now
    PROVE  /\ PeriodInv' /\ periods' \in Seq(Period)
           /\ \A t \in Ticks : \A i \in Covering(t)' :
                \/ i = n + 1 /\ t >= at
                \/ /\ i \in 1..n /\ t < at /\ periods'[i] = ps[i]
                   /\ ps[i].start <= t /\ t < ps[i].end
<1>0. /\ n \in Nat \ {0} /\ n + 1 \in 1..MaxPeriods /\ DOMAIN ps = 1..n
      /\ \A i \in 1..n : ps[i] \in Period
      /\ at \in Nat /\ now \in Nat
  BY LenProperties, DeviceUsageAssumption DEF TypeOK, Ticks
<1>1. \A i \in 1..n : ps[i].start \in Nat /\ ps[i].end \in Nat
  BY <1>0, DeviceUsageAssumption DEF Period, Ticks, Open
<1>2. /\ periods' \in Seq(Period) /\ Len(periods') = n + 1
      /\ periods'[n + 1].start = at /\ periods'[n + 1].end = Open
      /\ periods'[n + 1].complete = TRUE
      /\ \A i \in 1..n : periods'[i] = ps[i]
  <2> DEFINE p == [start |-> at, end |-> Open, complete |-> TRUE]
  <2>1. p \in Period /\ p.start = at /\ p.end = Open /\ p.complete = TRUE
    BY DEF Period
  <2>2. periods' = Append(ps, p)
    BY DEF startPeriod
  <2> HIDE DEF p
  <2>3. /\ periods' \in Seq(Period) /\ Len(periods') = n + 1 /\ periods'[n + 1] = p
        /\ \A i \in 1..n : periods'[i] = ps[i]
    BY <2>1, <2>2, AppendProperties
  <2> QED BY <2>1, <2>3
<1>3. DOMAIN periods' = 1..(n + 1)
  BY <1>2, LenProperties
<1>4. \A i \in 1..(n + 1) : i \in 1..n \/ i = n + 1
  BY <1>0
<1>5. \A i \in 1..(n + 1) : /\ periods'[i].start <= now
                            /\ i < n + 1 => periods'[i].end <= now
  <2> TAKE i \in 1..(n + 1)
  <2>1. CASE i \in 1..n
    BY <1>0, <1>1, <1>2, <2>1
  <2>2. CASE i = n + 1
    BY <1>0, <1>2, <2>2
  <2> QED BY <1>4, <2>1, <2>2
<1>6. ASSUME NEW i \in 1..(n + 1), NEW j \in 1..(n + 1), i < j
      PROVE  periods'[i].end <= periods'[j].start
  <2>1. i \in 1..n /\ periods'[i] = ps[i]
    BY <1>0, <1>2, <1>6
  <2>2. CASE j \in 1..n
    BY <1>2, <1>6, <2>1, <2>2
  <2>3. CASE j = n + 1
    BY <1>2, <2>1, <2>3
  <2> QED BY <1>4, <2>2, <2>3
<1>7. PeriodInv'
  <2>1. Len(periods') \in 1..MaxPeriods /\ unseen' \subseteq 1..Len(periods')
    BY <1>0, <1>2
  <2> QED BY <1>2, <1>3, <1>5, <1>6, <2>1 DEF PeriodInv
<1>8. ASSUME NEW t \in Ticks, NEW i \in Covering(t)'
      PROVE  \/ i = n + 1 /\ t >= at
             \/ /\ i \in 1..n /\ t < at /\ periods'[i] = ps[i]
                /\ ps[i].start <= t /\ t < ps[i].end
  <2>1. i \in 1..(n + 1) /\ periods'[i].start <= t /\ t < periods'[i].end /\ t \in Nat
    BY <1>3 DEF Covering, Ticks
  <2>2. CASE i \in 1..n
    BY <1>0, <1>1, <1>2, <2>1, <2>2
  <2>3. CASE i = n + 1
    BY <1>0, <1>2, <2>1, <2>3
  <2> QED BY <1>4, <2>1, <2>2, <2>3
<1> QED BY <1>2, <1>7, <1>8

-----------------------------------------------------------------------------
(* Every step keeps the invariant. *)

LEMMA Clock ==
    ASSUME TypeOK, TimeInv
    PROVE  /\ now \in Nat /\ since \in Nat /\ since <= now /\ MaxOpen \in Nat
           /\ \A t \in Ticks : t \in Nat
           /\ \A at \in since..now : at \in Ticks /\ at \in Nat /\ since <= at /\ at <= now
BY DeviceUsageAssumption DEF TypeOK, TimeInv, Ticks

LEMMA SyncStep ==
    ASSUME IInv, NEW wanted \in SUBSET Devices, NEW at \in since..now, synchronize(wanted, at),
           UNCHANGED <<now, checkpoints, pruned>>, since' \in at..now
    PROVE  /\ (LedgerType /\ Books)' /\ TimeInv' /\ Grows
           /\ \A t \in Ticks : t < at => EnrolledAt(t)' = EnrolledAt(t)
           /\ \A t \in Ticks : t >= at => EnrolledAt(t)' = Cardinality(wanted)
<1>1. TypeOK /\ Books /\ TimeInv /\ LedgerInv /\ EnrolInv
  BY DEF IInv, Books
<1>2. at \in Ticks /\ now \in Nat /\ MaxOpen \in Nat /\ since \in Nat /\ now - MaxOpen <= since
  BY <1>1, Clock DEF TimeInv
<1>3. PICK added : Synced(wanted, at, added)
  BY <1>1, <1>2, SynchronizeEffect
<1>4. TimeInv'
  BY <1>2 DEF TimeInv
<1> QED BY <1>1, <1>3, <1>4, AppendStep

LEMMA TrackStep ==
    ASSUME IInv, NEW to \in SUBSET Devices, NEW at \in since..now, Track(to, at)
    PROVE  IInv'
<1>0. TypeOK /\ Books /\ TimeInv /\ PeriodInv /\ TruthInv /\ InvoiceInv /\ DraftInv
  BY DEF IInv, Books
<1>1. /\ enabled /\ synchronize(to, at) /\ members' = to /\ since' = at
      /\ truth' = Observed(Cardinality(to), at)
      /\ UNCHANGED <<now, account, enabled, periods, checkpoints, invoices, draft, pruned, unseen, raw>>
  BY DEF Track
<1>2. /\ now \in Nat /\ since \in Nat /\ since <= now
      /\ \A t \in Ticks : t \in Nat
      /\ at \in Ticks /\ at \in Nat /\ since <= at /\ at <= now
  BY <1>0, Clock
<1>3. /\ (LedgerType /\ Books)' /\ TimeInv' /\ Grows
      /\ \A t \in Ticks : t < at => EnrolledAt(t)' = EnrolledAt(t)
      /\ \A t \in Ticks : t >= at => EnrolledAt(t)' = Cardinality(to)
  BY <1>1, <1>2, SyncStep
<1>4. /\ truth' \in [Ticks -> 0..Cardinality(Devices)]
      /\ \A t \in Ticks : t >= at => truth'[t] = Cardinality(to)
      /\ \A t \in Ticks : ~(t >= at) => truth'[t] = truth[t]
  BY <1>0, <1>1, ObservedFacts
<1>5. TypeOK'
  BY <1>0, <1>1, <1>2, <1>3, <1>4 DEF TypeOK, LedgerType
<1>6. PeriodInv' /\ \A t : Covering(t)' = Covering(t)
  <2>1. unseen' \subseteq 1..Len(periods)
    BY <1>0, <1>1 DEF PeriodInv
  <2> QED BY <1>0, <1>1, <1>2, <2>1, PeriodsSame
<1>7. TruthInv'
  <2>1. ASSUME NEW t \in Ticks, NEW i \in Covering(t)', periods'[i].complete /\ i \notin unseen'
        PROVE  \/ truth'[t] = EnrolledAt(t)'
               \/ /\ i \in Covering(t) /\ periods[i].complete /\ i \notin unseen
                  /\ truth'[t] = truth[t] /\ EnrolledAt(t)' = EnrolledAt(t)
    <3>1. CASE t >= at
      BY <1>3, <1>4, <3>1
    <3>2. CASE ~(t >= at)
      <4>1. t < at
        BY <1>2, <3>2
      <4> QED BY <1>1, <1>3, <1>4, <1>6, <2>1, <3>2, <4>1
    <3> QED BY <3>1, <3>2
  <2>2. \A t \in Ticks : t >= since' => truth'[t] = Cardinality(members')
    BY <1>1, <1>2, <1>4
  <2> QED BY <1>0, <2>1, <2>2, TruthMoves
<1>8. InvoiceInv'
  <2>1. \A t \in Ticks : t < since => truth'[t] = truth[t]
    BY <1>2, <1>4
  <2> QED BY <1>0, <1>1, <1>2, <2>1, InvoiceSame
<1>d. DraftInv'
  <2>1. \A t \in Ticks : t < since => truth'[t] = truth[t]
    BY <1>1, <1>2, <1>3, <1>4
  <2> QED BY <1>0, <1>1, <1>2, <1>3, <2>1, DraftSame
<1> QED BY <1>3, <1>5, <1>6, <1>7, <1>8, <1>d DEF IInv, Books

LEMMA DeleteAccountStep ==
    ASSUME IInv, NEW at \in since..now, NEW closed \in since..now, DeleteAccount(at, closed)
    PROVE  IInv'
<1>0. TypeOK /\ Books /\ TimeInv /\ PeriodInv /\ TruthInv /\ InvoiceInv /\ DraftInv
  BY DEF IInv, Books
<1>1. /\ enabled /\ synchronize({}, at) /\ members' = {} /\ since' = now
      /\ truth' = Observed(0, at) /\ periods' = closePeriod(closed, TRUE)
      /\ enabled' = FALSE /\ account' = FALSE
      /\ UNCHANGED <<now, checkpoints, invoices, draft, pruned, unseen, raw>>
  BY DEF DeleteAccount
<1>2. /\ now \in Nat /\ since \in Nat /\ since <= now
      /\ \A t \in Ticks : t \in Nat
      /\ at \in Ticks /\ at \in Nat /\ since <= at /\ at <= now
  BY <1>0, Clock
<1>c. Cardinality({}) = 0 /\ {} \in SUBSET Devices
  BY FS_EmptySet
<1>3. /\ (LedgerType /\ Books)' /\ TimeInv' /\ Grows
      /\ \A t \in Ticks : t < at => EnrolledAt(t)' = EnrolledAt(t)
      /\ \A t \in Ticks : t >= at => EnrolledAt(t)' = 0
  BY <1>1, <1>2, <1>c, SyncStep
<1>4. /\ truth' \in [Ticks -> 0..Cardinality(Devices)]
      /\ \A t \in Ticks : t >= at => truth'[t] = 0
      /\ \A t \in Ticks : ~(t >= at) => truth'[t] = truth[t]
  BY <1>0, <1>1, <1>c, ObservedFacts
<1>6. /\ PeriodInv' /\ periods' \in Seq(Period)
      /\ \A t \in Ticks : \A i \in Covering(t)' :
           /\ i \in Covering(t) /\ t < now
           /\ (i = Len(periods) => t < closed)
           /\ (i # Len(periods) => periods'[i] = periods[i])
  BY <1>0, <1>1, PeriodsClosed
<1>5. TypeOK'
  BY <1>0, <1>1, <1>3, <1>4, <1>6 DEF TypeOK, LedgerType
<1>7. TruthInv'
  <2>1. ASSUME NEW t \in Ticks, NEW i \in Covering(t)', periods'[i].complete /\ i \notin unseen'
        PROVE  \/ truth'[t] = EnrolledAt(t)'
               \/ /\ i \in Covering(t) /\ periods[i].complete /\ i \notin unseen
                  /\ truth'[t] = truth[t] /\ EnrolledAt(t)' = EnrolledAt(t)
    <3>1. CASE t >= at
      BY <1>3, <1>4, <3>1
    <3>2. CASE ~(t >= at)
      <4>1. t < at
        BY <1>2, <3>2
      <4>2. i \in Covering(t) /\ (i # Len(periods) => periods'[i] = periods[i])
        BY <1>6
      <4>3. i = Len(periods) => periods[i].complete
        BY <1>0, <1>1 DEF PeriodInv
      <4> QED BY <1>1, <1>3, <1>4, <2>1, <3>2, <4>1, <4>2, <4>3
    <3> QED BY <3>1, <3>2
  <2> QED BY <1>0, <1>1, <2>1, TruthMoves
<1>8. InvoiceInv'
  <2>1. \A t \in Ticks : t < since => truth'[t] = truth[t]
    BY <1>2, <1>4
  <2> QED BY <1>0, <1>1, <1>2, <2>1, InvoiceSame
<1>d. DraftInv'
  <2>1. \A t \in Ticks : t < since => truth'[t] = truth[t]
    BY <1>1, <1>2, <1>3, <1>4
  <2> QED BY <1>0, <1>1, <1>2, <1>3, <2>1, DraftSame
<1> QED BY <1>3, <1>5, <1>6, <1>7, <1>8, <1>d DEF IInv, Books

LEMMA ConfigureOnStep ==
    ASSUME IInv, NEW at \in since..now, ConfigureOn(at)
    PROVE  IInv'
<1> DEFINE n == Len(periods)
<1>0. TypeOK /\ Books /\ TimeInv /\ PeriodInv /\ TruthInv /\ InvoiceInv /\ DraftInv
      /\ members \in SUBSET Devices
  BY DEF IInv, Books, TypeOK
<1>1. /\ ~enabled /\ n < MaxPeriods /\ synchronize(members, at) /\ since' = now
      /\ truth' = Observed(Cardinality(members), at)
      /\ periods' = startPeriod(periods, at) /\ enabled' = TRUE
      /\ UNCHANGED <<now, account, members, checkpoints, invoices, draft, pruned, unseen, raw>>
  BY DEF ConfigureOn
<1>2. /\ now \in Nat /\ since \in Nat /\ since <= now
      /\ \A t \in Ticks : t \in Nat
      /\ at \in Ticks /\ at \in Nat /\ since <= at /\ at <= now
  BY <1>0, Clock
<1>3. /\ (LedgerType /\ Books)' /\ TimeInv' /\ Grows
      /\ \A t \in Ticks : t < at => EnrolledAt(t)' = EnrolledAt(t)
      /\ \A t \in Ticks : t >= at => EnrolledAt(t)' = Cardinality(members)
  BY <1>0, <1>1, <1>2, SyncStep
<1>4. /\ truth' \in [Ticks -> 0..Cardinality(Devices)]
      /\ \A t \in Ticks : t >= at => truth'[t] = Cardinality(members)
      /\ \A t \in Ticks : ~(t >= at) => truth'[t] = truth[t]
  BY <1>0, <1>1, ObservedFacts
<1>5. /\ DOMAIN periods = 1..n /\ n \in 1..MaxPeriods /\ unseen' \subseteq 1..n
      /\ \A i \in 1..n : periods[i].start \in Nat /\ periods[i].end \in Nat
      /\ \A i, j \in 1..n : i < j => periods[i].end <= periods[j].start
      /\ \A i \in 1..n : periods[i].start <= since /\ periods[i].end <= since
  BY <1>0, <1>1, PeriodFacts DEF PeriodInv
<1>6. \A i \in 1..n : periods[i].start <= at /\ periods[i].end <= at
  BY <1>2, <1>5
<1>7. periods \in Seq(Period) /\ Len(periods) = n
  BY <1>0 DEF TypeOK
<1> HIDE DEF n
<1>8. /\ PeriodInv' /\ periods' \in Seq(Period)
      /\ \A t \in Ticks : \A i \in Covering(t)' :
           \/ i = n + 1 /\ t >= at
           \/ /\ i \in 1..n /\ t < at /\ periods'[i] = periods[i]
              /\ periods[i].start <= t /\ t < periods[i].end
  BY <1>0, <1>1, <1>2, <1>5, <1>6, <1>7, PeriodsStarted
<1>9. TypeOK'
  BY <1>0, <1>1, <1>3, <1>4, <1>8 DEF TypeOK, LedgerType
<1>10. TruthInv'
  <2>1. ASSUME NEW t \in Ticks, NEW i \in Covering(t)', periods'[i].complete /\ i \notin unseen'
        PROVE  \/ truth'[t] = EnrolledAt(t)'
               \/ /\ i \in Covering(t) /\ periods[i].complete /\ i \notin unseen
                  /\ truth'[t] = truth[t] /\ EnrolledAt(t)' = EnrolledAt(t)
    <3>1. CASE t >= at
      BY <1>3, <1>4, <3>1
    <3>2. CASE ~(t >= at)
      <4>1. t < at
        BY <1>2, <3>2
      <4>2. i \in 1..n /\ periods'[i] = periods[i] /\ periods[i].start <= t /\ t < periods[i].end
        BY <1>8, <3>2
      <4>3. i \in Covering(t)
        BY <1>5, <4>2 DEF Covering
      <4> QED BY <1>1, <1>3, <1>4, <2>1, <3>2, <4>1, <4>2, <4>3
    <3> QED BY <3>1, <3>2
  <2>2. \A t \in Ticks : t >= since' => truth'[t] = Cardinality(members')
    BY <1>1, <1>2, <1>4
  <2> QED BY <1>0, <2>1, <2>2, TruthMoves
<1>11. InvoiceInv'
  <2>1. \A t \in Ticks : t < since => truth'[t] = truth[t]
    BY <1>2, <1>4
  <2> QED BY <1>0, <1>1, <1>2, <2>1, InvoiceSame
<1>d. DraftInv'
  <2>1. \A t \in Ticks : t < since => truth'[t] = truth[t]
    BY <1>1, <1>2, <1>3, <1>4
  <2> QED BY <1>0, <1>1, <1>2, <1>3, <2>1, DraftSame
<1> QED BY <1>3, <1>8, <1>9, <1>10, <1>11, <1>d DEF IInv, Books

LEMMA ReconcileStep ==
    ASSUME IInv, NEW at \in since..now, Reconcile(at)
    PROVE  IInv'
<1> DEFINE n == Len(periods)
<1>0. TypeOK /\ Books /\ TimeInv /\ PeriodInv /\ TruthInv /\ InvoiceInv /\ DraftInv
      /\ members \in SUBSET Devices
  BY DEF IInv, Books, TypeOK
<1>1. /\ enabled /\ n < MaxPeriods /\ synchronize(members, at) /\ since' = now
      /\ periods' = startPeriod(closePeriod(at, FALSE), at)
      /\ unseen' = unseen \ {n}
      /\ UNCHANGED <<now, account, members, enabled, checkpoints, invoices, draft, truth, pruned, raw>>
  BY DEF Reconcile
<1>2. /\ now \in Nat /\ since \in Nat /\ since <= now
      /\ \A t \in Ticks : t \in Nat
      /\ at \in Ticks /\ at \in Nat /\ since <= at /\ at <= now
  BY <1>0, Clock
<1>3. /\ (LedgerType /\ Books)' /\ TimeInv' /\ Grows
      /\ \A t \in Ticks : t < at => EnrolledAt(t)' = EnrolledAt(t)
      /\ \A t \in Ticks : t >= at => EnrolledAt(t)' = Cardinality(members)
  BY <1>0, <1>1, <1>2, SyncStep
<1>4. \A t \in Ticks : t >= since => truth[t] = Cardinality(members)
  BY <1>0, <1>1 DEF TruthInv
<1>5. PICK x, ps : x \in BOOLEAN /\ x = FALSE /\ ps = closePeriod(at, x)
  OBVIOUS
<1>6. /\ ps \in Seq(Period) /\ Len(ps) = n
      /\ ps[n].start = periods[n].start /\ ps[n].end = at /\ ps[n].complete = x
      /\ \A i \in 1..n : i # n => ps[i] = periods[i]
  <2>1. at \in Ticks /\ x \in BOOLEAN /\ ps = closePeriod(at, x)
    BY <1>2, <1>5
  <2> QED BY <1>0, <2>1, ClosePeriod
<1>7. /\ DOMAIN periods = 1..n /\ n \in 1..MaxPeriods /\ n \in Nat \ {0} /\ unseen' \subseteq 1..n
      /\ \A i \in 1..n : periods[i].start \in Nat /\ periods[i].end \in Nat
      /\ \A i, j \in 1..n : i < j => periods[i].end <= periods[j].start
      /\ \A i \in 1..n : periods[i].start <= since /\ (i < n => periods[i].end <= since)
  BY <1>0, <1>1, PeriodFacts DEF PeriodInv
<1>n. n = Len(periods)
  OBVIOUS
<1> HIDE DEF n
<1>8. \A i \in 1..n : ps[i].start <= at /\ ps[i].end <= at
  <2> TAKE i \in 1..n
  <2>1. CASE i = n
    BY <1>2, <1>6, <1>7, <2>1
  <2>2. CASE i # n
    <3>1. i < n /\ ps[i] = periods[i]
      BY <1>6, <1>7, <2>2
    <3> QED BY <1>2, <1>7, <3>1
  <2> QED BY <2>1, <2>2
<1>9. \A i, j \in 1..n : i < j => ps[i].end <= ps[j].start
  <2> SUFFICES ASSUME NEW i \in 1..n, NEW j \in 1..n, i < j
               PROVE  ps[i].end <= ps[j].start
    OBVIOUS
  <2>1. i # n /\ ps[i] = periods[i] /\ ps[j].start = periods[j].start
    BY <1>6, <1>7
  <2> QED BY <1>7, <2>1
<1>10. /\ PeriodInv' /\ periods' \in Seq(Period)
       /\ \A t \in Ticks : \A i \in Covering(t)' :
            \/ i = n + 1 /\ t >= at
            \/ /\ i \in 1..n /\ t < at /\ periods'[i] = ps[i]
               /\ ps[i].start <= t /\ t < ps[i].end
  <2>1. periods' = startPeriod(ps, at)
    BY <1>1, <1>5
  <2>2. enabled' = TRUE
    BY <1>0, <1>1, Zenon DEF TypeOK
  <2>3. /\ TypeOK /\ ps \in Seq(Period) /\ Len(ps) = n /\ n \in 1..MaxPeriods /\ n < MaxPeriods
        /\ at \in Ticks /\ at <= now /\ unseen' \subseteq 1..n /\ since' = now
    BY <1>0, <1>1, <1>2, <1>6, <1>7
  <2> QED BY <1>8, <1>9, <2>1, <2>2, <2>3, PeriodsStarted
<1>11. TypeOK'
  BY <1>0, <1>1, <1>3, <1>10 DEF TypeOK, LedgerType
<1>12. TruthInv'
  <2>1. ASSUME NEW t \in Ticks, NEW i \in Covering(t)', periods'[i].complete /\ i \notin unseen'
        PROVE  \/ truth'[t] = EnrolledAt(t)'
               \/ /\ i \in Covering(t) /\ periods[i].complete /\ i \notin unseen
                  /\ truth'[t] = truth[t] /\ EnrolledAt(t)' = EnrolledAt(t)
    <3>1. CASE t >= at
      BY <1>1, <1>2, <1>3, <1>4, <3>1
    <3>2. CASE ~(t >= at)
      <4>1. t < at
        BY <1>2, <3>2
      <4>2. i \in 1..n /\ periods'[i] = ps[i] /\ ps[i].start <= t /\ t < ps[i].end
        BY <1>10, <3>2
      <4>3. i # n /\ ps[i] = periods[i]
        BY <1>5, <1>6, <2>1, <4>2
      <4>4. i \in Covering(t)
        BY <1>7, <4>2, <4>3 DEF Covering
      <4> QED BY <1>1, <1>3, <2>1, <3>2, <4>1, <4>2, <4>3, <4>4
    <3> QED BY <3>1, <3>2
  <2>2. \A t \in Ticks : t >= since' => truth'[t] = Cardinality(members')
    BY <1>1, <1>2, <1>4
  <2> QED BY <1>0, <2>1, <2>2, TruthMoves
<1>13. InvoiceInv'
  BY <1>0, <1>1, <1>2, InvoiceSame
<1>d. DraftInv'
  <2>1. \A t \in Ticks : t < since => truth'[t] = truth[t]
    BY <1>1, <1>2, <1>3
  <2> QED BY <1>0, <1>1, <1>2, <1>3, <2>1, DraftSame
<1> QED BY <1>3, <1>10, <1>11, <1>12, <1>13, <1>d DEF IInv, Books

LEMMA ConfigureOffStep ==
    ASSUME IInv, NEW at \in since..now, ConfigureOff(at)
    PROVE  IInv'
<1>0. TypeOK /\ Books /\ TimeInv /\ PeriodInv /\ TruthInv /\ InvoiceInv /\ DraftInv
  BY DEF IInv, Books
<1>1. /\ enabled /\ since' = now /\ enabled' = FALSE
      /\ truth' = Observed(0, at) /\ periods' = closePeriod(at, TRUE)
      /\ UNCHANGED <<now, account, members, ledger, checkpoints, invoices, draft, pruned, unseen, raw>>
  BY DEF ConfigureOff
<1>2. /\ now \in Nat /\ since \in Nat /\ since <= now /\ MaxOpen \in Nat
      /\ \A t \in Ticks : t \in Nat
      /\ at \in Ticks /\ at \in Nat /\ since <= at /\ at <= now
  BY <1>0, Clock
<1>3. (LedgerType /\ Books)' /\ Grows /\ \A t : EnrolledAt(t)' = EnrolledAt(t)
  BY <1>0, <1>1, <1>2, BooksSame
<1>c. Cardinality({}) = 0 /\ {} \in SUBSET Devices
  BY FS_EmptySet
<1>4. /\ truth' \in [Ticks -> 0..Cardinality(Devices)]
      /\ \A t \in Ticks : ~(t >= at) => truth'[t] = truth[t]
  BY <1>0, <1>1, <1>c, ObservedFacts
<1>6. /\ PeriodInv' /\ periods' \in Seq(Period)
      /\ \A t \in Ticks : \A i \in Covering(t)' :
           /\ i \in Covering(t) /\ t < now
           /\ (i = Len(periods) => t < at)
           /\ (i # Len(periods) => periods'[i] = periods[i])
  BY <1>0, <1>1, PeriodsClosed
<1>5. TypeOK'
  BY <1>0, <1>1, <1>3, <1>4, <1>6 DEF TypeOK, LedgerType
<1>7. TruthInv'
  <2>1. ASSUME NEW t \in Ticks, NEW i \in Covering(t)', periods'[i].complete /\ i \notin unseen'
        PROVE  /\ i \in Covering(t) /\ periods[i].complete /\ i \notin unseen
               /\ truth'[t] = truth[t] /\ EnrolledAt(t)' = EnrolledAt(t)
    <3>1. /\ i \in Covering(t) /\ (i = Len(periods) => t < at)
          /\ (i # Len(periods) => periods'[i] = periods[i])
      BY <1>6
    <3>2. i = Len(periods) => periods[i].complete
      BY <1>0, <1>1 DEF PeriodInv
    <3>3. t < at
      <4>1. t >= since => i = Len(periods)
        BY <1>0, <3>1, CoveringFacts
      <4>2. t \in Nat
        BY <1>2
      <4> QED BY <1>2, <3>1, <4>1, <4>2
    <3>4. ~(t >= at)
      BY <1>2, <3>3
    <3> QED BY <1>1, <1>3, <1>4, <2>1, <3>1, <3>2, <3>4
  <2> QED BY <1>0, <1>1, <2>1, TruthMoves
<1>8. InvoiceInv'
  <2>1. \A t \in Ticks : t < since => truth'[t] = truth[t]
    BY <1>2, <1>4
  <2> QED BY <1>0, <1>1, <1>2, <2>1, InvoiceSame
<1>9. TimeInv'
  BY <1>1, <1>2 DEF TimeInv
<1>d. DraftInv'
  <2>1. \A t \in Ticks : t < since => truth'[t] = truth[t]
    BY <1>1, <1>2, <1>3, <1>4
  <2> QED BY <1>0, <1>1, <1>2, <1>3, <2>1, DraftSame
<1> QED BY <1>3, <1>5, <1>6, <1>7, <1>8, <1>9, <1>d DEF IInv, Books

LEMMA RawChangeStep ==
    ASSUME IInv, NEW d \in Devices, RawChange(d)
    PROVE  IInv'
<1> DEFINE to == IF d \in members THEN members \ {d} ELSE members \cup {d}
<1>0. TypeOK /\ Books /\ TimeInv /\ PeriodInv /\ TruthInv /\ InvoiceInv /\ DraftInv
  BY DEF IInv, Books
<1>1. /\ enabled /\ since' = now /\ members' = to /\ to \in SUBSET Devices
      /\ truth' = Observed(Cardinality(to), now) /\ unseen' = unseen \cup {Len(periods)}
      /\ UNCHANGED <<now, account, ledger, enabled, periods, checkpoints, invoices, draft, pruned>>
  BY <1>0 DEF RawChange, TypeOK
<1>r. raw' \in 0..MaxRaw
  BY <1>0, DeviceUsageAssumption DEF RawChange, TypeOK
<1>2. /\ now \in Nat /\ since \in Nat /\ since <= now /\ MaxOpen \in Nat
      /\ \A t \in Ticks : t \in Nat
  BY <1>0, Clock
<1> HIDE DEF to
<1>3. (LedgerType /\ Books)' /\ Grows /\ \A t : EnrolledAt(t)' = EnrolledAt(t)
  BY <1>0, <1>1, <1>2, BooksSame
<1>4. /\ truth' \in [Ticks -> 0..Cardinality(Devices)]
      /\ \A t \in Ticks : t >= now => truth'[t] = Cardinality(to)
      /\ \A t \in Ticks : ~(t >= now) => truth'[t] = truth[t]
  BY <1>0, <1>1, ObservedFacts
<1>5. /\ unseen' \subseteq 1..Len(periods) /\ unseen' \subseteq 1..MaxPeriods
  <2>1. Len(periods) \in 1..Len(periods) /\ Len(periods) \in 1..MaxPeriods
    BY <1>0, PeriodFacts DEF PeriodInv
  <2>2. unseen \subseteq 1..Len(periods) /\ unseen \subseteq 1..MaxPeriods
    BY <1>0 DEF PeriodInv, TypeOK
  <2> QED BY <1>1, <2>1, <2>2
<1>6. PeriodInv' /\ \A t : Covering(t)' = Covering(t)
  BY <1>0, <1>1, <1>2, <1>5, PeriodsSame
<1>7. TypeOK'
  BY <1>0, <1>1, <1>r, <1>3, <1>4, <1>5 DEF TypeOK, LedgerType
<1>8. TruthInv'
  <2>1. ASSUME NEW t \in Ticks, NEW i \in Covering(t)', periods'[i].complete /\ i \notin unseen'
        PROVE  /\ i \in Covering(t) /\ periods[i].complete /\ i \notin unseen
               /\ truth'[t] = truth[t] /\ EnrolledAt(t)' = EnrolledAt(t)
    <3>1. i \in Covering(t) /\ i \notin unseen /\ i # Len(periods)
      BY <1>1, <1>6, <2>1
    <3>2. ~(t >= since)
      BY <1>0, <3>1, CoveringFacts
    <3>3. ~(t >= now)
      BY <1>2, <3>2
    <3> QED BY <1>1, <1>3, <1>4, <2>1, <3>1, <3>3
  <2>2. \A t \in Ticks : t >= since' => truth'[t] = Cardinality(members')
    BY <1>1, <1>4
  <2> QED BY <1>0, <2>1, <2>2, TruthMoves
<1>9. InvoiceInv'
  <2>1. \A t \in Ticks : t < since => truth'[t] = truth[t]
    BY <1>2, <1>4
  <2> QED BY <1>0, <1>1, <1>2, <2>1, InvoiceSame
<1>10. TimeInv'
  BY <1>1, <1>2 DEF TimeInv
<1>d. DraftInv'
  <2>1. \A t \in Ticks : t < since => truth'[t] = truth[t]
    BY <1>1, <1>2, <1>3, <1>4
  <2> QED BY <1>0, <1>1, <1>2, <1>3, <2>1, DraftSame
<1> QED BY <1>3, <1>6, <1>7, <1>8, <1>9, <1>10, <1>d DEF IInv, Books

\* A step that leaves the ledger, the periods and the collected members alone.
LEMMA AsideStep ==
    ASSUME IInv, UNCHANGED <<ledger, enabled, periods, checkpoints, invoices, truth, pruned, unseen>>,
           enabled => members' = members, since' \in Nat, since <= since'
    PROVE  /\ (LedgerType /\ Books /\ PeriodInv /\ TruthInv /\ InvoiceInv)'
           /\ draft' = draft => DraftInv'
           /\ \A t : EnrolledAt(t)' = EnrolledAt(t)
<1>0. TypeOK /\ Books /\ TimeInv /\ PeriodInv /\ TruthInv /\ InvoiceInv /\ DraftInv
  BY DEF IInv, Books
<1>1. (LedgerType /\ Books)' /\ Grows /\ \A t : EnrolledAt(t)' = EnrolledAt(t)
  BY <1>0, BooksSame
<1>2. unseen' \subseteq 1..Len(periods)
  BY <1>0 DEF PeriodInv
<1>3. PeriodInv' /\ \A t : Covering(t)' = Covering(t)
  BY <1>0, <1>2, PeriodsSame
<1>4. InvoiceInv'
  BY <1>0, InvoiceSame
<1>5. TruthInv'
  <2>1. \A t \in Ticks : t \in Nat /\ since \in Nat
    BY <1>0, Clock
  <2>2. enabled' => \A t \in Ticks : t >= since' => truth'[t] = Cardinality(members')
    BY <1>0, <2>1 DEF TruthInv
  <2> QED BY <1>0, <1>1, <1>3, <2>2, TruthMoves
<1>6. draft' = draft => DraftInv'
  BY <1>0, <1>1, DraftSame
<1> QED BY <1>1, <1>3, <1>4, <1>5, <1>6

LEMMA DisabledStep ==
    ASSUME IInv, DeleteAccountDisabled \/ \E to \in SUBSET Devices : TrackDisabled(to)
    PROVE  IInv'
<1>0. TypeOK /\ TimeInv
  BY DEF IInv
<1>1. /\ since' = now /\ now' = now /\ ~enabled /\ account' \in BOOLEAN /\ members' \subseteq Devices
      /\ UNCHANGED <<ledger, enabled, periods, checkpoints, invoices, draft, truth, pruned, unseen>>
  BY <1>0 DEF DeleteAccountDisabled, TrackDisabled, TypeOK
<1>2. raw' \in 0..MaxRaw
  BY <1>0, DeviceUsageAssumption DEF DeleteAccountDisabled, TrackDisabled, TypeOK
<1>3. now \in Nat /\ since \in Nat /\ since <= now /\ MaxOpen \in Nat
  BY <1>0, Clock
<1>4. (LedgerType /\ Books /\ PeriodInv /\ TruthInv /\ InvoiceInv /\ DraftInv)'
  BY <1>1, <1>3, AsideStep
<1>5. TimeInv'
  BY <1>1, <1>3 DEF TimeInv
<1>6. TypeOK'
  BY <1>0, <1>1, <1>2, <1>4 DEF TypeOK, LedgerType
<1> QED BY <1>4, <1>5, <1>6 DEF IInv, Books

LEMMA MaxOfTwo ==
    ASSUME NEW a \in Int, NEW b \in Int
    PROVE  Max({a, b}) = IF a >= b THEN a ELSE b
<1> DEFINE x == IF a >= b THEN a ELSE b
<1>1. x \in {a, b} /\ \A y \in {a, b} : x >= y
  OBVIOUS
<1>2. \A z \in {a, b} : (\A y \in {a, b} : z >= y) => z = x
  OBVIOUS
<1> HIDE DEF x
<1>3. Max({a, b}) = x
  BY <1>1, <1>2 DEF Max
<1> QED BY <1>3 DEF x

LEMMA TickStep ==
    ASSUME IInv, Tick
    PROVE  IInv'
<1>0. TypeOK /\ TimeInv
  BY DEF IInv
<1>1. /\ now' = now + 1 /\ now < MaxTime /\ since' = Max({since, now + 1 - MaxOpen})
      /\ UNCHANGED <<account, members, ledger, enabled, periods, checkpoints, invoices, draft,
                     truth, pruned, unseen, raw>>
  BY DEF Tick
<1>2. now \in Nat /\ since \in Nat /\ since <= now /\ MaxOpen \in Nat /\ MaxTime \in Nat
  BY <1>0, Clock, DeviceUsageAssumption
<1>3. since' = IF since >= now + 1 - MaxOpen THEN since ELSE now + 1 - MaxOpen
  <2>1. now + 1 - MaxOpen \in Int /\ since \in Int
    BY <1>2
  <2> QED BY <1>1, <2>1, MaxOfTwo
<1>4. /\ since' \in Nat /\ since <= since' /\ since' <= now' /\ now' - MaxOpen <= since'
      /\ now' \in Ticks /\ since' \in Ticks
  BY <1>1, <1>2, <1>3 DEF Ticks
<1>5. (LedgerType /\ Books /\ PeriodInv /\ TruthInv /\ InvoiceInv /\ DraftInv)'
  BY <1>1, <1>4, AsideStep
<1>6. TypeOK'
  BY <1>0, <1>1, <1>4, <1>5 DEF TypeOK, LedgerType
<1> QED BY <1>4, <1>5, <1>6 DEF IInv, Books, TimeInv

LEMMA StutterStep ==
    ASSUME IInv, UNCHANGED vars
    PROVE  IInv'
<1>0. TypeOK /\ TimeInv
  BY DEF IInv
<1>1. /\ UNCHANGED <<ledger, enabled, periods, checkpoints, invoices, draft, truth, pruned, unseen>>
      /\ UNCHANGED <<now, account, members, since, raw>>
  BY DEF vars
<1>2. since' \in Nat /\ since <= since'
  BY <1>0, <1>1, Clock
<1>3. (LedgerType /\ Books /\ PeriodInv /\ TruthInv /\ InvoiceInv /\ DraftInv)'
  BY <1>1, <1>2, AsideStep
<1>4. TypeOK' /\ TimeInv'
  BY <1>0, <1>1, <1>3 DEF TypeOK, LedgerType, TimeInv
<1> QED BY <1>3, <1>4 DEF IInv, Books

LEMMA PruneFinalizedPeriodStep ==
    ASSUME IInv, NEW m \in Months, PruneFinalizedPeriod(m)
    PROVE  IInv'
<1>0. TypeOK /\ Books /\ TimeInv /\ PeriodInv /\ TruthInv /\ InvoiceInv /\ DraftInv
  BY DEF IInv, Books
<1>1. /\ pruned' = pruned \cup {m}
      /\ UNCHANGED <<now, account, members, enabled, periods, invoices, draft,
                     since, truth, unseen, raw>>
      /\ UNCHANGED <<recorded, stream>> /\ invoices[m].drawn
  BY DEF PruneFinalizedPeriod
<1>2. /\ (LedgerType /\ Books)' /\ checkpoints' \in Seq(deviceCheckpoint)
      /\ \A t : EnrolledAt(t)' = EnrolledAt(t)
  BY <1>0, PruneStep
<1>3. since \in Nat /\ since' \in Nat /\ since <= since'
  BY <1>0, <1>1, Clock
<1>4. unseen' \subseteq 1..Len(periods)
  BY <1>0, <1>1 DEF PeriodInv
<1>5. PeriodInv' /\ \A t : Covering(t)' = Covering(t)
  BY <1>0, <1>1, <1>3, <1>4, PeriodsSame
<1>6. InvoiceInv'
  BY <1>0, <1>1, <1>3, InvoiceSame
<1>7. TruthInv'
  <2>1. enabled' => \A t \in Ticks : t >= since' => truth'[t] = Cardinality(members')
    BY <1>0, <1>1 DEF TruthInv
  <2> QED BY <1>0, <1>1, <1>2, <1>5, <2>1, TruthMoves
<1>8. TypeOK' /\ TimeInv'
  BY <1>0, <1>1, <1>2 DEF TypeOK, LedgerType, TimeInv
<1>9. DraftInv'
  <2>1. Grows
    BY <1>0, <1>1 DEF Grows, TypeOK
  <2>2. \A k \in pruned' : k \in pruned \/ invoices[k].drawn
    BY <1>1
  <2> QED BY <1>0, <1>1, <1>2, <1>3, <2>1, <2>2, DraftSame
<1> QED BY <1>2, <1>5, <1>6, <1>7, <1>8, <1>9 DEF IInv, Books

-----------------------------------------------------------------------------
(* What a report counts. *)

\* The checkpoint of a report that is not refused stands for the history up to
\* some tick; without pruning it may be the beginning.
LEMMA BaseFacts ==
    ASSUME TypeOK, Books, NEW a \in Nat, ~(checkpointAt(a).seq = 0 /\ checkpoints # <<>>)
    PROVE  /\ checkpointAt(a) \in deviceCheckpoint \cup {NoCheckpoint}
           /\ Based(checkpointAt(a), a)
<1> DEFINE usable == {i \in DOMAIN checkpoints : checkpoints[i].boundary <= a}
<1>0. LedgerInv /\ CheckpointInv /\ PruneInv
  BY DEF Books
<1>L. LatestStands
  BY <1>0, LatestFacts
<1>1. CASE checkpoints = <<>>
  <2>1. usable = {}
    BY <1>1
  <2>2. checkpointAt(a) = NoCheckpoint
    BY <2>1 DEF checkpointAt
  <2>3. checkpointAt(a).seq = 0 /\ checkpointAt(a).count = 0
    BY <2>2 DEF NoCheckpoint
  <2>4. Latest.boundary = -1 /\ Latest.seq = 0
    BY <1>1, <1>L DEF LatestStands
  <2>5. Latest.count = 0
    BY <1>1 DEF Latest
  <2>7. -1 \in Int /\ -1 <= a
    OBVIOUS
  <2>8. /\ EnrolledAt(-1) = 0
        /\ \A e \in recorded : e.at <= -1 <=> e.seq <= 0
    BY <1>L, <2>4, <2>5 DEF LatestStands
  <2>9. 0 <= stream
    BY DEF TypeOK
  <2> QED BY <2>2, <2>3, <2>7, <2>8, <2>9 DEF Based, Base
<1>2. CASE checkpoints # <<>>
  <2>1. usable # {}
    <3> SUFFICES ASSUME usable = {} PROVE FALSE
      OBVIOUS
    <3>1. checkpointAt(a) = NoCheckpoint
      BY DEF checkpointAt
    <3> QED BY <1>2, <3>1 DEF NoCheckpoint
  <2>2. checkpointAt(a) = checkpoints[Max(usable)]
    BY <2>1 DEF checkpointAt
  <2>3. usable \in SUBSET Nat /\ \A x \in usable : x <= Len(checkpoints)
    BY LenProperties DEF TypeOK
  <2>4. Len(checkpoints) \in Nat
    BY LenProperties DEF TypeOK
  <2> DEFINE k == Max(usable)
  <2>5. k \in usable
    <3> HIDE DEF usable
    <3> QED BY <2>1, <2>3, <2>4, MaxOf
  <2>6. k \in DOMAIN checkpoints /\ checkpoints[k].boundary <= a /\ Stands(checkpoints[k])
    BY <1>0, <2>5 DEF CheckpointInv
  <2>7. checkpoints[k] \in deviceCheckpoint
    BY <2>6, ElementOfSeq, LenProperties DEF TypeOK
  <2>8. checkpoints[k].boundary \in Int /\ checkpoints[k].seq # 0
    BY <2>7 DEF deviceCheckpoint, Ticks
  <2> HIDE DEF k
  <2>9. checkpointAt(a) = checkpoints[k]
    BY <2>2 DEF k
  <2> QED BY <2>6, <2>7, <2>8, <2>9 DEF Stands, Based, Base
<1> QED BY <1>1, <1>2

LEMMA CheckpointType ==
    ASSUME NEW c \in deviceCheckpoint \cup {NoCheckpoint}
    PROVE  c.seq \in 0..MaxSeq /\ c.count \in Nat /\ c.boundary \in Int /\ Base(c) \in Int
<1>1. Cardinality(Devices) \in Nat /\ MaxSeq \in Nat
  BY DevicesFinite, DeviceUsageAssumption
<1> QED BY <1>1 DEF deviceCheckpoint, NoCheckpoint, Ticks, Base

LEMMA KeptEvents ==
    ASSUME TypeOK, PruneInv, NEW c, c.boundary \in Int, NEW b \in Nat, KeptSince(c, b)
    PROVE  \A e \in recorded : Base(c) < e.at /\ e.at < b => e \in events
<1> SUFFICES ASSUME NEW e \in recorded, Base(c) < e.at, e.at < b PROVE e \in events
  OBVIOUS
<1>1. e.at \in Nat
  BY DEF TypeOK, event, Ticks
<1>2. ASSUME NEW m \in pruned PROVE e.at \notin MonthTicks(m)
  <2>1. MonthStart(m) \in Nat /\ MonthEnd(m) \in Nat
    BY MonthBounds DEF TypeOK
  <2>2. b <= MonthStart(m) \/ (c.seq # 0 /\ MonthEnd(m) - 1 <= c.boundary)
    BY DEF KeptSince
  <2>3. CASE b <= MonthStart(m)
    BY <1>1, <2>1, <2>3 DEF MonthTicks
  <2>4. CASE c.seq # 0 /\ MonthEnd(m) - 1 <= c.boundary
    <3>1. Base(c) = c.boundary
      BY <2>4 DEF Base
    <3> QED BY <1>1, <2>1, <2>4, <3>1 DEF MonthTicks
  <2> QED BY <2>2, <2>3, <2>4
<1> QED BY <1>2 DEF PruneInv

\* The opening count is the number of enrollments at the start of the window,
LEMMA OpeningCounts ==
    ASSUME TypeOK, PruneInv, NEW c \in deviceCheckpoint \cup {NoCheckpoint}, NEW a \in Nat,
           Based(c, a), \A e \in recorded : Base(c) < e.at /\ e.at <= a => e \in events
    PROVE  openingCount(c, a) = EnrolledAt(a)
<1>1. PICK base : base = Base(c)
  OBVIOUS
<1>2. /\ base \in Int /\ base <= a /\ c.seq \in Nat /\ c.count = EnrolledAt(base)
      /\ \A e \in recorded : e.at <= base <=> e.seq <= c.seq
  BY <1>1, CheckpointType DEF Based
<1>3. \A e \in recorded : e.seq \in Nat /\ e.at \in Nat
  BY DEF TypeOK, event, Ticks
<1>4. \A e \in recorded : e.seq > c.seq <=> base < e.at
  BY <1>2, <1>3
<1>5. Opening(c, a) = {e \in recorded : base < e.at /\ e.at <= a}
  BY <1>1, <1>4 DEF Opening, PruneInv
<1>6. EnrolledAt(a) = EnrolledAt(base) + Count({e \in recorded : base < e.at /\ e.at <= a})
  BY <1>2, EnrolledBetween
<1> QED BY <1>2, <1>5, <1>6 DEF openingCount

\* and the changes add the later ones.
LEMMA ChangesCount ==
    ASSUME TypeOK, PruneInv, NEW c \in deviceCheckpoint \cup {NoCheckpoint},
           NEW a \in Nat, NEW b \in Nat, NEW t \in a..(b - 1),
           Based(c, a), \A e \in recorded : a < e.at /\ e.at < b => e \in events
    PROVE  EnrolledAt(t) = EnrolledAt(a) + Count({e \in Changes(c, a, b) : e.at <= t})
<1>1. PICK base : base = Base(c)
  OBVIOUS
<1>2. /\ base \in Int /\ base <= a /\ c.seq \in Nat
      /\ \A e \in recorded : e.at <= base <=> e.seq <= c.seq
  BY <1>1, CheckpointType DEF Based
<1>3. \A e \in recorded : e.seq \in Nat /\ e.at \in Nat
  BY DEF TypeOK, event, Ticks
<1>4. \A e \in recorded : a < e.at => e.seq > c.seq
  BY <1>2, <1>3
<1>5. \A e \in recorded : e.at <= t => e.at < b
  BY <1>3
<1>6. {e \in Changes(c, a, b) : e.at <= t} = {e \in recorded : a < e.at /\ e.at <= t}
  BY <1>4, <1>5 DEF Changes, PruneInv
<1>7. EnrolledAt(t) = EnrolledAt(a) + Count({e \in recorded : a < e.at /\ e.at <= t})
  BY EnrolledBetween
<1> QED BY <1>6, <1>7

\* Whatever is pruned, a report counts the enrollments of each tick.
LEMMA ReportCounts ==
    ASSUME TypeOK, Books, NEW a \in Nat, NEW b \in Nat, Kept(a, b),
           ~(checkpointAt(a).seq = 0 /\ checkpoints # <<>>), NEW t \in a..(b - 1)
    PROVE  composeReport(a, b)[t] = EnrolledAt(t)
<1>1. PICK c : c = checkpointAt(a)
  OBVIOUS
<1>2. PruneInv /\ c \in deviceCheckpoint \cup {NoCheckpoint} /\ Based(c, a) /\ KeptSince(c, b)
  BY <1>1, BaseFacts DEF Books, Kept
<1>3. c.boundary \in Int /\ Base(c) \in Int /\ Base(c) <= a /\ a < b
  BY <1>2, CheckpointType DEF Based
<1>4. /\ \A e \in recorded : e.at \in Nat
      /\ \A e \in recorded : Base(c) < e.at /\ e.at < b => e \in events
  <2>1. \A e \in recorded : e.at \in Nat
    BY DEF TypeOK, event, Ticks
  <2> QED BY <1>2, <1>3, <2>1, KeptEvents
<1>5. openingCount(c, a) = EnrolledAt(a)
  <2>1. \A e \in recorded : Base(c) < e.at /\ e.at <= a => e \in events
    BY <1>3, <1>4
  <2> QED BY <1>2, <2>1, OpeningCounts
<1>6. EnrolledAt(t) = EnrolledAt(a) + Count({e \in Changes(c, a, b) : e.at <= t})
  <2>1. \A e \in recorded : a < e.at /\ e.at < b => e \in events
    BY <1>3, <1>4
  <2> QED BY <1>2, <2>1, ChangesCount
<1>7. composeReport(a, b)[t] = openingCount(c, a) + Count({e \in Changes(c, a, b) : e.at <= t})
  BY <1>1 DEF composeReport
<1> QED BY <1>5, <1>6, <1>7

LEMMA NotRefused ==
    ASSUME NEW a, NEW b, ~Refused(a, b)
    PROVE  ~(checkpointAt(a).seq = 0 /\ checkpoints # <<>>)
BY DEF Refused

-----------------------------------------------------------------------------
(* The finalize command. *)

LEMMA NoDraftType == NoDraft \in Draft
BY DeviceUsageAssumption DEF NoDraft, Draft, Months

\* A statement that only reads moves nothing but the draft.
LEMMA ReadStep ==
    ASSUME IInv, draft' \in Draft, DraftInv',
           UNCHANGED <<now, account, members, ledger, enabled, periods, checkpoints, invoices,
                       since, truth, pruned, unseen, raw>>
    PROVE  IInv'
<1>0. TypeOK /\ TimeInv
  BY DEF IInv
<1>1. since' \in Nat /\ since <= since'
  BY <1>0, Clock
<1>2. (LedgerType /\ Books /\ PeriodInv /\ TruthInv /\ InvoiceInv)'
  BY <1>1, AsideStep
<1>3. TypeOK' /\ TimeInv'
  BY <1>0, <1>2 DEF TypeOK, LedgerType, TimeInv
<1> QED BY <1>2, <1>3 DEF IInv, Books

LEMMA ReadCoverageStep ==
    ASSUME IInv, NEW m \in Months, ReadCoverage(m)
    PROVE  IInv'
<1>0. TypeOK /\ Books /\ TimeInv /\ PeriodInv /\ TruthInv /\ InvoiceInv /\ DraftInv
  BY DEF IInv, Books
<1>1. /\ UNCHANGED <<now, account, members, ledger, enabled, periods, checkpoints, invoices,
                     since, truth, pruned, unseen, raw>>
      /\ ~invoices[m].drawn /\ MonthEnd(m) <= now
      /\ \A t \in MonthTicks(m) : CompleteAt(t)
  BY DEF ReadCoverage
<1>2. PICK x \in BOOLEAN : x = (now >= MonthEnd(m) + MaxOpen /\ unseen = {})
  OBVIOUS
<1>3. draft' = [NoDraft EXCEPT !.step = "checkpoint", !.month = m, !.sound = x]
  BY <1>2 DEF ReadCoverage
<1>4. draft' \in Draft
  BY <1>3, NoDraftType DEF Draft
<1>5. draft'.step = "checkpoint" /\ draft'.month = m /\ draft'.sound = x
  BY <1>3 DEF NoDraft
<1>6. \A t : EnrolledAt(t)' = EnrolledAt(t)
  BY <1>1 DEF EnrolledAt, Count, ledger
<1>7. ASSUME x PROVE MonthEnd(m) <= since /\ \A t \in MonthTicks(m) : truth[t] = EnrolledAt(t)
  <2>1. now >= MonthEnd(m) + MaxOpen /\ unseen = {}
    BY <1>2, <1>7
  <2>2. /\ now \in Nat /\ since \in Nat /\ MaxOpen \in Nat /\ now - MaxOpen <= since /\ now <= MaxTime
        /\ MaxTime \in Nat /\ MonthStart(m) \in Nat /\ MonthEnd(m) \in Nat
    BY <1>0, Clock, MonthBounds, DeviceUsageAssumption DEF TimeInv, TypeOK, Ticks
  <2>3. MonthEnd(m) <= since
    BY <2>1, <2>2
  <2>4. ASSUME NEW t \in MonthTicks(m) PROVE truth[t] = EnrolledAt(t)
    <3>1. t \in Ticks
      BY <1>1, <2>2 DEF MonthTicks, Ticks
    <3>2. PICK i \in Covering(t) : periods[i].complete
      BY <1>1 DEF CompleteAt
    <3> QED BY <1>0, <2>1, <3>1, <3>2 DEF TruthInv
  <2> QED BY <2>3, <2>4
<1>8. DraftInv'
  <2>1. MonthTicks(m)' = MonthTicks(m) /\ MonthEnd(m)' = MonthEnd(m)
    BY DEF MonthTicks, MonthStart, MonthEnd
  <2>2. \A k \in pruned' : invoices'[k].drawn
    BY <1>0, <1>1 DEF DraftInv
  <2>3. x => MonthEnd(m) <= since' /\ \A t \in MonthTicks(m) : truth'[t] = EnrolledAt(t)'
    BY <1>1, <1>6, <1>7
  <2> QED BY <1>1, <1>5, <2>1, <2>2, <2>3 DEF DraftInv
<1> QED BY <1>1, <1>4, <1>8, ReadStep

LEMMA ReadCheckpointStep ==
    ASSUME IInv, ReadCheckpoint
    PROVE  IInv'
<1>0. TypeOK /\ Books /\ DraftInv /\ draft \in Draft
  BY DEF IInv, Books, TypeOK
<1>1. UNCHANGED <<now, account, members, ledger, enabled, periods, checkpoints, invoices,
                  since, truth, pruned, unseen, raw>>
  BY DEF ReadCheckpoint
<1>2. PICK m, x, a, c : m = draft.month /\ x = draft.sound /\ a = MonthStart(m) /\ c = checkpointAt(a)
  OBVIOUS
<1>3. /\ draft.step = "checkpoint" /\ ~(c.seq = 0 /\ checkpoints # <<>>)
      /\ draft' = [draft EXCEPT !.step = "opening", !.from = c]
  BY <1>2 DEF ReadCheckpoint
<1>4. m \in Months /\ a \in Nat
  BY <1>0, <1>2, MonthBounds DEF Draft
<1>5. c \in deviceCheckpoint \cup {NoCheckpoint} /\ Based(c, a)
  BY <1>0, <1>2, <1>3, <1>4, BaseFacts
<1>6. draft' \in Draft
  BY <1>0, <1>3, <1>5 DEF Draft
<1>7. draft'.step = "opening" /\ draft'.month = m /\ draft'.sound = x /\ draft'.from = c
  BY <1>0, <1>2, <1>3 DEF Draft
<1>8. Based(c, a)' /\ \A t : EnrolledAt(t)' = EnrolledAt(t)
  BY <1>1, <1>5 DEF Based, Base, EnrolledAt, Count, ledger
<1>9. DraftInv'
  <2>1. MonthTicks(m)' = MonthTicks(m) /\ MonthEnd(m)' = MonthEnd(m) /\ MonthStart(m)' = a
    BY <1>2 DEF MonthTicks, MonthStart, MonthEnd
  <2>2. (\A k \in pruned' : invoices'[k].drawn) /\ ~invoices'[m].drawn
    BY <1>0, <1>1, <1>2, <1>3 DEF DraftInv
  <2>3. x => MonthEnd(m) <= since' /\ \A t \in MonthTicks(m) : truth'[t] = EnrolledAt(t)'
    BY <1>0, <1>1, <1>2, <1>3, <1>8 DEF DraftInv
  <2> QED BY <1>7, <1>8, <2>1, <2>2, <2>3 DEF DraftInv
<1> QED BY <1>1, <1>6, <1>9, ReadStep

LEMMA OpeningSeqType ==
    ASSUME TypeOK, NEW c \in deviceCheckpoint \cup {NoCheckpoint}, NEW a
    PROVE  OpeningSeq(c, a) \in 0..MaxSeq
<1> DEFINE S == {e.seq : e \in Opening(c, a)} \cup {c.seq}
<1>1. \A x \in S : x \in 0..MaxSeq
  BY CheckpointType DEF TypeOK, Opening, event
<1>2. S # {} /\ MaxSeq \in Nat
  BY DeviceUsageAssumption
<1>3. OpeningSeq(c, a) = Max(S)
  BY DEF OpeningSeq
<1> HIDE DEF S
<1>4. S \in SUBSET Nat /\ \A x \in S : x <= MaxSeq
  BY <1>1, <1>2
<1>5. Max(S) \in S
  BY <1>2, <1>4, MaxOf
<1> QED BY <1>1, <1>3, <1>5

LEMMA ReadOpeningStep ==
    ASSUME IInv, ReadOpening
    PROVE  IInv'
<1>0. TypeOK /\ Books /\ PruneInv /\ DraftInv /\ draft \in Draft
  BY DEF IInv, Books, TypeOK
<1>1. UNCHANGED <<now, account, members, ledger, enabled, periods, checkpoints, invoices,
                  since, truth, pruned, unseen, raw>>
  BY DEF ReadOpening
<1>2. PICK m, a, b, c : /\ m = draft.month /\ c = draft.from
                        /\ a = MonthStart(m) /\ b = MonthEnd(m)
  OBVIOUS
<1>3. PICK x \in BOOLEAN : x = (draft.sound /\ KeptSince(c, b))
  OBVIOUS
<1>4. PICK n, q : n = openingCount(c, a) /\ q = OpeningSeq(c, a)
  OBVIOUS
<1>5. /\ draft.step = "opening" /\ n >= 0
      /\ draft' = [draft EXCEPT !.step = "events", !.count = n, !.seq = q, !.sound = x]
  BY <1>2, <1>3, <1>4 DEF ReadOpening
<1>6. /\ m \in Months /\ a \in Nat /\ b \in Nat /\ a < b
      /\ c \in deviceCheckpoint \cup {NoCheckpoint}
  BY <1>0, <1>2, MonthBounds DEF Draft
<1>7. n \in Nat /\ q \in 0..MaxSeq
  <2>1. Opening(c, a) \in SUBSET event
    BY <1>0 DEF TypeOK, Opening
  <2>2. Count(Opening(c, a)) \in Int /\ c.count \in Nat
    BY <1>6, <2>1, CountType, CheckpointType
  <2>3. q \in 0..MaxSeq
    BY <1>0, <1>4, <1>6, OpeningSeqType
  <2> QED BY <1>4, <1>5, <2>2, <2>3 DEF openingCount
<1>8. draft' \in Draft
  BY <1>0, <1>5, <1>7 DEF Draft
<1>9. /\ draft'.step = "events" /\ draft'.month = m /\ draft'.sound = x /\ draft'.from = c
      /\ draft'.count = n
  BY <1>0, <1>2, <1>5 DEF Draft
<1>10. ASSUME x PROVE Based(c, a) /\ n = EnrolledAt(a)
  <2>1. draft.sound /\ KeptSince(c, b)
    BY <1>3, <1>10
  <2>2. Based(c, a)
    BY <1>0, <1>2, <1>5, <2>1 DEF DraftInv
  <2>3. c.boundary \in Int /\ Base(c) \in Int
    BY <1>6, CheckpointType
  <2>4. /\ \A e \in recorded : e.at \in Nat
        /\ \A e \in recorded : Base(c) < e.at /\ e.at < b => e \in events
    <3>1. \A e \in recorded : e.at \in Nat
      BY <1>0 DEF TypeOK, event, Ticks
    <3> QED BY <1>0, <1>6, <2>1, <2>3, <3>1, KeptEvents
  <2>5. \A e \in recorded : Base(c) < e.at /\ e.at <= a => e \in events
    BY <1>6, <2>4
  <2> QED BY <1>0, <1>4, <1>6, <2>2, <2>5, OpeningCounts
<1>11. \A t : EnrolledAt(t)' = EnrolledAt(t)
  BY <1>1 DEF EnrolledAt, Count, ledger
<1>12. x => Based(c, a)' /\ n = EnrolledAt(a)'
  BY <1>1, <1>10, <1>11 DEF Based, Base, EnrolledAt, Count, ledger
<1>13. DraftInv'
  <2>1. MonthTicks(m)' = MonthTicks(m) /\ MonthEnd(m)' = MonthEnd(m) /\ MonthStart(m)' = a
    BY <1>2 DEF MonthTicks, MonthStart, MonthEnd
  <2>2. (\A k \in pruned' : invoices'[k].drawn) /\ ~invoices'[m].drawn
    BY <1>0, <1>1, <1>2, <1>5 DEF DraftInv
  <2>3. x => draft.sound
    BY <1>3
  <2>4. x => MonthEnd(m) <= since' /\ \A t \in MonthTicks(m) : truth'[t] = EnrolledAt(t)'
    BY <1>0, <1>1, <1>2, <1>5, <1>11, <2>3 DEF DraftInv
  <2> QED BY <1>9, <1>12, <2>1, <2>2, <2>4 DEF DraftInv
<1> QED BY <1>1, <1>8, <1>13, ReadStep

LEMMA MonthsApart ==
    ASSUME NEW k \in Months, NEW m \in Months, k # m, NEW t \in Int,
           MonthStart(m) <= t, t < MonthEnd(m)
    PROVE  t \notin MonthTicks(k)
<1>1. /\ MonthStart(k) \in Nat /\ MonthEnd(k) \in Nat /\ MonthStart(k) < MonthEnd(k)
      /\ MonthStart(m) \in Nat /\ MonthEnd(m) \in Nat /\ MonthStart(m) < MonthEnd(m)
  BY MonthBounds
<1>2. MonthEnd(k) # MonthEnd(m)
  <2>1. k \in Nat /\ m \in Nat /\ MonthLen \in Nat \ {0}
    BY DeviceUsageAssumption DEF Months
  <2>2. \A i, j \in Nat : i < j => i * MonthLen < j * MonthLen
    BY <2>1
  <2>3. /\ (k + 1) * MonthLen < (m + 1) * MonthLen \/ (m + 1) * MonthLen < (k + 1) * MonthLen
        /\ (m + 1) * MonthLen \in Nat /\ (k + 1) * MonthLen \in Nat
    BY <2>1, <2>2
  <2> QED BY <2>3 DEF MonthEnd
<1>3. CASE MonthEnd(k) < MonthEnd(m)
  BY <1>1, <1>3, MonthOrder DEF MonthTicks
<1>4. CASE MonthEnd(m) < MonthEnd(k)
  BY <1>1, <1>4, MonthOrder DEF MonthTicks
<1> QED BY <1>1, <1>2, <1>3, <1>4

LEMMA FinalizeInvoiceStep ==
    ASSUME IInv, FinalizeInvoice
    PROVE  IInv'
<1>0. /\ TypeOK /\ Books /\ TimeInv /\ PeriodInv /\ TruthInv /\ InvoiceInv /\ DraftInv /\ PruneInv
      /\ DOMAIN invoices = Months /\ draft \in Draft
  BY DEF IInv, Books, TypeOK
<1>1. /\ UNCHANGED <<now, account, members, ledger, enabled, periods, checkpoints, since,
                     truth, pruned, unseen, raw>>
      /\ draft' = NoDraft
  BY DEF FinalizeInvoice
<1>2. PICK m, a, b, c : /\ m = draft.month /\ c = draft.from
                        /\ a = MonthStart(m) /\ b = MonthEnd(m)
  OBVIOUS
<1>3. /\ m \in Months /\ a \in Nat /\ b \in Nat /\ a < b
      /\ c \in deviceCheckpoint \cup {NoCheckpoint}
  BY <1>0, <1>2, MonthBounds DEF Draft
<1> DEFINE devices == [t \in MonthTicks(m) |-> draft.count + Count({e \in Changes(c, a, b) : e.at <= t})]
           new == [drawn |-> TRUE, devices |-> devices, sound |-> draft.sound]
<1>4. invoices' = [invoices EXCEPT ![m] = new] /\ draft.step = "events" /\ ~invoices[m].drawn
  BY <1>2 DEF FinalizeInvoice
<1>5. new.drawn /\ new.devices = devices /\ new.sound = draft.sound
  OBVIOUS
<1> HIDE DEF new
<1>6. DOMAIN invoices' = Months /\ invoices'[m] = new /\ \A k \in Months : k # m => invoices'[k] = invoices[k]
  BY <1>0, <1>3, <1>4
<1>7. ASSUME new.sound
      PROVE  b <= since /\ \A t \in MonthTicks(m) : new.devices[t] = truth[t]
  <2>1. /\ b <= since /\ \A t \in MonthTicks(m) : truth[t] = EnrolledAt(t)
        /\ Based(c, a) /\ draft.count = EnrolledAt(a)
    BY <1>0, <1>2, <1>4, <1>5, <1>7 DEF DraftInv
  <2>2. \A e \in recorded : a < e.at /\ e.at < b => e \in events
    <3> SUFFICES ASSUME NEW e \in recorded, a < e.at, e.at < b PROVE e \in events
      OBVIOUS
    <3>1. e.at \in Int /\ a <= e.at
      BY <1>0, <1>3 DEF TypeOK, event, Ticks
    <3>2. ASSUME NEW k \in pruned PROVE e.at \notin MonthTicks(k)
      <4>1. k \in Months /\ k # m
        BY <1>0, <1>4 DEF DraftInv, TypeOK
      <4> QED BY <1>2, <1>3, <3>1, <4>1, MonthsApart
    <3> QED BY <1>0, <3>2 DEF PruneInv
  <2>3. ASSUME NEW t \in MonthTicks(m) PROVE new.devices[t] = truth[t]
    <3>1. t \in a..(b - 1)
      BY <1>2 DEF MonthTicks
    <3>2. EnrolledAt(t) = EnrolledAt(a) + Count({e \in Changes(c, a, b) : e.at <= t})
      BY <1>0, <1>3, <2>1, <2>2, <3>1, ChangesCount
    <3> QED BY <1>5, <2>1, <3>2
  <2> QED BY <2>1, <2>3
<1>8. InvoiceInv'
  <2> SUFFICES ASSUME NEW k \in Months, invoices'[k].drawn, invoices'[k].sound
               PROVE  /\ MonthEnd(k) <= since
                      /\ \A t \in MonthTicks(k) : invoices'[k].devices[t] = truth[t]
    BY <1>1 DEF InvoiceInv, MonthEnd, MonthTicks, MonthStart
  <2>1. CASE k = m
    BY <1>2, <1>6, <1>7, <2>1
  <2>2. CASE k # m
    BY <1>0, <1>6, <2>2 DEF InvoiceInv
  <2> QED BY <2>1, <2>2
<1>9. since' \in Nat /\ since <= since'
  BY <1>0, <1>1, Clock
<1>10. (LedgerType /\ Books)' /\ \A t : EnrolledAt(t)' = EnrolledAt(t)
  BY <1>0, <1>1, <1>9, BooksSame
<1>11. PeriodInv' /\ \A t : Covering(t)' = Covering(t)
  <2>1. unseen' \subseteq 1..Len(periods)
    BY <1>0, <1>1 DEF PeriodInv
  <2> QED BY <1>0, <1>1, <1>9, <2>1, PeriodsSame
<1>12. TruthInv'
  <2>1. enabled' => \A t \in Ticks : t >= since' => truth'[t] = Cardinality(members')
    BY <1>0, <1>1 DEF TruthInv
  <2> QED BY <1>0, <1>1, <1>10, <1>11, <2>1, TruthMoves
<1>13. TypeOK' /\ TimeInv'
  BY <1>0, <1>1, <1>6, <1>10, NoDraftType DEF TypeOK, LedgerType, TimeInv
<1>14. DraftInv'
  <2>1. draft'.step = "none"
    BY <1>1 DEF NoDraft
  <2>2. \A k \in pruned' : invoices'[k].drawn
    <3> TAKE k \in pruned'
    <3>1. k \in Months /\ invoices[k].drawn
      BY <1>0, <1>1 DEF DraftInv, TypeOK
    <3> QED BY <1>5, <1>6, <3>1
  <2> QED BY <2>1, <2>2 DEF DraftInv
<1> QED BY <1>8, <1>10, <1>11, <1>12, <1>13, <1>14 DEF IInv, Books

-----------------------------------------------------------------------------
(* Which reports are given. *)

\* Event k is the last one up to tick t.
LastUpTo(t, k) == \A e \in recorded : e.at <= t <=> e.seq <= k

SeqsBetween(lo, hi) == {e.seq : e \in {o \in recorded : lo < o.at /\ o.at <= hi}}

\* The history between two ticks is a run of consecutive sequence numbers.
LEMMA Consecutive ==
    ASSUME TypeOK, LedgerInv, NEW lo \in Int, NEW hi \in Int, lo <= hi, NEW k \in 0..stream,
           LastUpTo(lo, k)
    PROVE  \E n \in k..stream : SeqsBetween(lo, hi) = (k + 1)..n /\ LastUpTo(hi, n)
<1> DEFINE E == {o \in recorded : lo < o.at /\ o.at <= hi}
           S == {e.seq : e \in E}
           T == S \cup {k}
           n == Max(T)
<1>0. stream \in Nat /\ k \in Nat /\ k <= stream
  BY DEF TypeOK
<1>a. \A e \in recorded : e.at <= lo <=> e.seq <= k
  BY DEF LastUpTo
<1>1. \A e \in recorded : e.seq \in Nat /\ e.seq <= stream /\ e.seq >= 1 /\ e.at \in Nat
  BY <1>0 DEF LedgerInv, TypeOK, event, Ticks
<1>2. \A e \in E : e.seq > k
  BY <1>0, <1>a, <1>1
<1>3. T \in SUBSET Nat /\ T # {} /\ \A x \in T : x <= stream
  BY <1>0, <1>1
<1>4. n \in T /\ \A x \in T : x <= n
  <2> HIDE DEF T
  <2> QED BY <1>0, <1>3, MaxOf
<1>5. n \in Nat /\ k <= n /\ n <= stream
  BY <1>3, <1>4
<1> HIDE DEF n
<1>6. \A e \in recorded : e.at <= hi => e.seq <= n
  <2> SUFFICES ASSUME NEW e \in recorded, e.at <= hi PROVE e.seq <= n
    OBVIOUS
  <2>1. CASE e.seq <= k
    BY <1>0, <1>1, <1>5, <2>1
  <2>2. CASE ~(e.seq <= k)
    <3>1. lo < e.at
      BY <1>a, <1>1, <2>2
    <3>2. e.seq \in T
      BY <3>1
    <3> QED BY <1>4, <3>2
  <2> QED BY <2>1, <2>2
<1>7. \A e \in recorded : e.seq <= n => e.at <= hi
  <2> SUFFICES ASSUME NEW e \in recorded, e.seq <= n PROVE e.at <= hi
    OBVIOUS
  <2>1. CASE e.seq <= k
    BY <1>a, <1>1, <2>1
  <2>2. CASE ~(e.seq <= k)
    <3>1. n # k
      BY <1>0, <1>1, <2>2
    <3>2. PICK f \in E : f.seq = n
      BY <1>4, <3>1
    <3>3. f \in recorded /\ f.at <= hi
      BY <3>2
    <3>4. e.at <= f.at
      <4>1. CASE e.seq = n
        BY <1>1, <3>2, <3>3, <4>1 DEF LedgerInv
      <4>2. CASE e.seq < n
        BY <3>2, <3>3, <4>2 DEF LedgerInv
      <4> QED BY <1>1, <1>5, <4>1, <4>2
    <3> QED BY <1>1, <3>3, <3>4
  <2> QED BY <2>1, <2>2
<1>8. S = (k + 1)..n
  <2>1. \A x \in S : x \in (k + 1)..n
    <3> TAKE x \in S
    <3>1. x \in Nat /\ x > k /\ x <= n
      BY <1>1, <1>2, <1>4
    <3> QED BY <1>0, <1>5, <3>1
  <2>2. \A x \in (k + 1)..n : x \in S
    <3> TAKE x \in (k + 1)..n
    <3>1. x \in 1..stream /\ x > k /\ x <= n
      BY <1>0, <1>5
    <3>2. PICK e \in recorded : e.seq = x
      BY <3>1 DEF LedgerInv
    <3>3. e.at <= hi
      BY <1>7, <3>1, <3>2
    <3>4. ~(e.at <= lo)
      BY <1>0, <1>a, <1>1, <3>1, <3>2
    <3>5. e \in E
      BY <1>1, <3>3, <3>4
    <3> QED BY <3>2, <3>5
  <2> QED BY <2>1, <2>2
<1>9. n \in k..stream
  BY <1>0, <1>5
<1> QED BY <1>6, <1>7, <1>8, <1>9 DEF SeqsBetween, LastUpTo

LEMMA MaxInterval ==
    ASSUME NEW k \in Nat, NEW n \in Nat, k <= n
    PROVE  Max((k + 1)..n \cup {k}) = n
<1> DEFINE T == (k + 1)..n \cup {k}
<1>1. T \in SUBSET Nat /\ n \in T /\ \A x \in T : x <= n
  OBVIOUS
<1> HIDE DEF T
<1>2. Max(T) \in T /\ \A x \in T : x <= Max(T)
  BY <1>1, MaxOf
<1>3. Max(T) \in Nat /\ Max(T) <= n /\ n <= Max(T)
  BY <1>1, <1>2
<1>4. Max(T) = n
  BY <1>3
<1> QED BY <1>4 DEF T

\* A window that starts after the latest checkpoint is reported from there.
LEMMA LatestBase ==
    ASSUME TypeOK, Books, NEW a \in Nat, a >= Latest.boundary
    PROVE  /\ checkpointAt(a).seq = Latest.seq
           /\ ~(checkpointAt(a).seq = 0 /\ checkpoints # <<>>)
           /\ checkpoints # <<>> => checkpointAt(a) = Latest
<1> DEFINE usable == {i \in DOMAIN checkpoints : checkpoints[i].boundary <= a}
<1>0. LedgerInv /\ CheckpointInv
  BY DEF Books
<1>L. LatestStands
  BY <1>0, LatestFacts
<1>1. CASE checkpoints = <<>>
  <2>1. usable = {}
    BY <1>1
  <2>2. checkpointAt(a) = NoCheckpoint
    BY <2>1 DEF checkpointAt
  <2>3. Latest.seq = 0
    BY <1>1, <1>L DEF LatestStands
  <2> QED BY <1>1, <2>2, <2>3 DEF NoCheckpoint
<1>2. CASE checkpoints # <<>>
  <2> DEFINE n == Len(checkpoints)
  <2>1. /\ n \in DOMAIN checkpoints /\ Latest = checkpoints[n] /\ Latest.seq # 0
        /\ Latest.boundary \in Int
    BY <1>2, <1>L DEF LatestStands
  <2>2. DOMAIN checkpoints = 1..n /\ n \in Nat
    BY LenProperties DEF TypeOK
  <2>3. usable = 1..n
    <3>1. \A i \in DOMAIN checkpoints : checkpoints[i].boundary <= a
      <4> TAKE i \in DOMAIN checkpoints
      <4>1. checkpoints[i].boundary \in Nat /\ checkpoints[i].boundary <= Latest.boundary
        BY <1>0, <1>L, BeforeLatest
      <4> QED BY <2>1, <4>1
    <3> QED BY <2>2, <3>1
  <2> HIDE DEF usable, n
  <2>4. usable \in SUBSET Nat /\ usable # {} /\ n \in usable /\ \A x \in usable : x <= n
    BY <2>1, <2>2, <2>3
  <2>5. Max(usable) \in usable /\ \A x \in usable : x <= Max(usable)
    BY <2>2, <2>4, MaxOf
  <2>6. Max(usable) = n
    <3>1. Max(usable) \in Nat /\ Max(usable) <= n /\ n <= Max(usable)
      BY <2>4, <2>5
    <3> QED BY <2>2, <3>1
  <2>7. checkpointAt(a) = checkpoints[Max(usable)]
    BY <2>4 DEF checkpointAt, usable
  <2> QED BY <2>1, <2>6, <2>7
<1> QED BY <1>1, <1>2

LEMMA CoveredOnce ==
    ASSUME TypeOK, PeriodInv, NEW t \in Ticks
    PROVE  ~(Cardinality(Covering(t)) > 1)
<1>1. ASSUME NEW i \in Covering(t), NEW j \in Covering(t), i < j PROVE FALSE
  <2>1. /\ i \in 1..Len(periods) /\ j \in 1..Len(periods) /\ t < periods[i].end
        /\ periods[j].start <= t
    BY CoveringFacts
  <2>2. periods[i].end <= periods[j].start
    BY <1>1, <2>1, PeriodFacts DEF PeriodInv
  <2>3. periods[i].end \in Nat /\ periods[j].start \in Nat /\ t \in Nat
    BY <2>1, PeriodFacts DEF Ticks
  <2> QED BY <2>1, <2>2, <2>3
<1>2. \A i \in Covering(t) : i \in Nat
  <2> TAKE i \in Covering(t)
  <2>1. i \in 1..Len(periods) /\ Len(periods) \in Nat
    BY CoveringFacts, PeriodFacts
  <2> QED BY <2>1
<1>3. CASE Covering(t) = {}
  BY <1>3, FS_EmptySet
<1>4. CASE Covering(t) # {}
  <2>1. PICK i \in Covering(t) : TRUE
    BY <1>4
  <2>2. Covering(t) = {i}
    <3>1. \A j \in Covering(t) : j = i
      <4> TAKE j \in Covering(t)
      <4>1. ~(i < j) /\ ~(j < i)
        BY <1>1, <2>1
      <4> QED BY <1>2, <2>1, <4>1
    <3> QED BY <2>1, <3>1
  <2> QED BY <2>2, FS_Singleton
<1> QED BY <1>3, <1>4

LEMMA AvailableFromLatest ==
    ASSUME TypeOK, Books, PeriodInv, NEW a \in Nat, NEW b \in Nat, a < b, b <= now,
           a >= Latest.boundary
    PROVE  ~Refused(a, b)
<1> DEFINE c == checkpointAt(a)
           O == Opening(c, a)
           C == Changes(c, a, b)
           later == {e.seq : e \in C}
<1>0. LedgerInv /\ CheckpointInv /\ PruneInv /\ CountInv /\ now \in Nat
  BY DEF Books, TypeOK, Ticks
<1>L. LatestStands
  BY <1>0, LatestFacts
<1>1. c.seq = Latest.seq /\ ~(c.seq = 0 /\ checkpoints # <<>>) /\ (checkpoints # <<>> => c = Latest)
  BY LatestBase
<1>2. /\ Latest.seq \in 0..stream /\ Latest.boundary \in Int /\ stream \in Nat /\ Latest.seq \in Nat
      /\ \A e \in recorded : e.at <= Latest.boundary <=> e.seq <= Latest.seq
  BY <1>L DEF LatestStands, TypeOK
<1>R. /\ \A e \in recorded : e.seq > Latest.seq => e \in events
      /\ events \in SUBSET recorded
      /\ \A e \in recorded : e.seq \in Nat /\ e.at \in Nat
  BY <1>0, <1>L, Retained
<1>3. PICK n \in Latest.seq..stream :
        SeqsBetween(Latest.boundary, a) = (Latest.seq + 1)..n /\ LastUpTo(a, n)
  <2>1. LastUpTo(Latest.boundary, Latest.seq) /\ a \in Int /\ Latest.boundary <= a
    BY <1>2 DEF LastUpTo
  <2> QED BY <1>0, <1>2, <2>1, Consecutive
<1>4. n \in Nat /\ Latest.seq <= n /\ n \in 0..stream
  BY <1>2
<1>5. b - 1 \in Int /\ a <= b - 1
  OBVIOUS
<1>6. PICK p \in n..stream :
        SeqsBetween(a, b - 1) = (n + 1)..p /\ LastUpTo(b - 1, p)
  BY <1>0, <1>3, <1>4, <1>5, Consecutive
<1>7. p \in Nat /\ n <= p
  BY <1>4, <1>2
<1> HIDE DEF c
<1>8. \A e \in recorded : e.seq > c.seq <=> Latest.boundary < e.at
  BY <1>1, <1>2, <1>R
<1>9. O = {o \in recorded : Latest.boundary < o.at /\ o.at <= a}
  <2>1. \A e \in recorded : Latest.boundary < e.at => e \in events
    BY <1>1, <1>8, <1>R
  <2> QED BY <1>8, <1>R, <2>1 DEF Opening
<1>10. C = {o \in recorded : a < o.at /\ o.at <= b - 1}
  <2>1. \A e \in recorded : a < e.at => e \in events /\ e.seq > c.seq
    BY <1>1, <1>2, <1>8, <1>R
  <2>2. \A e \in recorded : e.at < b <=> e.at <= b - 1
    BY <1>R
  <2> QED BY <1>R, <2>1, <2>2 DEF Changes
<1>11. OpeningSeq(c, a) = n
  <2>1. {e.seq : e \in O} \cup {c.seq} = (Latest.seq + 1)..n \cup {Latest.seq}
    BY <1>1, <1>3, <1>9 DEF SeqsBetween
  <2>2. Max((Latest.seq + 1)..n \cup {Latest.seq}) = n
    BY <1>2, <1>4, MaxInterval
  <2> QED BY <2>1, <2>2 DEF OpeningSeq
<1>12. Cardinality(O) = n - c.seq
  <2> DEFINE K == (Latest.seq + 1)..n
             s == Latest.seq
             d == n - s
  <2>1. O \in SUBSET event /\ \A e, f \in O : e.seq = f.seq => e = f
    BY <1>0, <1>9 DEF LedgerInv, TypeOK
  <2>2. {e.seq : e \in O} = K
    BY <1>3, <1>9 DEF SeqsBetween
  <2>3. (\A e \in O : e.seq \in K) /\ \A k \in K : \E e \in O : e.seq = k
    BY <2>2
  <2>4. Cardinality(O) = Cardinality(K)
    <3> HIDE DEF O, K
    <3> QED BY <2>1, <2>3, Numbered
  <2>5. s \in Nat /\ d \in Nat /\ n = s + d
    BY <1>2, <1>4
  <2>6. K = (s + 1)..(s + d)
    BY <2>5
  <2> HIDE DEF s, d, K
  <2>7. Cardinality((s + 1)..(s + d)) = d
    BY <2>5, IntervalSize
  <2> QED BY <1>1, <2>4, <2>6, <2>7 DEF d, s
<1>13. later = (n + 1)..(n + Cardinality(later))
  <2> DEFINE d == p - n
  <2>1. later = (n + 1)..p
    BY <1>6, <1>10 DEF SeqsBetween
  <2>2. d \in Nat /\ p = n + d
    BY <1>4, <1>7
  <2> HIDE DEF d, later
  <2>3. Cardinality((n + 1)..(n + d)) = d
    BY <1>4, <2>2, IntervalSize
  <2> QED BY <2>1, <2>2, <2>3
<1>14. ASSUME NEW t \in a..(b - 1)
       PROVE  ~(composeReport(a, b)[t] < 0) /\ ~(Cardinality(Covering(t)) > 1)
  <2>1. Kept(a, b)
    <3> SUFFICES ASSUME NEW m \in pruned
                 PROVE  checkpointAt(a).seq # 0 /\ MonthEnd(m) - 1 <= checkpointAt(a).boundary
      BY DEF Kept, KeptSince
    <3>1. MonthStart(m) \in Nat /\ MonthEnd(m) \in Nat /\ MonthStart(m) < MonthEnd(m)
      BY MonthBounds DEF TypeOK
    <3>2. MonthEnd(m) - 1 <= Latest.boundary
      BY <1>0 DEF PruneInv
    <3>3. checkpoints # <<>>
      <4>1. Latest.boundary # -1
        BY <3>1, <3>2
      <4> QED BY <1>L, <4>1 DEF LatestStands
    <3> QED BY <1>1, <3>2, <3>3 DEF c
  <2>2. ~(checkpointAt(a).seq = 0 /\ checkpoints # <<>>)
    BY <1>1 DEF c
  <2>3. composeReport(a, b)[t] = EnrolledAt(t)
    BY <2>1, <2>2, ReportCounts
  <2>4. t \in Ticks
    BY <1>0, DeviceUsageAssumption DEF TypeOK, Ticks
  <2>5. EnrolledAt(t) \in Nat
    BY <1>0, <2>4, DevicesFinite DEF CountInv
  <2>6. ~(Cardinality(Covering(t)) > 1)
    BY <2>4, CoveredOnce
  <2> QED BY <2>3, <2>5, <2>6
<1>15. ~\E x \in Range(composeReport(a, b)) : x < 0
  <2>1. DOMAIN composeReport(a, b) = a..(b - 1)
    BY DEF composeReport
  <2> QED BY <1>14, <2>1 DEF Range
<1>16. ~(Cardinality(Opening(c, a)) # OpeningSeq(c, a) - c.seq)
  BY <1>11, <1>12
<1>17. /\ later = {e.seq : e \in Changes(c, a, b)}
       /\ ~(later # (OpeningSeq(c, a) + 1)..(OpeningSeq(c, a) + Cardinality(later)))
  BY <1>11, <1>13
<1> QED BY <1>1, <1>14, <1>15, <1>16, <1>17 DEF Refused, c

-----------------------------------------------------------------------------
(* The theorems. *)

LEMMA IInvInit == Init => IInv
<1> SUFFICES ASSUME Init PROVE IInv
  OBVIOUS
<1> DEFINE p == [start |-> 0, end |-> Open, complete |-> TRUE]
<1>1. /\ 0 \in Ticks /\ 0 \in 0..MaxSeq /\ 0 \in 0..MaxRaw /\ 0 \in 0..Cardinality(Devices)
      /\ MaxOpen \in Nat /\ MaxPeriods \in Nat \ {0}
  BY DeviceUsageAssumption, DevicesFinite DEF Ticks
<1>2. p \in Period
  BY <1>1 DEF Period
<1>3. p.start = 0 /\ p.end = Open /\ p.complete
  OBVIOUS
<1>4. periods = <<p>> /\ enabled = TRUE /\ since = 0 /\ now = 0 /\ unseen = {} /\ members = {}
  BY DEF Init
<1>5. /\ recorded = {} /\ events = {} /\ stream = 0 /\ checkpoints = <<>> /\ pruned = {}
      /\ enrolled = [d \in Devices |-> 0] /\ truth = [t \in Ticks |-> 0]
      /\ invoices = [m \in Months |-> NoInvoice]
  BY DEF Init
<1> HIDE DEF p
<1>6. periods \in Seq(Period) /\ Len(periods) = 1 /\ periods[1] = p /\ DOMAIN periods = 1..1
  BY <1>2, <1>4
<1>7. checkpoints \in Seq(deviceCheckpoint) /\ DOMAIN checkpoints = {}
  BY <1>5
<1>8. TypeOK
  BY <1>1, <1>4, <1>5, <1>6, <1>7, NoDraftType DEF TypeOK, Init
<1>9. LedgerInv
  BY <1>5 DEF LedgerInv
<1>10. /\ \A t : EnrolledAt(t) = 0 
       /\ Count(recorded) = 0 /\ activeEnrollments = {} /\ Cardinality({}) = 0
  <2>1. \A t : {e \in recorded : e.at <= t} = {}
    BY <1>5
  <2>2. \A t : EnrolledAt(t) = 0
    BY <2>1, CountNothing DEF EnrolledAt
  <2>3. Count(recorded) = 0
    BY <1>5, CountNothing
  <2>4. activeEnrollments = {}
    BY <1>5 DEF activeEnrollments
  <2> QED BY <2>2, <2>3, <2>4, FS_EmptySet
<1>11. CountInv /\ EnrolInv
  BY <1>1, <1>10 DEF CountInv, EnrolInv
<1>12. PruneInv /\ CheckpointInv
  BY <1>5, <1>7 DEF PruneInv, CheckpointInv
<1>13. TimeInv
  BY <1>1, <1>4 DEF TimeInv
<1>14. PeriodInv
  BY <1>1, <1>3, <1>4, <1>6 DEF PeriodInv
<1>15. TruthInv
  BY <1>4, <1>5, <1>10 DEF TruthInv
<1>16. InvoiceInv
  BY <1>5 DEF InvoiceInv, NoInvoice
<1>17. DraftInv
  BY <1>5 DEF DraftInv, NoDraft, Init
<1> QED BY <1>8, <1>9, <1>11, <1>12, <1>13, <1>14, <1>15, <1>16, <1>17 DEF IInv

LEMMA IInvNext == IInv /\ [Next]_vars => IInv'
<1> SUFFICES ASSUME IInv, [Next]_vars PROVE IInv'
  OBVIOUS
<1>1. ASSUME NEW at \in Sampled, NEW to \in SUBSET Devices, Track(to, at) PROVE IInv'
  BY <1>1, TrackStep DEF Sampled
<1>2. ASSUME NEW at \in Sampled, NEW closed \in Sampled, DeleteAccount(at, closed) PROVE IInv'
  BY <1>2, DeleteAccountStep DEF Sampled
<1>3. ASSUME NEW at \in Sampled, ConfigureOn(at) PROVE IInv'
  BY <1>3, ConfigureOnStep DEF Sampled
<1>4. ASSUME NEW at \in Sampled, ConfigureOff(at) PROVE IInv'
  BY <1>4, ConfigureOffStep DEF Sampled
<1>5. ASSUME NEW at \in Sampled, Reconcile(at) PROVE IInv'
  BY <1>5, ReconcileStep DEF Sampled
<1>6. ASSUME DeleteAccountDisabled \/ \E to \in SUBSET Devices : TrackDisabled(to) PROVE IInv'
  BY <1>6, DisabledStep
<1>7. ASSUME NEW d \in Devices, RawChange(d) PROVE IInv'
  BY <1>7, RawChangeStep
<1>8. CASE ReadCheckpoint \/ ReadOpening \/ FinalizeInvoice
  BY <1>8, ReadCheckpointStep, ReadOpeningStep, FinalizeInvoiceStep
<1>c. ASSUME NEW m \in Months, ReadCoverage(m) PROVE IInv'
  BY <1>c, ReadCoverageStep
<1>9. ASSUME NEW m \in Months, PruneFinalizedPeriod(m) PROVE IInv'
  BY <1>9, PruneFinalizedPeriodStep
<1>10. CASE Tick
  BY <1>10, TickStep
<1>11. CASE UNCHANGED vars
  BY <1>11, StutterStep
<1> QED BY <1>1, <1>2, <1>3, <1>4, <1>5, <1>6, <1>7, <1>8, <1>9, <1>10, <1>11, <1>c DEF Next

\* The ledger, the periods and the recorded members fit together in every
\* reachable state.
THEOREM Invariance == Spec => []IInv
BY IInvInit, IInvNext, PTL DEF Spec

\* Every variable of the ledger keeps its type: in particular the count of a
\* checkpoint never leaves the range of the devices (buildCheckpoint).
THEOREM TypeCorrect == Spec => []TypeOK
<1>1. IInv => TypeOK
  BY DEF IInv
<1> QED BY <1>1, Invariance, PTL

\* ReportExact: over a window whose events are kept, what composeReport counts
\* for a complete tick is the number of members at that tick.
THEOREM ReportsExact == Spec => []ReportExact
<1>1. IInv => ReportExact
  <2> SUFFICES ASSUME IInv, NEW a \in 0..(now - 1), NEW b \in (a + 1)..now,
                      NEW t \in a..(b - 1), NEW i \in Covering(t),
                      periods[i].complete, i \notin unseen,
                      Kept(a, b), Reportable(a, b)
               PROVE  composeReport(a, b)[t] = truth[t]
    BY DEF ReportExact
  <2>1. TypeOK /\ Books /\ TruthInv /\ now \in Nat /\ now <= MaxTime
    BY DeviceUsageAssumption DEF IInv, Books, TypeOK, Ticks
  <2>2. a \in Nat /\ b \in Nat /\ b <= now
    BY <2>1
  <2>3. t \in Ticks
    BY <2>1, <2>2, DeviceUsageAssumption DEF Ticks
  <2>4. ~(checkpointAt(a).seq = 0 /\ checkpoints # <<>>)
    BY NotRefused DEF Reportable
  <2>5. composeReport(a, b)[t] = EnrolledAt(t)
    BY <2>1, <2>2, <2>4, ReportCounts
  <2>6. truth[t] = EnrolledAt(t)
    BY <2>1, <2>3 DEF TruthInv
  <2> QED BY <2>5, <2>6
<1> QED BY <1>1, Invariance, PTL

\* ReportAvailable: whatever was pruned, Devices refuses no window that starts
\* at or after the latest checkpoint.
THEOREM ReportsAvailable == Spec => []ReportAvailable
<1>1. IInv => ReportAvailable
  <2> SUFFICES ASSUME IInv, NEW a \in 0..(now - 1), NEW b \in (a + 1)..now,
                      a >= Latest.boundary, b - a <= MaxReportWindow
               PROVE  Reportable(a, b)
    BY DEF ReportAvailable
  <2>1. TypeOK /\ Books /\ PeriodInv /\ now \in Nat
    BY DEF IInv, Books, TypeOK, Ticks
  <2>2. a \in Nat /\ b \in Nat /\ a < b /\ b <= now
    BY <2>1
  <2>3. ~Refused(a, b)
    BY <2>1, <2>2, AvailableFromLatest
  <2> QED BY <2>2, <2>3 DEF Reportable
<1> QED BY <1>1, Invariance, PTL

\* RevocableUnlessCheckpointed: synchronize can revoke an active enrollment
\* unless its enrolment event is behind the latest checkpoint.
THEOREM EnrollmentsRevocable == Spec => []RevocableUnlessCheckpointed
<1>1. IInv => RevocableUnlessCheckpointed
  <2> SUFFICES ASSUME IInv, NEW d \in activeEnrollments, ~(enrolled[d] <= Latest.seq)
               PROVE  Revocable(enrolled[d])
    BY DEF RevocableUnlessCheckpointed
  <2>1. TypeOK /\ LedgerInv /\ EnrolInv /\ PruneInv /\ CheckpointInv
    BY DEF IInv
  <2>2. LatestStands
    BY <2>1, LatestFacts
  <2>3. PICK e \in recorded : e.gen = enrolled[d] /\ e.seq = e.gen
    BY <2>1 DEF EnrolInv
  <2>4. \A o \in recorded : o.gen = enrolled[d] => o.kind = "enrolled"
    BY <2>1 DEF EnrolInv
  <2>5. /\ \A o \in recorded : o.seq > Latest.seq => o \in events
        /\ events \in SUBSET recorded
        /\ \A o \in recorded : o.seq \in Nat /\ o.at \in Nat
    BY <2>1, <2>2, Retained
  <2>6. Latest.seq \in Nat
    BY <2>1, <2>2 DEF LatestStands, TypeOK
  <2>7. e.seq > Latest.seq
    BY <2>3, <2>5, <2>6
  <2>8. e \in events /\ e.kind = "enrolled"
    BY <2>3, <2>4, <2>5, <2>7
  <2> QED BY <2>3, <2>4, <2>5, <2>8 DEF Revocable
<1> QED BY <1>1, Invariance, PTL

\* InvoiceExact: nothing that is committed or pruned between the statements of
\* the finalize command, or after it, makes an invoice whose opening events were
\* kept, and whose month was over when the command started, disagree with the
\* members of that month.
THEOREM InvoicesExact == Spec => []InvoiceExact
<1>1. IInv => InvoiceExact
  BY DEF IInv, InvoiceInv, InvoiceExact
<1> QED BY <1>1, Invariance, PTL
=============================================================================
