-------------------------- MODULE RelayBudgetProofs --------------------------
(***************************************************************************)
(* A month is never billed at more than its cap and the price of what was  *)
(* forwarded outside credits, for any number of relays, requests, faults   *)
(* and months, any sizes and any rate schedule.                            *)
(***************************************************************************)
EXTENDS RelayCreditsProofs, FiniteSetTheorems

-----------------------------------------------------------------------------
(* Sums of counts. *)

BytesOf(rows, n) == {b \in rows \X (1..Requested) : b[2] <= n[b[1]]}

LEMMA GrantsFinite == IsFiniteSet(Grants)
<1>1. IsFiniteSet(Months) /\ IsFiniteSet(1..MaxReqs)
  BY FS_Interval, TimeAssumption, CreditAssumption DEF Months
<1>2. IsFiniteSet(Relays \X (1..MaxReqs))
  BY <1>1, FS_Product, RelaysAssumption
<1> DEFINE f == [q \in Months \X (Relays \X (1..MaxReqs)) |-> <<q[1], q[2][1], q[2][2]>>]
<1>3. IsFiniteSet(Months \X (Relays \X (1..MaxReqs)))
  BY <1>1, <1>2, FS_Product
<1>4. f \in Surjection(Months \X (Relays \X (1..MaxReqs)), Grants)
  <2>1. \A g \in Grants : \E q \in Months \X (Relays \X (1..MaxReqs)) : f[q] = g
    <3> TAKE g \in Grants
    <3>1. /\ <<g[1], <<g[2], g[3]>>>> \in Months \X (Relays \X (1..MaxReqs))
          /\ f[<<g[1], <<g[2], g[3]>>>>] = g
      BY DEF Grants
    <3> QED BY <3>1
  <2>2. f \in [Months \X (Relays \X (1..MaxReqs)) -> Grants]
    BY DEF Grants
  <2> QED BY <2>1, <2>2 DEF Surjection
<1> HIDE DEF f
<1> QED BY <1>3, <1>4, FS_Surjection

LEMMA BytesType ==
    ASSUME NEW rows \in SUBSET Grants, NEW n
    PROVE  IsFiniteSet(BytesOf(rows, n)) /\ Bytes(rows, n) \in Nat
<1>1. IsFiniteSet(rows) /\ IsFiniteSet(1..Requested)
  BY GrantsFinite, FS_Subset, FS_Interval, CreditAssumption
<1>2. IsFiniteSet(rows \X (1..Requested))
  BY <1>1, FS_Product
<1>3. IsFiniteSet(BytesOf(rows, n))
  BY <1>2, FS_Subset DEF BytesOf
<1> QED BY <1>3, FS_CardinalityType DEF Bytes, BytesOf

\* Smaller counts have a smaller sum.
LEMMA BytesMonotone ==
    ASSUME NEW rows \in SUBSET Grants, NEW n, NEW m,
           \A g \in rows : n[g] \in Nat /\ m[g] \in Nat /\ n[g] <= m[g]
    PROVE  Bytes(rows, n) <= Bytes(rows, m)
<1>1. BytesOf(rows, n) \subseteq BytesOf(rows, m)
  BY CreditAssumption DEF BytesOf
<1>2. Cardinality(BytesOf(rows, n)) <= Cardinality(BytesOf(rows, m))
  BY <1>1, BytesType, FS_Subset
<1> QED BY <1>2 DEF Bytes, BytesOf

LEMMA BytesSame ==
    ASSUME NEW rows \in SUBSET Grants, NEW n, NEW m, \A g \in rows : n[g] = m[g]
    PROVE  Bytes(rows, n) = Bytes(rows, m)
<1>1. BytesOf(rows, n) = BytesOf(rows, m)
  BY DEF BytesOf
<1> QED BY <1>1 DEF Bytes, BytesOf

\* A new row adds its count.
LEMMA BytesAdd ==
    ASSUME NEW rows \in SUBSET Grants, NEW g \in Grants, g \notin rows,
           NEW n, NEW m, \A o \in rows : n[o] = m[o], m[g] \in 0..Requested
    PROVE  Bytes(rows \cup {g}, m) = Bytes(rows, n) + m[g]
<1> DEFINE A == BytesOf(rows, n)
           B == {g} \X (1..m[g])
<1>1. BytesOf(rows \cup {g}, m) = A \cup B
  BY CreditAssumption DEF BytesOf
<1>2. A \cap B = {}
  BY DEF BytesOf
<1>3. IsFiniteSet(A)
  BY BytesType
<1>4. IsFiniteSet(B) /\ Cardinality(B) = m[g]
  <2>1. m[g] \in Nat
    BY CreditAssumption
  <2>2. IsFiniteSet(1..m[g]) /\ Cardinality(1..m[g]) = m[g]
    BY <2>1, FS_Interval
  <2>3. IsFiniteSet({g}) /\ Cardinality({g}) = 1
    BY FS_Singleton
  <2>4. IsFiniteSet(B) /\ Cardinality(B) = 1 * m[g]
    <3> DEFINE S == {g}
               T == 1..m[g]
    <3> HIDE DEF S, T
    <3>1. IsFiniteSet(S \X T) /\ Cardinality(S \X T) = Cardinality(S) * Cardinality(T)
      BY <2>2, <2>3, FS_Product DEF S, T
    <3> QED BY <2>2, <2>3, <3>1 DEF S, T
  <2> QED BY <2>1, <2>4
<1> HIDE DEF A, B
<1>5. Cardinality(A \cup B) = Cardinality(A) + Cardinality(B) - Cardinality({})
  BY <1>2, <1>3, <1>4, FS_Union
<1>6. Cardinality(A \cup B) = Cardinality(A) + m[g]
  <2>1. Cardinality(A) \in Nat /\ Cardinality({}) = 0 /\ m[g] \in Nat
    BY <1>3, FS_CardinalityType, FS_EmptySet, CreditAssumption
  <2> QED BY <1>4, <1>5, <2>1
<1> QED BY <1>1, <1>6 DEF Bytes, BytesOf, A

\* When the count of one row changes, the sum changes by as much.
LEMMA BytesRaise ==
    ASSUME NEW rows \in SUBSET Grants, NEW g \in rows, NEW n, NEW m,
           \A o \in rows : o # g => n[o] = m[o],
           n[g] \in 0..Requested, m[g] \in 0..Requested
    PROVE  Bytes(rows, m) = Bytes(rows, n) + (m[g] - n[g])
<1> DEFINE rest == rows \ {g}
<1>1. rest \in SUBSET Grants /\ g \in Grants /\ g \notin rest /\ rows = rest \cup {g}
  OBVIOUS
<1>2. \A o \in rest : n[o] = m[o]
  OBVIOUS
<1> HIDE DEF rest
<1>3. Bytes(rest \cup {g}, m) = Bytes(rest, n) + m[g]
  BY ONLY <1>1, <1>2, m[g] \in 0..Requested, BytesAdd
<1>4. Bytes(rest \cup {g}, n) = Bytes(rest, n) + n[g]
  BY <1>1, BytesAdd
<1>5. Bytes(rest, n) \in Nat /\ m[g] \in Int /\ n[g] \in Int
  BY <1>1, BytesType, CreditAssumption
<1> QED BY <1>1, <1>3, <1>4, <1>5

-----------------------------------------------------------------------------
(* The price of a byte. *)

LEMMA Quotient ==
    ASSUME NEW a \in Nat, NEW b \in Nat \ {0}
    PROVE  a \div b \in Nat /\ (a \div b) * b <= a /\ a < (a \div b) * b + b
OBVIOUS

LEMMA TimesMonotone ==
    ASSUME NEW a \in Nat, NEW b \in Nat, NEW c \in Nat, a <= b
    PROVE  a * c \in Nat /\ b * c \in Nat /\ a * c <= b * c
OBVIOUS

LEMMA QuotientMonotone ==
    ASSUME NEW a \in Nat, NEW c \in Nat, NEW b \in Nat \ {0}, a <= c
    PROVE  a \div b <= c \div b
<1> DEFINE q == a \div b
           k == c \div b
<1>1. q \in Nat /\ q * b <= a /\ k \in Nat /\ c < k * b + b
  BY Quotient
<1> HIDE DEF q, k
<1>2. SUFFICES ASSUME q > k PROVE FALSE
  BY <1>1 DEF q, k
<1>3. (k + 1) * b <= q * b
  BY <1>1, <1>2, TimesMonotone
<1>4. (k + 1) * b = k * b + b /\ k * b \in Nat /\ q * b \in Nat
  BY <1>1
<1> QED BY <1>1, <1>3, <1>4

\* A larger cap buys no fewer bytes.
LEMMA BudgetMonotone ==
    ASSUME NEW a \in Nat, NEW b \in Nat, a <= b
    PROVE  /\ maxRelayBytesForOverage(a) \in Nat /\ maxRelayBytesForOverage(b) \in Nat
           /\ maxRelayBytesForOverage(a) <= maxRelayBytesForOverage(b)
<1>1. a * UnitBytes \in Nat /\ b * UnitBytes \in Nat /\ a * UnitBytes <= b * UnitBytes
  BY TimesMonotone, ScheduleAssumption
<1> DEFINE x == a * UnitBytes
           y == b * UnitBytes
<1> HIDE DEF x, y
<1>2. x \in Nat /\ y \in Nat /\ x <= y /\ MinorPerUnit \in Nat \ {0} /\ Included \in Nat
  BY <1>1, ScheduleAssumption DEF x, y
<1>3. /\ x \div MinorPerUnit \in Nat /\ y \div MinorPerUnit \in Nat
      /\ x \div MinorPerUnit <= y \div MinorPerUnit
  BY <1>2, Quotient, QuotientMonotone
<1> QED BY <1>2, <1>3 DEF maxRelayBytesForOverage, x, y

Over(bytes) == Max({0, bytes - Included})

LEMMA OverIs ==
    ASSUME NEW bytes \in Nat
    PROVE  /\ Over(bytes) \in Nat
           /\ Over(bytes) = IF bytes <= Included THEN 0 ELSE bytes - Included
<1>1. Included \in Nat
  BY ScheduleAssumption
<1>2. PICK m \in {0, bytes - Included} : \A y \in {0, bytes - Included} : m >= y
  BY <1>1
<1>3. \A z \in {0, bytes - Included} : (\A y \in {0, bytes - Included} : z >= y) => z = m
  BY <1>1, <1>2
<1>4. Over(bytes) = m
  BY <1>2, <1>3 DEF Max, Over
<1> QED BY <1>1, <1>2, <1>4

\* The bytes a cap buys cost no more than the cap, and each further byte no
\* more than its price.
LEMMA BudgetCharge ==
    ASSUME NEW minor \in Nat, NEW bytes \in Nat, NEW more \in Nat,
           bytes <= maxRelayBytesForOverage(minor)
    PROVE  relayCharge(bytes + more) <= minor * UnitBytes + more * MinorPerUnit
<1> DEFINE x == minor * UnitBytes
           q == x \div MinorPerUnit
           over == Over(bytes + more)
<1>1. x \in Nat /\ MinorPerUnit \in Nat \ {0} /\ Included \in Nat
  BY ScheduleAssumption
<1> HIDE DEF x
<1>2. q \in Nat /\ q * MinorPerUnit <= x
  BY <1>1, Quotient
<1>3. bytes <= Included + q
  BY DEF maxRelayBytesForOverage, x
<1> HIDE DEF q
<1>4. over \in Nat /\ over <= q + more
  BY <1>1, <1>2, <1>3, OverIs
<1> HIDE DEF over
<1>5. /\ over * MinorPerUnit <= (q + more) * MinorPerUnit
      /\ over * MinorPerUnit \in Nat /\ q * MinorPerUnit \in Nat /\ more * MinorPerUnit \in Nat
  BY <1>1, <1>2, <1>4, TimesMonotone
<1>6. (q + more) * MinorPerUnit = q * MinorPerUnit + more * MinorPerUnit
  BY <1>1, <1>2
<1>7. over * MinorPerUnit <= x + more * MinorPerUnit
  BY <1>1, <1>2, <1>5, <1>6
<1> QED BY <1>7 DEF relayCharge, Over, over, x

LEMMA MinOfTwo ==
    ASSUME NEW a \in Int, NEW b \in Int
    PROVE  Min({a, b}) <= a /\ Min({a, b}) <= b
<1>1. PICK m \in {a, b} : \A y \in {a, b} : m <= y
  OBVIOUS
<1>2. \A x \in {a, b} : (\A y \in {a, b} : x <= y) => x = m
  BY <1>1
<1>3. Min({a, b}) = m
  BY <1>1, <1>2 DEF Min
<1> QED BY <1>1, <1>3

-----------------------------------------------------------------------------
(* The invariant. *)

\* A grant carries no more than was granted.
SpendInv == \A g \in Grants : used[g] <= grants[g].granted

\* A month with grants has a cap, and what the grants take from the budget is
\* within what the cap buys.
BudgetInv ==
    \A p \in Months :
        Rows(p) # {} => caps[p].set /\ CommittedIn(p) <= maxRelayBytesForOverage(caps[p].minor)

\* Rows and their sum for any table of grants, so that a step can be described
\* by the table before and the table after it.
RowsOf(G, p) == {g \in Grants : g[1] = p /\ G[g].state # "none"}
CommitsOf(G) ==
    [g \in Grants |-> IF G[g].state = "issued" THEN G[g].granted ELSE G[g].consumed]

LEMMA CommittedNow ==
    ASSUME NEW p
    PROVE  Rows(p) = RowsOf(grants, p) /\ CommittedIn(p) = Bytes(Rows(p), CommitsOf(grants))
<1>1. Rows(p) = RowsOf(grants, p) /\ Rows(p) \in SUBSET Grants
  BY DEF Rows, RowsOf
<1>2. \A g \in Rows(p) : [o \in Rows(p) |-> Committed(o)][g] = CommitsOf(grants)[g]
  BY <1>1 DEF Committed, CommitsOf
<1>3. Bytes(Rows(p), [o \in Rows(p) |-> Committed(o)]) = Bytes(Rows(p), CommitsOf(grants))
  <2> DEFINE n == [o \in Rows(p) |-> Committed(o)]
  <2>1. \A g \in Rows(p) : n[g] = CommitsOf(grants)[g]
    BY <1>2
  <2> HIDE DEF n
  <2>2. Bytes(Rows(p), n) = Bytes(Rows(p), CommitsOf(grants))
    BY <1>1, <2>1, BytesSame
  <2> QED BY <2>2 DEF n
<1> QED BY <1>1, <1>3 DEF CommittedIn

LEMMA CommittedNext ==
    ASSUME NEW p
    PROVE  /\ Rows(p)' = RowsOf(grants', p)
           /\ CommittedIn(p)' = Bytes(Rows(p)', CommitsOf(grants'))
<1>1. Rows(p)' = RowsOf(grants', p) /\ Rows(p)' \in SUBSET Grants
  BY DEF Rows, RowsOf
<1> DEFINE n == [o \in Rows(p)' |-> Committed(o)']
<1>2. \A g \in Rows(p)' : n[g] = CommitsOf(grants')[g]
  BY <1>1 DEF Committed, CommitsOf
<1>3. CommittedIn(p)' = Bytes(Rows(p)', n)
  BY DEF CommittedIn, Bytes
<1> HIDE DEF n
<1> QED BY <1>1, <1>2, <1>3, BytesSame

LEMMA CommitsType ==
    ASSUME TypeOK
    PROVE  \A g \in Grants : CommitsOf(grants)[g] \in 0..Requested
BY DEF TypeOK, relayCreditGrantRow, CommitsOf

\* A grant is charged only with what is left of it.
LEMMA ChargeStep ==
    ASSUME IInv, SpendInv, NEW r \in Relays, NEW n \in Sizes, reserve(r, n)
    PROVE  SpendInv'
<1>1. TypeOK /\ grants' = grants
  BY DEF IInv, reserve, store
<1>2. CASE used' = used
  BY <1>1, <1>2 DEF SpendInv
<1>3. CASE ReserveCapped(r, n)
  <2>1. PICK valid, charged, sent : ChargedStep(r, n, valid, charged, sent)
    BY <1>1, <1>3, ReserveCappedEffect
  <2> SUFFICES ASSUME NEW g \in Grants PROVE used'[g] <= grants[g].granted
    BY <1>1 DEF SpendInv
  <2>2. used[g] \in Nat /\ grants[g].granted \in Nat /\ n \in Nat /\ used[g] <= grants[g].granted
    BY <1>1, CreditAssumption DEF TypeOK, relayCreditGrantRow, SpendInv
  <2>3. CASE \E h \in charged : h.grant = g
    <3>1. PICK h \in charged : h.grant = g
      BY <2>3
    <3>2. grants[g].granted - used[g] >= n
      BY <2>1, <3>1 DEF ChargedStep, Remaining
    <3>3. used'[g] = used[g] + n
      BY <2>1, <2>3 DEF ChargedStep
    <3> QED BY <2>2, <3>2, <3>3
  <2>4. CASE ~ \E h \in charged : h.grant = g
    <3>1. used'[g] = used[g]
      BY <2>1, <2>4 DEF ChargedStep
    <3> QED BY <2>2, <3>1
  <2> QED BY <2>3, <2>4
<1> QED BY <1>2, <1>3 DEF reserve, ReserveUncapped, ReserveNothing

\* A new row g of month p, whose n bytes are at most what the budget has left.
NewGrant(p, g, n) ==
    /\ caps[p].set /\ n <= Available(p)
    /\ g[1] = p /\ grants[g].state = "none" /\ used[g] = 0
    /\ grants'[g].granted = n
    /\ \A o \in Grants : o # g => grants'[o] = grants[o]
    /\ g \notin Rows(p) /\ Rows(p)' = Rows(p) \cup {g}
    /\ CommittedIn(p)' = CommittedIn(p) + n
    /\ \A q \in Months : q # p => Rows(q)' = Rows(q) /\ CommittedIn(q)' = CommittedIn(q)

LEMMA GrantEffect ==
    ASSUME IInv, NEW r \in Relays, HandleReserve(r)
    PROVE  \/ grants' = grants
           \/ \E p \in Months, g \in Grants, n \in 1..Requested : NewGrant(p, g, n)
<1>1. TypeOK /\ JobInv /\ CountInv
  BY DEF IInv
<1>2. ASSUME NEW p \in Months, NEW g, g = <<p, r, relay[r].pending>>, caps[p].set,
             grants[g].state = "none", NEW n \in 1..Requested, n = GrantBytes(Available(p)),
             grants' = [grants EXCEPT ![g] =
                [state |-> "issued", granted |-> n, consumed |-> 0]]
      PROVE  g \in Grants /\ NewGrant(p, g, n)
  <2>1. g \in Grants /\ g[1] = p
    <3>1. relay[r].pending \in 1..MaxReqs
      BY <1>1 DEF HandleReserve, JobInv, TypeOK, Controller
    <3> QED BY <1>2, <3>1 DEF Grants
  <2>2. /\ grants'[g].state = "issued" /\ grants'[g].granted = n
        /\ \A o \in Grants : o # g => grants'[o] = grants[o]
    BY <1>1, <1>2, <2>1 DEF TypeOK
  <2> DEFINE new == CommitsOf(grants')
             old == CommitsOf(grants)
  <2>3. /\ \A o \in Grants : o # g => new[o] = old[o]
        /\ new[g] = n /\ n \in 0..Requested
    BY <2>1, <2>2 DEF CommitsOf
  <2>4. \A q \in Months : Rows(q) \in SUBSET Grants
    BY DEF Rows
  <2> HIDE DEF new, old
  <2>5. ASSUME NEW q \in Months, q # p
        PROVE  Rows(q)' = Rows(q) /\ CommittedIn(q)' = CommittedIn(q)
    <3>1. Rows(q)' = Rows(q)
      BY <2>1, <2>2, <2>5 DEF Rows
    <3>2. g \notin Rows(q)
      BY <2>1, <2>5 DEF Rows
    <3>3. Bytes(Rows(q), new) = Bytes(Rows(q), old)
      BY <2>3, <2>4, <3>2, BytesSame
    <3> QED BY <3>1, <3>3, CommittedNow, CommittedNext DEF new, old
  <2>6. Rows(p)' = Rows(p) \cup {g} /\ g \notin Rows(p)
    BY <1>2, <2>1, <2>2 DEF Rows
  <2>7. Bytes(Rows(p) \cup {g}, new) = Bytes(Rows(p), old) + n
    <3>1. new[g] \in 0..Requested /\ Rows(p) \in SUBSET Grants
      BY <2>3, <2>4
    <3>2. \A o \in Rows(p) : old[o] = new[o]
      BY <2>3, <2>6, <3>1
    <3>3. Bytes(Rows(p) \cup {g}, new) = Bytes(Rows(p), old) + new[g]
      BY <2>1, <2>6, <3>1, <3>2, BytesAdd
    <3> QED BY <2>3, <3>3
  <2>8. CommittedIn(p)' = CommittedIn(p) + n
    BY <2>6, <2>7, CommittedNow, CommittedNext DEF new, old
  <2>9. n <= Available(p)
    <3>1. caps[p].minor \in Nat
      BY <1>1 DEF TypeOK, relayCapRow
    <3>2. CommittedIn(p) \in Nat /\ maxRelayBytesForOverage(caps[p].minor) \in Nat
      BY <2>4, <3>1, BytesType, BudgetMonotone DEF CommittedIn
    <3>3. Available(p) \in Int /\ Requested \in Int
      BY <3>2, CreditAssumption DEF Available
    <3> QED BY <1>2, <3>3, MinOfTwo DEF GrantBytes
  <2>10. used[g] = 0
    BY <1>1, <1>2, <2>1 DEF CountInv
  <2> QED BY <1>2, <2>1, <2>2, <2>5, <2>6, <2>8, <2>9, <2>10 DEF NewGrant
<1>3. PICK p \in Arrivals(job[r]) : ReserveRelayCredits(r, p) \/ UNCHANGED grants
  BY DEF HandleReserve
<1>4. p \in Months
  BY <1>1 DEF Arrivals, TypeOK, CreditRequest
<1> QED BY <1>2, <1>3, <1>4 DEF ReserveRelayCredits

\* A new grant is at most what the budget has left.
LEMMA GrantStep ==
    ASSUME IInv, SpendInv, BudgetInv, NEW r \in Relays, HandleReserve(r)
    PROVE  SpendInv' /\ BudgetInv'
<1>1. TypeOK /\ caps' = caps /\ used' = used
  BY DEF IInv, HandleReserve, relayside
<1>2. CASE grants' = grants
  BY <1>1, <1>2 DEF SpendInv, BudgetInv, Rows, CommittedIn, Committed
<1>3. ASSUME NEW p \in Months, NEW g \in Grants, NEW n \in 1..Requested, NewGrant(p, g, n)
      PROVE  SpendInv' /\ BudgetInv'
  <2>1. SpendInv'
    <3> SUFFICES ASSUME NEW o \in Grants PROVE used[o] <= grants'[o].granted
      BY <1>1 DEF SpendInv
    <3>1. CASE o = g
      BY <1>3, <3>1 DEF NewGrant
    <3>2. CASE o # g
      BY <1>3, <3>2 DEF NewGrant, SpendInv
    <3> QED BY <3>1, <3>2
  <2>2. BudgetInv'
    <3> SUFFICES ASSUME NEW q \in Months, Rows(q)' # {}
                 PROVE  /\ caps[q].set
                        /\ CommittedIn(q)' <= maxRelayBytesForOverage(caps[q].minor)
      BY <1>1 DEF BudgetInv, maxRelayBytesForOverage
    <3>1. CASE q # p
      BY <1>3, <3>1 DEF NewGrant, BudgetInv
    <3>2. CASE q = p
      <4>1. Rows(p) \in SUBSET Grants /\ caps[p].minor \in Nat
        BY <1>1 DEF Rows, TypeOK, relayCapRow
      <4>2. CommittedIn(p) \in Nat /\ maxRelayBytesForOverage(caps[p].minor) \in Nat
        BY <4>1, BytesType, BudgetMonotone DEF CommittedIn
      <4>3. CommittedIn(p)' = CommittedIn(p) + n /\ caps[p].set /\ n \in Nat
            /\ n <= maxRelayBytesForOverage(caps[p].minor) - CommittedIn(p)
        BY <1>3 DEF NewGrant, Available
      <4> QED BY <3>2, <4>2, <4>3
    <3> QED BY <3>1, <3>2
  <2> QED BY <2>1, <2>2
<1> QED BY <1>2, <1>3, GrantEffect

\* A returned grant gives back what it did not use.
LEMMA ReturnStep ==
    ASSUME IInv, SpendInv, BudgetInv, NEW s \in surrenders, SurrenderRelayCredits(s)
    PROVE  SpendInv' /\ BudgetInv'
<1>1. TypeOK /\ caps' = caps /\ used' = used
  BY DEF IInv, SurrenderRelayCredits, relayside
<1>2. CASE grants' = grants
  BY <1>1, <1>2 DEF SpendInv, BudgetInv, Rows, CommittedIn, Committed
<1>3. CASE /\ grants[s.grant].state = "issued" /\ s.consumed <= grants[s.grant].granted
           /\ grants' = [grants EXCEPT ![s.grant].state = "surrendered",
                                       ![s.grant].consumed = s.consumed]
  <2> DEFINE new == CommitsOf(grants')
             old == CommitsOf(grants)
  <2>1. s.grant \in Grants /\ s.consumed \in Nat
    BY <1>1 DEF TypeOK
  <2>2. /\ \A o \in Grants : o # s.grant => grants'[o] = grants[o]
        /\ grants'[s.grant].state = "surrendered" /\ grants'[s.grant].consumed = s.consumed
        /\ grants'[s.grant].granted = grants[s.grant].granted
    BY <1>1, <1>3, <2>1 DEF TypeOK, relayCreditGrantRow
  <2>3. SpendInv'
    BY <1>1, <2>1, <2>2 DEF SpendInv
  <2>4. \A o \in Grants : new[o] \in Nat /\ old[o] \in Nat /\ new[o] <= old[o]
    <3>1. \A o \in Grants : old[o] \in Nat
      BY <1>1, CommitsType, CreditAssumption
    <3>2. new[s.grant] = s.consumed /\ old[s.grant] = grants[s.grant].granted
      BY <1>3, <2>1, <2>2 DEF CommitsOf
    <3>3. \A o \in Grants : o # s.grant => new[o] = old[o]
      BY <2>2 DEF CommitsOf
    <3> HIDE DEF new, old
    <3> QED BY <1>3, <2>1, <3>1, <3>2, <3>3
  <2> HIDE DEF new, old
  <2>5. BudgetInv'
    <3> SUFFICES ASSUME NEW q \in Months, Rows(q)' # {}
                 PROVE  /\ caps[q].set
                        /\ CommittedIn(q)' <= maxRelayBytesForOverage(caps[q].minor)
      BY <1>1 DEF BudgetInv, maxRelayBytesForOverage
    <3>1. Rows(q)' = Rows(q) /\ Rows(q) \in SUBSET Grants
      BY <1>3, <2>1, <2>2 DEF Rows
    <3>2. Bytes(Rows(q), new) <= Bytes(Rows(q), old)
      BY <2>4, <3>1, BytesMonotone
    <3>3. CommittedIn(q)' <= CommittedIn(q)
      BY <3>1, <3>2, CommittedNow, CommittedNext DEF new, old
    <3>4. /\ CommittedIn(q) \in Nat /\ CommittedIn(q)' \in Nat
          /\ maxRelayBytesForOverage(caps[q].minor) \in Nat
      <4>1. caps[q].minor \in Nat
        BY <1>1 DEF TypeOK, relayCapRow
      <4>2. Bytes(Rows(q), new) \in Nat /\ Bytes(Rows(q), old) \in Nat
        BY <3>1, BytesType
      <4> QED BY <3>1, <4>1, <4>2, BudgetMonotone, CommittedNow, CommittedNext DEF new, old
    <3> QED BY <3>1, <3>3, <3>4 DEF BudgetInv
  <2> QED BY <2>3, <2>5
<1> QED BY <1>2, <1>3 DEF SurrenderRelayCredits

\* A cap is raised, or lowered to no less than what is committed.
LEMMA CapStep ==
    ASSUME IInv, BudgetInv, NEW p \in Months, NEW minor \in Overages,
           SetRelaySpendingCap(p, minor)
    PROVE  BudgetInv'
<1>1. TypeOK /\ grants' = grants
  BY DEF IInv, SetRelaySpendingCap
<1> SUFFICES ASSUME NEW q \in Months, Rows(q) # {}
             PROVE  /\ caps'[q].set
                    /\ CommittedIn(q) <= maxRelayBytesForOverage(caps'[q].minor)
  BY <1>1 DEF BudgetInv, maxRelayBytesForOverage, Rows, CommittedIn, Committed
<1>2. caps[q].set /\ CommittedIn(q) <= maxRelayBytesForOverage(caps[q].minor)
  BY DEF BudgetInv
<1>3. CASE q # p
  <2>1. caps'[q] = caps[q]
    BY <1>1, <1>3 DEF SetRelaySpendingCap, TypeOK
  <2> QED BY <1>2, <2>1
<1>4. CASE q = p
  <2>1. caps'[p].set /\ caps'[p].minor = minor
    BY <1>1, <1>2, <1>4 DEF SetRelaySpendingCap, TypeOK, relayCapRow
  <2>2. CASE minor < caps[p].minor
    BY <1>2, <1>4, <2>1, <2>2 DEF SetRelaySpendingCap
  <2>3. CASE ~(minor < caps[p].minor)
    <3>1. minor \in Nat /\ caps[p].minor \in Nat /\ caps[p].minor <= minor
      BY <1>1, <2>3, CreditAssumption DEF TypeOK, relayCapRow
    <3>2. /\ maxRelayBytesForOverage(caps[p].minor) <= maxRelayBytesForOverage(minor)
          /\ maxRelayBytesForOverage(caps[p].minor) \in Nat
          /\ maxRelayBytesForOverage(minor) \in Nat
      BY <3>1, BudgetMonotone
    <3>3. CommittedIn(p) \in Nat
      BY BytesType DEF CommittedIn, Rows
    <3> QED BY <1>2, <1>4, <2>1, <3>2, <3>3
  <2> QED BY <2>2, <2>3
<1> QED BY <1>3, <1>4

LEMMA BudgetStep ==
    IInv /\ SpendInv /\ BudgetInv /\ [Next]_vars => SpendInv' /\ BudgetInv'
<1> SUFFICES ASSUME IInv, SpendInv, BudgetInv, [Next]_vars PROVE SpendInv' /\ BudgetInv'
  OBVIOUS
<1>1. UNCHANGED <<grants, used>> => SpendInv'
  BY DEF SpendInv
<1>2. UNCHANGED <<grants, caps>> => BudgetInv'
  BY DEF BudgetInv, Rows, CommittedIn, Committed
<1>3. ASSUME NEW r \in Relays, NEW n \in Sizes, reserve(r, n) PROVE SpendInv' /\ BudgetInv'
  <2>1. UNCHANGED <<grants, caps>>
    BY <1>3 DEF reserve, store
  <2> QED BY <1>2, <1>3, <2>1, ChargeStep
<1>4. ASSUME NEW p \in Months, NEW minor \in Overages, SetRelaySpendingCap(p, minor)
      PROVE  SpendInv' /\ BudgetInv'
  <2>1. UNCHANGED <<grants, used>>
    BY <1>4 DEF SetRelaySpendingCap, relayside
  <2> QED BY <1>1, <1>4, <2>1, CapStep
<1>5. CASE UNCHANGED <<grants, caps, used>>
  BY <1>1, <1>2, <1>5
<1> QED
  BY <1>3, <1>4, <1>5, GrantStep, ReturnStep
     DEF Next, LoseSurrender, HandleLease, HandleReply, Lose, install_uncapped, install_grant,
         Send, Shutdown, take_surrenderable_grants, Crash, ForwardDetached, Tick, store,
         relayside, vars

\* What was forwarded in a month was reserved for it.
CoverInv ==
    \A p \in Months : /\ UsedIn(p) \in Nat /\ CommittedIn(p) \in Nat
                      /\ UsedIn(p) <= CommittedIn(p)

LEMMA Covered == IInv /\ SpendInv => CoverInv
<1> SUFFICES ASSUME IInv, SpendInv, NEW p \in Months
             PROVE  /\ UsedIn(p) \in Nat /\ CommittedIn(p) \in Nat
                    /\ UsedIn(p) <= CommittedIn(p)
  BY DEF CoverInv
<1> DEFINE n == CommitsOf(grants)
<1>1. TypeOK /\ CountInv /\ Rows(p) \in SUBSET Grants
  BY DEF IInv, Rows
<1>2. \A g \in Rows(p) : used[g] \in Nat /\ n[g] \in Nat /\ used[g] <= n[g]
  <2> TAKE g \in Rows(p)
  <2>1. used[g] \in Nat /\ n[g] \in Nat
    BY <1>1, CommitsType, CreditAssumption DEF TypeOK
  <2>2. CASE grants[g].state = "issued"
    BY <1>1, <2>1, <2>2 DEF SpendInv, CommitsOf
  <2>3. CASE grants[g].state = "surrendered"
    <3>1. n[g] = used[g]
      BY <1>1, <2>3 DEF CountInv, CommitsOf
    <3> QED BY <2>1, <3>1
  <2>4. grants[g].state \in {"issued", "surrendered"}
    BY <1>1 DEF Rows, TypeOK, relayCreditGrantRow
  <2> QED BY <2>2, <2>3, <2>4
<1> HIDE DEF n
<1>3. UsedIn(p) <= CommittedIn(p)
  BY <1>1, <1>2, BytesMonotone, CommittedNow DEF UsedIn, n
<1> QED BY <1>1, <1>3, BytesType DEF UsedIn, CommittedIn

\* Whatever relays crash, retry or stop, and however the cap is raised or
\* lowered, a month's bill exceeds its cap by no more than the price of the
\* bytes forwarded outside credits (ReserveRelayCredits, SetRelaySpendingCap,
\* SurrenderRelayCredits, the relay's reserve, relayCharge).
THEOREM SpendingWithinCap == Spec => []ChargeWithinCap
<1>1. Init => SpendInv /\ BudgetInv
  BY DEF Init, SpendInv, BudgetInv, Rows
<1>2. IInv /\ SpendInv /\ BudgetInv => ChargeWithinCap
  <2> SUFFICES ASSUME IInv, SpendInv, BudgetInv, NEW p \in Months
               PROVE  relayCharge(UsedIn(p) + outside[p])
                      <= caps[p].minor * UnitBytes + outside[p] * MinorPerUnit
    BY DEF ChargeWithinCap
  <2>1. UsedIn(p) \in Nat /\ CommittedIn(p) \in Nat /\ UsedIn(p) <= CommittedIn(p)
    BY Covered DEF CoverInv
  <2>2. caps[p].minor \in Nat /\ outside[p] \in Nat
    BY DEF IInv, TypeOK, relayCapRow
  <2>3. maxRelayBytesForOverage(caps[p].minor) \in Nat
    BY <2>2, BudgetMonotone
  <2>4. UsedIn(p) <= maxRelayBytesForOverage(caps[p].minor)
    <3>1. CASE Rows(p) # {}
      BY <2>1, <2>3, <3>1 DEF BudgetInv
    <3>2. CASE Rows(p) = {}
      <4>1. BytesOf(Rows(p), used) = {}
        BY <3>2 DEF BytesOf
      <4>2. UsedIn(p) = 0
        BY <4>1, FS_EmptySet DEF UsedIn, Bytes, BytesOf
      <4> QED BY <2>3, <4>2
    <3> QED BY <3>1, <3>2
  <2> QED BY <2>1, <2>2, <2>4, BudgetCharge
<1>3. Spec => [](SpendInv /\ BudgetInv)
  BY <1>1, BudgetStep, Invariance, PTL DEF Spec
<1> QED BY <1>2, <1>3, Invariance, PTL

-----------------------------------------------------------------------------
(* The cap is one budget. *)

\* A relay holds one grant per request.
NumbersInv ==
    \A r \in Relays : \A h, o \in relay[r].held : h.grant[3] = o.grant[3] => h.grant = o.grant

LEMMA NumbersStep == IInv /\ NumbersInv /\ [Next]_vars => NumbersInv'
<1> SUFFICES ASSUME IInv, NumbersInv, [Next]_vars PROVE NumbersInv'
  OBVIOUS
<1>1. TypeOK /\ JobInv /\ HeldInv
  BY DEF IInv
<1>2. ASSUME NEW r \in Relays, OtherRelays(r), relay'[r].held \subseteq relay[r].held
      PROVE  NumbersInv'
  BY <1>2 DEF NumbersInv, OtherRelays
<1>3. ASSUME NEW r \in Relays, install_uncapped(r) PROVE NumbersInv'
  BY <1>1, <1>2, <1>3, InstallUncappedEffect
<1>4. ASSUME NEW r \in Relays, Shutdown(r) PROVE NumbersInv'
  BY <1>1, <1>2, <1>4, ShutdownEffect
<1>5. ASSUME NEW r \in Relays, take_surrenderable_grants(r) \/ Crash(r) PROVE NumbersInv'
  BY <1>1, <1>2, <1>5, RestartEffect DEF RelayRestarted
<1>6. ASSUME NEW r \in Relays, NEW n \in Sizes, reserve(r, n) PROVE NumbersInv'
  BY <1>1, <1>2, <1>6, ReserveEffect DEF PayloadOffered
<1>7. ASSUME NEW r \in Relays, install_grant(r) PROVE NumbersInv'
  <2> DEFINE g == <<job[r].month, r, relay[r].pending>>
  <2>1. OtherRelays(r) /\ \A h \in relay'[r].held : h \in relay[r].held \/ h.grant = g
    BY <1>1, <1>7, InstallGrantEffect
  <2>2. \A h \in relay[r].held : h.grant[3] # relay[r].pending
    BY <1>1 DEF HeldInv
  <2>3. g[3] = relay[r].pending
    OBVIOUS
  <2> HIDE DEF g
  <2>4. \A h, o \in relay'[r].held : h.grant[3] = o.grant[3] => h.grant = o.grant
    BY <2>1, <2>2, <2>3 DEF NumbersInv
  <2> QED BY <2>1, <2>4 DEF NumbersInv, OtherRelays
<1>8. CASE relay' = relay
  BY <1>8 DEF NumbersInv
<1> QED
  BY <1>3, <1>4, <1>5, <1>6, <1>7, <1>8
     DEF Next, SetRelaySpendingCap, SurrenderRelayCredits, LoseSurrender, HandleReserve,
         HandleLease, HandleReply, Lose, Send, ForwardDetached, Tick, relayside, vars

\* At most one grant is charged with a payload, and with no more than it has
\* left.
LEMMA OneCharged ==
    ASSUME IInv, NumbersInv, NEW r \in Relays, NEW n \in Sizes, reserve(r, n)
    PROVE  \/ used' = used
           \/ \E g \in Grants : /\ used'[g] = used[g] + n
                                /\ \A o \in Grants : o # g => used'[o] = used[o]
<1>1. TypeOK
  BY DEF IInv
<1>2. CASE ReserveCapped(r, n)
  <2>1. PICK valid, charged, sent : ChargedStep(r, n, valid, charged, sent)
    BY <1>1, <1>2, ReserveCappedEffect
  <2>2. /\ \A h \in charged : h \in relay[r].held
        /\ \A h, o \in charged : h.grant[3] = o.grant[3]
        /\ used' = [g \in Grants |->
                      IF \E h \in charged : h.grant = g THEN used[g] + n ELSE used[g]]
    BY <2>1 DEF ChargedStep
  <2>3. CASE charged = {}
    <3>1. used' = [g \in Grants |-> used[g]]
      BY <2>2, <2>3
    <3> QED BY <1>1, <3>1 DEF TypeOK
  <2>4. CASE charged # {}
    <3>1. PICK h \in charged : TRUE
      BY <2>4
    <3>2. \A o \in charged : o.grant = h.grant
      BY <2>2 DEF NumbersInv
    <3>3. h.grant \in Grants
      BY <1>1, <2>2 DEF TypeOK, Controller, CreditGrant
    <3>4. \A g \in Grants : (\E o \in charged : o.grant = g) <=> g = h.grant
      BY <3>2
    <3>5. used'[h.grant] = used[h.grant] + n
      BY <2>2, <3>3, <3>4
    <3>6. \A o \in Grants : o # h.grant => used'[o] = used[o]
      BY <2>2, <3>4
    <3> QED BY <3>3, <3>5, <3>6
  <2> QED BY <2>3, <2>4
<1> QED BY <1>2 DEF reserve, ReserveUncapped, ReserveNothing

\* A month's figure changes and no other month's.
MonthChanges(f, g, p, v) ==
    g[p] = v /\ \A q \in Months : q # p => g[q] = f[q]

LEMMA CapUpdate ==
    ASSUME NEW p \in Months, NEW v, MonthChanges(CapBytes, CapBytes', p, v)
    PROVE  CapBytes' = [CapBytes EXCEPT ![p] = v]
<1>1. CapBytes = [q \in Months |-> CapBytes[q]] /\ CapBytes' = [q \in Months |-> CapBytes'[q]]
  BY DEF CapBytes
<1> QED BY <1>1 DEF MonthChanges

LEMMA ReservedUpdate ==
    ASSUME NEW p \in Months, NEW v, MonthChanges(ReservedBytes, ReservedBytes', p, v)
    PROVE  ReservedBytes' = [ReservedBytes EXCEPT ![p] = v]
<1>1. /\ ReservedBytes = [q \in Months |-> ReservedBytes[q]]
      /\ ReservedBytes' = [q \in Months |-> ReservedBytes'[q]]
  BY DEF ReservedBytes
<1> QED BY <1>1 DEF MonthChanges

LEMMA ForwardedUpdate ==
    ASSUME NEW p \in Months, NEW v, MonthChanges(ForwardedBytes, ForwardedBytes', p, v)
    PROVE  ForwardedBytes' = [ForwardedBytes EXCEPT ![p] = v]
<1>1. /\ ForwardedBytes = [q \in Months |-> ForwardedBytes[q]]
      /\ ForwardedBytes' = [q \in Months |-> ForwardedBytes'[q]]
  BY DEF ForwardedBytes
<1> QED BY <1>1 DEF MonthChanges

LEMMA Figures ==
    /\ \A p \in Months : ReservedBytes[p] = CommittedIn(p) /\ ForwardedBytes[p] = UsedIn(p)
    /\ \A p \in Months : ReservedBytes'[p] = CommittedIn(p)' /\ ForwardedBytes'[p] = UsedIn(p)'
BY DEF ReservedBytes, ForwardedBytes

LEMMA CapFrame == caps' = caps => CapBytes' = CapBytes
BY DEF CapBytes, maxRelayBytesForOverage

LEMMA ReservedFrame ==
    ASSUME \A p \in Months : CommittedIn(p)' = CommittedIn(p)
    PROVE  ReservedBytes' = ReservedBytes
BY DEF ReservedBytes

LEMMA ForwardedFrame ==
    ASSUME \A p \in Months : UsedIn(p)' = UsedIn(p)
    PROVE  ForwardedBytes' = ForwardedBytes
BY DEF ForwardedBytes

LEMMA SameGrants ==
    ASSUME grants' = grants, NEW p
    PROVE  /\ Rows(p)' = Rows(p) /\ CommittedIn(p)' = CommittedIn(p)
           /\ used' = used => UsedIn(p)' = UsedIn(p)
<1>1. Rows(p)' = Rows(p)
  BY DEF Rows
<1>2. CommittedIn(p)' = CommittedIn(p)
  BY <1>1, CommittedNow, CommittedNext
<1> QED BY <1>1, <1>2 DEF UsedIn, Bytes

LEMMA UsedNext ==
    ASSUME NEW p
    PROVE  UsedIn(p)' = Bytes(Rows(p)', used')
BY DEF UsedIn, Bytes

\* Nothing of the budget changes.
LEMMA BudgetFrame ==
    ASSUME UNCHANGED <<caps, grants, used>>
    PROVE  UNCHANGED Budget!vars
<1>1. \A p \in Months : CommittedIn(p)' = CommittedIn(p) /\ UsedIn(p)' = UsedIn(p)
  BY SameGrants
<1> QED BY <1>1, CapFrame, ReservedFrame, ForwardedFrame DEF Budget!vars

\* Setting, raising or lowering a cap sets the month's limit.
LEMMA CapIsLimit ==
    ASSUME IInv, BudgetInv, NEW p \in Months, NEW minor \in Overages,
           SetRelaySpendingCap(p, minor)
    PROVE  Budget!Next
<1>1. TypeOK /\ UNCHANGED <<grants, used>>
  BY DEF IInv, SetRelaySpendingCap, relayside
<1> DEFINE n == maxRelayBytesForOverage(minor)
<1>2. n \in Nat
  BY BudgetMonotone, CreditAssumption
<1>3. caps'[p].set /\ caps'[p].minor = minor /\ \A q \in Months : q # p => caps'[q] = caps[q]
  BY <1>1 DEF SetRelaySpendingCap, TypeOK, relayCapRow
<1>4. MonthChanges(CapBytes, CapBytes', p, n)
  BY <1>3 DEF MonthChanges, CapBytes, maxRelayBytesForOverage
<1>5. CapBytes' = [CapBytes EXCEPT ![p] = n]
  BY <1>4, CapUpdate
<1>6. \A q \in Months : CommittedIn(q)' = CommittedIn(q) /\ UsedIn(q)' = UsedIn(q)
  BY <1>1, SameGrants
<1>7. ReservedBytes' = ReservedBytes /\ ForwardedBytes' = ForwardedBytes
  BY <1>6, ReservedFrame, ForwardedFrame
<1>8. CommittedIn(p) <= n
  <2>1. CASE Rows(p) = {}
    <3>1. BytesOf(Rows(p), CommitsOf(grants)) = {}
      BY <2>1 DEF BytesOf
    <3>2. CommittedIn(p) = 0
      BY <3>1, CommittedNow, FS_EmptySet DEF Bytes, BytesOf
    <3> QED BY <1>2, <3>2
  <2>2. CASE Rows(p) # {}
    <3>1. BudgetInv'
      BY CapStep
    <3>2. Rows(p)' # {} /\ CommittedIn(p)' = CommittedIn(p)
      BY <1>1, <2>2, SameGrants
    <3>3. CommittedIn(p)' <= maxRelayBytesForOverage(caps'[p].minor)
      BY <3>1, <3>2 DEF BudgetInv, maxRelayBytesForOverage
    <3> QED BY <1>3, <3>2, <3>3
  <2> QED BY <2>1, <2>2
<1>9. n \in {maxRelayBytesForOverage(m) : m \in Overages}
  OBVIOUS
<1>10. ReservedBytes[p] <= n
  BY <1>8, Figures
<1> HIDE DEF n
<1>11. Budget!SetLimit(p)
  BY <1>5, <1>7, <1>9, <1>10 DEF Budget!SetLimit
<1> QED BY <1>11 DEF Budget!Next

\* A new grant reserves its bytes.
LEMMA GrantIsReserve ==
    ASSUME IInv, NEW r \in Relays, HandleReserve(r)
    PROVE  Budget!Next \/ UNCHANGED Budget!vars
<1>1. TypeOK /\ UNCHANGED <<caps, used>>
  BY DEF IInv, HandleReserve, relayside
<1>2. CASE grants' = grants
  BY <1>1, <1>2, BudgetFrame
<1>3. ASSUME NEW p \in Months, NEW g \in Grants, NEW n \in 1..Requested, NewGrant(p, g, n)
      PROVE  Budget!Next
  <2>1. \A q \in Months : Rows(q) \in SUBSET Grants
    BY DEF Rows
  <2>2. \A q \in Months : UsedIn(q)' = UsedIn(q)
    <3> TAKE q \in Months
    <3>1. CASE q # p
      BY <1>1, <1>3, <3>1, UsedNext DEF NewGrant, UsedIn
    <3>2. CASE q = p
      <4>1. Rows(p)' = Rows(p) \cup {g} /\ g \notin Rows(p) /\ used[g] = 0
        BY <1>3 DEF NewGrant
      <4>2. used[g] \in 0..Requested /\ Bytes(Rows(p), used) \in Nat
        BY <1>1, <2>1, BytesType DEF TypeOK
      <4>3. Bytes(Rows(p) \cup {g}, used) = Bytes(Rows(p), used) + used[g]
        <5>1. Rows(p) \in SUBSET Grants
          BY <2>1
        <5>2. PICK rows : rows = Rows(p)
          OBVIOUS
        <5>3. rows \in SUBSET Grants /\ g \notin rows /\ used[g] \in 0..Requested
          BY <4>1, <4>2, <5>1, <5>2
        <5>4. Bytes(rows \cup {g}, used) = Bytes(rows, used) + used[g]
          BY ONLY <5>3, g \in Grants, BytesAdd
        <5> QED BY <5>2, <5>4
      <4> QED BY <1>1, <3>2, <4>1, <4>2, <4>3, UsedNext DEF UsedIn
    <3> QED BY <3>1, <3>2
  <2>3. CapBytes' = CapBytes /\ ForwardedBytes' = ForwardedBytes
    BY <1>1, <2>2, CapFrame, ForwardedFrame
  <2>4. MonthChanges(ReservedBytes, ReservedBytes', p, ReservedBytes[p] + n)
    BY <1>3, Figures DEF NewGrant, MonthChanges
  <2>5. ReservedBytes' = [ReservedBytes EXCEPT ![p] = ReservedBytes[p] + n]
    BY <2>4, ReservedUpdate
  <2>6. n \in 1..(CapBytes[p] - ReservedBytes[p])
    <3>1. caps[p].minor \in Nat
      BY <1>1 DEF TypeOK, relayCapRow
    <3>2. CommittedIn(p) \in Nat /\ maxRelayBytesForOverage(caps[p].minor) \in Nat
      BY <2>1, <3>1, BytesType, BudgetMonotone DEF CommittedIn
    <3>3. n <= maxRelayBytesForOverage(caps[p].minor) - CommittedIn(p) /\ caps[p].set
      BY <1>3 DEF NewGrant, Available
    <3>4. CapBytes[p] = maxRelayBytesForOverage(caps[p].minor) /\ ReservedBytes[p] = CommittedIn(p)
      BY <3>3, Figures DEF CapBytes
    <3> QED BY <3>2, <3>3, <3>4, CreditAssumption
  <2>7. Budget!Reserve(p)
    BY <2>3, <2>5, <2>6 DEF Budget!Reserve
  <2> QED BY <2>7 DEF Budget!Next
<1> QED BY <1>2, <1>3, GrantEffect

\* A charged payload spends bytes that were reserved.
LEMMA ChargeIsSpend ==
    ASSUME IInv, SpendInv, NumbersInv, CoverInv', NEW r \in Relays, NEW n \in Sizes,
           reserve(r, n)
    PROVE  Budget!Next \/ UNCHANGED Budget!vars
<1>1. TypeOK /\ UNCHANGED <<caps, grants>>
  BY DEF IInv, reserve, store
<1>2. CASE used' = used
  BY <1>1, <1>2, BudgetFrame
<1>3. ASSUME NEW g \in Grants, used'[g] = used[g] + n,
             \A o \in Grants : o # g => used'[o] = used[o]
      PROVE  Budget!Next \/ UNCHANGED Budget!vars
  <2>1. \A q \in Months : /\ Rows(q) \in SUBSET Grants /\ Rows(q)' = Rows(q)
                          /\ CommittedIn(q)' = CommittedIn(q)
    BY <1>1, SameGrants DEF Rows
  <2>2. CapBytes' = CapBytes /\ ReservedBytes' = ReservedBytes
    BY <1>1, <2>1, CapFrame, ReservedFrame
  <2>3. ASSUME NEW q \in Months, g \notin Rows(q) PROVE UsedIn(q)' = UsedIn(q)
    <3>1. \A o \in Rows(q) : used'[o] = used[o]
      BY <1>3, <2>1, <2>3
    <3>2. Bytes(Rows(q), used') = Bytes(Rows(q), used)
      BY <2>1, <3>1, BytesSame
    <3> QED BY <2>1, <3>2, UsedNext DEF UsedIn
  <2>4. CASE \E p \in Months : g \in Rows(p)
    <3>1. PICK p \in Months : g \in Rows(p)
      BY <2>4
    <3>2. \A q \in Months : q # p => g \notin Rows(q)
      BY <3>1 DEF Rows
    <3>3. used[g] \in 0..Requested /\ n \in Nat \ {0}
      BY <1>1, CreditAssumption DEF TypeOK
    <3>4. used'[g] \in 0..Requested
      <4>1. SpendInv'
        BY ChargeStep
      <4>2. used'[g] <= grants[g].granted /\ grants[g].granted \in 0..Requested
        BY <1>1, <4>1 DEF SpendInv, TypeOK, relayCreditGrantRow
      <4> QED BY <1>3, <3>3, <4>2, CreditAssumption
    <3>5. Bytes(Rows(p), used') = Bytes(Rows(p), used) + (used'[g] - used[g])
      <4>1. \A o \in Rows(p) : o # g => used[o] = used'[o]
        BY <1>3, <2>1
      <4> QED BY <2>1, <3>1, <3>3, <3>4, <4>1, BytesRaise
    <3>6. UsedIn(p)' = UsedIn(p) + n
      <4>1. used'[g] - used[g] = n
        BY <1>3, <3>3, CreditAssumption
      <4> QED BY <2>1, <3>5, <4>1, UsedNext DEF UsedIn
    <3>7. MonthChanges(ForwardedBytes, ForwardedBytes', p, ForwardedBytes[p] + n)
      BY <2>3, <3>2, <3>6, Figures DEF MonthChanges
    <3>8. ForwardedBytes' = [ForwardedBytes EXCEPT ![p] = ForwardedBytes[p] + n]
      BY <3>7, ForwardedUpdate
    <3>9. n \in 1..(ReservedBytes[p] - ForwardedBytes[p])
      <4>1. /\ UsedIn(p)' <= CommittedIn(p) /\ UsedIn(p)' \in Nat /\ CommittedIn(p) \in Nat
        BY <2>1 DEF CoverInv
      <4>2. UsedIn(p) \in Nat
        BY <2>1, BytesType DEF UsedIn
      <4>3. ReservedBytes[p] = CommittedIn(p) /\ ForwardedBytes[p] = UsedIn(p)
        BY Figures
      <4> QED BY <3>3, <3>6, <4>1, <4>2, <4>3
    <3>10. Budget!Spend(p)
      BY <2>2, <3>8, <3>9 DEF Budget!Spend
    <3> QED BY <3>10 DEF Budget!Next
  <2>5. CASE ~ \E p \in Months : g \in Rows(p)
    <3>1. ForwardedBytes' = ForwardedBytes
      BY <2>3, <2>5, ForwardedFrame
    <3> QED BY <2>2, <3>1 DEF Budget!vars
  <2> QED BY <2>4, <2>5
<1> QED BY <1>2, <1>3, OneCharged

\* A final count gives back what was reserved and not used.
LEMMA ReturnIsGiveBack ==
    ASSUME IInv, CoverInv', NEW s \in surrenders, SurrenderRelayCredits(s)
    PROVE  Budget!Next \/ UNCHANGED Budget!vars
<1>1. TypeOK /\ UNCHANGED <<caps, used>>
  BY DEF IInv, SurrenderRelayCredits, relayside
<1>2. CASE grants' = grants
  BY <1>1, <1>2, BudgetFrame
<1>3. CASE /\ grants[s.grant].state = "issued" /\ s.consumed <= grants[s.grant].granted
           /\ grants' = [grants EXCEPT ![s.grant].state = "surrendered",
                                       ![s.grant].consumed = s.consumed]
  <2> DEFINE new == CommitsOf(grants')
             old == CommitsOf(grants)
             g == s.grant
             p == g[1]
             n == old[g] - new[g]
  <2>1. g \in Grants /\ s.consumed \in 0..Requested /\ p \in Months
    BY <1>1 DEF TypeOK, Grants
  <2>2. /\ \A o \in Grants : o # g => grants'[o] = grants[o]
        /\ grants'[g].state = "surrendered" /\ grants'[g].consumed = s.consumed
    BY <1>1, <1>3, <2>1 DEF TypeOK, relayCreditGrantRow
  <2>3. /\ new[g] = s.consumed /\ old[g] = grants[g].granted
        /\ \A o \in Grants : o # g => new[o] = old[o]
    <3>1. new[g] = s.consumed /\ old[g] = grants[g].granted
      BY <1>3, <2>1, <2>2 DEF CommitsOf
    <3>2. \A o \in Grants : o # g => new[o] = old[o]
      BY <2>2 DEF CommitsOf
    <3> QED BY <3>1, <3>2
  <2>4. old[g] \in 0..Requested /\ new[g] \in 0..Requested /\ n \in Nat
    <3>1. old[g] \in 0..Requested
      BY <1>1, <2>1, CommitsType
    <3> HIDE DEF new, old, g
    <3>2. s.consumed <= old[g]
      BY <1>3, <2>3 DEF g
    <3> QED BY <2>1, <2>3, <3>1, <3>2, CreditAssumption
  <2>5. \A q \in Months : Rows(q)' = Rows(q) /\ Rows(q) \in SUBSET Grants
    BY <1>3, <2>1, <2>2 DEF Rows
  <2>6. g \in Rows(p) /\ \A q \in Months : q # p => g \notin Rows(q)
    BY <1>3, <2>1 DEF Rows
  <2> HIDE DEF new, old, g, p
  <2>7. \A q \in Months : q # p => CommittedIn(q)' = CommittedIn(q)
    <3> SUFFICES ASSUME NEW q \in Months, q # p PROVE CommittedIn(q)' = CommittedIn(q)
      OBVIOUS
    <3>1. \A o \in Rows(q) : new[o] = old[o]
      BY <2>3, <2>5, <2>6
    <3>2. Bytes(Rows(q), new) = Bytes(Rows(q), old)
      BY <2>5, <3>1, BytesSame
    <3> QED BY <2>5, <3>2, CommittedNow, CommittedNext DEF new, old
  <2>8. CommittedIn(p)' = CommittedIn(p) - n /\ CommittedIn(p) \in Nat /\ CommittedIn(p)' \in Nat
    <3>1. \A o \in Rows(p) : o # g => old[o] = new[o]
      BY <2>1, <2>3, <2>5
    <3>2. Bytes(Rows(p), new) = Bytes(Rows(p), old) + (new[g] - old[g])
      BY <2>1, <2>4, <2>5, <2>6, <3>1, BytesRaise
    <3>3. Bytes(Rows(p), new) \in Nat /\ Bytes(Rows(p), old) \in Nat
      BY <2>1, <2>5, BytesType
    <3>4. CommittedIn(p)' = Bytes(Rows(p), new) /\ CommittedIn(p) = Bytes(Rows(p), old)
      BY <2>1, <2>5, CommittedNow, CommittedNext DEF new, old
    <3> QED BY <2>4, <3>2, <3>3, <3>4, CreditAssumption
  <2>9. \A q \in Months : UsedIn(q)' = UsedIn(q)
    BY <1>1, <2>5, UsedNext DEF UsedIn
  <2>10. CapBytes' = CapBytes /\ ForwardedBytes' = ForwardedBytes
    BY <1>1, <2>9, CapFrame, ForwardedFrame
  <2> HIDE DEF n
  <2>11. CASE n = 0
    <3>1. \A q \in Months : CommittedIn(q)' = CommittedIn(q)
      BY <2>7, <2>8, <2>11
    <3> QED BY <2>10, <3>1, ReservedFrame DEF Budget!vars
  <2>12. CASE n # 0
    <3>1. MonthChanges(ReservedBytes, ReservedBytes', p, ReservedBytes[p] - n)
      BY <2>1, <2>7, <2>8, Figures DEF MonthChanges
    <3>2. ReservedBytes' = [ReservedBytes EXCEPT ![p] = ReservedBytes[p] - n]
      BY <2>1, <3>1, ReservedUpdate
    <3>3. n \in 1..(ReservedBytes[p] - ForwardedBytes[p])
      <4>1. UsedIn(p) <= CommittedIn(p)' /\ UsedIn(p) \in Nat
        BY <2>1, <2>9 DEF CoverInv
      <4>2. ReservedBytes[p] = CommittedIn(p) /\ ForwardedBytes[p] = UsedIn(p)
        BY <2>1, Figures
      <4> QED BY <2>4, <2>8, <2>12, <4>1, <4>2
    <3>4. Budget!GiveBack(p)
      BY <2>10, <3>2, <3>3 DEF Budget!GiveBack
    <3> QED BY <2>1, <3>4 DEF Budget!Next
  <2> QED BY <2>11, <2>12
<1> QED BY <1>2, <1>3 DEF SurrenderRelayCredits

LEMMA OneBudgetStep ==
    IInv /\ SpendInv /\ BudgetInv /\ NumbersInv /\ CoverInv' /\ [Next]_vars
    => [Budget!Next]_(Budget!vars)
<1> SUFFICES ASSUME IInv, SpendInv, BudgetInv, NumbersInv, CoverInv', [Next]_vars
             PROVE  Budget!Next \/ UNCHANGED Budget!vars
  OBVIOUS
<1>1. CASE UNCHANGED <<caps, grants, used>>
  BY <1>1, BudgetFrame
<1> QED
  BY <1>1, CapIsLimit, GrantIsReserve, ChargeIsSpend, ReturnIsGiveBack
     DEF Next, LoseSurrender, HandleLease, HandleReply, Lose, install_uncapped, install_grant,
         Send, Shutdown, take_surrenderable_grants, Crash, ForwardDetached, Tick, store,
         relayside, vars

\* The control plane's transactions and relays that hear of them late or never
\* keep one budget per month: a grant is charged only reserved bytes, a surrender
\* gives back only unused ones, a cap is never lowered under what is reserved
\* (SetRelaySpendingCap, ReserveRelayCredits, reserve, SurrenderRelayCredits).
THEOREM CapIsOneBudget == Spec => Budget!Spec /\ OneBudget
<1>1. Init => Budget!Init
  <2> SUFFICES ASSUME Init PROVE Budget!Init
    OBVIOUS
  <2>1. \A p \in Months : Rows(p) = {} /\ ~caps[p].set
    BY DEF Init, Rows
  <2>2. \A p \in Months : CommittedIn(p) = 0 /\ UsedIn(p) = 0
    <3> TAKE p \in Months
    <3>1. BytesOf(Rows(p), CommitsOf(grants)) = {} /\ BytesOf(Rows(p), used) = {}
      BY <2>1 DEF BytesOf
    <3> QED BY <3>1, CommittedNow, FS_EmptySet DEF UsedIn, Bytes, BytesOf
  <2> QED BY <2>1, <2>2 DEF Budget!Init, CapBytes, ReservedBytes, ForwardedBytes
<1>2. Init => SpendInv /\ BudgetInv /\ NumbersInv
  BY DEF Init, SpendInv, BudgetInv, Rows, NumbersInv, Fresh
<1>3. Spec => [](IInv /\ SpendInv /\ BudgetInv /\ NumbersInv)
  BY <1>2, BudgetStep, NumbersStep, Invariance, PTL DEF Spec
<1>4. Spec => []CoverInv
  BY <1>3, Covered, PTL
<1>5. Spec => Budget!Spec
  BY <1>1, <1>3, <1>4, OneBudgetStep, PTL DEF Spec, Budget!Spec
<1>6. Budget!Spec => OneBudget
  BY PTL DEF Budget!Spec, OneBudget
<1> QED BY <1>5, <1>6
=============================================================================
