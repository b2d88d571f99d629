------------------------ MODULE CookieExchangeProofs ------------------------
(***************************************************************************)
(* The bounds of the reassembler, for every configuration of it and any    *)
(* number of sources, secrets and faults.                                  *)
(***************************************************************************)
EXTENDS CookieExchange, FiniteSetTheorems, TLAPS

-----------------------------------------------------------------------------
(* Tables. *)

SameKey(e, f) == e.source = f.source /\ e.reassembly_id = f.reassembly_id

Distinct(S) == \A e, f \in S : SameKey(e, f) => e = f

Unvalidated(S) == {e \in S : ~e.validated}

Bounded(S) ==
    /\ Cardinality(Unvalidated(S)) <= load_threshold
    /\ Cardinality(S) <= max_entries
    /\ \A s \in Sources : Cardinality(FromSource(S, s)) <= max_per_source

\* A table as push leaves it and finds it.
Table(S) == S \subseteq Entry /\ Distinct(S) /\ IsFiniteSet(S) /\ Bounded(S)

\* A part of a table is a table.
LEMMA Part ==
    ASSUME NEW S, Table(S), NEW T \in SUBSET S
    PROVE  Table(T)
<1>1. T \subseteq Entry /\ Distinct(T)
  BY DEF Table, Distinct
<1>2. IsFiniteSet(S)
  BY DEF Table
<1>3. IsFiniteSet(T) /\ Cardinality(T) <= Cardinality(S)
  BY <1>2, FS_Subset
<1>4. Cardinality(S) \in Nat /\ Cardinality(T) \in Nat
  BY <1>2, <1>3, FS_CardinalityType
<1>5. ASSUME NEW U \in SUBSET S, NEW V \in SUBSET U
      PROVE  /\ Cardinality(V) <= Cardinality(U)
             /\ Cardinality(V) \in Nat /\ Cardinality(U) \in Nat
  <2>1. IsFiniteSet(U)
    BY <1>2, FS_Subset
  <2>2. IsFiniteSet(V)
    BY <2>1, FS_Subset
  <2> QED BY <2>1, <2>2, FS_Subset, FS_CardinalityType
<1>6. Cardinality(Unvalidated(T)) <= load_threshold
  <2>1. Unvalidated(S) \in SUBSET S /\ Unvalidated(T) \in SUBSET Unvalidated(S)
    BY DEF Unvalidated
  <2>2. Cardinality(Unvalidated(S)) <= load_threshold
    BY DEF Table, Bounded
  <2> QED BY <1>5, <2>1, <2>2, ConfigAssumption
<1>7. Cardinality(T) <= max_entries
  BY <1>3, <1>4, ConfigAssumption DEF Table, Bounded
<1>8. ASSUME NEW s \in Sources PROVE Cardinality(FromSource(T, s)) <= max_per_source
  <2>1. FromSource(S, s) \in SUBSET S /\ FromSource(T, s) \in SUBSET FromSource(S, s)
    BY DEF FromSource
  <2>2. Cardinality(FromSource(S, s)) <= max_per_source
    BY DEF Table, Bounded
  <2> QED BY <1>5, <2>1, <2>2, ConfigAssumption
<1> QED BY <1>1, <1>3, <1>6, <1>7, <1>8 DEF Table, Bounded

\* A new entry, taken when nothing refuses it, leaves a table.
LEMMA Added ==
    ASSUME NEW S, Table(S), NEW e \in Entry,
           \A f \in S : ~SameKey(e, f),
           Refusal(S, e.source, e.validated) = "None"
    PROVE  Table(S \cup {e})
<1> DEFINE T == S \cup {e}
<1>1. /\ S \subseteq Entry /\ Distinct(S) /\ IsFiniteSet(S)
      /\ e.source \in Sources /\ e.validated \in BOOLEAN
  BY DEF Table, Entry
<1>2. e \notin S
  BY DEF SameKey
<1>3. T \subseteq Entry
  BY <1>1
<1>4. Distinct(T)
  BY <1>1 DEF Distinct, SameKey
<1>5. IsFiniteSet(T) /\ Cardinality(T) = Cardinality(S) + 1 /\ Cardinality(S) \in Nat
  BY <1>1, <1>2, FS_AddElement, FS_CardinalityType
<1>6. /\ ~e.validated => ~(Cardinality(S) >= load_threshold)
      /\ ~(Cardinality(FromSource(S, e.source)) >= max_per_source)
      /\ ~(Cardinality(S) >= max_entries)
  BY <1>1 DEF Refusal
<1>7. ASSUME NEW U \in SUBSET S
      PROVE  /\ IsFiniteSet(U) /\ Cardinality(U) \in Nat
             /\ Cardinality(U) <= Cardinality(S)
             /\ Cardinality(U \cup {e}) = Cardinality(U) + 1
  <2>1. IsFiniteSet(U) /\ Cardinality(U) <= Cardinality(S)
    BY <1>1, FS_Subset
  <2>2. e \notin U
    BY <1>2
  <2> QED BY <2>1, <2>2, FS_AddElement, FS_CardinalityType
<1>8. Cardinality(T) <= max_entries
  BY <1>5, <1>6, ConfigAssumption
<1>9. Cardinality(Unvalidated(T)) <= load_threshold
  <2>1. Unvalidated(S) \in SUBSET S /\ Cardinality(Unvalidated(S)) <= load_threshold
    BY DEF Unvalidated, Table, Bounded
  <2>2. CASE e.validated
    <3>1. Unvalidated(T) = Unvalidated(S)
      BY <2>2 DEF Unvalidated
    <3> QED BY <2>1, <3>1
  <2>3. CASE ~e.validated
    <3>1. Unvalidated(T) = Unvalidated(S) \cup {e}
      BY <2>3 DEF Unvalidated
    <3> QED BY <1>5, <1>6, <1>7, <2>1, <2>3, <3>1, ConfigAssumption
  <2> QED BY <2>2, <2>3
<1>10. ASSUME NEW s \in Sources PROVE Cardinality(FromSource(T, s)) <= max_per_source
  <2>1. FromSource(S, s) \in SUBSET S /\ Cardinality(FromSource(S, s)) <= max_per_source
    BY DEF FromSource, Table, Bounded
  <2>2. CASE e.source # s
    <3>1. FromSource(T, s) = FromSource(S, s)
      BY <2>2 DEF FromSource
    <3> QED BY <2>1, <3>1
  <2>3. CASE e.source = s
    <3>1. FromSource(T, s) = FromSource(S, s) \cup {e}
      BY <2>3 DEF FromSource
    <3> QED BY <1>6, <1>7, <2>1, <2>3, <3>1, ConfigAssumption
  <2> QED BY <2>2, <2>3
<1> QED BY <1>3, <1>4, <1>5, <1>8, <1>9, <1>10 DEF Table, Bounded

\* A one-to-one change of entries that keeps key and validation leaves a table.
LEMMA Renewed ==
    ASSUME NEW S, Table(S), NEW f \in [S -> Entry],
           \A e \in S : SameKey(f[e], e) /\ f[e].validated = e.validated
    PROVE  Table({f[e] : e \in S})
<1> DEFINE T == {f[e] : e \in S}
<1>1. S \subseteq Entry /\ Distinct(S) /\ IsFiniteSet(S)
  BY DEF Table
<1>2. T \subseteq Entry
  OBVIOUS
<1>3. Distinct(T)
  <2> SUFFICES ASSUME NEW a \in S, NEW b \in S, SameKey(f[a], f[b])
               PROVE  f[a] = f[b]
    BY DEF Distinct
  <2>1. SameKey(a, b)
    BY DEF SameKey
  <2> QED BY <1>1, <2>1 DEF Distinct
<1>4. ASSUME NEW U \in SUBSET S
      PROVE  /\ IsFiniteSet({f[e] : e \in U})
             /\ Cardinality({f[e] : e \in U}) <= Cardinality(U)
             /\ Cardinality({f[e] : e \in U}) \in Nat /\ Cardinality(U) \in Nat
  <2> DEFINE V == {f[e] : e \in U}
             g == [e \in U |-> f[e]]
  <2>1. IsFiniteSet(U)
    BY <1>1, FS_Subset
  <2>2. g \in Surjection(U, V)
    BY DEF Surjection
  <2> HIDE DEF V, g
  <2>3. IsFiniteSet(V) /\ Cardinality(V) <= Cardinality(U)
    BY <2>1, <2>2, FS_Surjection
  <2>4. Cardinality(V) \in Nat /\ Cardinality(U) \in Nat
    BY <2>1, <2>3, FS_CardinalityType
  <2> QED BY <2>3, <2>4 DEF V
<1>5. IsFiniteSet(T) /\ Cardinality(T) <= max_entries
  <2>1. Cardinality(S) <= max_entries
    BY DEF Table, Bounded
  <2> QED BY <1>4, <2>1, ConfigAssumption
<1>6. Cardinality(Unvalidated(T)) <= load_threshold
  <2>1. Unvalidated(S) \in SUBSET S /\ Unvalidated(T) = {f[e] : e \in Unvalidated(S)}
    BY DEF Unvalidated
  <2>2. Cardinality(Unvalidated(S)) <= load_threshold
    BY DEF Table, Bounded
  <2> QED BY <1>4, <2>1, <2>2, ConfigAssumption
<1>7. ASSUME NEW s \in Sources PROVE Cardinality(FromSource(T, s)) <= max_per_source
  <2>1. FromSource(S, s) \in SUBSET S /\ FromSource(T, s) = {f[e] : e \in FromSource(S, s)}
    BY DEF FromSource, SameKey
  <2>2. Cardinality(FromSource(S, s)) <= max_per_source
    BY DEF Table, Bounded
  <2> QED BY <1>4, <2>1, <2>2, ConfigAssumption
<1> QED BY <1>2, <1>3, <1>5, <1>6, <1>7 DEF Table, Bounded

\* One entry of a table changes, but not its key.
LEMMA Replaced ==
    ASSUME NEW S, Table(S), NEW e \in S, NEW d \in Entry,
           SameKey(d, e), d.validated = e.validated
    PROVE  Table((S \ {e}) \cup {d})
<1> DEFINE f == [x \in S |-> IF x = e THEN d ELSE x]
<1>1. f \in [S -> Entry]
  BY DEF Table
<1>2. \A x \in S : SameKey(f[x], x) /\ f[x].validated = x.validated
  BY DEF SameKey
<1>3. {f[x] : x \in S} = (S \ {e}) \cup {d}
  OBVIOUS
<1> HIDE DEF f
<1>4. Table({f[x] : x \in S})
  BY <1>1, <1>2, Renewed
<1> QED BY <1>3, <1>4

-----------------------------------------------------------------------------
(* Reassembler::push. *)

LEMMA FilledEntry ==
    ASSUME NEW e \in Entry, NEW hdr \in Fragment
    PROVE  /\ Filled(e, hdr) \in Entry
           /\ SameKey(Filled(e, hdr), e) /\ Filled(e, hdr).validated = e.validated
BY DEF Entry, Fragment, Filled, SameKey

LEMMA NewEntryIsEntry ==
    ASSUME NEW source \in Sources, NEW v \in BOOLEAN, NEW hdr \in Fragment
    PROVE  LET e == NewEntry(source, v, hdr) IN
           /\ e \in Entry
           /\ e.source = source /\ e.reassembly_id = hdr.reassembly_id /\ e.validated = v
BY ConfigAssumption DEF Entry, Fragment, NewEntry

\* Whatever the fragment and the state of the table, push leaves a table.
LEMMA PushTable ==
    ASSUME NEW S, Table(S), NEW source \in Sources, NEW v \in BOOLEAN, NEW hdr \in Fragment
    PROVE  Table(push(S, source, v, hdr).slots)
<1> DEFINE live == expire(S)
           found == InFlight(live, source, hdr)
           refusal == IF found # {} THEN "None" ELSE Refusal(live, source, v)
           e == IF found # {} THEN CHOOSE x \in found : TRUE ELSE NewEntry(source, v, hdr)
           rest == live \ {e}
           T == push(S, source, v, hdr).slots
<1>1. \/ T = S
      \/ T = live
      \/ refusal = "None" /\ T \in {rest, rest \cup {e}, rest \cup {Filled(e, hdr)}}
  BY DEF push
<1>2. live \in SUBSET S
  BY DEF expire
<1>3. Table(live)
  BY <1>2, Part
<1>4. rest \in SUBSET live
  OBVIOUS
<1> HIDE DEF live, T
<1>5. CASE found # {}
  <2>1. e \in live
    BY <1>5 DEF InFlight, FromSource
  <2>2. e \in Entry
    BY <1>3, <2>1 DEF Table
  <2>3. SameKey(e, e)
    BY DEF SameKey
  <2> HIDE DEF e
  <2>4. Table(rest \cup {e})
    BY <1>3, <2>1, <2>2, <2>3, Replaced
  <2>5. Table(rest \cup {Filled(e, hdr)})
    BY <1>3, <2>1, <2>2, FilledEntry, Replaced
  <2> QED BY <1>1, <1>3, <1>4, <2>4, <2>5, Part DEF T
<1>6. CASE found = {} /\ refusal = "None"
  <2>1. e = NewEntry(source, v, hdr) /\ Refusal(live, source, v) = "None"
    BY <1>6
  <2> DEFINE n == NewEntry(source, v, hdr)
  <2>0. /\ n \in Entry
        /\ n.source = source /\ n.reassembly_id = hdr.reassembly_id /\ n.validated = v
    BY NewEntryIsEntry
  <2> HIDE DEF n, e
  <2>2. /\ e \in Entry
        /\ e.source = source /\ e.reassembly_id = hdr.reassembly_id /\ e.validated = v
    BY <2>0, <2>1 DEF n
  <2>3. \A f \in live : ~(f.source = source /\ f.reassembly_id = hdr.reassembly_id)
    BY <1>6 DEF InFlight, FromSource
  <2>4. \A f \in live : ~SameKey(e, f)
    BY <2>2, <2>3 DEF SameKey
  <2>5. rest = live
    BY <2>4 DEF SameKey
  <2>6. Table(live \cup {e})
    BY <1>3, <2>1, <2>2, <2>4, Added
  <2> DEFINE d == Filled(e, hdr)
  <2>7. d \in Entry /\ SameKey(d, e) /\ d.validated = e.validated
    BY <2>2, FilledEntry
  <2> HIDE DEF d
  <2>8. d.source = source /\ d.validated = v /\ (\A f \in live : ~SameKey(d, f))
    BY <2>2, <2>4, <2>7 DEF SameKey
  <2>9. Table(live \cup {d})
    BY <1>3, <2>1, <2>7, <2>8, Added
  <2> QED BY <1>1, <1>3, <2>5, <2>6, <2>9 DEF T, d
<1>7. CASE found = {} /\ refusal # "None"
  BY <1>1, <1>3, <1>7 DEF T
<1> HIDE DEF found, refusal
<1> QED BY <1>5, <1>6, <1>7

-----------------------------------------------------------------------------
(* The inductive invariant. *)

IInv == TypeOK /\ Table(slots)

LEMMA IInvInit == Init => IInv
<1> SUFFICES ASSUME Init PROVE IInv
  OBVIOUS
<1>1. TypeOK
  BY ConfigAssumption, ExchangeAssumption DEF Init, TypeOK
<1>2. Table(slots)
  <2>1. slots = {}
    BY DEF Init
  <2>2. Unvalidated(slots) = {} /\ (\A s \in Sources : FromSource(slots, s) = {})
    BY <2>1 DEF Unvalidated, FromSource
  <2> QED BY <2>1, <2>2, FS_EmptySet, ConfigAssumption DEF Table, Bounded, Distinct
<1> QED BY <1>1, <1>2 DEF IInv

\* The types of everything but the table.
Rest ==
    /\ cookie \in [current : Secrets \cup {None}, previous : Secrets \cup {None}]
    /\ reassembly_id \in Ids \cup {None}
    /\ init_id \in Ids \cup {None}
    /\ outstanding \in BOOLEAN
    /\ retry_due \in BOOLEAN
    /\ net \subseteq Datagram
    /\ faults \in 0..MaxFaults
    /\ others \in 0..MaxOthers

LEMMA TypeParts == TypeOK <=> slots \subseteq Entry /\ Distinct(slots) /\ Rest
BY DEF TypeOK, Rest, Distinct, SameKey

LEMMA FragmentsTyped ==
    ASSUME NEW id \in Ids, NEW key \in {Mac1} \cup Secrets
    PROVE  fragment(id, key) \subseteq Datagram
BY ConfigAssumption, ExchangeAssumption DEF fragment, Header, Datagram, Fragment

LEMMA HeaderTyped ==
    ASSUME NEW id \in Ids, NEW i \in 0..(COUNT - 1)
    PROVE  Header(id, i) \in Fragment
BY ConfigAssumption, ExchangeAssumption DEF Header, Fragment

LEMMA FreshTyped == FreshIds \subseteq Ids
BY DEF FreshIds, Fresh

LEMMA Taken ==
    ASSUME Rest, NEW m \in net, NEW replies \in SUBSET Datagram, Take(m, replies)
    PROVE  net' \subseteq Datagram /\ faults' \in 0..MaxFaults
BY ExchangeAssumption DEF Rest, Take, Fault

LEMMA IInvNext == IInv /\ [Next]_vars => IInv'
<1> SUFFICES ASSUME IInv, [Next]_vars PROVE IInv'
  OBVIOUS
<1> USE ConfigAssumption, ExchangeAssumption
<1>1. Table(slots) /\ Rest
  BY TypeParts DEF IInv
<1>2. SUFFICES Table(slots)' /\ Rest'
  BY TypeParts DEF IInv, TypeOK, Table, Rest, Distinct, SameKey
<1>3. CASE EmitInit
  <2>1. PICK id \in FreshIds : /\ reassembly_id' = id /\ init_id' = id
                               /\ net' = net \cup fragment(id, Mac1)
    BY <1>3 DEF EmitInit
  <2>2. id \in Ids /\ fragment(id, Mac1) \subseteq Datagram
    BY FreshTyped, FragmentsTyped
  <2>3. UNCHANGED <<slots, cookie, outstanding, faults, others>> /\ retry_due' = FALSE
    BY <1>3 DEF EmitInit
  <2> QED BY <1>1, <2>1, <2>2, <2>3 DEF Rest
<1>4. CASE EmitOther
  BY <1>1, <1>4 DEF EmitOther, Rest
<1>5. ASSUME NEW m \in net, CookieReply(m) PROVE Table(slots)' /\ Rest'
  <2>1. UNCHANGED <<slots, cookie, outstanding, retry_due, others>> /\ m.type = "reply"
    BY <1>5 DEF CookieReply
  <2>2. m.cookie \in Secrets
    BY <1>1, <2>1 DEF Rest, Datagram
  <2>3. CASE m.receiver_index = reassembly_id /\ outstanding
    <3>1. PICK id \in FreshIds : /\ reassembly_id' = id /\ init_id' = id
                                 /\ Take(m, fragment(id, m.cookie))
      BY <1>5, <2>3 DEF CookieReply, handle_cookie_reply
    <3>2. id \in Ids /\ fragment(id, m.cookie) \subseteq Datagram
      BY <2>2, FreshTyped, FragmentsTyped
    <3>3. net' \subseteq Datagram /\ faults' \in 0..MaxFaults
      BY <1>1, <3>1, <3>2, Taken
    <3> QED BY <1>1, <2>1, <3>1, <3>2, <3>3 DEF Rest
  <2>4. CASE ~(m.receiver_index = reassembly_id /\ outstanding)
    <3>1. UNCHANGED <<reassembly_id, init_id>> /\ Take(m, {})
      BY <1>5, <2>4 DEF CookieReply, handle_cookie_reply
    <3>2. net' \subseteq Datagram /\ faults' \in 0..MaxFaults
      BY <1>1, <3>1, Taken
    <3> QED BY <1>1, <2>1, <3>1, <3>2 DEF Rest
  <2> QED BY <2>3, <2>4
<1>6. ASSUME NEW m \in net, Inbound(m) PROVE Table(slots)' /\ Rest'
  <2> DEFINE result == push(slots, Initiator, addr_validated(m.key), m.hdr)
             replies == IF mac_ok(m.key) /\ result.outcome = "CookieRequired"
                        THEN issue_cookie_reply(m.hdr.reassembly_id) ELSE {}
  <2>1. /\ UNCHANGED <<cookie, reassembly_id, init_id, retry_due, others>> /\ m.type = "fragment"
        /\ Take(m, replies)
        /\ slots' \in {slots, result.slots}
        /\ outstanding' \in BOOLEAN /\ (outstanding' => outstanding)
    <3>1. outstanding \in BOOLEAN
      BY <1>1 DEF Rest
    <3>2. CASE mac_ok(m.key)
      <4> HIDE DEF result
      <4>1. /\ UNCHANGED <<cookie, reassembly_id, init_id, retry_due, others>> /\ m.type = "fragment"
            /\ Take(m, replies)
            /\ slots' = result.slots
            /\ outstanding' = (outstanding /\ result.outcome # "Complete")
        BY <1>6, <3>2 DEF Inbound, result
      <4> QED BY <3>1, <4>1
    <3>3. CASE ~mac_ok(m.key)
      <4> HIDE DEF result
      <4>1. /\ UNCHANGED <<cookie, reassembly_id, init_id, retry_due, others>> /\ m.type = "fragment"
            /\ Take(m, {}) /\ UNCHANGED <<slots, outstanding>>
        BY <1>6, <3>3 DEF Inbound
      <4>2. replies = {}
        BY <3>3
      <4> QED BY <3>1, <4>1, <4>2
    <3> QED BY <3>2, <3>3
  <2>2. m.hdr \in Fragment
    BY <1>1, <2>1 DEF Rest, Datagram
  <2>3. Table(result.slots)
    <3>1. addr_validated(m.key) \in BOOLEAN
      BY DEF addr_validated
    <3> HIDE DEF replies
    <3> QED BY <1>1, <2>2, <3>1, PushTable
  <2>4. replies \subseteq Datagram
    BY <1>1, <2>2 DEF issue_cookie_reply, Rest, Datagram, Fragment
  <2>5. net' \subseteq Datagram /\ faults' \in 0..MaxFaults
    BY <1>1, <2>1, <2>4, Taken
  <2> HIDE DEF result
  <2> QED BY <1>1, <2>1, <2>3, <2>5 DEF Rest
<1>7. ASSUME NEW s \in Sources, NEW v \in BOOLEAN, OtherFragment(s, v)
      PROVE  Table(slots)' /\ Rest'
  <2> DEFINE started == {e.reassembly_id : e \in FromSource(slots, s)}
  <2>1. started \cup Fresh(started) \subseteq Ids
    BY <1>1 DEF Table, Entry, FromSource, Fresh
  <2>2. PICK id \in Ids : slots' = push(slots, s, v, Header(id, 0)).slots
    BY <1>7, <2>1 DEF OtherFragment
  <2>3. Header(id, 0) \in Fragment
    BY HeaderTyped
  <2>4. Table(slots')
    BY <1>1, <2>2, <2>3, PushTable
  <2>5. UNCHANGED <<cookie, reassembly_id, init_id, outstanding, retry_due, net, faults, others>>
    BY <1>7 DEF OtherFragment
  <2> QED BY <1>1, <2>4, <2>5 DEF Rest
<1>8. CASE Rotate
  <2>1. UNCHANGED <<slots, reassembly_id, init_id, outstanding, retry_due, net, faults, others>>
    BY <1>8 DEF Rotate
  <2>2. cookie' \in [current : Secrets \cup {None}, previous : Secrets \cup {None}]
    BY <1>1, <1>8 DEF Rotate, Rest, Secrets
  <2> QED BY <1>1, <2>1, <2>2 DEF Rest
<1>9. CASE Tick \/ LateTick
  <2>1. Advance /\ faults' \in 0..MaxFaults
    BY <1>1, <1>9 DEF Tick, LateTick, Fault, Rest
  <2> DEFINE f == [e \in slots |-> Older(e)]
  <2>2. slots \subseteq Entry
    BY <1>1 DEF Table
  <2>3. f \in [slots -> Entry]
    BY <2>2 DEF Older, Entry
  <2>4. \A e \in slots : SameKey(f[e], e) /\ f[e].validated = e.validated
    BY <2>2 DEF Older, Entry, SameKey
  <2>5. slots' = {f[e] : e \in slots}
    BY <2>1 DEF Advance
  <2> HIDE DEF f
  <2>6. Table(slots')
    BY <1>1, <2>3, <2>4, <2>5, Renewed
  <2> QED BY <1>1, <2>1, <2>6 DEF Advance, Rest
<1>10. ASSUME NEW m \in net, Lose(m) PROVE Table(slots)' /\ Rest'
  BY <1>1, <1>10 DEF Lose, Fault, Rest
<1>11. CASE UNCHANGED vars
  BY <1>1, <1>11 DEF vars, Rest
<1> QED BY <1>3, <1>4, <1>5, <1>6, <1>7, <1>8, <1>9, <1>10, <1>11 DEF Next

-----------------------------------------------------------------------------
(* The theorems. *)

\* The table, the cookie secret, the initiator's ids and the datagrams in
\* flight keep their types, and no two entries of the reassembler have one
\* source and id, whatever is lost, repeated or late.
THEOREM TypeCorrect == Spec => []TypeOK
<1>1. IInv => TypeOK
  BY DEF IInv
<1> QED BY <1>1, IInvInit, IInvNext, PTL DEF Spec

\* Sources without a valid cookie never hold more than load_threshold entries,
\* for every configuration of Reassembler::push.
THEOREM UnvalidatedIsBounded == Spec => []UnvalidatedBounded
<1>1. IInv => UnvalidatedBounded
  BY DEF IInv, Table, Bounded, Unvalidated, UnvalidatedBounded
<1> QED BY <1>1, IInvInit, IInvNext, PTL DEF Spec

\* The table stays within max_entries and each source within max_per_source.
THEOREM TableWithinBudget == Spec => []WithinBudget
<1>1. IInv => WithinBudget
  BY DEF IInv, Table, Bounded, WithinBudget
<1> QED BY <1>1, IInvInit, IInvNext, PTL DEF Spec
=============================================================================
