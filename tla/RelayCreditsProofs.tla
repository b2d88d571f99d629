------------------------- MODULE RelayCreditsProofs -------------------------
(***************************************************************************)
(* For any relays, months, lease, grant size and bounds: the types, the    *)
(* fence between uncapped leases and a cap, that a grant is used only in   *)
(* its month, and that a final count is final.  That the sum of the grants *)
(* stays within the cap follows in RelayBudgetProofs.                      *)
(***************************************************************************)
EXTENDS RelayCredits, TLAPS

-----------------------------------------------------------------------------
(* Arithmetic and records. *)

LEMMA MonthBounds ==
    ASSUME NEW p \in Months
    PROVE  MonthStart(p) \in Nat /\ MonthEnd(p) \in Nat
  BY TimeAssumption DEF MonthStart, MonthEnd, Months

LEMMA FreshController == Fresh \in Controller
  BY TimeAssumption, CreditAssumption DEF Fresh, Controller, Months

LEMMA NoJobRequest == NoJob \in CreditRequest
  BY TimeAssumption DEF NoJob, CreditRequest, Months

\* What enqueue leaves alone, and the number it draws.
LEMMA Enqueued ==
    ASSUME NEW c \in Controller
    PROVE  /\ enqueue(c) \in Controller
           /\ enqueue(c).mode = c.mode /\ enqueue(c).expires = c.expires
           /\ enqueue(c).from = c.from /\ enqueue(c).held = c.held
           /\ \/ enqueue(c).pending = c.pending /\ enqueue(c).next = c.next
              \/ /\ c.pending = 0
                 /\ enqueue(c).pending = c.next + 1 /\ enqueue(c).next = c.next + 1
  <1> DEFINE d == [c EXCEPT !.pending = c.next + 1, !.next = c.next + 1]
  <1>1. CASE enqueue(c) = c
    BY <1>1
  <1>2. CASE c.pending = 0 /\ c.next < MaxReqs /\ enqueue(c) = d
    <2>1. c.next + 1 \in 0..MaxReqs
      BY <1>2, CreditAssumption DEF Controller
    <2>2. /\ d \in Controller
          /\ d.mode = c.mode /\ d.expires = c.expires /\ d.from = c.from
          /\ d.held = c.held /\ d.pending = c.next + 1 /\ d.next = c.next + 1
      BY <2>1 DEF Controller
    <2> QED BY <1>2, <2>2
  <1> QED BY <1>1, <1>2 DEF enqueue

\* The answer to a request replaces the allowance.
Install(c, m, e, f, hs) ==
    [c EXCEPT !.mode = m, !.expires = e, !.from = f, !.held = hs, !.pending = 0]

LEMMA Installed ==
    ASSUME NEW c \in Controller, NEW m \in {"none", "uncapped", "capped"}, NEW e \in Nat,
           NEW f \in Months, NEW hs \in SUBSET CreditGrant
    PROVE  LET d == Install(c, m, e, f, hs)
           IN  /\ d \in Controller
               /\ d.mode = m /\ d.expires = e /\ d.from = f /\ d.held = hs
               /\ d.pending = 0 /\ d.next = c.next
  <1> DEFINE d1 == [c EXCEPT !.mode = m, !.expires = e]
             d2 == [d1 EXCEPT !.from = f, !.held = hs]
             d3 == [d2 EXCEPT !.pending = 0]
  <1>1. /\ d1 \in Controller /\ d1.mode = m /\ d1.expires = e /\ d1.next = c.next
    BY DEF Controller
  <1> HIDE DEF d1
  <1>2. /\ d2 \in Controller /\ d2.mode = m /\ d2.expires = e /\ d2.next = c.next
        /\ d2.from = f /\ d2.held = hs
    BY <1>1 DEF Controller
  <1> HIDE DEF d2
  <1>3. /\ d3 \in Controller /\ d3.mode = m /\ d3.expires = e /\ d3.next = c.next
        /\ d3.from = f /\ d3.held = hs /\ d3.pending = 0
    BY <1>2, CreditAssumption DEF Controller
  <1> HIDE DEF d3
  <1>4. Install(c, m, e, f, hs) = d3
    BY Zenon DEF d1, d2, d3, Install
  <1> QED BY <1>3, <1>4, Zenon

LEMMA Cleared ==
    ASSUME NEW c \in Controller
    PROVE  LET d == [c EXCEPT !.mode = "none", !.expires = 0, !.from = 0]
           IN  /\ d \in Controller
               /\ d.mode = "none" /\ d.held = c.held
               /\ d.pending = c.pending /\ d.next = c.next
  <1>1. 0 \in Nat /\ 0 \in Months
    BY TimeAssumption DEF Months
  <1> QED BY <1>1 DEF Controller

LEMMA Handled ==
    ASSUME NEW j \in CreditRequest, NEW pc \in {"lease", "again", "reply", "uncapped"},
           NEW p \in Months
    PROVE  LET k == [j EXCEPT !.pc = pc, !.month = p]
           IN  k \in CreditRequest /\ k.pc = pc /\ k.month = p /\ k.started = j.started
  BY DEF CreditRequest

LEMMA Answered ==
    ASSUME NEW j \in CreditRequest, NEW v \in Nat
    PROVE  LET k == [j EXCEPT !.pc = "grant", !.valid = v]
           IN  /\ k \in CreditRequest
               /\ k.pc = "grant" /\ k.month = j.month /\ k.started = j.started /\ k.valid = v
  BY DEF CreditRequest

\* A request under way has a number.
JobInv == \A r \in Relays : job[r].pc # "none" => relay[r].pending # 0

-----------------------------------------------------------------------------
(* Types. *)

LEMMA TypeInit == Init => TypeOK
  <1> SUFFICES ASSUME Init PROVE TypeOK
    OBVIOUS
  <1> USE TimeAssumption, CreditAssumption, FreshController, NoJobRequest DEF Init
  <1>1. caps \in [Months -> relayCapRow] BY DEF relayCapRow
  <1>2. grants \in [Grants -> relayCreditGrantRow] BY DEF relayCreditGrantRow
  <1>3. relay \in [Relays -> Controller] /\ job \in [Relays -> CreditRequest]
    OBVIOUS
  <1>4. used \in [Grants -> 0..Requested] OBVIOUS
  <1> QED BY <1>1, <1>2, <1>3, <1>4 DEF TypeOK

LEMMA RestartedController ==
    ASSUME TypeOK, NEW r \in Relays
    PROVE  /\ Restarted(r) \in Controller
           /\ Restarted(r).mode = "none" /\ Restarted(r).held = {}
           /\ Restarted(r).pending = 0 /\ Restarted(r).next = relay[r].next
  <1>1. relay[r].next \in 0..MaxReqs
    BY DEF TypeOK, Controller
  <1>2. Fresh.mode = "none" /\ Fresh.held = {} /\ Fresh.pending = 0
    BY DEF Fresh
  <1>3. /\ [Fresh EXCEPT !.next = relay[r].next] \in Controller
        /\ [Fresh EXCEPT !.next = relay[r].next].mode = Fresh.mode
        /\ [Fresh EXCEPT !.next = relay[r].next].held = Fresh.held
        /\ [Fresh EXCEPT !.next = relay[r].next].pending = Fresh.pending
        /\ [Fresh EXCEPT !.next = relay[r].next].next = relay[r].next
    BY <1>1, FreshController DEF Controller
  <1> QED BY <1>2, <1>3 DEF Restarted

\* The job that Send starts.
LEMMA SentRequest ==
    ASSUME TypeOK
    PROVE  LET j == [NoJob EXCEPT !.pc = "sent", !.started = now]
           IN  j \in CreditRequest /\ j.pc = "sent" /\ j.started = now
  BY NoJobRequest DEF TypeOK, CreditRequest

\* What the properties need to know of a payload charged to a grant.
ChargedStep(r, n, valid, charged, sent) ==
    LET rest == [relay[r] EXCEPT !.held = valid \ sent] IN
    /\ \A h \in valid : h \in relay[r].held /\ h.until > now
    /\ \A h \in charged : h \in valid /\ Remaining(h) >= n
    /\ \A h \in sent : /\ h \in valid
                        /\ Remaining(h) = (IF h \in charged THEN n ELSE 0)
                        /\ \A o \in valid : o.grant = h.grant => o \in sent
    /\ \A h \in charged, o \in valid : o.grant = h.grant => o \in charged
    /\ \A h, o \in charged : h.grant[3] = o.grant[3]
    /\ used' = [g \in Grants |->
                    IF \E h \in charged : h.grant = g THEN used[g] + n ELSE used[g]]
    /\ surrenders' = surrenders \cup
            {[grant |-> h.grant, consumed |-> grants[h.grant].granted] : h \in sent}
    /\ \/ relay' = [relay EXCEPT ![r] = enqueue(rest)]
       \/ relay' = [relay EXCEPT ![r] = rest]

LEMMA ReserveCappedEffect ==
    ASSUME TypeOK, NEW r \in Relays, NEW n \in Sizes, ReserveCapped(r, n)
    PROVE  \E valid, charged, sent : ChargedStep(r, n, valid, charged, sent)
  <1> DEFINE c == relay[r]
             valid == {h \in c.held : h.until > now}
             fits == {h \in valid : Fits(h, n)}
             charged == {h \in fits : \A o \in fits : h.grant[3] <= o.grant[3]}
             left(h) == Remaining(h) - (IF h \in charged THEN n ELSE 0)
             spent == {h \in valid : left(h) = 0}
             sent(i) == {h \in spent : h.grant[3] <= i}
             rest(i) == [c EXCEPT !.held = valid \ sent(i)]
             out(i) == {[grant |-> h.grant, consumed |-> grants[h.grant].granted] : h \in sent(i)}
  <1> HIDE DEF rest, out
  <1>1. PICK i \in 0..MaxReqs :
            /\ used' = [g \in Grants |->
                    IF \E h \in charged : h.grant = g THEN used[g] + n ELSE used[g]]
            /\ surrenders' = surrenders \cup out(i)
            /\ \/ relay' = [relay EXCEPT ![r] = enqueue(rest(i))]
               \/ relay' = [relay EXCEPT ![r] = rest(i)]
    BY DEF ReserveCapped, rest, out
  <1>2. \A h \in valid : /\ h.grant \in Grants /\ Remaining(h) \in Int
    BY DEF TypeOK, Controller, CreditGrant, Remaining, relayCreditGrantRow
  <1>3. \A h, o \in valid : o.grant = h.grant => Remaining(o) = Remaining(h)
    BY DEF Remaining
  <1>4. \A h, o \in valid : o.grant = h.grant /\ h \in charged => o \in charged
    BY <1>3 DEF Fits
  <1>5. \A h, o \in valid : o.grant = h.grant /\ h \in sent(i) => o \in sent(i)
    BY <1>3, <1>4
  <1>6. n \in Nat
    BY CreditAssumption
  <1>7. \A h \in sent(i) : Remaining(h) = (IF h \in charged THEN n ELSE 0)
    BY <1>2, <1>6
  <1>8. \A h \in charged : h \in valid /\ Remaining(h) >= n
    BY DEF Fits
  <1>a. \A h, o \in charged : h.grant[3] = o.grant[3]
    BY <1>2 DEF Grants
  <1>9. ChargedStep(r, n, valid, charged, sent(i))
    <2> HIDE DEF charged, sent
    <2>1. \A h \in valid : h \in relay[r].held /\ h.until > now
      OBVIOUS
    <2>2. \A h \in sent(i) : h \in valid
      BY DEF sent
    <2> HIDE DEF valid
    <2> QED BY <1>1, <1>4, <1>5, <1>7, <1>8, <1>a, <2>1, <2>2 DEF ChargedStep, rest, out
  <1> QED BY <1>9

LEMMA TypeStep == TypeOK /\ JobInv /\ [Next]_vars => TypeOK'
  <1> SUFFICES ASSUME TypeOK, JobInv, [Next]_vars PROVE TypeOK'
    OBVIOUS
  <1> USE TimeAssumption, CreditAssumption
  <1>a. ASSUME NEW r \in Relays, NEW j \in CreditRequest, Becomes(r, j)
        PROVE  job' \in [Relays -> CreditRequest]
    BY <1>a DEF TypeOK, Becomes
  <1>b. ASSUME NEW r \in Relays, Gone(r)
        PROVE  job' \in [Relays -> CreditRequest]
    BY <1>a, <1>b, NoJobRequest DEF Gone
  <1>c. ASSUME NEW r \in Relays, NEW c \in Controller, relay' = [relay EXCEPT ![r] = c]
        PROVE  relay' \in [Relays -> Controller]
    BY <1>c DEF TypeOK
  <1>1. ASSUME NEW p \in Months, NEW minor \in Overages, SetRelaySpendingCap(p, minor)
        PROVE  TypeOK'
    <2>1. EffectiveAt(p) \in Nat
      BY <1>1 DEF EffectiveAt, TypeOK
    <2>2. minor \in Nat
      OBVIOUS
    <2>3. CASE caps' = [caps EXCEPT ![p] =
                [set |-> TRUE, minor |-> minor, effective |-> EffectiveAt(p)]]
      <3>1. [set |-> TRUE, minor |-> minor, effective |-> EffectiveAt(p)] \in relayCapRow
        BY <2>1, <2>2 DEF relayCapRow
      <3>2. caps' \in [Months -> relayCapRow]
        BY <2>3, <3>1 DEF TypeOK
      <3> QED BY <1>1, <3>2 DEF SetRelaySpendingCap, TypeOK, relayside
    <2>4. CASE caps' = [caps EXCEPT ![p].minor = minor]
      <3>1. caps' \in [Months -> relayCapRow]
        BY <2>2, <2>4 DEF TypeOK, relayCapRow
      <3> QED BY <1>1, <3>1 DEF SetRelaySpendingCap, TypeOK, relayside
    <2> QED BY <1>1, <2>3, <2>4 DEF SetRelaySpendingCap
  <1>2. ASSUME NEW s \in surrenders, SurrenderRelayCredits(s) PROVE TypeOK'
    <2>1. grants' \in [Grants -> relayCreditGrantRow]
      BY <1>2 DEF SurrenderRelayCredits, TypeOK, relayCreditGrantRow
    <2> QED BY <1>2, <2>1 DEF SurrenderRelayCredits, TypeOK, relayside
  <1>3. ASSUME NEW s \in surrenders, LoseSurrender(s) PROVE TypeOK'
    BY <1>3 DEF LoseSurrender, TypeOK, relayside, store
  <1>4. ASSUME NEW r \in Relays, HandleReserve(r) PROVE TypeOK'
    <2>1. PICK p \in Arrivals(job[r]) :
            \/ ReserveRelayCredits(r, p)
               /\ Becomes(r, [job[r] EXCEPT !.pc = "reply", !.month = p])
            \/ ReserveRefused(r, p) /\ Gone(r) /\ UNCHANGED grants
            \/ /\ ~caps[p].set
               /\ Becomes(r, [job[r] EXCEPT !.pc = "lease", !.month = p])
               /\ UNCHANGED grants
      BY <1>4 DEF HandleReserve
    <2>2. p \in Months
      BY DEF Arrivals, TypeOK, CreditRequest
    <2>3. /\ [job[r] EXCEPT !.pc = "reply", !.month = p] \in CreditRequest
          /\ [job[r] EXCEPT !.pc = "lease", !.month = p] \in CreditRequest
      BY <2>2, Handled DEF TypeOK
    <2>4. job' \in [Relays -> CreditRequest]
      BY <2>1, <2>3, <1>a, <1>b
    <2>5. grants' \in [Grants -> relayCreditGrantRow]
      <3>1. CASE UNCHANGED grants
        BY <3>1 DEF TypeOK
      <3>2. ASSUME NEW n \in 1..Requested, NEW g,
                   grants' = [grants EXCEPT ![g] =
                        [state |-> "issued", granted |-> n, consumed |-> 0]]
            PROVE  grants' \in [Grants -> relayCreditGrantRow]
        <4>1. [state |-> "issued", granted |-> n, consumed |-> 0] \in relayCreditGrantRow
          BY DEF relayCreditGrantRow
        <4> QED BY <3>2, <4>1 DEF TypeOK
      <3> QED BY <2>1, <3>1, <3>2 DEF ReserveRelayCredits
    <2> QED BY <1>4, <2>4, <2>5 DEF HandleReserve, TypeOK, relayside
  <1>5. ASSUME NEW r \in Relays, HandleLease(r) PROVE TypeOK'
    <2>1. /\ [job[r] EXCEPT !.pc = "uncapped"] \in CreditRequest
          /\ [job[r] EXCEPT !.pc = "again"] \in CreditRequest
      BY DEF TypeOK, CreditRequest
    <2>2. job' \in [Relays -> CreditRequest]
      BY <1>5, <2>1, <1>a, <1>b DEF HandleLease
    <2>3. leases' \in [Months -> Nat]
      BY <1>5 DEF HandleLease, IssueAuthorizedRelayUncappedLease, TypeOK
    <2> QED BY <1>5, <2>2, <2>3 DEF HandleLease, TypeOK, relayside
  <1>6. ASSUME NEW r \in Relays, HandleReply(r) PROVE TypeOK'
    <2>0. job[r].month \in Months /\ MonthEnd(job[r].month) \in Nat
      BY MonthBounds DEF TypeOK, CreditRequest
    <2>1. now < MonthEnd(job[r].month) =>
            [job[r] EXCEPT !.pc = "grant", !.valid = MonthEnd(job[r].month) - now]
              \in CreditRequest
      <3> SUFFICES ASSUME now < MonthEnd(job[r].month)
                   PROVE  [job[r] EXCEPT !.pc = "grant", !.valid = MonthEnd(job[r].month) - now]
                            \in CreditRequest
        OBVIOUS
      <3>1. job[r] \in CreditRequest /\ MonthEnd(job[r].month) - now \in Nat
        BY <2>0 DEF TypeOK
      <3> QED BY <3>1, Answered, Zenon
    <2>2. job' \in [Relays -> CreditRequest]
      BY <1>6, <2>1, <1>a, <1>b DEF HandleReply
    <2> QED BY <1>6, <2>2 DEF HandleReply, TypeOK, relayside, store
  <1>7. ASSUME NEW r \in Relays, Lose(r) PROVE TypeOK'
    BY <1>7, <1>b DEF Lose, TypeOK, relayside, store
  <1>8. ASSUME NEW r \in Relays, install_uncapped(r) PROVE TypeOK'
    <2>1. [relay[r] EXCEPT !.mode = "uncapped", !.expires = job[r].started + Lease,
                           !.from = job[r].month, !.held = {}, !.pending = 0] \in Controller
      <3>1. job[r].started + Lease \in Nat /\ job[r].month \in Months /\ relay[r] \in Controller
        BY DEF TypeOK, CreditRequest
      <3>2. {} \in SUBSET CreditGrant /\ "uncapped" \in {"none", "uncapped", "capped"}
        OBVIOUS
      <3> DEFINE e == job[r].started + Lease
                 f == job[r].month
      <3>3. e \in Nat /\ f \in Months
        BY <3>1
      <3> HIDE DEF e, f
      <3>4. Install(relay[r], "uncapped", e, f, {}) \in Controller
        BY <3>1, <3>2, <3>3, Installed
      <3> QED BY <3>4, Zenon DEF e, f, Install
    <2>2. relay' \in [Relays -> Controller]
      BY <1>8, <2>1, <1>c DEF install_uncapped
    <2> QED BY <1>8, <2>2, <1>b DEF install_uncapped, TypeOK, store
  <1>9. ASSUME NEW r \in Relays, install_grant(r) PROVE TypeOK'
    <2> DEFINE h == [grant |-> <<job[r].month, r, relay[r].pending>>,
                     until |-> ValidUntil(job[r])]
    <2>a. job[r].pc = "grant" /\ relay[r] \in Controller /\ job[r] \in CreditRequest
      BY <1>9 DEF install_grant, TypeOK
    <2>b. relay[r].pending # 0
      BY <2>a DEF JobInv
    <2>c. /\ job[r].month \in Months /\ ValidUntil(job[r]) \in Nat
      BY <2>a DEF CreditRequest, ValidUntil
    <2>d. relay[r].pending \in 1..MaxReqs /\ relay[r].held \subseteq CreditGrant
      BY <2>a, <2>b DEF Controller
    <2>0. 0 \in Nat /\ 0 \in Months
      BY DEF Months
    <2>1. h \in CreditGrant
      BY <2>c, <2>d DEF CreditGrant, Grants
    <2> DEFINE hs == relay[r].held \cup {o \in {h} : o.until > now}
    <2>2. hs \in SUBSET CreditGrant
      BY <2>d, <2>1
    <2>3. relay' \in [Relays -> Controller]
      <3>1. relay' = [relay EXCEPT ![r] = Install(relay[r], "capped", 0, 0, hs)]
        BY <1>9, Zenon DEF install_grant, Install
      <3> HIDE DEF hs
      <3>2. Install(relay[r], "capped", 0, 0, hs) \in Controller
        BY <2>0, <2>a, <2>2, Installed
      <3> QED BY <3>1, <3>2, <1>c
    <2> QED BY <1>9, <2>3, <1>b DEF install_grant, TypeOK, store
  <1>10. ASSUME NEW r \in Relays, Send(r) PROVE TypeOK'
    BY <1>10, <1>a, SentRequest DEF Send, TypeOK, relayside, store
  <1>11. ASSUME NEW r \in Relays, Shutdown(r) PROVE TypeOK'
    <2>1. [relay[r] EXCEPT !.closing = TRUE] \in Controller
      BY DEF TypeOK, Controller
    <2>2. relay' \in [Relays -> Controller]
      BY <1>11, <2>1, <1>c DEF Shutdown
    <2> QED BY <1>11, <2>2 DEF Shutdown, TypeOK, store
  <1>d. ASSUME NEW r \in Relays, NEW h \in relay[r].held
        PROVE  h \in CreditGrant /\ h.grant \in Grants /\ h.until \in Nat
    BY <1>d DEF TypeOK, Controller, CreditGrant
  <1>12. ASSUME NEW r \in Relays, take_surrenderable_grants(r) PROVE TypeOK'
    <2>1. relay' \in [Relays -> Controller]
      BY <1>12, RestartedController, <1>c DEF take_surrenderable_grants
    <2>2. surrenders' \subseteq [grant : Grants, consumed : 0..Requested]
      BY <1>12, <1>d DEF take_surrenderable_grants, TypeOK
    <2> QED BY <1>12, <2>1, <2>2, <1>b DEF take_surrenderable_grants, TypeOK, store
  <1>13. ASSUME NEW r \in Relays, Crash(r) PROVE TypeOK'
    <2>1. relay' \in [Relays -> Controller]
      BY <1>13, RestartedController, <1>c DEF Crash
    <2> QED BY <1>13, <2>1, <1>b DEF Crash, TypeOK, store
  <1>14. ASSUME NEW r \in Relays, NEW n \in Sizes, reserve(r, n) PROVE TypeOK'
    <2>1. CASE ReserveUncapped(r, n)
      <3>1. relay' \in [Relays -> Controller]
        BY <2>1, Enqueued, <1>c DEF ReserveUncapped, TypeOK
      <3>2. outside' \in [Months -> Nat]
        BY <2>1 DEF ReserveUncapped, ForwardOutside, TypeOK
      <3> QED BY <1>14, <2>1, <3>1, <3>2 DEF reserve, ReserveUncapped, TypeOK, store
    <2>2. CASE ReserveNothing(r, n)
      <3> DEFINE c == [relay[r] EXCEPT !.mode = "none", !.expires = 0, !.from = 0]
      <3>1. c \in Controller
        BY Cleared DEF TypeOK
      <3>2. relay' \in [Relays -> Controller]
        BY <2>2, <3>1, Enqueued, <1>c DEF ReserveNothing
      <3> QED BY <1>14, <2>2, <3>2 DEF reserve, ReserveNothing, TypeOK, store
    <2>3. CASE ReserveCapped(r, n)
      <3>1. PICK valid, charged, sent : ChargedStep(r, n, valid, charged, sent)
        BY <2>3, ReserveCappedEffect
      <3>2. \A h \in charged : h \in relay[r].held /\ Remaining(h) >= n
        BY <3>1 DEF ChargedStep
      <3>3. n \in Nat /\ n > 0
        OBVIOUS
      <3>4. used' \in [Grants -> 0..Requested]
        <4>1. ASSUME NEW g \in Grants, NEW h \in charged, h.grant = g
              PROVE  used[g] + n \in 0..Requested
          BY <4>1, <3>2, <3>3 DEF Remaining, TypeOK, relayCreditGrantRow
        <4>2. used' = [g \in Grants |-> IF \E h \in charged : h.grant = g
                                         THEN used[g] + n ELSE used[g]]
          BY <3>1 DEF ChargedStep
        <4> QED BY <4>1, <4>2 DEF TypeOK
      <3>5. surrenders' \subseteq [grant : Grants, consumed : 0..Requested]
        <4>1. \A h \in sent : h.grant \in Grants /\ grants[h.grant].granted \in 0..Requested
          BY <3>1, <1>d DEF ChargedStep, TypeOK, relayCreditGrantRow
        <4>2. surrenders' = surrenders \cup
                {[grant |-> h.grant, consumed |-> grants[h.grant].granted] : h \in sent}
          BY <3>1 DEF ChargedStep
        <4> QED BY <4>1, <4>2 DEF TypeOK
      <3>6. relay' \in [Relays -> Controller]
        <4> DEFINE rest == [relay[r] EXCEPT !.held = valid \ sent]
        <4>1. valid \ sent \subseteq CreditGrant
          BY <3>1, <1>d DEF ChargedStep
        <4>2. rest \in Controller
          BY <4>1 DEF TypeOK, Controller
        <4> HIDE DEF rest
        <4>3. relay' = [relay EXCEPT ![r] = enqueue(rest)] \/ relay' = [relay EXCEPT ![r] = rest]
          BY <3>1 DEF ChargedStep, rest
        <4> QED BY <4>2, <4>3, Enqueued, <1>c
      <3>7. outside' = outside
        BY <2>3 DEF ReserveCapped
      <3> QED BY <1>14, <3>4, <3>5, <3>6, <3>7 DEF reserve, TypeOK, store
    <2> QED BY <1>14, <2>1, <2>2, <2>3 DEF reserve
  <1>15. CASE Tick
    BY <1>15 DEF Tick, TypeOK, store, relayside
  <1>16. ASSUME NEW r \in Relays, NEW n \in Sizes, ForwardDetached(r, n) PROVE TypeOK'
    <2>1. outside' \in [Months -> Nat]
      BY <1>16 DEF ForwardDetached, ForwardOutside, TypeOK
    <2> QED BY <1>16, <2>1 DEF ForwardDetached, TypeOK, store
  <1>17. CASE UNCHANGED vars
    BY <1>17 DEF vars, TypeOK
  <1> QED
    BY <1>1, <1>2, <1>3, <1>4, <1>5, <1>6, <1>7, <1>8, <1>9, <1>10, <1>11, <1>12, <1>13,
       <1>14, <1>15, <1>16, <1>17 DEF Next

-----------------------------------------------------------------------------
(* The inductive invariant. *)

\* A lease a relay counts on, or is about to, ends no later than the row the
\* control plane keeps of it, and a cap waits for that row.
FenceInv ==
    /\ \A r \in Relays : job[r].pc # "none" => job[r].started <= now
    /\ \A p \in Months : leases[p] <= now + Lease
    /\ \A p \in Months : caps[p].set => leases[p] <= caps[p].effective
    /\ \A r \in Relays :
        job[r].pc = "uncapped" => job[r].started + Lease <= leases[job[r].month]
    /\ \A r \in Relays :
        relay[r].mode = "uncapped" => relay[r].expires <= leases[relay[r].from]

\* A handler works for a month that has begun; a grant, held or on its way,
\* is of such a month and does not outlast it.
MonthInv ==
    /\ \A r \in Relays :
        job[r].pc \notin {"none", "sent"} => MonthStart(job[r].month) <= now
    /\ \A r \in Relays :
        job[r].pc = "grant" => job[r].started + job[r].valid <= MonthEnd(job[r].month)
    /\ \A r \in Relays : \A h \in relay[r].held :
        MonthStart(h.grant[1]) <= now /\ h.until <= MonthEnd(h.grant[1])

\* The relay of grant g has let go of it and cannot be given it again.
LetGo(g) ==
    /\ \A h \in relay[g[2]].held : h.grant # g
    /\ relay[g[2]].pending # g[3]
    /\ g[3] <= relay[g[2]].next

\* Numbers are drawn in order; what is held was granted to its holder under
\* an answered request.
HeldInv ==
    /\ \A r \in Relays : relay[r].pending <= relay[r].next
    /\ \A r \in Relays : job[r].pc \in {"reply", "grant"} =>
          grants[<<job[r].month, r, relay[r].pending>>].state # "none"
    /\ \A r \in Relays : \A h \in relay[r].held :
          /\ h.grant[2] = r /\ h.grant[3] <= relay[r].next
          /\ h.grant[3] # relay[r].pending
          /\ grants[h.grant].state # "none"

\* The counts of grants the relay has let go of do not change any more.
CountInv ==
    /\ \A g \in Grants : grants[g].state = "none" => used[g] = 0
    /\ \A s \in surrenders : s.consumed = used[s.grant] /\ LetGo(s.grant)
    /\ \A g \in Grants : grants[g].state = "surrendered" =>
          grants[g].consumed = used[g] /\ LetGo(g)

IInv == TypeOK /\ JobInv /\ FenceInv /\ MonthInv /\ HeldInv /\ CountInv

LEMMA IInvInit == Init => IInv
  <1> SUFFICES ASSUME Init PROVE IInv
    OBVIOUS
  <1>1. TypeOK
    BY TypeInit
  <1>2. \A r \in Relays : /\ job[r].pc = "none" /\ relay[r].mode = "none"
                          /\ relay[r].held = {} /\ relay[r].pending = 0 /\ relay[r].next = 0
    BY DEF Init, NoJob, Fresh
  <1>3. now = 0 /\ surrenders = {} /\ Lease \in Nat
    BY TimeAssumption DEF Init
  <1>4. \A p \in Months : ~caps[p].set /\ leases[p] = 0
    BY DEF Init
  <1>5. \A g \in Grants : grants[g].state = "none" /\ used[g] = 0
    BY DEF Init
  <1>6. JobInv
    BY <1>2 DEF JobInv
  <1>7. FenceInv
    BY <1>2, <1>3, <1>4 DEF FenceInv
  <1>8. MonthInv
    BY <1>2 DEF MonthInv
  <1>9. HeldInv
    BY <1>2 DEF HeldInv
  <1>10. CountInv
    BY <1>3, <1>5 DEF CountInv
  <1> QED BY <1>1, <1>6, <1>7, <1>8, <1>9, <1>10 DEF IInv

-----------------------------------------------------------------------------
(* What the actions do to one relay and its job. *)

OtherRelays(r) == \A q \in Relays : q # r => relay'[q] = relay[q]
OtherJobs(r) == \A q \in Relays : q # r => job'[q] = job[q]

LEMMA JobGone ==
    ASSUME TypeOK, NEW r \in Relays, Gone(r)
    PROVE  job'[r].pc = "none" /\ OtherJobs(r)
  <1>1. NoJob.pc = "none"
    BY DEF NoJob
  <1> QED BY <1>1 DEF Gone, Becomes, TypeOK, OtherJobs

LEMMA JobBecomes ==
    ASSUME TypeOK, NEW r \in Relays, NEW j, Becomes(r, j)
    PROVE  job'[r] = j /\ OtherJobs(r)
  BY DEF Becomes, TypeOK, OtherJobs

LEMMA RelayBecomes ==
    ASSUME TypeOK, NEW r \in Relays, NEW c, relay' = [relay EXCEPT ![r] = c]
    PROVE  relay'[r] = c /\ OtherRelays(r)
  BY DEF TypeOK, OtherRelays

OpenedOrSame(o, g) ==
    \/ grants'[o] = grants[o]
    \/ o = g /\ grants[o].state = "none" /\ grants'[o].state = "issued"

\* The handler's first transaction.
ReserveHandled(r) ==
    /\ OtherJobs(r)
    /\ job[r].pc \in {"sent", "again"}
    /\ \/ job'[r].pc = "none" /\ grants' = grants
       \/ /\ job'[r].pc \in {"lease", "reply"}
          /\ job'[r].started = job[r].started
          /\ job'[r].month \in Arrivals(job[r])
          /\ \/ job'[r].pc = "lease" /\ grants' = grants
             \/ /\ job'[r].pc = "reply"
                /\ LET g == <<job'[r].month, r, relay[r].pending>> IN
                   /\ grants'[g].state # "none"
                   /\ \A o \in Grants : OpenedOrSame(o, g)

LEMMA HandleReserveEffect ==
    ASSUME TypeOK, JobInv, NEW r \in Relays, HandleReserve(r)
    PROVE  ReserveHandled(r)
  <1>1. PICK p \in Arrivals(job[r]) :
            \/ ReserveRelayCredits(r, p)
               /\ Becomes(r, [job[r] EXCEPT !.pc = "reply", !.month = p])
            \/ ReserveRefused(r, p) /\ Gone(r) /\ UNCHANGED grants
            \/ /\ ~caps[p].set
               /\ Becomes(r, [job[r] EXCEPT !.pc = "lease", !.month = p])
               /\ UNCHANGED grants
    BY DEF HandleReserve
  <1>2. p \in Months /\ job[r] \in CreditRequest
    BY DEF Arrivals, TypeOK, CreditRequest
  <1>3. job[r].pc \in {"sent", "again"}
    BY DEF HandleReserve
  <1>4. CASE Gone(r) /\ UNCHANGED grants
    BY <1>3, <1>4, JobGone DEF ReserveHandled
  <1>5. CASE /\ Becomes(r, [job[r] EXCEPT !.pc = "lease", !.month = p])
             /\ UNCHANGED grants
    <2>1. PICK k : k = [job[r] EXCEPT !.pc = "lease", !.month = p]
      OBVIOUS
    <2>2. k.pc = "lease" /\ k.month = p /\ k.started = job[r].started
      BY <1>2, <2>1, Handled
    <2>3. job'[r] = k /\ OtherJobs(r)
      BY <1>5, <2>1, JobBecomes
    <2> QED BY <1>3, <1>5, <2>2, <2>3 DEF ReserveHandled
  <1>6. CASE ReserveRelayCredits(r, p)
             /\ Becomes(r, [job[r] EXCEPT !.pc = "reply", !.month = p])
    <2>1. PICK k : k = [job[r] EXCEPT !.pc = "reply", !.month = p]
      OBVIOUS
    <2>2. k.pc = "reply" /\ k.month = p /\ k.started = job[r].started
      BY <1>2, <2>1, Handled
    <2>3. job'[r] = k /\ OtherJobs(r)
      BY <1>6, <2>1, JobBecomes
    <2>4. PICK g : g = <<p, r, relay[r].pending>>
      OBVIOUS
    <2>5. g \in Grants
      <3>1. relay[r].pending \in 1..MaxReqs
        BY <1>3 DEF JobInv, TypeOK, Controller
      <3> QED BY <3>1, <1>2, <2>4 DEF Grants
    <2>6. /\ grants'[g].state # "none"
          /\ \A o \in Grants : OpenedOrSame(o, g)
      <3>1. CASE grants[g].state # "none" /\ UNCHANGED grants
        BY <3>1 DEF OpenedOrSame
      <3>2. ASSUME grants[g].state = "none", NEW n,
                   grants' = [grants EXCEPT ![g] =
                        [state |-> "issued", granted |-> n, consumed |-> 0]]
            PROVE  /\ grants'[g].state # "none"
                   /\ \A o \in Grants : OpenedOrSame(o, g)
        BY <3>2, <2>5 DEF TypeOK, OpenedOrSame
      <3> QED BY <1>6, <2>4, <3>1, <3>2 DEF ReserveRelayCredits
    <2>7. g = <<job'[r].month, r, relay[r].pending>>
      BY <2>2, <2>3, <2>4
    <2> QED BY <1>3, <2>2, <2>3, <2>6, <2>7 DEF ReserveHandled
  <1> QED BY <1>1, <1>4, <1>5, <1>6

\* The relay of r drew a request number, or not.
Drew(r) ==
    \/ relay'[r].pending = relay[r].pending /\ relay'[r].next = relay[r].next
    \/ /\ relay[r].pending = 0
       /\ relay'[r].pending = relay[r].next + 1 /\ relay'[r].next = relay[r].next + 1

\* A payload, admitted or not, only takes from what the relay may forward.
PayloadOffered(r) ==
    /\ OtherRelays(r) /\ Drew(r)
    /\ relay'[r].held \subseteq relay[r].held
    /\ relay'[r].mode = "uncapped" =>
          /\ relay[r].mode = "uncapped"
          /\ relay'[r].expires = relay[r].expires /\ relay'[r].from = relay[r].from

LEMMA ReserveEffect ==
    ASSUME TypeOK, NEW r \in Relays, NEW n \in Sizes, reserve(r, n)
    PROVE  PayloadOffered(r)
  <1>0. relay[r] \in Controller
    BY DEF TypeOK
  <1>1. ASSUME NEW c \in Controller, c.pending = relay[r].pending, c.next = relay[r].next,
               c.held \subseteq relay[r].held,
               c.mode = "uncapped" => /\ relay[r].mode = "uncapped"
                                      /\ c.expires = relay[r].expires
                                      /\ c.from = relay[r].from,
               \/ relay' = [relay EXCEPT ![r] = enqueue(c)]
               \/ relay' = [relay EXCEPT ![r] = c]
        PROVE  PayloadOffered(r)
    <2>1. CASE relay' = [relay EXCEPT ![r] = enqueue(c)]
      <3>1. relay'[r] = enqueue(c) /\ OtherRelays(r)
        BY <2>1, RelayBecomes
      <3> QED BY <1>1, <3>1, Enqueued DEF PayloadOffered, Drew
    <2>2. CASE relay' = [relay EXCEPT ![r] = c]
      <3>1. relay'[r] = c /\ OtherRelays(r)
        BY <2>2, RelayBecomes
      <3> QED BY <1>1, <3>1 DEF PayloadOffered, Drew
    <2> QED BY <1>1, <2>1, <2>2
  <1>2. CASE ReserveUncapped(r, n)
    <2>1. \/ relay' = [relay EXCEPT ![r] = enqueue(relay[r])]
          \/ relay' = [relay EXCEPT ![r] = relay[r]]
      BY <1>2 DEF ReserveUncapped
    <2> QED BY <1>0, <1>1, <2>1
  <1>3. CASE ReserveNothing(r, n)
    <2>1. PICK c : c = [relay[r] EXCEPT !.mode = "none", !.expires = 0, !.from = 0]
      OBVIOUS
    <2>2. /\ c \in Controller /\ c.mode = "none" /\ c.held = relay[r].held
          /\ c.pending = relay[r].pending /\ c.next = relay[r].next
      BY <1>0, <2>1, Cleared
    <2>3. relay' = [relay EXCEPT ![r] = enqueue(c)]
      BY <1>3, <2>1 DEF ReserveNothing
    <2> QED BY <2>2, <2>3, <1>1
  <1>4. CASE ReserveCapped(r, n)
    <2>1. PICK valid, charged, sent : ChargedStep(r, n, valid, charged, sent)
      BY <1>4, ReserveCappedEffect
    <2>2. PICK c : c = [relay[r] EXCEPT !.held = valid \ sent]
      OBVIOUS
    <2>3. valid \ sent \subseteq relay[r].held
      BY <2>1 DEF ChargedStep
    <2>4. /\ c \in Controller /\ c.mode = relay[r].mode /\ c.held = valid \ sent
          /\ c.pending = relay[r].pending /\ c.next = relay[r].next
          /\ c.expires = relay[r].expires /\ c.from = relay[r].from
      BY <1>0, <2>2, <2>3 DEF Controller
    <2>5. \/ relay' = [relay EXCEPT ![r] = enqueue(c)]
          \/ relay' = [relay EXCEPT ![r] = c]
      BY <2>1, <2>2 DEF ChargedStep
    <2> QED BY <2>3, <2>4, <2>5, <1>1
  <1> QED BY <1>2, <1>3, <1>4 DEF reserve

LEMMA InstallUncappedEffect ==
    ASSUME TypeOK, NEW r \in Relays, install_uncapped(r)
    PROVE  /\ job[r].pc = "uncapped" /\ job'[r].pc = "none" /\ OtherJobs(r) /\ OtherRelays(r)
           /\ relay'[r].mode = "uncapped" /\ relay'[r].expires = job[r].started + Lease
           /\ relay'[r].from = job[r].month /\ relay'[r].held = {}
           /\ relay'[r].pending = 0 /\ relay'[r].next = relay[r].next
  <1>1. PICK e : e = job[r].started + Lease
    OBVIOUS
  <1>2. PICK f : f = job[r].month
    OBVIOUS
  <1>3. e \in Nat /\ f \in Months /\ relay[r] \in Controller
    BY <1>1, <1>2, TimeAssumption DEF TypeOK, CreditRequest
  <1>4. {} \in SUBSET CreditGrant /\ "uncapped" \in {"none", "uncapped", "capped"}
    OBVIOUS
  <1>5. PICK c : c = Install(relay[r], "uncapped", e, f, {})
    OBVIOUS
  <1>6. /\ c.mode = "uncapped" /\ c.expires = e /\ c.from = f /\ c.held = {}
        /\ c.pending = 0 /\ c.next = relay[r].next
    BY <1>3, <1>4, <1>5, Installed
  <1>7. relay' = [relay EXCEPT ![r] = c]
    BY <1>1, <1>2, <1>5, Zenon DEF install_uncapped, Install
  <1>8. relay'[r] = c /\ OtherRelays(r)
    BY <1>7, RelayBecomes
  <1>9. job[r].pc = "uncapped" /\ Gone(r)
    BY DEF install_uncapped
  <1> QED BY <1>1, <1>2, <1>6, <1>8, <1>9, JobGone

LEMMA InstallGrantEffect ==
    ASSUME TypeOK, JobInv, NEW r \in Relays, install_grant(r)
    PROVE  /\ job[r].pc = "grant" /\ job'[r].pc = "none" /\ OtherJobs(r) /\ OtherRelays(r)
           /\ relay'[r].mode = "capped" /\ relay'[r].pending = 0
           /\ relay'[r].next = relay[r].next
           /\ \A h \in relay'[r].held :
                \/ h \in relay[r].held
                \/ /\ h.grant = <<job[r].month, r, relay[r].pending>>
                   /\ h.until = job[r].started + job[r].valid
  <1>1. job[r].pc = "grant" /\ Gone(r) /\ relay[r] \in Controller /\ job[r] \in CreditRequest
    BY DEF install_grant, TypeOK
  <1>2. PICK h : h = [grant |-> <<job[r].month, r, relay[r].pending>>,
                      until |-> ValidUntil(job[r])]
    OBVIOUS
  <1>3. /\ h.grant = <<job[r].month, r, relay[r].pending>>
        /\ h.until = job[r].started + job[r].valid
    BY <1>2 DEF ValidUntil
  <1>4. h \in CreditGrant
    <2>1. relay[r].pending \in 1..MaxReqs
      BY <1>1 DEF JobInv, Controller
    <2>2. job[r].month \in Months /\ ValidUntil(job[r]) \in Nat
      BY <1>1 DEF CreditRequest, ValidUntil
    <2> QED BY <2>1, <2>2, <1>2 DEF CreditGrant, Grants
  <1>5. PICK hs : hs = relay[r].held \cup {o \in {h} : o.until > now}
    OBVIOUS
  <1>6. hs \in SUBSET CreditGrant /\ 0 \in Nat /\ 0 \in Months
    BY <1>1, <1>4, <1>5, TimeAssumption DEF Controller, Months
  <1>7. PICK c : c = Install(relay[r], "capped", 0, 0, hs)
    OBVIOUS
  <1>8. c.mode = "capped" /\ c.held = hs /\ c.pending = 0 /\ c.next = relay[r].next
    BY <1>1, <1>6, <1>7, Installed
  <1>9. relay' = [relay EXCEPT ![r] = c]
    BY <1>2, <1>5, <1>7, Zenon DEF install_grant, Install
  <1>10. relay'[r] = c /\ OtherRelays(r)
    BY <1>9, RelayBecomes
  <1>11. \A o \in hs : o \in relay[r].held \/ o = h
    BY <1>5
  <1> QED BY <1>1, <1>3, <1>8, <1>10, <1>11, JobGone

\* The process of r is replaced by a new one.
RelayRestarted(r) ==
    /\ job'[r].pc = "none" /\ OtherJobs(r) /\ OtherRelays(r)
    /\ relay'[r].mode = "none" /\ relay'[r].held = {}
    /\ relay'[r].pending = 0 /\ relay'[r].next = relay[r].next

LEMMA RestartEffect ==
    ASSUME TypeOK, NEW r \in Relays, take_surrenderable_grants(r) \/ Crash(r)
    PROVE  RelayRestarted(r)
  <1>1. Gone(r) /\ relay' = [relay EXCEPT ![r] = Restarted(r)]
    BY DEF take_surrenderable_grants, Crash
  <1>2. relay'[r] = Restarted(r) /\ OtherRelays(r)
    BY <1>1, RelayBecomes
  <1> QED BY <1>1, <1>2, JobGone, RestartedController DEF RelayRestarted

LEMMA ShutdownEffect ==
    ASSUME TypeOK, NEW r \in Relays, Shutdown(r)
    PROVE  /\ OtherRelays(r)
           /\ relay'[r].mode = relay[r].mode /\ relay'[r].expires = relay[r].expires
           /\ relay'[r].from = relay[r].from /\ relay'[r].held = relay[r].held
           /\ relay'[r].pending = relay[r].pending /\ relay'[r].next = relay[r].next
  <1>1. relay[r] \in Controller
    BY DEF TypeOK
  <1>2. PICK c : c = [relay[r] EXCEPT !.closing = TRUE]
    OBVIOUS
  <1>3. /\ c.mode = relay[r].mode /\ c.expires = relay[r].expires /\ c.from = relay[r].from
        /\ c.held = relay[r].held /\ c.pending = relay[r].pending /\ c.next = relay[r].next
    BY <1>1, <1>2 DEF Controller
  <1>4. relay'[r] = c /\ OtherRelays(r)
    BY <1>2, RelayBecomes DEF Shutdown
  <1> QED BY <1>3, <1>4

LEMMA HandleLeaseEffect ==
    ASSUME TypeOK, NEW r \in Relays, HandleLease(r)
    PROVE  /\ job[r].pc = "lease" /\ OtherJobs(r)
           /\ \/ job'[r].pc = "none" /\ leases' = leases
              \/ /\ job'[r].pc = "again" /\ leases' = leases
                 /\ job'[r].started = job[r].started /\ job'[r].month = job[r].month
              \/ /\ job'[r].pc = "uncapped"
                 /\ job'[r].started = job[r].started /\ job'[r].month = job[r].month
                 /\ IssueAuthorizedRelayUncappedLease(r, job[r].month)
  <1>1. job[r] \in CreditRequest /\ job[r].pc = "lease"
    BY DEF TypeOK, HandleLease
  <1>2. PICK a : a = [job[r] EXCEPT !.pc = "again"]
    OBVIOUS
  <1>3. PICK u : u = [job[r] EXCEPT !.pc = "uncapped"]
    OBVIOUS
  <1>4. /\ a.pc = "again" /\ a.started = job[r].started /\ a.month = job[r].month
        /\ u.pc = "uncapped" /\ u.started = job[r].started /\ u.month = job[r].month
    BY <1>1, <1>2, <1>3 DEF CreditRequest
  <1>5. \/ Gone(r) /\ leases' = leases
        \/ Becomes(r, a) /\ leases' = leases
        \/ Becomes(r, u) /\ IssueAuthorizedRelayUncappedLease(r, job[r].month)
    BY <1>2, <1>3 DEF HandleLease
  <1> QED BY <1>1, <1>4, <1>5, JobGone, JobBecomes

LEMMA HandleReplyEffect ==
    ASSUME TypeOK, NEW r \in Relays, HandleReply(r)
    PROVE  /\ job[r].pc = "reply" /\ OtherJobs(r)
           /\ \/ job'[r].pc = "none"
              \/ /\ job'[r].pc = "grant" /\ now < MonthEnd(job[r].month)
                 /\ job'[r].started = job[r].started /\ job'[r].month = job[r].month
                 /\ job'[r].valid = MonthEnd(job[r].month) - now
  <1>1. job[r] \in CreditRequest /\ job[r].pc = "reply"
    BY DEF TypeOK, HandleReply
  <1>2. CASE Gone(r)
    BY <1>1, <1>2, JobGone
  <1>3. CASE /\ now < MonthEnd(job[r].month)
             /\ Becomes(r, [job[r] EXCEPT !.pc = "grant", !.valid = MonthEnd(job[r].month) - now])
    <2>1. PICK v : v = MonthEnd(job[r].month) - now
      OBVIOUS
    <2>2. v \in Nat
      BY <1>1, <1>3, <2>1, MonthBounds DEF CreditRequest, TypeOK
    <2>3. PICK k : k = [job[r] EXCEPT !.pc = "grant", !.valid = v]
      OBVIOUS
    <2>4. k.pc = "grant" /\ k.month = job[r].month /\ k.started = job[r].started /\ k.valid = v
      BY <1>1, <2>2, <2>3, Answered
    <2>5. job'[r] = k /\ OtherJobs(r)
      BY <1>3, <2>1, <2>3, JobBecomes
    <2> QED BY <1>1, <1>3, <2>1, <2>4, <2>5
  <1> QED BY <1>2, <1>3 DEF HandleReply

LEMMA SendEffect ==
    ASSUME TypeOK, NEW r \in Relays, Send(r)
    PROVE  /\ relay[r].pending # 0 /\ OtherJobs(r)
           /\ job'[r].pc = "sent" /\ job'[r].started = now
  BY SentRequest, JobBecomes DEF Send

-----------------------------------------------------------------------------
(* The steps, one invariant at a time. *)

LEMMA JobStep == TypeOK /\ JobInv /\ [Next]_vars => JobInv'
  <1> SUFFICES ASSUME TypeOK, JobInv, [Next]_vars PROVE JobInv'
    OBVIOUS
  <1>0. \A q \in Relays : relay[q].next \in 0..MaxReqs
    BY DEF TypeOK, Controller
  <1>1. ASSUME NEW p \in Months, NEW minor \in Overages, SetRelaySpendingCap(p, minor)
        PROVE  JobInv'
    BY <1>1 DEF SetRelaySpendingCap, relayside, JobInv
  <1>2. ASSUME NEW s \in surrenders, SurrenderRelayCredits(s) \/ LoseSurrender(s)
        PROVE  JobInv'
    BY <1>2 DEF SurrenderRelayCredits, LoseSurrender, relayside, JobInv
  <1>3. ASSUME NEW r \in Relays, HandleReserve(r) PROVE JobInv'
    <2>1. ReserveHandled(r) /\ relay' = relay
      BY <1>3, HandleReserveEffect DEF HandleReserve, relayside
    <2> QED BY <2>1 DEF ReserveHandled, OtherJobs, JobInv
  <1>4. ASSUME NEW r \in Relays, HandleLease(r) PROVE JobInv'
    <2>1. relay' = relay
      BY <1>4 DEF HandleLease, relayside
    <2> QED BY <1>4, <2>1, HandleLeaseEffect DEF OtherJobs, JobInv
  <1>5. ASSUME NEW r \in Relays, HandleReply(r) PROVE JobInv'
    <2>1. relay' = relay
      BY <1>5 DEF HandleReply, relayside
    <2> QED BY <1>5, <2>1, HandleReplyEffect DEF OtherJobs, JobInv
  <1>6. ASSUME NEW r \in Relays, Lose(r) PROVE JobInv'
    BY <1>6, JobGone DEF Lose, relayside, OtherJobs, JobInv
  <1>7. ASSUME NEW r \in Relays, install_uncapped(r) PROVE JobInv'
    BY <1>7, InstallUncappedEffect DEF OtherJobs, OtherRelays, JobInv
  <1>8. ASSUME NEW r \in Relays, install_grant(r) PROVE JobInv'
    BY <1>8, InstallGrantEffect DEF OtherJobs, OtherRelays, JobInv
  <1>9. ASSUME NEW r \in Relays, Send(r) PROVE JobInv'
    BY <1>9, SendEffect DEF Send, relayside, OtherJobs, JobInv
  <1>10. ASSUME NEW r \in Relays, Shutdown(r) PROVE JobInv'
    BY <1>10, ShutdownEffect DEF Shutdown, OtherRelays, JobInv
  <1>11. ASSUME NEW r \in Relays, take_surrenderable_grants(r) \/ Crash(r) PROVE JobInv'
    BY <1>11, RestartEffect DEF RelayRestarted, OtherJobs, OtherRelays, JobInv
  <1>12. ASSUME NEW r \in Relays, NEW n \in Sizes, reserve(r, n) PROVE JobInv'
    <2>1. job' = job
      BY <1>12 DEF reserve
    <2> QED BY <1>0, <1>12, <2>1, ReserveEffect DEF PayloadOffered, Drew, OtherRelays, JobInv
  <1>13. CASE Tick
    BY <1>13 DEF Tick, relayside, JobInv
  <1>14. ASSUME NEW r \in Relays, NEW n \in Sizes, ForwardDetached(r, n) PROVE JobInv'
    <2>1. UNCHANGED <<relay, job>>
      BY <1>14 DEF ForwardDetached
    <2> QED BY <2>1 DEF JobInv
  <1>15. CASE UNCHANGED vars
    BY <1>15 DEF vars, JobInv
  <1> QED
    BY <1>1, <1>2, <1>3, <1>4, <1>5, <1>6, <1>7, <1>8, <1>9, <1>10, <1>11, <1>12, <1>13,
       <1>14, <1>15 DEF Next

LEMMA FenceStep == TypeOK /\ JobInv /\ FenceInv /\ [Next]_vars => FenceInv'
  <1> SUFFICES ASSUME TypeOK, JobInv, FenceInv, [Next]_vars PROVE FenceInv'
    OBVIOUS
  <1> USE TimeAssumption
  <1>0. /\ now \in Nat
        /\ \A p \in Months : leases[p] \in Nat /\ caps[p].effective \in Nat
        /\ \A q \in Relays : /\ job[q].started \in Nat /\ job[q].month \in Months
                             /\ relay[q].expires \in Nat /\ relay[q].from \in Months
    BY DEF TypeOK, relayCapRow, CreditRequest, Controller
  <1>1. ASSUME NEW p \in Months, NEW minor \in Overages, SetRelaySpendingCap(p, minor)
        PROVE  FenceInv'
    <2>1. UNCHANGED <<now, leases, relay, job>>
      BY <1>1 DEF SetRelaySpendingCap, relayside
    <2>2. leases[p] <= EffectiveAt(p)
      BY <1>0 DEF EffectiveAt
    <2>3. \A q \in Months : \/ caps'[q].set = caps[q].set /\ caps'[q].effective = caps[q].effective
                            \/ q = p /\ caps'[q].effective = EffectiveAt(p)
      BY <1>1 DEF SetRelaySpendingCap, TypeOK, relayCapRow
    <2> QED BY <2>1, <2>2, <2>3 DEF FenceInv
  <1>2. ASSUME NEW s \in surrenders, SurrenderRelayCredits(s) \/ LoseSurrender(s)
        PROVE  FenceInv'
    BY <1>2 DEF SurrenderRelayCredits, LoseSurrender, relayside, store, FenceInv
  <1>3. ASSUME NEW r \in Relays, HandleReserve(r) PROVE FenceInv'
    <2>1. UNCHANGED <<now, caps, leases, relay>>
      BY <1>3 DEF HandleReserve, relayside
    <2>2. ReserveHandled(r)
      BY <1>3, HandleReserveEffect
    <2> QED BY <2>1, <2>2 DEF ReserveHandled, OtherJobs, FenceInv
  <1>4. ASSUME NEW r \in Relays, HandleLease(r) PROVE FenceInv'
    <2>1. UNCHANGED <<now, caps, relay>>
      BY <1>4 DEF HandleLease, relayside
    <2>2. CASE leases' = leases /\ job'[r].pc # "uncapped"
      BY <1>4, <2>1, <2>2, HandleLeaseEffect DEF OtherJobs, FenceInv
    <2>3. CASE /\ job'[r].pc = "uncapped"
               /\ job'[r].started = job[r].started /\ job'[r].month = job[r].month
               /\ IssueAuthorizedRelayUncappedLease(r, job[r].month)
      <3>1. \A p \in Months : /\ leases[p] <= leases'[p] /\ leases'[p] <= now + Lease
                              /\ leases'[p] \in Nat
                              /\ caps[p].set => leases'[p] = leases[p]
        BY <1>0, <2>3 DEF IssueAuthorizedRelayUncappedLease, FenceInv, TypeOK
      <3>2. leases'[job[r].month] = now + Lease
        BY <1>0, <2>3 DEF IssueAuthorizedRelayUncappedLease, TypeOK
      <3>3. \A q \in Relays : job'[q].pc # "none" => job'[q].started <= now
        BY <1>4, <2>3, HandleLeaseEffect DEF OtherJobs, FenceInv
      <3>4. \A q \in Relays :
                job'[q].pc = "uncapped" => job'[q].started + Lease <= leases'[job'[q].month]
        <4>1. ASSUME NEW q \in Relays, q # r, job'[q].pc = "uncapped"
              PROVE  job'[q].started + Lease <= leases'[job'[q].month]
          <5>1. job'[q] = job[q]
            BY <1>4, <4>1, HandleLeaseEffect DEF OtherJobs
          <5>2. job[q].started + Lease <= leases[job[q].month]
            BY <4>1, <5>1 DEF FenceInv
          <5> QED BY <1>0, <3>1, <5>1, <5>2
        <4>2. job'[r].started + Lease <= leases'[job'[r].month]
          <5>1. job[r].started <= now
            BY <1>4, HandleLeaseEffect DEF FenceInv
          <5> QED BY <1>0, <2>3, <3>2, <5>1
        <4> QED BY <4>1, <4>2
      <3>5. \A q \in Relays :
                relay[q].mode = "uncapped" => relay[q].expires <= leases'[relay[q].from]
        BY <1>0, <3>1 DEF FenceInv
      <3>6. \A p \in Months : caps[p].set => leases'[p] <= caps[p].effective
        BY <3>1 DEF FenceInv
      <3> QED BY <2>1, <3>1, <3>3, <3>4, <3>5, <3>6 DEF FenceInv
    <2> QED BY <1>4, <2>2, <2>3, HandleLeaseEffect
  <1>5. ASSUME NEW r \in Relays, HandleReply(r) PROVE FenceInv'
    <2>1. UNCHANGED <<now, caps, leases, relay>>
      BY <1>5 DEF HandleReply, relayside, store
    <2> QED BY <1>5, <2>1, HandleReplyEffect DEF OtherJobs, FenceInv
  <1>6. ASSUME NEW r \in Relays, Lose(r) PROVE FenceInv'
    BY <1>6, JobGone DEF Lose, relayside, store, OtherJobs, FenceInv
  <1>7. ASSUME NEW r \in Relays, install_uncapped(r) PROVE FenceInv'
    <2>1. UNCHANGED <<now, caps, leases>>
      BY <1>7 DEF install_uncapped, store
    <2> QED BY <1>7, <2>1, InstallUncappedEffect DEF OtherJobs, OtherRelays, FenceInv
  <1>8. ASSUME NEW r \in Relays, install_grant(r) PROVE FenceInv'
    <2>1. UNCHANGED <<now, caps, leases>>
      BY <1>8 DEF install_grant, store
    <2> QED BY <1>8, <2>1, InstallGrantEffect DEF OtherJobs, OtherRelays, FenceInv
  <1>9. ASSUME NEW r \in Relays, Send(r) PROVE FenceInv'
    <2>1. UNCHANGED <<now, caps, leases, relay>>
      BY <1>9 DEF Send, relayside, store
    <2> QED BY <1>0, <1>9, <2>1, SendEffect DEF OtherJobs, FenceInv
  <1>10. ASSUME NEW r \in Relays, Shutdown(r) PROVE FenceInv'
    <2>1. UNCHANGED <<now, caps, leases, job>>
      BY <1>10 DEF Shutdown, store
    <2> QED BY <1>10, <2>1, ShutdownEffect DEF OtherRelays, FenceInv
  <1>11. ASSUME NEW r \in Relays, take_surrenderable_grants(r) \/ Crash(r) PROVE FenceInv'
    <2>1. UNCHANGED <<now, caps, leases>>
      BY <1>11 DEF take_surrenderable_grants, Crash, store
    <2> QED BY <1>11, <2>1, RestartEffect DEF RelayRestarted, OtherJobs, OtherRelays, FenceInv
  <1>12. ASSUME NEW r \in Relays, NEW n \in Sizes, reserve(r, n) PROVE FenceInv'
    <2>1. UNCHANGED <<now, caps, leases, job>>
      BY <1>12 DEF reserve, store
    <2> QED BY <1>12, <2>1, ReserveEffect DEF PayloadOffered, OtherRelays, FenceInv
  <1>13. CASE Tick
    <2>1. UNCHANGED <<caps, leases, relay, job>> /\ now' = now + 1
      BY <1>13 DEF Tick, relayside, store
    <2> QED BY <1>0, <2>1 DEF FenceInv
  <1>14. ASSUME NEW r \in Relays, NEW n \in Sizes, ForwardDetached(r, n) PROVE FenceInv'
    <2>1. UNCHANGED <<now, caps, leases, relay, job>>
      BY <1>14 DEF ForwardDetached, store
    <2> QED BY <2>1 DEF FenceInv
  <1>15. CASE UNCHANGED vars
    BY <1>15 DEF vars, FenceInv
  <1> QED
    BY <1>1, <1>2, <1>3, <1>4, <1>5, <1>6, <1>7, <1>8, <1>9, <1>10, <1>11, <1>12, <1>13,
       <1>14, <1>15 DEF Next

LEMMA MonthStep == TypeOK /\ JobInv /\ FenceInv /\ MonthInv /\ [Next]_vars => MonthInv'
  <1> SUFFICES ASSUME TypeOK, JobInv, FenceInv, MonthInv, [Next]_vars PROVE MonthInv'
    OBVIOUS
  <1>0. /\ now \in Nat
        /\ \A p \in Months : MonthStart(p) \in Nat /\ MonthEnd(p) \in Nat
        /\ \A q \in Relays : /\ job[q].started \in Nat /\ job[q].month \in Months
                             /\ job[q].valid \in Nat
                             /\ \A h \in relay[q].held : h.grant[1] \in Months
    BY MonthBounds DEF TypeOK, CreditRequest, Controller, CreditGrant, Grants
  <1>1. ASSUME NEW p \in Months, NEW minor \in Overages, SetRelaySpendingCap(p, minor)
        PROVE  MonthInv'
    BY <1>1 DEF SetRelaySpendingCap, relayside, MonthInv, MonthStart, MonthEnd
  <1>2. ASSUME NEW s \in surrenders, SurrenderRelayCredits(s) \/ LoseSurrender(s)
        PROVE  MonthInv'
    BY <1>2 DEF SurrenderRelayCredits, LoseSurrender, relayside, MonthInv, MonthStart, MonthEnd
  <1>3. ASSUME NEW r \in Relays, HandleReserve(r) PROVE MonthInv'
    <2>1. UNCHANGED <<now, relay>>
      BY <1>3 DEF HandleReserve, relayside
    <2>2. ReserveHandled(r)
      BY <1>3, HandleReserveEffect
    <2>3. ASSUME job'[r].pc # "none" PROVE MonthStart(job'[r].month) <= now
      <3>1. job'[r].month \in Arrivals(job[r]) /\ job[r].pc \in {"sent", "again"}
        BY <2>2, <2>3 DEF ReserveHandled
      <3> QED BY <3>1 DEF Arrivals, MonthInv
    <2> QED BY <2>1, <2>2, <2>3 DEF ReserveHandled, OtherJobs, MonthInv, MonthStart, MonthEnd
  <1>4. ASSUME NEW r \in Relays, HandleLease(r) PROVE MonthInv'
    <2>1. UNCHANGED <<now, relay>>
      BY <1>4 DEF HandleLease, relayside
    <2> QED BY <1>4, <2>1, HandleLeaseEffect DEF OtherJobs, MonthInv, MonthStart, MonthEnd
  <1>5. ASSUME NEW r \in Relays, HandleReply(r) PROVE MonthInv'
    <2>1. UNCHANGED <<now, relay>>
      BY <1>5 DEF HandleReply, relayside
    <2>2. job'[r].pc = "grant" => job'[r].started + job'[r].valid <= MonthEnd(job'[r].month)
      <3>1. job[r].started <= now
        BY <1>5, HandleReplyEffect DEF FenceInv
      <3> QED BY <1>0, <1>5, <3>1, HandleReplyEffect
    <2> QED BY <1>5, <2>1, <2>2, HandleReplyEffect DEF OtherJobs, MonthInv, MonthStart, MonthEnd
  <1>6. ASSUME NEW r \in Relays, Lose(r) PROVE MonthInv'
    BY <1>6, JobGone DEF Lose, relayside, OtherJobs, MonthInv, MonthStart, MonthEnd
  <1>7. ASSUME NEW r \in Relays, install_uncapped(r) PROVE MonthInv'
    <2>1. now' = now
      BY <1>7 DEF install_uncapped
    <2> QED BY <1>7, <2>1, InstallUncappedEffect
            DEF OtherJobs, OtherRelays, MonthInv, MonthStart, MonthEnd
  <1>8. ASSUME NEW r \in Relays, install_grant(r) PROVE MonthInv'
    <2>1. now' = now
      BY <1>8 DEF install_grant
    <2>2. ASSUME NEW h \in relay'[r].held
          PROVE  MonthStart(h.grant[1]) <= now /\ h.until <= MonthEnd(h.grant[1])
      <3>1. CASE h \in relay[r].held
        BY <3>1 DEF MonthInv
      <3>2. CASE /\ h.grant = <<job[r].month, r, relay[r].pending>>
                 /\ h.until = job[r].started + job[r].valid
        <4>1. h.grant[1] = job[r].month
          BY <3>2
        <4> QED BY <1>8, <3>2, <4>1, InstallGrantEffect DEF MonthInv
      <3> QED BY <1>8, <3>1, <3>2, InstallGrantEffect
    <2> QED BY <1>8, <2>1, <2>2, InstallGrantEffect
            DEF OtherJobs, OtherRelays, MonthInv, MonthStart, MonthEnd
  <1>9. ASSUME NEW r \in Relays, Send(r) PROVE MonthInv'
    <2>1. UNCHANGED <<now, relay>>
      BY <1>9 DEF Send, relayside
    <2> QED BY <1>9, <2>1, SendEffect DEF OtherJobs, MonthInv, MonthStart, MonthEnd
  <1>10. ASSUME NEW r \in Relays, Shutdown(r) PROVE MonthInv'
    <2>1. UNCHANGED <<now, job>>
      BY <1>10 DEF Shutdown
    <2> QED BY <1>10, <2>1, ShutdownEffect DEF OtherRelays, MonthInv, MonthStart, MonthEnd
  <1>11. ASSUME NEW r \in Relays, take_surrenderable_grants(r) \/ Crash(r) PROVE MonthInv'
    <2>1. now' = now
      BY <1>11 DEF take_surrenderable_grants, Crash
    <2> QED BY <1>11, <2>1, RestartEffect
            DEF RelayRestarted, OtherJobs, OtherRelays, MonthInv, MonthStart, MonthEnd
  <1>12. ASSUME NEW r \in Relays, NEW n \in Sizes, reserve(r, n) PROVE MonthInv'
    <2>1. UNCHANGED <<now, job>>
      BY <1>12 DEF reserve
    <2> QED BY <1>12, <2>1, ReserveEffect
            DEF PayloadOffered, OtherRelays, MonthInv, MonthStart, MonthEnd
  <1>13. CASE Tick
    <2>1. UNCHANGED <<relay, job>> /\ now' = now + 1
      BY <1>13 DEF Tick, relayside
    <2>2. \A p \in Months : MonthStart(p) <= now => MonthStart(p) <= now'
      BY <1>0, <2>1
    <2> QED BY <1>0, <2>1, <2>2 DEF MonthInv
  <1>14. ASSUME NEW r \in Relays, NEW n \in Sizes, ForwardDetached(r, n) PROVE MonthInv'
    <2>1. UNCHANGED <<now, relay, job>>
      BY <1>14 DEF ForwardDetached
    <2> QED BY <2>1 DEF MonthInv, MonthStart, MonthEnd
  <1>15. CASE UNCHANGED vars
    BY <1>15 DEF vars, MonthInv, MonthStart, MonthEnd
  <1> QED
    BY <1>1, <1>2, <1>3, <1>4, <1>5, <1>6, <1>7, <1>8, <1>9, <1>10, <1>11, <1>12, <1>13,
       <1>14, <1>15 DEF Next

\* A row is never deleted.
LEMMA RowsStay ==
    TypeOK /\ JobInv /\ [Next]_vars =>
        \A g \in Grants : grants[g].state # "none" => grants'[g].state # "none"
  <1> SUFFICES ASSUME TypeOK, JobInv, [Next]_vars
               PROVE  \A g \in Grants : grants[g].state # "none" => grants'[g].state # "none"
    OBVIOUS
  <1>1. ASSUME NEW s \in surrenders, SurrenderRelayCredits(s)
        PROVE  \A g \in Grants : grants[g].state # "none" => grants'[g].state # "none"
    BY <1>1 DEF SurrenderRelayCredits, TypeOK, relayCreditGrantRow
  <1>2. ASSUME NEW r \in Relays, HandleReserve(r)
        PROVE  \A g \in Grants : grants[g].state # "none" => grants'[g].state # "none"
    BY <1>2, HandleReserveEffect DEF ReserveHandled, OpenedOrSame
  <1>3. CASE grants' = grants
    BY <1>3
  <1> QED
    BY <1>1, <1>2, <1>3
       DEF Next, SetRelaySpendingCap, LoseSurrender, HandleLease, HandleReply, Lose,
           install_uncapped, install_grant, Send, Shutdown, take_surrenderable_grants, Crash,
           reserve, ForwardDetached, Tick, store, vars

LEMMA HeldStep == TypeOK /\ JobInv /\ HeldInv /\ [Next]_vars => HeldInv'
  <1> SUFFICES ASSUME TypeOK, JobInv, HeldInv, [Next]_vars PROVE HeldInv'
    OBVIOUS
  <1>0. /\ \A q \in Relays : /\ relay[q].next \in Nat /\ relay[q].pending \in Nat
                             /\ job[q].month \in Months
                             /\ \A h \in relay[q].held : /\ h.grant \in Grants
                                                         /\ h.grant[3] \in Nat \ {0}
    BY DEF TypeOK, CreditRequest, Controller, CreditGrant, Grants
  <1>a. \A g \in Grants : grants[g].state # "none" => grants'[g].state # "none"
    BY RowsStay
  <1>b. \A q \in Relays : job[q].pc # "none" => <<job[q].month, q, relay[q].pending>> \in Grants
    BY DEF JobInv, TypeOK, CreditRequest, Controller, Grants
  <1>1. CASE UNCHANGED <<relay, job>>
    BY <1>0, <1>1, <1>a, <1>b DEF HeldInv
  <1>3. ASSUME NEW r \in Relays, HandleReserve(r) PROVE HeldInv'
    <2>1. relay' = relay
      BY <1>3 DEF HandleReserve, relayside
    <2>2. ReserveHandled(r)
      BY <1>3, HandleReserveEffect
    <2>3. \A q \in Relays : job'[q].pc \in {"reply", "grant"} =>
            grants'[<<job'[q].month, q, relay[q].pending>>].state # "none"
      <3>1. ASSUME NEW q \in Relays, q # r, job'[q].pc \in {"reply", "grant"}
            PROVE  grants'[<<job'[q].month, q, relay[q].pending>>].state # "none"
        BY <1>a, <1>b, <2>2, <3>1 DEF ReserveHandled, OtherJobs, HeldInv
      <3>2. ASSUME job'[r].pc \in {"reply", "grant"}
            PROVE  grants'[<<job'[r].month, r, relay[r].pending>>].state # "none"
        BY <2>2, <3>2 DEF ReserveHandled
      <3> QED BY <3>1, <3>2
    <2> QED BY <1>0, <1>a, <2>1, <2>3 DEF HeldInv
  <1>4. ASSUME NEW r \in Relays, HandleLease(r) PROVE HeldInv'
    <2>1. UNCHANGED <<relay, grants>>
      BY <1>4 DEF HandleLease, relayside
    <2> QED BY <1>4, <2>1, HandleLeaseEffect DEF OtherJobs, HeldInv
  <1>5. ASSUME NEW r \in Relays, HandleReply(r) PROVE HeldInv'
    <2>1. UNCHANGED <<relay, grants>>
      BY <1>5 DEF HandleReply, relayside, store
    <2> QED BY <1>5, <2>1, HandleReplyEffect DEF OtherJobs, HeldInv
  <1>6. ASSUME NEW r \in Relays, Lose(r) PROVE HeldInv'
    <2>1. UNCHANGED <<relay, grants>>
      BY <1>6 DEF Lose, relayside, store
    <2> QED BY <1>6, <2>1, JobGone DEF Lose, OtherJobs, HeldInv
  <1>7. ASSUME NEW r \in Relays, install_uncapped(r) PROVE HeldInv'
    <2>1. grants' = grants
      BY <1>7 DEF install_uncapped, store
    <2> QED BY <1>0, <1>7, <2>1, InstallUncappedEffect DEF OtherJobs, OtherRelays, HeldInv
  <1>8. ASSUME NEW r \in Relays, install_grant(r) PROVE HeldInv'
    <2>1. grants' = grants
      BY <1>8 DEF install_grant, store
    <2>2. ASSUME NEW h \in relay'[r].held
          PROVE  /\ h.grant[2] = r /\ h.grant[3] <= relay[r].next /\ h.grant[3] # 0
                 /\ grants[h.grant].state # "none"
      <3>1. CASE h \in relay[r].held
        BY <1>0, <3>1 DEF HeldInv
      <3>2. CASE h.grant = <<job[r].month, r, relay[r].pending>>
        <4>1. h.grant[2] = r /\ h.grant[3] = relay[r].pending
          BY <3>2
        <4>2. job[r].pc = "grant" /\ relay[r].pending # 0
          BY <1>8, InstallGrantEffect DEF JobInv
        <4> QED BY <3>2, <4>1, <4>2 DEF HeldInv
      <3> QED BY <1>8, <3>1, <3>2, InstallGrantEffect
    <2> QED BY <1>0, <1>8, <2>1, <2>2, InstallGrantEffect DEF OtherJobs, OtherRelays, HeldInv
  <1>9. ASSUME NEW r \in Relays, Send(r) PROVE HeldInv'
    <2>1. UNCHANGED <<relay, grants>>
      BY <1>9 DEF Send, relayside, store
    <2> QED BY <1>9, <2>1, SendEffect DEF OtherJobs, HeldInv
  <1>10. ASSUME NEW r \in Relays, Shutdown(r) PROVE HeldInv'
    <2>1. UNCHANGED <<grants, job>>
      BY <1>10 DEF Shutdown, store
    <2>2. \A q \in Relays : /\ relay'[q].held = relay[q].held
                            /\ relay'[q].pending = relay[q].pending
                            /\ relay'[q].next = relay[q].next
      BY <1>10, ShutdownEffect DEF OtherRelays
    <2> QED BY <2>1, <2>2 DEF HeldInv
  <1>11. ASSUME NEW r \in Relays, take_surrenderable_grants(r) \/ Crash(r) PROVE HeldInv'
    <2>1. grants' = grants
      BY <1>11 DEF take_surrenderable_grants, Crash, store
    <2> QED BY <1>0, <1>11, <2>1, RestartEffect
            DEF RelayRestarted, OtherJobs, OtherRelays, HeldInv
  <1>12. ASSUME NEW r \in Relays, NEW n \in Sizes, reserve(r, n) PROVE HeldInv'
    <2>1. UNCHANGED <<grants, job>>
      BY <1>12 DEF reserve, store
    <2>2. OtherRelays(r) /\ Drew(r) /\ relay'[r].held \subseteq relay[r].held
      BY <1>12, ReserveEffect DEF PayloadOffered
    <2>3. relay'[r].pending <= relay'[r].next
      BY <1>0, <2>2 DEF Drew, HeldInv
    <2>4. \A h \in relay'[r].held : /\ h.grant[2] = r /\ h.grant[3] <= relay'[r].next
                                    /\ h.grant[3] # relay'[r].pending
                                    /\ grants[h.grant].state # "none"
      BY <1>0, <2>2 DEF Drew, HeldInv
    <2>5. job[r].pc # "none" => relay'[r].pending = relay[r].pending
      BY <2>2 DEF Drew, JobInv
    <2> QED BY <2>1, <2>2, <2>3, <2>4, <2>5 DEF OtherRelays, HeldInv
  <1>13. CASE UNCHANGED vars
    BY <1>1, <1>13 DEF vars
  <1> QED
    BY <1>1, <1>3, <1>4, <1>5, <1>6, <1>7, <1>8, <1>9, <1>10, <1>11, <1>12, <1>13
       DEF Next, SetRelaySpendingCap, SurrenderRelayCredits, LoseSurrender, ForwardDetached, Tick,
           relayside

\* A grant that is let go of stays so.
LEMMA LetGoStep ==
    ASSUME TypeOK, JobInv, [Next]_vars, NEW g \in Grants, LetGo(g)
    PROVE  LetGo(g)'
  <1>0. /\ g[2] \in Relays /\ g[3] \in Nat \ {0}
        /\ \A q \in Relays : relay[q].next \in Nat /\ relay[q].pending \in Nat
    BY DEF Grants, TypeOK, Controller
  <1>1. CASE relay' = relay
    BY <1>1 DEF LetGo
  <1>2. ASSUME NEW r \in Relays, install_uncapped(r) PROVE LetGo(g)'
    BY <1>0, <1>2, InstallUncappedEffect DEF OtherRelays, LetGo
  <1>3. ASSUME NEW r \in Relays, install_grant(r) PROVE LetGo(g)'
    <2>1. CASE g[2] # r
      BY <1>0, <1>3, <2>1, InstallGrantEffect DEF OtherRelays, LetGo
    <2>2. CASE g[2] = r
      <3>1. ASSUME NEW h \in relay'[r].held PROVE h.grant # g
        <4>1. CASE h \in relay[r].held
          BY <2>2, <4>1 DEF LetGo
        <4>2. CASE h.grant = <<job[r].month, r, relay[r].pending>>
          <5>1. h.grant[3] = relay[r].pending
            BY <4>2
          <5> QED BY <2>2, <5>1 DEF LetGo
        <4> QED BY <1>3, <3>1, <4>1, <4>2, InstallGrantEffect
      <3> QED BY <1>0, <1>3, <2>2, <3>1, InstallGrantEffect DEF LetGo
    <2> QED BY <2>1, <2>2
  <1>4. ASSUME NEW r \in Relays, Shutdown(r) PROVE LetGo(g)'
    BY <1>0, <1>4, ShutdownEffect DEF OtherRelays, LetGo
  <1>5. ASSUME NEW r \in Relays, take_surrenderable_grants(r) \/ Crash(r) PROVE LetGo(g)'
    BY <1>0, <1>5, RestartEffect DEF RelayRestarted, OtherRelays, LetGo
  <1>6. ASSUME NEW r \in Relays, NEW n \in Sizes, reserve(r, n) PROVE LetGo(g)'
    BY <1>0, <1>6, ReserveEffect DEF PayloadOffered, Drew, OtherRelays, LetGo
  <1> QED
    BY <1>1, <1>2, <1>3, <1>4, <1>5, <1>6
       DEF Next, SetRelaySpendingCap, SurrenderRelayCredits, LoseSurrender, HandleReserve,
           HandleLease, HandleReply, Lose, Send, ForwardDetached, Tick, relayside, vars

\* Bytes are charged only to a grant that its relay holds within its time.
LEMMA UsedStep ==
    ASSUME TypeOK, [Next]_vars, NEW g \in Grants, used'[g] # used[g]
    PROVE  \E r \in Relays : \E h \in relay[r].held : h.grant = g /\ h.until > now
  <1>1. used' # used
    OBVIOUS
  <1>2. PICK r \in Relays, n \in Sizes : reserve(r, n)
    BY <1>1 DEF Next, SetRelaySpendingCap, SurrenderRelayCredits, LoseSurrender, HandleReserve,
                HandleLease, HandleReply, Lose, install_uncapped, install_grant, Send, Shutdown,
                take_surrenderable_grants, Crash, ForwardDetached, Tick, relayside, vars
  <1>3. ReserveCapped(r, n)
    BY <1>1, <1>2 DEF reserve, ReserveUncapped, ReserveNothing
  <1>4. PICK valid, charged, sent : ChargedStep(r, n, valid, charged, sent)
    BY <1>3, ReserveCappedEffect
  <1>5. \E h \in charged : h.grant = g
    BY <1>4 DEF ChargedStep
  <1> QED BY <1>4, <1>5 DEF ChargedStep

LEMMA CountStep == TypeOK /\ JobInv /\ HeldInv /\ CountInv /\ [Next]_vars => CountInv'
  <1> SUFFICES ASSUME TypeOK, JobInv, HeldInv, CountInv, [Next]_vars PROVE CountInv'
    OBVIOUS
  <1>1. \A g \in Grants : LetGo(g) => LetGo(g)'
    BY LetGoStep
  <1>2. ASSUME NEW g \in Grants, used'[g] # used[g]
        PROVE  ~LetGo(g) /\ grants[g].state # "none"
    <2>1. PICK r \in Relays : \E h \in relay[r].held : h.grant = g /\ h.until > now
      BY <1>2, UsedStep
    <2> QED BY <2>1 DEF HeldInv, LetGo
  <1>3. \A g \in Grants : LetGo(g) => used'[g] = used[g]
    BY <1>2
  <1>4. \A g \in Grants : grants'[g].state = "none" => used'[g] = 0
    <2>1. \A g \in Grants : grants'[g].state = "none" => grants[g].state = "none"
      BY RowsStay
    <2> QED BY <1>2, <2>1 DEF CountInv
  <1>5. \A s \in surrenders : s.grant \in Grants
    BY DEF TypeOK
  <1>6. \A s \in surrenders : s.consumed = used'[s.grant] /\ LetGo(s.grant)'
    BY <1>1, <1>3, <1>5 DEF CountInv
  <1>7. \A g \in Grants : grants[g].state = "surrendered" =>
            grants[g].consumed = used'[g] /\ LetGo(g)'
    BY <1>1, <1>3 DEF CountInv
  <1>8. \A s \in surrenders' : s.consumed = used'[s.grant] /\ LetGo(s.grant)'
    <2>1. CASE surrenders' \subseteq surrenders
      BY <1>6, <2>1
    <2>2. ASSUME NEW r \in Relays, take_surrenderable_grants(r)
          PROVE  \A s \in surrenders' : s.consumed = used'[s.grant] /\ LetGo(s.grant)'
      <3>1. ASSUME NEW h \in relay[r].held PROVE used'[h.grant] = used[h.grant] /\ LetGo(h.grant)'
        <4>1. /\ h.grant \in Grants /\ h.grant[2] = r /\ h.grant[3] \in Nat \ {0}
              /\ h.grant[3] <= relay[r].next
          BY <3>1 DEF TypeOK, Controller, CreditGrant, Grants, HeldInv
        <4>2. used' = used
          BY <2>2 DEF take_surrenderable_grants
        <4> QED BY <2>2, <4>1, <4>2, RestartEffect DEF RelayRestarted, LetGo
      <3>2. surrenders' = surrenders \cup
                {[grant |-> h.grant, consumed |-> used[h.grant]] : h \in relay[r].held}
        BY <2>2 DEF take_surrenderable_grants
      <3>3. ASSUME NEW s \in {[grant |-> h.grant, consumed |-> used[h.grant]] : h \in relay[r].held}
            PROVE  s.consumed = used'[s.grant] /\ LetGo(s.grant)'
        <4>1. PICK h \in relay[r].held : s = [grant |-> h.grant, consumed |-> used[h.grant]]
          OBVIOUS
        <4>2. s.grant = h.grant /\ s.consumed = used[h.grant]
          BY <4>1
        <4> QED BY <3>1, <4>2
      <3> QED BY <1>6, <3>2, <3>3
    <2>3. ASSUME NEW r \in Relays, NEW n \in Sizes, reserve(r, n), ReserveCapped(r, n)
          PROVE  \A s \in surrenders' : s.consumed = used'[s.grant] /\ LetGo(s.grant)'
      <3>1. PICK valid, charged, sent : ChargedStep(r, n, valid, charged, sent)
        BY <2>3, ReserveCappedEffect
      <3>2. ASSUME NEW h \in sent
            PROVE  grants[h.grant].granted = used'[h.grant] /\ LetGo(h.grant)'
        <4>1. h \in relay[r].held /\ h \in valid
          BY <3>1 DEF ChargedStep
        <4>2. /\ h.grant \in Grants /\ h.grant[2] = r /\ h.grant[3] \in Nat \ {0}
              /\ h.grant[3] <= relay[r].next /\ h.grant[3] # relay[r].pending
          BY <4>1 DEF TypeOK, Controller, CreditGrant, Grants, HeldInv
        <4>3. n \in Nat /\ grants[h.grant].granted \in Nat /\ used[h.grant] \in Nat
          BY <4>2, CreditAssumption DEF TypeOK, relayCreditGrantRow
        <4>4. h \in charged <=> \E o \in charged : o.grant = h.grant
          BY <3>1, <4>1 DEF ChargedStep
        <4>5. used'[h.grant] = used[h.grant] + (IF h \in charged THEN n ELSE 0)
          BY <3>1, <4>2, <4>3, <4>4 DEF ChargedStep
        <4>6. grants[h.grant].granted = used'[h.grant]
          BY <3>1, <4>3, <4>5 DEF ChargedStep, Remaining
        <4>7. \A o \in relay'[r].held : o.grant # h.grant
          <5>1. PICK c : c = [relay[r] EXCEPT !.held = valid \ sent]
            OBVIOUS
          <5>2. valid \ sent \subseteq relay[r].held
            BY <3>1 DEF ChargedStep
          <5>3. c \in Controller /\ c.held = valid \ sent
            BY <5>1, <5>2 DEF TypeOK, Controller
          <5>4. \/ relay' = [relay EXCEPT ![r] = enqueue(c)]
                \/ relay' = [relay EXCEPT ![r] = c]
            BY <3>1, <5>1 DEF ChargedStep
          <5>5. relay'[r].held = valid \ sent
            BY <5>3, <5>4, Enqueued, RelayBecomes
          <5> QED BY <3>1, <5>5 DEF ChargedStep
        <4>8. h.grant[3] # relay'[r].pending /\ h.grant[3] <= relay'[r].next
          <5>1. Drew(r)
            BY <2>3, ReserveEffect DEF PayloadOffered
          <5>2. relay[r].next \in Nat
            BY DEF TypeOK, Controller
          <5> QED BY <4>2, <5>1, <5>2 DEF Drew
        <4> QED BY <4>2, <4>6, <4>7, <4>8 DEF LetGo
      <3>3. surrenders' = surrenders \cup
                {[grant |-> h.grant, consumed |-> grants[h.grant].granted] : h \in sent}
        BY <3>1 DEF ChargedStep
      <3>4. ASSUME NEW s \in {[grant |-> h.grant, consumed |-> grants[h.grant].granted] : h \in sent}
            PROVE  s.consumed = used'[s.grant] /\ LetGo(s.grant)'
        <4>1. PICK h \in sent : s = [grant |-> h.grant, consumed |-> grants[h.grant].granted]
          OBVIOUS
        <4>2. s.grant = h.grant /\ s.consumed = grants[h.grant].granted
          BY <4>1
        <4> QED BY <3>2, <4>2
      <3> QED BY <1>6, <3>3, <3>4
    <2> QED
      BY <2>1, <2>2, <2>3
         DEF Next, SetRelaySpendingCap, SurrenderRelayCredits, LoseSurrender, HandleReserve,
             HandleLease, HandleReply, Lose, install_uncapped, install_grant, Send, Shutdown,
             Crash, reserve, ReserveUncapped, ReserveNothing, ForwardDetached, Tick, vars
  <1>9. \A g \in Grants : grants'[g].state = "surrendered" =>
            grants'[g].consumed = used'[g] /\ LetGo(g)'
    <2>1. CASE grants' = grants
      BY <1>7, <2>1
    <2>2. ASSUME NEW r \in Relays, HandleReserve(r)
          PROVE  \A g \in Grants : grants'[g].state = "surrendered" =>
                    grants'[g].consumed = used'[g] /\ LetGo(g)'
      <3>1. \A g \in Grants : grants'[g] = grants[g] \/ grants'[g].state = "issued"
        BY <2>2, HandleReserveEffect DEF ReserveHandled, OpenedOrSame
      <3> QED BY <1>7, <3>1
    <2>3. ASSUME NEW s \in surrenders, SurrenderRelayCredits(s)
          PROVE  \A g \in Grants : grants'[g].state = "surrendered" =>
                    grants'[g].consumed = used'[g] /\ LetGo(g)'
      <3>1. \A g \in Grants : \/ grants'[g] = grants[g]
                              \/ g = s.grant /\ grants'[g].consumed = s.consumed
        BY <2>3 DEF SurrenderRelayCredits, TypeOK, relayCreditGrantRow
      <3> QED BY <1>6, <1>7, <3>1
    <2> QED
      BY <2>1, <2>2, <2>3
         DEF Next, SetRelaySpendingCap, LoseSurrender, HandleLease, HandleReply, Lose,
             install_uncapped, install_grant, Send, Shutdown, take_surrenderable_grants, Crash,
             reserve, ForwardDetached, Tick, store, vars
  <1> QED BY <1>4, <1>8, <1>9 DEF CountInv

-----------------------------------------------------------------------------
(* Theorems. *)

\* The inductive invariant holds always, for any relays, months and sizes.
THEOREM Invariance == Spec => []IInv
  <1>1. Init => IInv
    BY IInvInit
  <1>2. IInv /\ [Next]_vars => IInv'
    BY TypeStep, JobStep, FenceStep, MonthStep, HeldStep, CountStep DEF IInv
  <1> QED BY <1>1, <1>2, PTL DEF Spec

\* Every variable keeps its type; in particular no grant is charged with more
\* than the requested bytes (reserve).
THEOREM TypeCorrect == Spec => []TypeOK
  <1>1. IInv => TypeOK
    BY DEF IInv
  <1> QED BY <1>1, Invariance, PTL

\* Once a month's cap is in force no relay forwards on an uncapped lease of
\* that month (SetRelaySpendingCap, IssueAuthorizedRelayUncappedLease,
\* install_uncapped): the relay counts the lease from before its request, so
\* it ends no later than the row the cap waited for.
THEOREM LeaseFence == Spec => []FenceWithinMonth
  <1>1. IInv => FenceWithinMonth
    <2> SUFFICES ASSUME IInv, NEW r \in Relays, relay[r].mode = "uncapped",
                        relay[r].expires > now, caps[relay[r].from].set
                 PROVE  caps[relay[r].from].effective > now
      BY DEF FenceWithinMonth
    <2>1. /\ relay[r].from \in Months /\ relay[r].expires \in Nat /\ now \in Nat
          /\ leases[relay[r].from] \in Nat /\ caps[relay[r].from].effective \in Nat
      BY DEF IInv, TypeOK, Controller, relayCapRow
    <2>2. /\ relay[r].expires <= leases[relay[r].from]
          /\ leases[relay[r].from] <= caps[relay[r].from].effective
      BY <2>1 DEF IInv, FenceInv
    <2> QED BY <2>1, <2>2
  <1> QED BY <1>1, Invariance, PTL

\* The count of a returned grant is what was forwarded under it, for good
\* (take_surrenderable_grants, SurrenderRelayCredits).
THEOREM FinalCounts == Spec => []CountIsFinal
  <1>1. IInv => CountIsFinal
    BY DEF IInv, CountInv, CountIsFinal
  <1> QED BY <1>1, Invariance, PTL

\* A byte is charged to a grant only within the grant's month (install_grant,
\* reserve, the validity computed by the credit handler).
THEOREM GrantsUsedInMonth == Spec => UsedWithinMonth
  <1>1. IInv /\ [Next]_vars =>
            [\A g \in Grants : used'[g] # used[g] =>
                MonthStart(g[1]) <= now /\ now < MonthEnd(g[1])]_vars
    <2> SUFFICES ASSUME IInv, [Next]_vars, NEW g \in Grants, used'[g] # used[g]
                 PROVE  MonthStart(g[1]) <= now /\ now < MonthEnd(g[1])
      OBVIOUS
    <2>1. PICK r \in Relays : \E h \in relay[r].held : h.grant = g /\ h.until > now
      BY UsedStep DEF IInv
    <2>2. PICK h \in relay[r].held : h.grant = g /\ h.until > now
      BY <2>1
    <2>3. MonthStart(g[1]) <= now /\ h.until <= MonthEnd(g[1])
      BY <2>2 DEF IInv, MonthInv
    <2>4. h.until \in Nat /\ now \in Nat /\ MonthEnd(g[1]) \in Nat
      BY <2>2, MonthBounds DEF IInv, TypeOK, Controller, CreditGrant, Grants
    <2> QED BY <2>2, <2>3, <2>4
  <1> QED BY <1>1, Invariance, PTL DEF Spec, UsedWithinMonth
=============================================================================
