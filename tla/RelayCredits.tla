---------------------------- MODULE RelayCredits ----------------------------
(***************************************************************************)
(* The optional monthly spending cap on managed-relay traffic of one       *)
(* account: the control plane's cap, credit grants and uncapped leases     *)
(* (billing/caps.go, api/relay_credits.go) composed with the credit        *)
(* controller of every relay (karst-relay credits.rs) over a channel that  *)
(* loses and delays requests and answers.  A database transaction is one   *)
(* step; a handler that runs several, and a relay that waits for its       *)
(* answer, hold what they read before.  A handler whose relay has given up *)
(* (both wait 10 seconds) is taken to be over before the relay tries again *)
(* 2 seconds later.  Time is counted in ticks that both sides measure      *)
(* alike; a relay only ever measures durations.                            *)
(* A request is numbered within its relay and the numbers are never used   *)
(* again, so a number stands for the random request id and for the process *)
(* generation that drew it.  A relay carries one mapping of the account.   *)
(***************************************************************************)
EXTENDS Integers, FiniteSets, FiniteSetsExt

CONSTANTS
    Relays,
    LastMonth,        \* months 0..LastMonth
    MaxTime,          \* the last tick (a bound)
    MonthLen,         \* ticks of a month
    Lease,            \* RelayUncappedLeaseMillis and UNCAPPED_LEASE_MILLIS
    Refresh,          \* REFRESH_BEFORE
    Requested,        \* requested_bytes of every relay
    Sizes,            \* payload sizes
    Overages,         \* cap amounts an administrator may set, in minor units
    Included, UnitBytes, MinorPerUnit,    \* the account's rate schedule
    MaxReqs,          \* requests of a relay over all its lives (a bound)
    MaxDrawn,         \* requests of all relays together (a bound)
    MaxFaults,        \* shutdowns and crashes (a bound)
    MaxOutside        \* bytes forwarded outside credits (a bound)

ASSUME RelaysAssumption == IsFiniteSet(Relays)
ASSUME TimeAssumption ==
    /\ LastMonth \in Nat /\ MonthLen \in Nat \ {0}
    /\ MaxTime \in Nat /\ Lease \in Nat /\ Refresh \in Nat
ASSUME CreditAssumption ==
    /\ Requested \in Nat \ {0} /\ MaxReqs \in Nat \ {0}
    /\ MaxDrawn \in Nat /\ MaxFaults \in Nat /\ MaxOutside \in Nat
    /\ Sizes \subseteq Nat \ {0} /\ Overages \subseteq Nat
ASSUME ScheduleAssumption ==
    /\ Included \in Nat /\ UnitBytes \in Nat \ {0} /\ MinorPerUnit \in Nat \ {0}

Months == 0..LastMonth
MonthStart(p) == p * MonthLen
MonthEnd(p) == (p + 1) * MonthLen

\* A grant row's identity: the month, the relay and its request.
Grants == Months \X Relays \X (1..MaxReqs)

VARIABLES
    now,
    caps,        \* caps[p]: relayCapRow
    grants,      \* grants[g]: relayCreditGrantRow, state "none" when there is no row
    leases,      \* leases[p]: latest expiry of month p's relayUncappedLeaseRows, or 0
    relay,       \* relay[r]: the Controller of the running process
    used,        \* used[g]: bytes admitted under g (CreditGrant.consumed while held)
    outside,     \* outside[p]: bytes forwarded in month p and charged to no grant
    job,         \* job[r]: the credit request of r on its way, handled or answered
    surrenders,  \* surrender requests on their way
    faults       \* shutdowns and crashes so far

vars == <<now, caps, grants, leases, relay, used, outside, job, surrenders,
          faults>>

relayCapRow == [set : BOOLEAN, minor : Nat, effective : Nat]
relayCreditGrantRow ==
    [state : {"none", "issued", "surrendered"},
     granted : 0..Requested, consumed : 0..Requested]

CreditGrant == [grant : Grants, until : Nat]

\* mode, expires and from describe Allowance::Uncapped (from: the month its
\* lease was issued for); held is the queue of Allowance::Capped, whose order
\* is that of the request numbers.
Controller ==
    [mode : {"none", "uncapped", "capped"}, expires : Nat, from : Months,
     held : SUBSET CreditGrant, pending : 0..MaxReqs, next : 0..MaxReqs,
     closing : BOOLEAN]

\* The request is relay[r].pending.  started: when the relay sent it; month:
\* that of its arrival; valid: how long the grant in the answer is good for.
CreditRequest ==
    [pc : {"none", "sent", "lease", "again", "reply", "grant", "uncapped"},
     started : Nat, month : Months, valid : Nat]

TypeOK ==
    /\ now \in Nat
    /\ caps \in [Months -> relayCapRow]
    /\ grants \in [Grants -> relayCreditGrantRow]
    /\ leases \in [Months -> Nat]
    /\ relay \in [Relays -> Controller]
    /\ used \in [Grants -> 0..Requested]
    /\ outside \in [Months -> Nat]
    /\ job \in [Relays -> CreditRequest]
    /\ surrenders \subseteq [grant : Grants, consumed : 0..Requested]
    /\ faults \in 0..MaxFaults

Fresh == [mode |-> "none", expires |-> 0, from |-> 0, held |-> {},
          pending |-> 0, next |-> 0, closing |-> FALSE]

NoJob == [pc |-> "none", started |-> 0, month |-> 0, valid |-> 0]

Init ==
    /\ now = 0
    /\ caps = [p \in Months |-> [set |-> FALSE, minor |-> 0, effective |-> 0]]
    /\ grants = [g \in Grants |-> [state |-> "none", granted |-> 0, consumed |-> 0]]
    /\ leases = [p \in Months |-> 0]
    /\ relay = [r \in Relays |-> Fresh]
    /\ used = [g \in Grants |-> 0]
    /\ outside = [p \in Months |-> 0]
    /\ job = [r \in Relays |-> NoJob]
    /\ surrenders = {}
    /\ faults = 0

store == <<caps, grants, leases>>
relayside == <<relay, used, outside>>

-----------------------------------------------------------------------------
(* Budgets. *)

maxRelayBytesForOverage(minor) ==
    Included + (minor * UnitBytes) \div MinorPerUnit

\* Mutant: a grant that was not returned is charged with what is known of it.
CommittedKnown(g) == grants[g].consumed

\* The bytes a grant takes from the budget: all of them until the relay has
\* returned the grant, then those it forwarded.
Committed(g) ==
    IF grants[g].state = "issued" THEN grants[g].granted ELSE grants[g].consumed

Rows(p) == {g \in Grants : g[1] = p /\ grants[g].state # "none"}

\* The sum of the counts n[g] of some rows, as the number of bytes they stand
\* for: the bytes 1..n[g] of every row g.
Bytes(rows, n) == Cardinality({b \in rows \X (1..Requested) : b[2] <= n[b[1]]})

CommittedIn(p) == Bytes(Rows(p), [g \in Rows(p) |-> Committed(g)])

-----------------------------------------------------------------------------
(* The control plane's transactions. *)

\* Mutant: the cap applies from the moment it is saved.
EffectiveNow(p) == now

\* The first cap of a month waits for the month's uncapped leases.  The code
\* keeps the later of this and now; only later clocks are compared with it, so
\* any time that has passed stands for now.
EffectiveAt(p) == leases[p]

SetRelaySpendingCap(p, minor) ==
    /\ now < MonthEnd(p)
    /\ \/ /\ ~caps[p].set
          /\ caps' = [caps EXCEPT ![p] =
                [set |-> TRUE, minor |-> minor, effective |-> EffectiveAt(p)]]
       \/ /\ caps[p].set
          /\ minor # caps[p].minor
          /\ minor < caps[p].minor =>
                /\ \A g \in Rows(p) : grants[g].state = "surrendered"
                /\ CommittedIn(p) <= maxRelayBytesForOverage(minor)
          /\ caps' = [caps EXCEPT ![p].minor = minor]
    /\ UNCHANGED <<now, grants, leases, faults, relayside, job, surrenders>>

Pending(p) == caps[p].effective > now
Available(p) == maxRelayBytesForOverage(caps[p].minor) - CommittedIn(p)

GrantBytes(available) == Min({Requested, available})

\* ReserveAuthorizedRelayCredits for relay r and month p returns a grant: the
\* one the request already has, or a new one.
ReserveRelayCredits(r, p) ==
    LET g == <<p, r, relay[r].pending>> IN
    /\ caps[p].set /\ ~Pending(p)
    /\ \/ /\ grants[g].state # "none"
          /\ UNCHANGED grants
       \/ /\ grants[g].state = "none"
          /\ \E n \in 1..Requested :
                /\ n = GrantBytes(Available(p))
                /\ grants' = [grants EXCEPT ![g] =
                        [state |-> "issued", granted |-> n, consumed |-> 0]]

\* It refuses: the cap waits for leases, or nothing is left.
ReserveRefused(r, p) ==
    \/ caps[p].set /\ Pending(p)
    \/ /\ caps[p].set
       /\ grants[<<p, r, relay[r].pending>>].state = "none"
       /\ Available(p) <= 0

IssueAuthorizedRelayUncappedLease(r, p) ==
    /\ ~caps[p].set
    /\ leases' = [leases EXCEPT ![p] = now + Lease]

\* The final count of a grant.  A count above the grant, or a second one, is
\* a conflict and changes nothing.
SurrenderRelayCredits(s) ==
    /\ surrenders' = surrenders \ {s}
    /\ grants' = IF grants[s.grant].state = "issued" /\ s.consumed <= grants[s.grant].granted
                 THEN [grants EXCEPT ![s.grant].state = "surrendered",
                                     ![s.grant].consumed = s.consumed]
                 ELSE grants
    /\ UNCHANGED <<now, caps, leases, relayside, job, faults>>

-----------------------------------------------------------------------------
(* The request handler, relayCreditHandler.ServeHTTP.  A refusal of any    *)
(* kind makes the relay try again, as a lost answer does: the job is gone. *)

Becomes(r, j) == job' = [job EXCEPT ![r] = j]
Gone(r) == Becomes(r, NoJob)

\* The month is that of the arrival, some time after the relay sent the
\* request and before the first transaction.
Arrivals(j) ==
    IF j.pc = "sent" THEN {p \in Months : MonthStart(p) <= now /\ j.started < MonthEnd(p)}
                     ELSE {j.month}

HandleReserve(r) ==
    LET j == job[r] IN
    /\ j.pc \in {"sent", "again"}
    /\ \E p \in Arrivals(j) :
        \/ ReserveRelayCredits(r, p) /\ Becomes(r, [j EXCEPT !.pc = "reply", !.month = p])
        \/ ReserveRefused(r, p) /\ Gone(r) /\ UNCHANGED grants
        \/ /\ ~caps[p].set
           /\ Becomes(r, [j EXCEPT !.pc = "lease", !.month = p])
           /\ UNCHANGED grants
    /\ UNCHANGED <<now, caps, leases, relayside, surrenders, faults>>

HandleLease(r) ==
    LET j == job[r] IN
    /\ j.pc = "lease"
    /\ \/ /\ IssueAuthorizedRelayUncappedLease(r, j.month)
          /\ Becomes(r, [j EXCEPT !.pc = "uncapped"])
       \/ /\ caps[j.month].set /\ ~Pending(j.month)
          /\ Becomes(r, [j EXCEPT !.pc = "again"])
          /\ UNCHANGED leases
       \/ /\ caps[j.month].set /\ Pending(j.month)
          /\ Gone(r)
          /\ UNCHANGED leases
    /\ UNCHANGED <<now, caps, grants, relayside, surrenders, faults>>

\* A grant of a month that has ended meanwhile is not handed out.
HandleReply(r) ==
    LET j == job[r] IN
    /\ j.pc = "reply"
    /\ IF now < MonthEnd(j.month)
       THEN Becomes(r, [j EXCEPT !.pc = "grant", !.valid = MonthEnd(j.month) - now])
       ELSE Gone(r)
    /\ UNCHANGED <<now, store, relayside, surrenders, faults>>

\* The request or its answer is lost, the handler fails between two of its
\* transactions or finds the relay's mapping revoked (AuthorizeCreditRequest),
\* or the relay gives up (REQUEST_TIMEOUT).
Lose(r) ==
    /\ job[r].pc # "none"
    /\ Gone(r)
    /\ UNCHANGED <<now, store, relayside, surrenders, faults>>

LoseSurrender(s) ==
    /\ surrenders' = surrenders \ {s}
    /\ UNCHANGED <<now, store, relayside, job, faults>>

-----------------------------------------------------------------------------
(* The relay. *)

Drawn == LET drawn(r) == relay[r].next IN MapThenSumSet(drawn, Relays)

\* A mapping has one request at a time, under one id until it is answered.
enqueue(c) ==
    IF c.pending = 0 /\ c.next < MaxReqs /\ Drawn < MaxDrawn
    THEN [c EXCEPT !.pending = c.next + 1, !.next = c.next + 1]
    ELSE c

Remaining(h) == grants[h.grant].granted - used[h.grant]

\* Mutant: a grant carries any payload.
FitsAny(h, n) == TRUE

Fits(h, n) == Remaining(h) >= n

\* n bytes are forwarded without credits.  The usage observer meters them as any
\* others, so they are in the month's bill.
ForwardOutside(n) ==
    LET current == {p \in Months : MonthStart(p) <= now /\ now < MonthEnd(p)}
        bytes(p) == outside[p]
    IN
    /\ MapThenSumSet(bytes, Months) + n <= MaxOutside
    /\ outside' = [p \in Months |-> IF p \in current THEN outside[p] + n ELSE outside[p]]

\* A payload of n bytes is admitted by an uncapped lease.
ReserveUncapped(r, n) ==
    LET c == relay[r] IN
    /\ c.mode = "uncapped" /\ c.expires > now
    /\ ForwardOutside(n)
    /\ relay' = [relay EXCEPT ![r] =
                    IF c.expires - now <= Refresh THEN enqueue(c) ELSE c]
    /\ UNCHANGED <<used, surrenders>>

\* The oldest grant that can carry the payload is charged with all of it
\* before it is queued.  Grants used up leave for the surrender queue, in
\* order and as long as that has room.
ReserveCapped(r, n) ==
    LET c == relay[r]
        valid == {h \in c.held : h.until > now}
        fits == {h \in valid : Fits(h, n)}
        charged == {h \in fits : \A o \in fits : h.grant[3] <= o.grant[3]}
        left(h) == Remaining(h) - (IF h \in charged THEN n ELSE 0)
        spent == {h \in valid : left(h) = 0}
        refresh == MapThenSumSet(left, valid) <= Requested \div 4
    IN
    /\ c.mode = "capped"
    /\ UNCHANGED outside
    /\ used' = [g \in Grants |->
                    IF \E h \in charged : h.grant = g THEN used[g] + n ELSE used[g]]
    /\ \E i \in 0..MaxReqs :
        LET sent == {h \in spent : h.grant[3] <= i}
            rest == [c EXCEPT !.held = valid \ sent]
        IN
        /\ surrenders' = surrenders \cup
                {[grant |-> h.grant, consumed |-> grants[h.grant].granted] : h \in sent}
        /\ relay' = [relay EXCEPT ![r] =
                IF refresh \/ fits = {} THEN enqueue(rest) ELSE rest]

ReserveNothing(r, n) ==
    LET c == relay[r] IN
    /\ c.mode = "none" \/ (c.mode = "uncapped" /\ c.expires <= now)
    /\ relay' = [relay EXCEPT ![r] =
                    enqueue([c EXCEPT !.mode = "none", !.expires = 0, !.from = 0])]
    /\ UNCHANGED <<used, outside, surrenders>>

reserve(r, n) ==
    /\ ~relay[r].closing
    /\ ReserveUncapped(r, n) \/ ReserveCapped(r, n) \/ ReserveNothing(r, n)
    /\ UNCHANGED <<now, store, job, faults>>

\* One round of request_until_ready; started is read before the request.
Send(r) ==
    /\ relay[r].pending # 0 /\ ~relay[r].closing
    /\ job[r].pc = "none"
    /\ Becomes(r, [NoJob EXCEPT !.pc = "sent", !.started = now])
    /\ UNCHANGED <<now, store, relayside, surrenders, faults>>

install_uncapped(r) ==
    LET j == job[r] IN
    /\ j.pc = "uncapped"
    /\ relay' = [relay EXCEPT ![r] =
                    [relay[r] EXCEPT !.mode = "uncapped", !.expires = j.started + Lease,
                                     !.from = j.month, !.held = {}, !.pending = 0]]
    /\ Gone(r)
    /\ UNCHANGED <<now, store, used, outside, surrenders, faults>>

\* Mutant: the validity counts from the arrival of the answer.
ValidFromArrival(j) == now + j.valid

ValidUntil(j) == j.started + j.valid

install_grant(r) ==
    LET j == job[r]
        h == [grant |-> <<j.month, r, relay[r].pending>>, until |-> ValidUntil(j)]
    IN
    /\ j.pc = "grant"
    /\ relay' = [relay EXCEPT ![r] =
                    [relay[r] EXCEPT !.mode = "capped", !.expires = 0, !.from = 0,
                                     !.held = relay[r].held \cup {o \in {h} : o.until > now},
                                     !.pending = 0]]
    /\ Gone(r)
    /\ UNCHANGED <<now, store, used, outside, surrenders, faults>>

\* A new process knows nothing of the old one's grants and draws new ids.
Restarted(r) == [Fresh EXCEPT !.next = relay[r].next]

\* The gate is detached from the hub and the worker told to stop.
Shutdown(r) ==
    /\ ~relay[r].closing
    /\ relay' = [relay EXCEPT ![r] = [relay[r] EXCEPT !.closing = TRUE]]
    /\ faults < MaxFaults /\ faults' = faults + 1
    /\ UNCHANGED <<now, store, used, outside, job, surrenders>>

\* Without a gate the hub forwards an attributed payload uncharged to clients
\* that are still connected, until the process ends.
ForwardDetached(r, n) ==
    /\ relay[r].closing
    /\ ForwardOutside(n)
    /\ UNCHANGED <<now, store, relay, used, job, surrenders, faults>>

\* Mutant: the grants are counted but not taken from the controller.
CountGrants(r) ==
    /\ relay[r].closing
    /\ surrenders' = surrenders \cup
            {[grant |-> h.grant, consumed |-> used[h.grant]] : h \in relay[r].held}
    /\ relay' = [relay EXCEPT ![r].closing = FALSE]
    /\ Gone(r)
    /\ UNCHANGED <<now, store, used, outside, faults>>

\* Once requests have ended or CLEAN_SHUTDOWN_SURRENDER_BUDGET is over, the
\* final counts are sent; the next process follows.
take_surrenderable_grants(r) ==
    /\ relay[r].closing
    /\ surrenders' = surrenders \cup
            {[grant |-> h.grant, consumed |-> used[h.grant]] : h \in relay[r].held}
    /\ relay' = [relay EXCEPT ![r] = Restarted(r)]
    /\ Gone(r)
    /\ UNCHANGED <<now, store, used, outside, faults>>

Crash(r) ==
    /\ relay' = [relay EXCEPT ![r] = Restarted(r)]
    /\ Gone(r)
    /\ faults < MaxFaults /\ faults' = faults + 1
    /\ UNCHANGED <<now, store, used, outside, surrenders>>

Tick ==
    /\ now < MaxTime
    /\ now' = now + 1
    /\ UNCHANGED <<store, relayside, job, surrenders, faults>>

-----------------------------------------------------------------------------
Next ==
    \/ \E p \in Months, minor \in Overages : SetRelaySpendingCap(p, minor)
    \/ \E s \in surrenders : SurrenderRelayCredits(s) \/ LoseSurrender(s)
    \/ \E r \in Relays :
        \/ HandleReserve(r) \/ HandleLease(r) \/ HandleReply(r) \/ Lose(r)
        \/ install_uncapped(r) \/ install_grant(r)
        \/ Send(r) \/ Shutdown(r) \/ take_surrenderable_grants(r) \/ Crash(r)
        \/ \E n \in Sizes : reserve(r, n) \/ ForwardDetached(r, n)
    \/ Tick

Spec == Init /\ [][Next]_vars

-----------------------------------------------------------------------------
(* Properties. *)

UsedIn(p) == Bytes(Rows(p), used)

\* relayCharge, in minor units times UnitBytes.
relayCharge(bytes) == Max({0, bytes - Included}) * MinorPerUnit

\* ADR-0052: whatever relays crash, retry, stop or are revoked and however the
\* cap is raised or lowered, a month's bill is within its cap but for the price
\* of the bytes that were forwarded outside credits: on a lease before the
\* month's first cap was in force, or by a relay that was shutting down
\* (ReserveRelayCredits, SetRelaySpendingCap, relayCharge of the month's total).
ChargeWithinCap ==
    \A p \in Months :
        relayCharge(UsedIn(p) + outside[p])
        <= caps[p].minor * UnitBytes + outside[p] * MinorPerUnit

\* The fence of relayUncappedLeaseRow: once the cap of a month is in force, no
\* relay forwards on a lease issued while that month had none.
FenceWithinMonth ==
    \A r \in Relays :
        relay[r].mode = "uncapped" /\ relay[r].expires > now
        => LET cap == caps[relay[r].from] IN cap.set => cap.effective > now

\* A final count is final: the control plane's figure for a returned grant is
\* what the relay forwarded under it, now and later (SurrenderRelayCredits,
\* take_surrenderable_grants).
CountIsFinal ==
    \A g \in Grants : grants[g].state = "surrendered" => grants[g].consumed = used[g]

\* "Old-period grants are unusable after the period boundary" (ADR-0052): a
\* byte is charged to a grant only within the grant's month, however late its
\* answer came.
UsedWithinMonth ==
    [][\A g \in Grants : used'[g] # used[g] =>
          MonthStart(g[1]) <= now /\ now < MonthEnd(g[1])]_vars

\* SpendingCap's state: the bytes the cap of a month buys, those its grants take
\* from it and those charged to them.
CapBytes == [p \in Months |-> IF caps[p].set THEN maxRelayBytesForOverage(caps[p].minor) ELSE 0]
ReservedBytes == [p \in Months |-> CommittedIn(p)]
ForwardedBytes == [p \in Months |-> UsedIn(p)]

Budget ==
    INSTANCE SpendingCap WITH
        Limits <- {maxRelayBytesForOverage(minor) : minor \in Overages},
        limit <- CapBytes, reserved <- ReservedBytes, spent <- ForwardedBytes

\* The transactions of the control plane and relays that hear of them late or
\* never keep one budget (SpendingCap): a byte is charged to credits only out of
\* what the control plane has reserved for it, a surrender gives back only what
\* was not charged, and the cap is never lowered under what is reserved.  It is
\* Budget!Spec; the first disjunct spares TLC the sums of an unchanged store.
OneBudget ==
    /\ Budget!Init
    /\ [][UNCHANGED <<caps, grants, used>> \/ [Budget!Next]_(Budget!vars)]_vars
=============================================================================
