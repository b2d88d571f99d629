---------------------------- MODULE DeviceUsage ----------------------------
(***************************************************************************)
(* The device ledger an account is billed from: membership changes turned  *)
(* into lifecycle events (usage/collection.go, lifecycle.go), the reports  *)
(* computed from them (report.go), the invoices drawn from the reports     *)
(* (billing/store.go) and the pruning of old events behind a checkpoint    *)
(* (checkpoint.go, billing/payment_state.go).                              *)
(* A membership transaction holds the account's collection row and samples *)
(* its timestamp before it commits; reports, invoices and pruning do not   *)
(* wait for it, so an event may turn up in the ledger up to MaxOpen ticks  *)
(* after its own time.  The transaction is one step, its commit; one that  *)
(* is rolled back does nothing.  A report of the API reads one snapshot;   *)
(* the report an invoice is drawn from runs inside the command's own       *)
(* read-committed transaction, where each of its statements sees what was  *)
(* committed before it, and is one step per statement.  Replicas share one *)
(* clock, so the refusals of regressing timestamps never fire.             *)
(* A tick stands for a microsecond: nothing happens between two ticks.     *)
(* A generation is the sequence number of its enrolment event.             *)
(***************************************************************************)
EXTENDS Integers, FiniteSets, FiniteSetsExt, SequencesExt

CONSTANTS
    Devices,            \* peer ids
    LastMonth,          \* months 0..LastMonth
    MonthLen,           \* ticks of a month
    Retention,          \* ticks an invoiced month keeps its events
    MaxReportWindow,
    MaxTime,            \* the last tick (a bound)
    MaxSeq,             \* events (a bound)
    MaxPeriods,         \* coverage periods (a bound)
    MaxOpen,            \* ticks from a transaction's timestamp to its commit
    MaxRaw              \* changes the ledger is not told of (a bound)

ASSUME DeviceUsageAssumption ==
    /\ IsFiniteSet(Devices)
    /\ LastMonth \in Nat /\ MonthLen \in Nat \ {0} /\ Retention \in Nat
    /\ MaxReportWindow \in Nat /\ MonthLen <= MaxReportWindow
    /\ MaxTime \in Nat /\ MaxSeq \in Nat /\ MaxPeriods \in Nat \ {0}
    /\ MaxOpen \in Nat /\ MaxRaw \in Nat

Months == 0..LastMonth
MonthStart(m) == m * MonthLen
MonthEnd(m) == (m + 1) * MonthLen
MonthTicks(m) == MonthStart(m)..(MonthEnd(m) - 1)
Ticks == 0..MaxTime

VARIABLES
    now,
    account,      \* the account exists
    members,      \* its peers
    enrolled,     \* enrolled[d]: the generation of d's enrollment row, 0 without one
    events,       \* the retained lifecycle events
    recorded,     \* every event since the beginning, the pruned ones too (history)
    stream,       \* sequence number of the last event
    enabled,      \* collection.Enabled
    periods,      \* coverage periods, the current one last
    checkpoints,
    invoices,     \* invoices[m]
    draft,        \* what the finalize command has read so far
    since,        \* the earliest timestamp a transaction under way may have
    truth,        \* truth[t]: members at tick t while collected, else 0 (history)
    pruned,       \* months whose events were deleted (history)
    unseen,       \* periods with a change nobody recorded or reconciled (history)
    raw           \* changes the ledger was not told of (history)

ledger == <<enrolled, events, recorded, stream>>
vars == <<now, account, members, ledger, enabled, periods, checkpoints, invoices,
          draft, since, truth, pruned, unseen, raw>>

Open == MaxTime + 1      \* the end of a period that has none

event == [seq : 1..MaxSeq, gen : 1..MaxSeq, kind : {"enrolled", "revoked"}, at : Ticks]
Period == [start : Ticks, end : Ticks \cup {Open}, complete : BOOLEAN]
deviceCheckpoint == [seq : 1..MaxSeq, boundary : Ticks, count : 0..Cardinality(Devices)]
NoInvoice == [drawn |-> FALSE]

NoCheckpoint == [seq |-> 0, boundary |-> 0, count |-> 0]

\* The command for a month: the statement it is at, the checkpoint it selected,
\* the count and sequence number at the month's start.  sound (history): when it
\* started no transaction could still be open from before the month's end and no
\* change was unseen, and the events of its opening count were all there.
Draft == [step : {"none", "checkpoint", "opening", "events"}, month : Months,
          from : deviceCheckpoint \cup {NoCheckpoint}, count : Nat, seq : 0..MaxSeq,
          sound : BOOLEAN]
NoDraft == [step |-> "none", month |-> 0, from |-> NoCheckpoint, count |-> 0, seq |-> 0,
            sound |-> FALSE]

TypeOK ==
    /\ now \in Ticks
    /\ account \in BOOLEAN /\ enabled \in BOOLEAN
    /\ members \subseteq Devices
    /\ enrolled \in [Devices -> 0..MaxSeq]
    /\ events \subseteq event /\ recorded \subseteq event
    /\ stream \in 0..MaxSeq
    /\ periods \in Seq(Period)
    /\ checkpoints \in Seq(deviceCheckpoint)
    /\ DOMAIN invoices = Months
    /\ draft \in Draft
    /\ since \in Ticks
    /\ truth \in [Ticks -> 0..Cardinality(Devices)]
    /\ pruned \subseteq Months /\ unseen \subseteq 1..MaxPeriods /\ raw \in 0..MaxRaw

\* Collection has just been enabled for an account without peers.
Init ==
    /\ now = 0 /\ account = TRUE
    /\ members = {}
    /\ enrolled = [d \in Devices |-> 0]
    /\ events = {} /\ recorded = {} /\ stream = 0
    /\ enabled = TRUE /\ checkpoints = <<>>
    /\ periods = <<[start |-> 0, end |-> Open, complete |-> TRUE]>>
    /\ invoices = [m \in Months |-> NoInvoice] /\ draft = NoDraft
    /\ since = 0
    /\ truth = [t \in Ticks |-> 0]
    /\ pruned = {} /\ unseen = {} /\ raw = 0

-----------------------------------------------------------------------------
(* The ledger: Append and synchronize. *)

activeEnrollments == {d \in Devices : enrolled[d] # 0}

Count(es) == Cardinality({e \in es : e.kind = "enrolled"})
             - Cardinality({e \in es : e.kind = "revoked"})

Latest == IF checkpoints = <<>> THEN [seq |-> 0, boundary |-> -1, count |-> 0]
                                ELSE Last(checkpoints)

\* The ways to number ds from n + 1 on; ids are opaque, so any order may be
\* that of the database.
Orders(ds, n) ==
    {f \in [ds -> (n + 1)..(n + Cardinality(ds))] : \A d, o \in ds : f[d] = f[o] => d = o}

\* A generation is revoked once, and only if its enrolment is in the ledger.
Revocable(gen) ==
    {e.kind : e \in {o \in events : o.gen = gen}} = {"enrolled"}

\* The events of a transaction: the generations of the devices that leave are
\* revoked, a device that joins starts one.
Revocations(gone, seq, at) ==
    {[seq |-> seq[d], gen |-> enrolled[d], kind |-> "revoked", at |-> at] : d \in gone}
Enrolments(new, gen, at) ==
    {[seq |-> gen[d], gen |-> gen[d], kind |-> "enrolled", at |-> at] : d \in new}

\* Mutant: the enrollment row of a revoked device stays.
SynchronizeKeepRows(wanted, at) ==
    LET gone == activeEnrollments \ wanted
        new == wanted \ activeEnrollments
        first == stream + Cardinality(gone)
    IN
    /\ gone \cup new # {} => at > Latest.boundary
    /\ \A d \in gone : Revocable(enrolled[d])
    /\ first + Cardinality(new) <= MaxSeq
    /\ stream' = first + Cardinality(new)
    /\ \E seq \in Orders(gone, stream), gen \in Orders(new, first) :
        LET added == Revocations(gone, seq, at) \cup Enrolments(new, gen, at) IN
        /\ events' = events \cup added
        /\ recorded' = recorded \cup added
        /\ enrolled' = [d \in Devices |-> IF d \in new THEN gen[d] ELSE enrolled[d]]

\* Revocations of the rows that are not wanted, then enrolments, in the order
\* of the devices; any refusal of Append aborts the transaction.
synchronize(wanted, at) ==
    LET gone == activeEnrollments \ wanted
        new == wanted \ activeEnrollments
        first == stream + Cardinality(gone)
    IN
    /\ gone \cup new # {} => at > Latest.boundary
    /\ \A d \in gone : Revocable(enrolled[d])
    /\ first + Cardinality(new) <= MaxSeq
    /\ stream' = first + Cardinality(new)
    /\ \E seq \in Orders(gone, stream), gen \in Orders(new, first) :
        LET added == Revocations(gone, seq, at) \cup Enrolments(new, gen, at) IN
        /\ events' = events \cup added
        /\ recorded' = recorded \cup added
        /\ enrolled' = [d \in Devices |-> IF d \in new THEN gen[d] ELSE IF d \in gone THEN 0 ELSE enrolled[d]]

-----------------------------------------------------------------------------
(* Membership transactions. *)

\* The timestamps a transaction that commits now may have sampled: it had the
\* row to itself since then.
Sampled == since..now

Observed(n, at) == [t \in Ticks |-> IF t >= at THEN n ELSE truth[t]]

closePeriod(at, complete) ==
    [periods EXCEPT ![Len(periods)].end = at, ![Len(periods)].complete = complete]

startPeriod(ps, at) == Append(ps, [start |-> at, end |-> Open, complete |-> TRUE])

\* Track refuses to go on from a membership the ledger does not know.  A bulk
\* change calls it several times in one transaction, each call with a timestamp
\* of its own: the next step may start from this one's.
Track(to, at) ==
    /\ account /\ enabled
    /\ members = activeEnrollments /\ to # members
    /\ synchronize(to, at)
    /\ members' = to
    /\ truth' = Observed(Cardinality(to), at)
    /\ since' = at
    /\ UNCHANGED <<now, account, enabled, periods, checkpoints, invoices, draft, pruned, unseen, raw>>

\* With collection off Track only runs the change.
TrackDisabled(to) ==
    /\ account /\ ~enabled /\ to # members
    /\ members' = to
    /\ raw < MaxRaw /\ raw' = raw + 1
    /\ since' = now
    /\ UNCHANGED <<now, account, ledger, enabled, periods, checkpoints, invoices, draft, truth,
                   pruned, unseen>>

\* DeleteAccount: Track, then Configure(false), each with a timestamp of its
\* own, in one transaction.
DeleteAccount(at, closed) ==
    /\ account /\ enabled
    /\ members = activeEnrollments
    /\ at <= closed
    /\ synchronize({}, at)
    /\ members' = {}
    /\ periods' = closePeriod(closed, TRUE)
    /\ enabled' = FALSE /\ account' = FALSE
    /\ truth' = Observed(0, at)
    /\ since' = now
    /\ UNCHANGED <<now, checkpoints, invoices, draft, pruned, unseen, raw>>

\* The same with collection off.
DeleteAccountDisabled ==
    /\ account /\ ~enabled
    /\ members' = {} /\ account' = FALSE
    /\ since' = now
    /\ UNCHANGED <<now, ledger, enabled, periods, checkpoints, invoices, draft, truth, pruned,
                   unseen, raw>>

ConfigureOn(at) ==
    /\ account /\ ~enabled /\ Len(periods) < MaxPeriods
    /\ synchronize(members, at)
    /\ periods' = startPeriod(periods, at)
    /\ enabled' = TRUE
    /\ truth' = Observed(Cardinality(members), at)
    /\ since' = now
    /\ UNCHANGED <<now, account, members, checkpoints, invoices, draft, pruned, unseen, raw>>

\* The last of MaxPeriods periods ends with the account only.
ConfigureOff(at) ==
    /\ account /\ enabled /\ Len(periods) < MaxPeriods
    /\ periods' = closePeriod(at, TRUE)
    /\ enabled' = FALSE
    /\ truth' = Observed(0, at)
    /\ since' = now
    /\ UNCHANGED <<now, account, members, ledger, checkpoints, invoices, draft, pruned, unseen, raw>>

\* Mutant: the period keeps its claim to be complete.
ReconcileComplete(at) ==
    /\ enabled /\ members # activeEnrollments /\ Len(periods) < MaxPeriods
    /\ synchronize(members, at)
    /\ periods' = startPeriod(closePeriod(at, TRUE), at)
    /\ unseen' = unseen \ {Len(periods)}
    /\ since' = now
    /\ UNCHANGED <<now, account, members, enabled, checkpoints, invoices, draft, truth, pruned, raw>>

Reconcile(at) ==
    /\ enabled /\ members # activeEnrollments /\ Len(periods) < MaxPeriods
    /\ synchronize(members, at)
    /\ periods' = startPeriod(closePeriod(at, FALSE), at)
    /\ unseen' = unseen \ {Len(periods)}
    /\ since' = now
    /\ UNCHANGED <<now, account, members, enabled, checkpoints, invoices, draft, truth, pruned, raw>>

\* A writer that does not use Track.  A second change that undoes the first
\* before anyone looks cannot be noticed and is left out.
RawChange(d) ==
    LET to == IF d \in members THEN members \ {d} ELSE members \cup {d} IN
    /\ account /\ enabled /\ members = activeEnrollments
    /\ raw < MaxRaw /\ raw' = raw + 1
    /\ members' = to
    /\ truth' = Observed(Cardinality(to), now)
    /\ unseen' = unseen \cup {Len(periods)}
    /\ since' = now
    /\ UNCHANGED <<now, account, ledger, enabled, periods, checkpoints, invoices, draft, pruned>>

-----------------------------------------------------------------------------
(* Reports: Reporter.Devices for the ticks a..b-1. *)

checkpointAt(a) ==
    LET usable == {i \in DOMAIN checkpoints : checkpoints[i].boundary <= a}
    IN  IF usable = {} THEN NoCheckpoint ELSE checkpoints[Max(usable)]

Opening(c, a) == {e \in events : e.seq > c.seq /\ e.at <= a}
OpeningSeq(c, a) == Max({e.seq : e \in Opening(c, a)} \cup {c.seq})
openingCount(c, a) == c.count + Count(Opening(c, a))

Changes(c, a, b) == {e \in events : e.seq > c.seq /\ a < e.at /\ e.at < b}

composeReport(a, b) ==
    LET c == checkpointAt(a)
        opening == openingCount(c, a)
        changes == Changes(c, a, b)
    IN  [t \in a..(b - 1) |-> opening + Count({e \in changes : e.at <= t})]

Covering(t) == {i \in DOMAIN periods : periods[i].start <= t /\ t < periods[i].end}

\* The checkpoint needed is gone, a sequence number is missing, or the counts
\* or periods make no sense.
Refused(a, b) ==
    LET c == checkpointAt(a)
        seq == OpeningSeq(c, a)
        later == {e.seq : e \in Changes(c, a, b)}
    IN
    \/ c.seq = 0 /\ checkpoints # <<>>
    \/ Cardinality(Opening(c, a)) # seq - c.seq
    \/ later # (seq + 1)..(seq + Cardinality(later))
    \/ \E n \in Range(composeReport(a, b)) : n < 0
    \/ \E t \in a..(b - 1) : Cardinality(Covering(t)) > 1

\* Mutant: any period vouches for its ticks, a reconciled one too.
CoveredAt(t) == Covering(t) # {}

CompleteAt(t) == \E i \in Covering(t) : periods[i].complete

Reportable(a, b) == a < b /\ b - a <= MaxReportWindow /\ b <= now /\ ~Refused(a, b)

\* The events that a report up to b - 1 adds to its checkpoint c were not pruned
\* (history).  The sequence numbers do not show all that were: of those before
\* the window only a later event that is kept reveals the gap.
KeptSince(c, b) ==
    \A m \in pruned : b <= MonthStart(m) \/ (c.seq # 0 /\ MonthEnd(m) - 1 <= c.boundary)
Kept(a, b) == KeptSince(checkpointAt(a), b)

-----------------------------------------------------------------------------
(* Invoices and retention. *)

\* The operator's command, a statement at a time: the account and the coverage
\* periods, the checkpoint, the opening count, the events.  A refusal ends it, and
\* it may be started again; of a month that has its invoice it changes nothing.
ReadCoverage(m) ==
    /\ account /\ ~invoices[m].drawn /\ MonthEnd(m) <= now
    /\ \A t \in MonthTicks(m) : CompleteAt(t) /\ Cardinality(Covering(t)) = 1
    /\ draft' = [NoDraft EXCEPT !.step = "checkpoint", !.month = m,
                     !.sound = now >= MonthEnd(m) + MaxOpen /\ unseen = {}]
    /\ UNCHANGED <<now, account, members, ledger, enabled, periods, checkpoints, invoices,
                   since, truth, pruned, unseen, raw>>

ReadCheckpoint ==
    LET c == checkpointAt(MonthStart(draft.month)) IN
    /\ draft.step = "checkpoint"
    /\ c.seq = 0 => checkpoints = <<>>
    /\ draft' = [draft EXCEPT !.step = "opening", !.from = c]
    /\ UNCHANGED <<now, account, members, ledger, enabled, periods, checkpoints, invoices,
                   since, truth, pruned, unseen, raw>>

ReadOpening ==
    LET c == draft.from
        a == MonthStart(draft.month)
        b == MonthEnd(draft.month)
    IN
    /\ draft.step = "opening"
    /\ Cardinality(Opening(c, a)) = OpeningSeq(c, a) - c.seq
    /\ openingCount(c, a) >= 0
    /\ draft' = [draft EXCEPT !.step = "events", !.count = openingCount(c, a),
                     !.seq = OpeningSeq(c, a), !.sound = draft.sound /\ KeptSince(c, b)]
    /\ UNCHANGED <<now, account, members, ledger, enabled, periods, checkpoints, invoices,
                   since, truth, pruned, unseen, raw>>

FinalizeInvoice ==
    LET m == draft.month
        changes == Changes(draft.from, MonthStart(m), MonthEnd(m))
        later == {e.seq : e \in changes}
        devices == [t \in MonthTicks(m) |-> draft.count + Count({e \in changes : e.at <= t})]
    IN
    /\ draft.step = "events" /\ ~invoices[m].drawn
    /\ later = (draft.seq + 1)..(draft.seq + Cardinality(later))
    /\ \A t \in MonthTicks(m) : devices[t] >= 0
    /\ invoices' = [invoices EXCEPT ![m] =
          [drawn |-> TRUE, devices |-> devices, sound |-> draft.sound]]
    /\ draft' = NoDraft
    /\ UNCHANGED <<now, account, members, ledger, enabled, periods, checkpoints, since,
                   truth, pruned, unseen, raw>>

\* Mutant: a checkpoint does not start from the count of the one before it.
BuildFromZero(boundary) ==
    LET rows == {e \in events : e.seq > Latest.seq /\ e.at <= boundary} IN
    [seq |-> Latest.seq + Cardinality(rows), boundary |-> boundary, count |-> Count(rows)]

buildCheckpoint(boundary) ==
    LET rows == {e \in events : e.seq > Latest.seq /\ e.at <= boundary} IN
    [seq |-> Latest.seq + Cardinality(rows), boundary |-> boundary,
     count |-> Latest.count + Count(rows)]

\* The rows a new checkpoint is built from follow on from the one before.
Continuous(boundary) ==
    {e.seq : e \in {o \in events : o.seq > Latest.seq /\ o.at <= boundary}}
        = (Latest.seq + 1)..buildCheckpoint(boundary).seq

\* Mutant: the first instant of the next month is deleted too.
InPeriodClosed(m) == {e \in events : MonthStart(m) <= e.at /\ e.at <= MonthEnd(m)}

InPeriod(m) == {e \in events : MonthStart(m) <= e.at /\ e.at < MonthEnd(m)}

PruneFinalizedPeriod(m) ==
    LET boundary == MonthEnd(m) - 1
        new == buildCheckpoint(boundary)
    IN
    /\ invoices[m].drawn
    /\ now >= MonthEnd(m) + Retention
    /\ InPeriod(m) # {}
    /\ IF boundary > Latest.boundary
       THEN /\ Continuous(boundary)
            /\ checkpoints' = IF new.seq = Latest.seq THEN checkpoints
                                                      ELSE Append(checkpoints, new)
       ELSE UNCHANGED checkpoints
    /\ events' = events \ InPeriod(m)
    /\ pruned' = pruned \cup {m}
    /\ UNCHANGED <<now, account, members, enrolled, recorded, stream, enabled, periods, invoices, draft,
                   since, truth, unseen, raw>>

Tick ==
    /\ now < MaxTime
    /\ now' = now + 1
    /\ since' = Max({since, now + 1 - MaxOpen})
    /\ UNCHANGED <<account, members, ledger, enabled, periods, checkpoints, invoices, draft,
                   truth, pruned, unseen, raw>>

-----------------------------------------------------------------------------
Next ==
    \/ \E at \in Sampled :
        \/ \E to \in SUBSET Devices : Track(to, at)
        \/ \E closed \in Sampled : DeleteAccount(at, closed)
        \/ ConfigureOn(at) \/ ConfigureOff(at) \/ Reconcile(at)
    \/ \E to \in SUBSET Devices : TrackDisabled(to)
    \/ DeleteAccountDisabled
    \/ \E d \in Devices : RawChange(d)
    \/ \E m \in Months : ReadCoverage(m)
    \/ ReadCheckpoint \/ ReadOpening \/ FinalizeInvoice
    \/ \E m \in Months : PruneFinalizedPeriod(m)
    \/ Tick

Spec == Init /\ [][Next]_vars

-----------------------------------------------------------------------------
(* Properties. *)

\* "Only complete segments carry a device count" (usage/README.md): over a window
\* whose raw events since its checkpoint are still kept, whichever other months
\* are pruned, in whatever order, and whatever was enabled, disabled or
\* reconciled, a count reported for a complete tick is the number of members at
\* that tick.
ReportExact ==
    \A a \in 0..(now - 1) : \A b \in (a + 1)..now :
        b - a <= MaxReportWindow =>
            LET report == composeReport(a, b) IN
            \A t \in a..(b - 1) : \A i \in Covering(t) :
                periods[i].complete /\ i \notin unseen =>
                    \/ report[t] = truth[t]
                    \/ ~(Kept(a, b) /\ Reportable(a, b))

\* Pruning takes no later report away: a window that starts after the last
\* checkpoint is never refused (checkpointAt, openingCount and the sequence
\* check of Devices).
ReportAvailable ==
    \A a \in 0..(now - 1) : \A b \in (a + 1)..now :
        a >= Latest.boundary /\ b - a <= MaxReportWindow => Reportable(a, b)

\* An active enrollment can be revoked, so that its device can be deleted,
\* unless the checkpoint has taken its enrolment event (Append, synchronize).
RevocableUnlessCheckpointed ==
    \A d \in activeEnrollments : Revocable(enrolled[d]) \/ enrolled[d] <= Latest.seq

\* "later changes to usage or estimates cannot replace a finalized snapshot"
\* (FinalizeInvoice), and need not: an invoice whose command started once the
\* transactions of its month were over, and found the events of its opening
\* count still there, agrees with the membership of that month and keeps doing
\* so, whatever is committed or pruned between its statements.
InvoiceExact ==
    \A m \in Months :
        invoices[m].drawn /\ invoices[m].sound =>
            \A t \in MonthTicks(m) : invoices[m].devices[t] = truth[t]
=============================================================================
