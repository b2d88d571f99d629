------------------------------- MODULE Payment -------------------------------
(***************************************************************************)
(* The collection of one finalized invoice through the payment provider:   *)
(* the outbox row, one attempt row per collection attempt (0 the first,    *)
(* 1..Retries the scheduled ones), the payment worker and the webhook      *)
(* worker of every management replica, and the provider.  A step of the    *)
(* payment worker is one SQL transaction (they lock what they read, or     *)
(* compare and set) or one provider call, so everything it holds between   *)
(* two steps may be stale.  The webhook worker's transaction does neither: *)
(* it is three steps, two reads and the write of what they decided.        *)
(* Either worker may stop at any point.                                    *)
(* The audit rows, which no decision reads, are left out, and a worker     *)
(* follows one row of a listing: further rows of the same listing are      *)
(* worked on as if another replica had listed them.                        *)
(***************************************************************************)
EXTENDS Naturals, FiniteSets

CONSTANTS
    Workers,      \* the payment worker of each management replica
    Hooks,        \* the webhook worker of each management replica
    Retries,      \* scheduled retries after the first failure (4 in the code)
    MaxCalls,     \* create requests the model follows per attempt (a bound)
    MaxEvents,    \* events up to which transactions change by themselves (a bound)
    MaxCrashes    \* worker crashes (a bound)

ASSUME RetriesAssumption == Retries \in Nat
ASSUME CallsAssumption == MaxCalls \in Nat \ {0} /\ MaxCrashes \in Nat

Attempts == 0..Retries

\* A provider transaction: the attempt in its custom data and which create
\* request for that attempt made it.
Txns == Attempts \X (1..MaxCalls)
NoTxn == <<0, 0>>

PaymentStates == {"ready", "submitting", "reconcile", "checkout", "paid",
                  "past_due", "operator_hold"}
AttemptStates == PaymentStates \cup {"none", "queued", "skipped"}
Statuses == {"ready", "past_due", "paid", "canceled"}

\* The events of one transaction, in the order in which they can occur.
Rank == [ready |-> 1, past_due |-> 2, paid |-> 3, canceled |-> 3]

VARIABLES
    outbox,     \* paymentOutboxRow
    attempts,   \* attempts[n]: paymentAttemptRow, state "none" when there is no row
    worker,     \* worker[w]: what the payment worker of replica w is doing
    hook,       \* hook[h]: the transaction of the webhook worker h
    txn,        \* txn[t]: the provider's status of transaction t
    event,      \* event[<<t, k>>]: "none", "sent" or, once processed, "done"
    calls,      \* calls[n]: create requests made for attempt n
    crashes

vars == <<outbox, attempts, worker, hook, txn, event, calls, crashes>>

paymentOutboxRow ==
    [state : PaymentStates \cup {"none"}, latest : Attempts,
     customer : BOOLEAN, failed : BOOLEAN, provider : Txns \cup {NoTxn}]

paymentAttemptRow ==
    [state : AttemptStates, provider : Txns \cup {NoTxn},
     last : [txn : Txns \cup {NoTxn}, rank : 0..3]]

\* job is the state the attempt must still be in when the work is finished,
\* next and txn the outcome to be written then.
Idle == [pc |-> "idle", n |-> 0, job |-> "none", next |-> "none", txn |-> NoTxn]
Work == [pc : {"idle", "customer", "submit", "claim", "method", "release",
               "create", "lookup", "finish"},
         n : Attempts, job : {"none", "submitting", "reconcile"},
         next : PaymentStates \cup {"none"}, txn : Txns \cup {NoTxn}]

\* The event in work and what was read of the invoice: its state, its latest
\* attempt and whether a failure was recorded.
NoHook == [pc |-> "idle", txn |-> NoTxn, kind |-> "none",
           state |-> "none", latest |-> 0, failed |-> FALSE]
Handling == [pc : {"idle", "attempt", "write"}, txn : Txns \cup {NoTxn},
             kind : Statuses \cup {"none"}, state : PaymentStates \cup {"none"},
             latest : Attempts, failed : BOOLEAN]

TypeOK ==
    /\ outbox \in paymentOutboxRow
    /\ attempts \in [Attempts -> paymentAttemptRow]
    /\ worker \in [Workers -> Work]
    /\ hook \in [Hooks -> Handling]
    /\ txn \in [Txns -> Statuses \cup {"none"}]
    /\ event \in [Txns \X Statuses -> {"none", "sent", "done"}]
    /\ calls \in [Attempts -> 0..MaxCalls]
    /\ crashes \in 0..MaxCrashes

NoRow == [state |-> "none", provider |-> NoTxn, last |-> [txn |-> NoTxn, rank |-> 0]]

Init ==
    /\ outbox = [state |-> "none", latest |-> 0, customer |-> FALSE,
                 failed |-> FALSE, provider |-> NoTxn]
    /\ attempts = [n \in Attempts |-> NoRow]
    /\ worker = [w \in Workers |-> Idle]
    /\ hook = [h \in Hooks |-> NoHook]
    /\ txn = [t \in Txns |-> "none"]
    /\ event = [e \in Txns \X Statuses |-> "none"]
    /\ calls = [n \in Attempts |-> 0]
    /\ crashes = 0

provider == <<txn, event, calls>>

-----------------------------------------------------------------------------
(* The rows. *)

\* Mutant: an invoice on hold waits for the operator, whatever is paid.
TransitionFromHold(from, to) ==
    to \in CASE from = "ready" -> {"submitting", "operator_hold"}
             [] from = "submitting" ->
                  {"reconcile", "checkout", "paid", "past_due", "operator_hold"}
             [] from = "reconcile" -> {"checkout", "paid", "past_due", "operator_hold"}
             [] from = "checkout" -> {"paid", "past_due", "operator_hold"}
             [] from = "past_due" -> {"paid", "operator_hold"}
             [] from = "operator_hold" -> {"reconcile"}
             [] OTHER -> {}

validPaymentTransition(from, to) ==
    to \in CASE from = "ready" -> {"submitting", "operator_hold"}
             [] from = "submitting" ->
                  {"reconcile", "checkout", "paid", "past_due", "operator_hold"}
             [] from = "reconcile" -> {"checkout", "paid", "past_due", "operator_hold"}
             [] from = "checkout" -> {"paid", "past_due", "operator_hold"}
             [] from = "past_due" -> {"paid", "operator_hold"}
             [] from = "operator_hold" -> {"reconcile", "checkout", "paid", "past_due"}
             [] OTHER -> {}

\* Mutant: the provider's word for a transaction's status is stored as it is.
PaymentStateRaw(status) == status

paddlePaymentState(status) ==
    CASE status = "paid" -> "paid"
      [] status = "past_due" -> "past_due"
      [] status = "ready" -> "checkout"
      [] OTHER -> "operator_hold"

\* Once attempt n has an outcome that ends collection, later retries are off.
SkipLater(rows, n, next) ==
    [m \in Attempts |->
        IF /\ next \in {"paid", "checkout", "operator_hold"}
           /\ m > n /\ rows[m].state = "queued"
        THEN [rows[m] EXCEPT !.state = "skipped"]
        ELSE rows[m]]

\* The first failure of the invoice creates the rows of all its retries.
schedulePaymentRetries(rows) ==
    [m \in Attempts |->
        IF m > 0 /\ rows[m].state = "none" THEN [NoRow EXCEPT !.state = "queued"]
                                           ELSE rows[m]]

QueuePayment ==
    /\ outbox.state = "none"
    /\ outbox' = [outbox EXCEPT !.state = "ready"]
    /\ attempts' = [attempts EXCEPT ![0].state = "ready"]
    /\ UNCHANGED <<worker, hook, provider, crashes>>

-----------------------------------------------------------------------------
(* The worker: the first submission of a ready invoice. *)

Goto(w, to) == worker' = [worker EXCEPT ![w] = to]
Stop(w) == Goto(w, Idle)

ProcessReadyPayments(w) ==
    /\ worker[w].pc = "idle"
    /\ outbox.state = "ready"
    /\ Goto(w, [Idle EXCEPT !.pc = "customer", !.job = "submitting"])
    /\ UNCHANGED <<outbox, attempts, hook, provider, crashes>>

SetPaymentCustomer(w) ==
    /\ worker[w].pc = "customer"
    /\ \/ /\ outbox.state = "ready"
          /\ outbox' = [outbox EXCEPT !.customer = TRUE]
          /\ Goto(w, [worker[w] EXCEPT !.pc = "submit"])
       \/ /\ outbox.state # "ready"
          /\ Stop(w)
          /\ UNCHANGED outbox
    /\ UNCHANGED <<attempts, hook, provider, crashes>>

\* UpdatePaymentState's effect on the two rows, and whether it succeeds: a row
\* that already is in the next state is left alone and reported as a success.
WriteState(expected, next, t) ==
    IF outbox.state = expected
    THEN /\ outbox' = [outbox EXCEPT !.state = next,
                                     !.provider = IF t = NoTxn THEN @ ELSE t]
         /\ attempts' = [attempts EXCEPT ![0].state = next,
                                         ![0].provider = IF t = NoTxn THEN @ ELSE t]
    ELSE UNCHANGED <<outbox, attempts>>
WriteSucceeds(expected, next) == outbox.state \in {expected, next}

MarkSubmitting(w) ==
    /\ worker[w].pc = "submit"
    /\ WriteState("ready", "submitting", NoTxn)
    /\ IF WriteSucceeds("ready", "submitting")
       THEN Goto(w, [worker[w] EXCEPT !.pc = "create"])
       ELSE Stop(w)
    /\ UNCHANGED <<hook, provider, crashes>>

-----------------------------------------------------------------------------
(* The worker: a scheduled retry.  When a retry becomes due is not          *)
(* modelled: any delay is possible.                                        *)

Queued == {n \in Attempts \ {0} : attempts[n].state = "queued"}

ProcessScheduledPaymentRetries(w) ==
    /\ worker[w].pc = "idle"
    /\ outbox.state = "past_due"
    /\ \E n \in Queued :
         /\ \A m \in Queued : n <= m
         /\ Goto(w, [Idle EXCEPT !.pc = "claim", !.n = n, !.job = "submitting"])
    /\ UNCHANGED <<outbox, attempts, hook, provider, crashes>>

\* Mutant: the claim trusts the listing and does not look at the attempt again.
ClaimListed(w) ==
    LET n == worker[w].n
    IN  /\ worker[w].pc = "claim"
        /\ attempts' = [attempts EXCEPT ![n].state = "submitting"]
        /\ outbox' = [outbox EXCEPT !.state = "submitting", !.latest = n]
        /\ Goto(w, [worker[w] EXCEPT !.pc = "method"])
        /\ UNCHANGED <<hook, provider, crashes>>

claimPaymentRetry(w) ==
    LET n == worker[w].n
    IN  /\ worker[w].pc = "claim"
        /\ \/ /\ attempts[n].state # "queued"
              /\ Stop(w)
              /\ UNCHANGED <<outbox, attempts>>
           \/ /\ attempts[n].state = "queued"
              /\ outbox.state # "past_due"
              /\ attempts' = [attempts EXCEPT ![n].state = "skipped"]
              /\ Stop(w)
              /\ UNCHANGED outbox
           \/ /\ attempts[n].state = "queued"
              /\ outbox.state = "past_due"
              /\ attempts' = [attempts EXCEPT ![n].state = "submitting"]
              /\ outbox' = [outbox EXCEPT !.state = "submitting", !.latest = n]
              /\ Goto(w, [worker[w] EXCEPT !.pc = "method"])
        /\ UNCHANGED <<hook, provider, crashes>>

\* The provider account, the saved methods and the invoice are read: a failure
\* of the first two gives the attempt back, one of the third holds it.
CheckRetry(w) ==
    /\ worker[w].pc = "method"
    /\ \/ Goto(w, [worker[w] EXCEPT !.pc = "release"])
       \/ Goto(w, [worker[w] EXCEPT !.pc = "finish", !.next = "operator_hold"])
       \/ Goto(w, [worker[w] EXCEPT !.pc = "create"])
    /\ UNCHANGED <<outbox, attempts, hook, provider, crashes>>

\* Mutant: the attempt is given back, the invoice stays as it was.
ReleaseAttemptOnly(w) ==
    LET n == worker[w].n
    IN  /\ worker[w].pc = "release"
        /\ attempts' = IF attempts[n].state = "submitting" /\ attempts[n].provider = NoTxn
                       THEN [attempts EXCEPT ![n].state = "queued"]
                       ELSE attempts
        /\ Stop(w)
        /\ UNCHANGED <<outbox, hook, provider, crashes>>

releasePaymentRetry(w) ==
    LET n == worker[w].n
        row == attempts[n]
    IN  /\ worker[w].pc = "release"
        /\ IF row.state = "submitting" /\ row.provider = NoTxn
           THEN /\ attempts' = [attempts EXCEPT ![n].state = "queued"]
                /\ outbox' = IF outbox.latest = n /\ outbox.state = "submitting"
                             THEN [outbox EXCEPT !.state = "past_due"]
                             ELSE outbox
           ELSE UNCHANGED <<outbox, attempts>>
        /\ Stop(w)
        /\ UNCHANGED <<hook, provider, crashes>>

-----------------------------------------------------------------------------
(* The one create request and what is written after it. *)

\* The request may fail with nothing created, create a transaction and lose
\* the answer, or create one and answer with its status, or with one the code
\* does not know.
CreateTransaction(w) ==
    LET n == worker[w].n
        t == <<n, calls[n] + 1>>
        After(next, id) == [worker[w] EXCEPT !.pc = "finish", !.next = next, !.txn = id]
    IN  /\ worker[w].pc = "create"
        /\ calls[n] < MaxCalls
        /\ calls' = [calls EXCEPT ![n] = @ + 1]
        /\ \/ /\ Goto(w, After("reconcile", NoTxn))
              /\ UNCHANGED <<txn, event>>
           \/ \E status \in {"ready", "past_due", "paid"} :
                /\ txn' = [txn EXCEPT ![t] = status]
                /\ event' = [event EXCEPT ![<<t, "ready">>] = "sent", ![<<t, status>>] = "sent"]
                /\ \/ Goto(w, After("reconcile", NoTxn))
                   \/ \E answer \in {status, "other"} :
                        Goto(w, After(paddlePaymentState(answer), t))
        /\ UNCHANGED <<outbox, attempts, hook, crashes>>

FinishSubmit(w) ==
    /\ worker[w].pc = "finish"
    /\ worker[w].n = 0 /\ worker[w].job = "submitting"
    /\ WriteState("submitting", worker[w].next, worker[w].txn)
    /\ Stop(w)
    /\ UNCHANGED <<hook, provider, crashes>>

\* Mutant: the invoice follows every attempt.
FollowsAny(n, next, latest) == {n, latest} \subseteq Attempts /\ next # "none"

\* The invoice follows the attempt if the attempt is the latest, or pays it.
Follows(n, next, latest) == next = "paid" \/ latest = n

\* Mutant: an attempt whose create failed is put back in the queue.
RequeueFailed(n, expected, next, t) ==
    IF attempts[n].state = expected
    THEN LET id == IF t = NoTxn THEN attempts[n].provider ELSE t
             to == IF next = "reconcile" THEN "queued" ELSE next
         IN  /\ attempts' = SkipLater([attempts EXCEPT ![n].state = to,
                                                       ![n].provider = id], n, to)
             /\ outbox' = IF Follows(n, next, outbox.latest)
                          THEN [outbox EXCEPT !.provider = id, !.state =
                                  IF next = "reconcile" THEN "past_due" ELSE next]
                          ELSE outbox
    ELSE UNCHANGED <<outbox, attempts>>

\* finishPaymentRetry's effect on the rows.
WriteOutcome(n, expected, next, t) ==
    IF attempts[n].state = expected
    THEN LET id == IF t = NoTxn THEN attempts[n].provider ELSE t
         IN  /\ attempts' = SkipLater([attempts EXCEPT ![n].state = next,
                                                       ![n].provider = id], n, next)
             /\ outbox' = IF Follows(n, next, outbox.latest)
                          THEN [outbox EXCEPT !.state = next, !.provider = id]
                          ELSE outbox
    ELSE UNCHANGED <<outbox, attempts>>

finishPaymentRetry(w) ==
    /\ worker[w].pc = "finish"
    /\ worker[w].n > 0 \/ worker[w].job = "reconcile"
    /\ WriteOutcome(worker[w].n, worker[w].job, worker[w].next, worker[w].txn)
    /\ Stop(w)
    /\ UNCHANGED <<hook, provider, crashes>>

-----------------------------------------------------------------------------
(* The worker: reconciling a create whose outcome is unknown. *)

ReconcilePendingPaymentAttempts(w) ==
    /\ worker[w].pc = "idle"
    /\ outbox.state = "reconcile"
    /\ \E n \in Attempts :
         /\ attempts[n].state = "reconcile"
         /\ Goto(w, [Idle EXCEPT !.pc = "lookup", !.n = n, !.job = "reconcile"])
    /\ UNCHANGED <<outbox, attempts, hook, provider, crashes>>

FindTransactionsByAttempt(n) == {t \in Txns : t[1] = n /\ txn[t] # "none"}

\* The lookup window may be over, the lookup may fail, and zero matches are
\* not yet an answer; only one match gives the attempt an outcome.
reconcilePaymentAttempt(w) ==
    LET matches == FindTransactionsByAttempt(worker[w].n)
        Hold == Goto(w, [worker[w] EXCEPT !.pc = "finish", !.next = "operator_hold"])
    IN  /\ worker[w].pc = "lookup"
        /\ \/ Hold
           \/ Stop(w)
           \/ /\ outbox.customer
              /\ Cardinality(matches) > 1
              /\ Hold
           \/ /\ outbox.customer
              /\ Cardinality(matches) = 1
              /\ \E t \in matches :
                   Goto(w, [worker[w] EXCEPT !.pc = "finish", !.txn = t,
                                             !.next = paddlePaymentState(txn[t])])
        /\ UNCHANGED <<outbox, attempts, hook, provider, crashes>>

\* A replica stops; the database rolls back what its webhook worker has begun.
Crash ==
    /\ crashes < MaxCrashes
    /\ crashes' = crashes + 1
    /\ \/ /\ \E w \in Workers : worker[w].pc # "idle" /\ Stop(w)
          /\ UNCHANGED hook
       \/ /\ \E h \in Hooks : hook[h].pc # "idle" /\ hook' = [hook EXCEPT ![h] = NoHook]
          /\ UNCHANGED worker
    /\ UNCHANGED <<outbox, attempts, provider>>

-----------------------------------------------------------------------------
(* The provider and its webhooks.  An event is recorded once, whatever the  *)
(* number of deliveries, and is pending until it is processed; how late it *)
(* arrives decides the order of processing.                                *)

Advance(t, from, to) ==
    /\ txn[t] \in from
    /\ Cardinality({e \in DOMAIN event : event[e] # "none"}) < MaxEvents
    /\ txn' = [txn EXCEPT ![t] = to]
    /\ event' = [event EXCEPT ![<<t, to>>] = "sent"]
    /\ UNCHANGED <<outbox, attempts, worker, hook, calls, crashes>>

CollectionFails(t) == Advance(t, {"ready"}, "past_due")
CustomerPays(t) == Advance(t, {"ready", "past_due"}, "paid")
ProviderCancels(t) == Advance(t, {"ready", "past_due"}, "canceled")

\* Whether an event is older than the last one applied to its attempt.  The
\* times of events of two transactions are not related.
Older(row, t, kind) ==
    IF row.last.txn \in {NoTxn, t} THEN {row.last.rank > Rank[kind]} ELSE BOOLEAN

HookTo(h, to) == hook' = [hook EXCEPT ![h] = to]

\* ProcessWebhook's first reads: an event nobody has processed and, without a
\* lock, its invoice.
ReadPayment(h, t, kind) ==
    /\ hook[h].pc = "idle"
    /\ event[<<t, kind>>] = "sent"
    /\ outbox.state # "none" /\ outbox.customer
    /\ HookTo(h, [pc |-> "attempt", txn |-> t, kind |-> kind, state |-> outbox.state,
                 latest |-> outbox.latest, failed |-> outbox.failed])
    /\ UNCHANGED <<outbox, attempts, worker, provider, crashes>>

\* The third read, and the decision: an event of another transaction, or one that
\* the invoice cannot follow, is left for the next pass; a stale one is only marked.
ReadAttempt(h) ==
    LET t == hook[h].txn
        kind == hook[h].kind
        target == paddlePaymentState(kind)
        row == attempts[t[1]]
        Mark == event' = [event EXCEPT ![<<t, kind>>] = "done"] /\ HookTo(h, NoHook)
        Leave == HookTo(h, NoHook) /\ UNCHANGED event
        Write == HookTo(h, [hook[h] EXCEPT !.pc = "write"]) /\ UNCHANGED event
    IN  /\ hook[h].pc = "attempt"
        /\ \/ /\ row.state = "none" \/ row.provider \notin {NoTxn, t}
              /\ Leave
           \/ /\ row.state # "none" /\ row.provider \in {NoTxn, t}
              /\ \E stale \in Older(row, t, kind) :
                   IF stale \/ (hook[h].state = "paid" /\ target # "paid") THEN Mark
                   ELSE IF \/ hook[h].state = target
                           \/ hook[h].latest # t[1]
                           \/ validPaymentTransition(hook[h].state, target)
                        THEN Write ELSE Leave
        /\ UNCHANGED <<outbox, attempts, worker, txn, calls, crashes>>

\* Mutant: the transaction is recorded only for the latest attempt.
ApplyToLatest(h) ==
    LET t == hook[h].txn
        n == t[1]
        target == paddlePaymentState(hook[h].kind)
        row == [state |-> target, provider |-> t,
                last |-> [txn |-> t, rank |-> Rank[hook[h].kind]]]
        rows == [attempts EXCEPT ![n] = row]
        first == target = "past_due" /\ ~hook[h].failed
    IN  /\ attempts' = SkipLater(IF first THEN schedulePaymentRetries(rows) ELSE rows,
                                 n, target)
        /\ outbox' = [outbox EXCEPT
                        !.state = IF Follows(n, target, hook[h].latest) THEN target ELSE @,
                        !.provider = IF hook[h].latest = n THEN t ELSE @,
                        !.failed = @ \/ first]

\* What the event of webhook worker h writes to its attempt and to the invoice,
\* whatever has become of them since they were read.
ApplyEvent(h) ==
    LET t == hook[h].txn
        n == t[1]
        target == paddlePaymentState(hook[h].kind)
        row == [state |-> target, provider |-> t,
                last |-> [txn |-> t, rank |-> Rank[hook[h].kind]]]
        rows == [attempts EXCEPT ![n] = row]
        first == target = "past_due" /\ ~hook[h].failed
    IN  /\ attempts' = SkipLater(IF first THEN schedulePaymentRetries(rows) ELSE rows,
                                 n, target)
        /\ outbox' = IF Follows(n, target, hook[h].latest)
                     THEN [outbox EXCEPT !.state = target, !.provider = t,
                                         !.failed = @ \/ first]
                     ELSE [outbox EXCEPT !.failed = @ \/ first]

\* The updates and the commit.  The event is marked processed; that another
\* replica has marked it already does not undo the rest.
WriteWebhook(h) ==
    /\ hook[h].pc = "write"
    /\ ApplyEvent(h)
    /\ event' = [event EXCEPT ![<<hook[h].txn, hook[h].kind>>] = "done"]
    /\ HookTo(h, NoHook)
    /\ UNCHANGED <<worker, txn, calls, crashes>>

-----------------------------------------------------------------------------
WorkerStep(w) ==
    \/ ProcessReadyPayments(w) \/ SetPaymentCustomer(w) \/ MarkSubmitting(w)
    \/ ProcessScheduledPaymentRetries(w) \/ claimPaymentRetry(w) \/ CheckRetry(w)
    \/ releasePaymentRetry(w) \/ CreateTransaction(w) \/ FinishSubmit(w)
    \/ finishPaymentRetry(w) \/ ReconcilePendingPaymentAttempts(w)
    \/ reconcilePaymentAttempt(w)

ProcessWebhook(h) ==
    \/ \E t \in Txns, kind \in Statuses : ReadPayment(h, t, kind)
    \/ ReadAttempt(h) \/ WriteWebhook(h)

Next ==
    \/ QueuePayment
    \/ \E w \in Workers : WorkerStep(w)
    \/ \E h \in Hooks : ProcessWebhook(h)
    \/ Crash
    \/ \E t \in Txns : CollectionFails(t) \/ CustomerPays(t) \/ ProviderCancels(t)

Spec == Init /\ [][Next]_vars

\* The worker loops of a replica take a step whenever they can, a webhook
\* transaction that is begun goes on, and every pass of a webhook worker comes to
\* all pending events (of which only those of payments are needed).
FairSpec ==
    /\ Spec
    /\ \A w \in Workers : WF_vars(WorkerStep(w))
    /\ \A h \in Hooks : WF_vars(ReadAttempt(h) \/ WriteWebhook(h))
    /\ \A t \in Txns : SF_vars(\E h \in Hooks : ReadPayment(h, t, "paid"))

-----------------------------------------------------------------------------
(* Properties. *)

\* However the workers of all replicas interleave with each other, with late
\* webhooks and with crashes, a scheduled retry makes at most one create
\* request: claimPaymentRetry is the only way to one and releasePaymentRetry
\* never gives back an attempt whose request was made.
RetryCreateOnce == \A n \in Attempts \ {0} : calls[n] <= 1

\* The scheduled retries behave as one-shot attempts: claimed by one worker,
\* given back only with no request made, never reopened afterwards.
RetryPhase ==
    [n \in Attempts \ {0} |->
        IF calls[n] > 0 THEN "spent"
        ELSE IF attempts[n].state = "submitting" THEN "held" ELSE "open"]

Collection == INSTANCE OneShot
    WITH Attempts <- Attempts \ {0}, phase <- RetryPhase,
         requests <- [n \in Attempts \ {0} |-> calls[n]]

OneShotRetries == Collection!Spec

\* Every create is one-shot, the first submission included: what the comment
\* of ProcessReadyPayments says of running it on every replica.
OneCreatePerAttempt == \A n \in Attempts : calls[n] <= 1

\* A paid invoice names a transaction that the provider really collected,
\* whichever of a webhook, the create's answer or a reconciliation wrote it.
PaidByItsTransaction ==
    outbox.state = "paid" => outbox.provider \in Txns /\ txn[outbox.provider] = "paid"

\* A paid invoice is never moved back by a claim, a release, the first submission
\* or an event of an attempt that is not the latest, however stale, with two
\* exceptions: a worker writing the outcome of the latest attempt in
\* finishPaymentRetry, which does not look at the invoice's state, and a webhook
\* transaction that read the invoice before it was paid, for an event of the
\* attempt that was then the latest.
PaidLeftOnlyByLatest ==
    [][outbox.state = "paid" /\ outbox'.state # "paid" =>
         \/ \E w \in Workers : /\ worker[w].pc = "finish" /\ worker'[w] = Idle
                               /\ worker[w].n = outbox.latest
         \/ \E h \in Hooks : /\ hook[h].pc = "write" /\ hook'[h] = NoHook
                             /\ hook[h].state # "paid"
                             /\ hook[h].txn[1] = hook[h].latest]_vars

\* As long as no worker stops in the middle, an invoice does not stay in the
\* submitting state, out of which neither listing of the worker takes it.
SubmittingEnds ==
    (outbox.state = "submitting" /\ crashes = 0)
        ~> (outbox.state # "submitting" \/ crashes > 0)

\* A collected payment is applied to the invoice, however late its event and
\* whatever state reconciliation, a crash or a later retry left the rows in,
\* unless the attempt has a second transaction.
PaymentNoticed ==
    \A t \in Txns :
        (event[<<t, "paid">>] = "sent" /\ calls[t[1]] = 1)
            ~> (outbox.state = "paid" \/ calls[t[1]] > 1)
=============================================================================
