---------------------------- MODULE PaymentProofs ----------------------------
(***************************************************************************)
(* For any number of replicas and retries: the types, that a scheduled     *)
(* retry makes at most one create request, that the retries implement      *)
(* OneShot, that a paid invoice names a collected transaction, and who may *)
(* move a paid invoice.                                                    *)
(***************************************************************************)
EXTENDS Payment, TLAPS

Outcomes == {"reconcile", "checkout", "paid", "past_due", "operator_hold"}

\* A worker that has claimed retry n and not yet let go of it.
Holds(w, n) ==
    /\ worker[w].n = n /\ worker[w].job = "submitting"
    /\ worker[w].pc \in {"method", "release", "create", "finish"}

\* Nothing exists at the provider that no request made.
ProviderInv ==
    /\ \A t \in Txns : txn[t] # "none" => t[2] <= calls[t[1]]
    /\ \A t \in Txns, kind \in Statuses : event[<<t, kind>>] # "none" => txn[t] # "none"

\* A row that no worker has claimed made no request.
RowInv ==
    \A n \in Attempts \ {0} :
        attempts[n].state \in {"none", "queued", "skipped"} => calls[n] = 0

\* A retry has one holder; it is submitting, with no request made, until the
\* holder makes its one request, and it is not back in the queue afterwards.
HolderInv ==
    \A n \in Attempts \ {0}, w \in Workers :
        Holds(w, n) =>
            /\ \A v \in Workers : Holds(v, n) => v = w
            /\ attempts[n].state \notin {"none", "queued", "skipped"}
            /\ worker[w].pc # "finish" => attempts[n].state = "submitting" /\ calls[n] = 0

\* What a worker is about to write is an outcome, and a payment only if the
\* transaction was collected.
WorkerInv ==
    \A w \in Workers :
        /\ worker[w].pc = "finish" =>
             /\ worker[w].next \in Outcomes
             /\ worker[w].next = "paid" =>
                  worker[w].txn \in Txns /\ txn[worker[w].txn] = "paid"
        /\ worker[w].pc \in {"claim", "method", "release"} =>
             worker[w].n # 0 /\ worker[w].job = "submitting"
        /\ worker[w].pc \in {"customer", "submit"} =>
             worker[w].n = 0 /\ worker[w].job = "submitting"
        /\ worker[w].pc = "create" => worker[w].job = "submitting"
        /\ worker[w].pc = "lookup" => worker[w].job = "reconcile"

PaidEventInv == \A t \in Txns : event[<<t, "paid">>] # "none" => txn[t] = "paid"

\* A webhook transaction is about an event that exists, and writes anything but
\* a payment only if it did not read the invoice as paid.
HookInv ==
    \A h \in Hooks : hook[h].pc # "idle" =>
        /\ hook[h].txn \in Txns /\ hook[h].kind \in Statuses
        /\ event[<<hook[h].txn, hook[h].kind>>] # "none"
        /\ hook[h].pc = "write" /\ hook[h].state = "paid" => hook[h].kind = "paid"

IInv ==
    /\ TypeOK /\ ProviderInv /\ RowInv /\ HolderInv /\ WorkerInv /\ PaidEventInv
    /\ HookInv
    /\ RetryCreateOnce /\ PaidByItsTransaction

-----------------------------------------------------------------------------
(* Types. *)

LEMMA PaddleState ==
    ASSUME NEW s
    PROVE  /\ paddlePaymentState(s) \in {"paid", "past_due", "checkout", "operator_hold"}
           /\ paddlePaymentState(s) = "paid" <=> s = "paid"
  BY DEF paddlePaymentState

LEMMA SkipLaterRows ==
    ASSUME NEW rows \in [Attempts -> paymentAttemptRow], NEW n, NEW next
    PROVE  /\ SkipLater(rows, n, next) \in [Attempts -> paymentAttemptRow]
           /\ \A m \in Attempts :
                \/ SkipLater(rows, n, next)[m] = rows[m]
                \/ /\ rows[m].state = "queued" /\ m # n
                   /\ SkipLater(rows, n, next)[m].state = "skipped"
  BY DEF SkipLater, paymentAttemptRow, AttemptStates, Attempts

LEMMA ScheduledRows ==
    ASSUME NEW rows \in [Attempts -> paymentAttemptRow]
    PROVE  /\ schedulePaymentRetries(rows) \in [Attempts -> paymentAttemptRow]
           /\ \A m \in Attempts :
                \/ schedulePaymentRetries(rows)[m] = rows[m]
                \/ /\ rows[m].state = "none"
                   /\ schedulePaymentRetries(rows)[m].state = "queued"
  BY DEF schedulePaymentRetries, paymentAttemptRow, AttemptStates, NoRow

LEMMA TypeInit == Init => TypeOK
  BY RetriesAssumption, CallsAssumption
     DEF Init, TypeOK, paymentOutboxRow, paymentAttemptRow, NoRow, Idle, Work, Attempts,
         AttemptStates, NoHook, Handling

LEMMA NoHandling == NoHook \in Handling
  BY RetriesAssumption DEF NoHook, Handling, Attempts

LEMMA IdleWork == Idle \in Work
  BY RetriesAssumption DEF Idle, Work, Attempts

LEMMA RowState ==
    ASSUME TypeOK, NEW n \in Attempts, NEW st \in AttemptStates
    PROVE  [attempts EXCEPT ![n].state = st] \in [Attempts -> paymentAttemptRow]
  BY DEF TypeOK, paymentAttemptRow

LEMMA RowWrite ==
    ASSUME TypeOK, NEW n \in Attempts, NEW st \in AttemptStates,
           NEW t \in Txns \cup {NoTxn}
    PROVE  [attempts EXCEPT ![n].state = st, ![n].provider = t]
             \in [Attempts -> paymentAttemptRow]
  <1> DEFINE rows == [attempts EXCEPT ![n].state = st]
  <1>1. rows \in [Attempts -> paymentAttemptRow]
    BY RowState
  <1>2. [rows EXCEPT ![n].provider = t] \in [Attempts -> paymentAttemptRow]
    BY <1>1 DEF paymentAttemptRow
  <1>3. [attempts EXCEPT ![n].state = st, ![n].provider = t]
          = [rows EXCEPT ![n].provider = t]
    BY <1>1 DEF TypeOK
  <1> QED BY <1>2, <1>3

LEMMA TypeStep == TypeOK /\ WorkerInv /\ HookInv /\ [Next]_vars => TypeOK'
  <1> SUFFICES ASSUME TypeOK, WorkerInv, HookInv, [Next]_vars PROVE TypeOK'
    OBVIOUS
  <1> USE RetriesAssumption, CallsAssumption
  <1>a. ASSUME NEW w \in Workers, NEW to \in Work, Goto(w, to)
        PROVE  worker' \in [Workers -> Work]
    BY <1>a DEF TypeOK, Goto
  <1>b. ASSUME NEW w \in Workers, Stop(w)
        PROVE  worker' \in [Workers -> Work]
    BY <1>a, <1>b, IdleWork DEF Stop
  <1>d. /\ 0 \in Attempts /\ PaymentStates \subseteq AttemptStates
        /\ "ready" \in AttemptStates /\ "submitting" \in AttemptStates
        /\ "queued" \in AttemptStates /\ "skipped" \in AttemptStates
    BY DEF AttemptStates, PaymentStates, Attempts
  <1>1. CASE QueuePayment
    <2>1. attempts' = [attempts EXCEPT ![0].state = "ready"]
      BY <1>1 DEF QueuePayment
    <2>3. attempts' \in [Attempts -> paymentAttemptRow]
      BY <1>d, <2>1, RowState, Zenon
    <2> QED BY <1>1, <2>3 DEF QueuePayment, provider, TypeOK, paymentOutboxRow, PaymentStates
  <1>2. ASSUME NEW w \in Workers, ProcessReadyPayments(w) PROVE TypeOK'
    <2>1. [Idle EXCEPT !.pc = "customer", !.job = "submitting"] \in Work
      BY IdleWork DEF Work
    <2> QED BY <1>2, <1>a, <2>1 DEF ProcessReadyPayments, TypeOK, provider
  <1>3. ASSUME NEW w \in Workers, SetPaymentCustomer(w) PROVE TypeOK'
    <2>1. [worker[w] EXCEPT !.pc = "submit"] \in Work
      BY DEF TypeOK, Work
    <2>2. worker' \in [Workers -> Work]
      BY <1>3, <1>a, <1>b, <2>1 DEF SetPaymentCustomer
    <2> QED BY <1>3, <2>2 DEF SetPaymentCustomer, TypeOK, paymentOutboxRow, provider
  <1>c. ASSUME NEW expected, NEW next \in PaymentStates, NEW t \in Txns \cup {NoTxn},
               WriteState(expected, next, t)
        PROVE  /\ outbox' \in paymentOutboxRow
               /\ attempts' \in [Attempts -> paymentAttemptRow]
    <2>1. outbox' \in paymentOutboxRow
      BY <1>c DEF WriteState, TypeOK, paymentOutboxRow
    <2> DEFINE id == IF t = NoTxn THEN attempts[0].provider ELSE t
    <2>2. id \in Txns \cup {NoTxn}
      BY <1>d DEF TypeOK, paymentAttemptRow
    <2>3. \/ attempts' = attempts
          \/ attempts' = [attempts EXCEPT ![0].state = next, ![0].provider = id]
      BY <1>c, <1>d DEF WriteState, TypeOK
    <2>4. attempts \in [Attempts -> paymentAttemptRow]
      BY DEF TypeOK
    <2> HIDE DEF id
    <2>5. next \in AttemptStates
      BY <1>d
    <2>6. [attempts EXCEPT ![0].state = next, ![0].provider = id]
            \in [Attempts -> paymentAttemptRow]
      BY <2>2, <2>5, <1>d, RowWrite, Zenon
    <2>7. attempts' \in [Attempts -> paymentAttemptRow]
      BY <2>3, <2>4, <2>6, Zenon
    <2> QED BY <2>1, <2>7
  <1>4. ASSUME NEW w \in Workers, MarkSubmitting(w) PROVE TypeOK'
    <2>1. [worker[w] EXCEPT !.pc = "create"] \in Work
      BY DEF TypeOK, Work
    <2>2. worker' \in [Workers -> Work]
      BY <1>4, <1>a, <1>b, <2>1 DEF MarkSubmitting
    <2>3. outbox' \in paymentOutboxRow /\ attempts' \in [Attempts -> paymentAttemptRow]
      BY <1>4, <1>c DEF MarkSubmitting, PaymentStates
    <2> QED BY <1>4, <2>2, <2>3 DEF MarkSubmitting, TypeOK, provider
  <1>5. ASSUME NEW w \in Workers, ProcessScheduledPaymentRetries(w) PROVE TypeOK'
    <2>1. \A n \in Attempts :
            [Idle EXCEPT !.pc = "claim", !.n = n, !.job = "submitting"] \in Work
      BY IdleWork DEF Work
    <2>2. worker' \in [Workers -> Work]
      BY <1>5, <1>a, <2>1 DEF ProcessScheduledPaymentRetries, Queued
    <2> QED BY <1>5, <2>2 DEF ProcessScheduledPaymentRetries, TypeOK, provider
  <1>6. ASSUME NEW w \in Workers, claimPaymentRetry(w) PROVE TypeOK'
    <2>1. worker[w].n \in Attempts /\ [worker[w] EXCEPT !.pc = "method"] \in Work
      BY DEF TypeOK, Work
    <2>2. worker' \in [Workers -> Work]
      BY <1>6, <1>a, <1>b, <2>1 DEF claimPaymentRetry
    <2>3. attempts' \in [Attempts -> paymentAttemptRow]
      <3>1. \/ attempts' = attempts
            \/ attempts' = [attempts EXCEPT ![worker[w].n].state = "skipped"]
            \/ attempts' = [attempts EXCEPT ![worker[w].n].state = "submitting"]
        BY <1>6 DEF claimPaymentRetry
      <3>2. attempts \in [Attempts -> paymentAttemptRow]
        BY DEF TypeOK
      <3>3. \A st \in AttemptStates : [attempts EXCEPT ![worker[w].n].state = st]
                                        \in [Attempts -> paymentAttemptRow]
        BY <2>1, RowState, Zenon
      <3> QED BY <3>1, <3>2, <3>3, <1>d, Zenon
    <2>4. outbox' \in paymentOutboxRow
      BY <1>6, <2>1 DEF claimPaymentRetry, TypeOK, paymentOutboxRow, PaymentStates
    <2> QED BY <1>6, <2>2, <2>3, <2>4 DEF claimPaymentRetry, TypeOK, provider
  <1>7. ASSUME NEW w \in Workers, CheckRetry(w) PROVE TypeOK'
    <2>1. /\ [worker[w] EXCEPT !.pc = "release"] \in Work
          /\ [worker[w] EXCEPT !.pc = "finish", !.next = "operator_hold"] \in Work
          /\ [worker[w] EXCEPT !.pc = "create"] \in Work
      BY DEF TypeOK, Work, PaymentStates
    <2>2. worker' \in [Workers -> Work]
      BY <1>7, <1>a, <2>1 DEF CheckRetry
    <2> QED BY <1>7, <2>2 DEF CheckRetry, TypeOK, provider
  <1>8. ASSUME NEW w \in Workers, releasePaymentRetry(w) PROVE TypeOK'
    <2>1. worker[w].n \in Attempts
      BY DEF TypeOK, Work
    <2>2. worker' \in [Workers -> Work]
      BY <1>8, <1>b DEF releasePaymentRetry
    <2>3. attempts' \in [Attempts -> paymentAttemptRow]
      <3>1. \/ attempts' = attempts
            \/ attempts' = [attempts EXCEPT ![worker[w].n].state = "queued"]
        BY <1>8 DEF releasePaymentRetry
      <3>2. attempts \in [Attempts -> paymentAttemptRow]
        BY DEF TypeOK
      <3>3. \A st \in AttemptStates : [attempts EXCEPT ![worker[w].n].state = st]
                                        \in [Attempts -> paymentAttemptRow]
        BY <2>1, RowState, Zenon
      <3> QED BY <3>1, <3>2, <3>3, <1>d, Zenon
    <2>4. outbox' \in paymentOutboxRow
      BY <1>8 DEF releasePaymentRetry, TypeOK, paymentOutboxRow, PaymentStates
    <2> QED BY <1>8, <2>2, <2>3, <2>4 DEF releasePaymentRetry, TypeOK, provider
  <1>9. ASSUME NEW w \in Workers, CreateTransaction(w) PROVE TypeOK'
    <2> DEFINE n == worker[w].n
               t == <<n, calls[n] + 1>>
    <2>1. n \in Attempts /\ calls[n] \in 0..MaxCalls
      BY DEF TypeOK, Work
    <2>2. calls[n] < MaxCalls /\ calls' = [calls EXCEPT ![n] = @ + 1]
      BY <1>9 DEF CreateTransaction
    <2>3. t \in Txns /\ calls' \in [Attempts -> 0..MaxCalls]
      BY <2>1, <2>2 DEF Txns, TypeOK
    <2>4. \A st \in PaymentStates, id \in Txns \cup {NoTxn} :
            [worker[w] EXCEPT !.pc = "finish", !.next = st, !.txn = id] \in Work
      BY DEF TypeOK, Work
    <2>5. worker' \in [Workers -> Work]
      <3>1. "reconcile" \in PaymentStates /\ \A s : paddlePaymentState(s) \in PaymentStates
        BY PaddleState DEF PaymentStates
      <3> HIDE DEF t, n
      <3>2. \E st \in PaymentStates, id \in Txns \cup {NoTxn} :
              Goto(w, [worker[w] EXCEPT !.pc = "finish", !.next = st, !.txn = id])
        BY <1>9, <2>3, <3>1 DEF CreateTransaction, n, t
      <3> QED BY <3>2, <2>4, <1>a
    <2>6. txn' \in [Txns -> Statuses \cup {"none"}]
      BY <1>9, <2>3 DEF CreateTransaction, TypeOK, Statuses
    <2>7. event' \in [Txns \X Statuses -> {"none", "sent", "done"}]
      BY <1>9, <2>3 DEF CreateTransaction, TypeOK
    <2> QED BY <1>9, <2>3, <2>5, <2>6, <2>7 DEF CreateTransaction, TypeOK
  <1>10. ASSUME NEW w \in Workers, FinishSubmit(w) PROVE TypeOK'
    <2>1. worker[w].next \in PaymentStates /\ worker[w].txn \in Txns \cup {NoTxn}
      BY <1>10 DEF TypeOK, Work, WorkerInv, FinishSubmit, Outcomes, PaymentStates
    <2>2. worker' \in [Workers -> Work]
      BY <1>10, <1>b DEF FinishSubmit
    <2>3. outbox' \in paymentOutboxRow /\ attempts' \in [Attempts -> paymentAttemptRow]
      BY <1>10, <1>c, <2>1 DEF FinishSubmit
    <2> QED BY <1>10, <2>2, <2>3 DEF FinishSubmit, TypeOK, provider
  <1>11. ASSUME NEW w \in Workers, finishPaymentRetry(w) PROVE TypeOK'
    <2> DEFINE n == worker[w].n
               next == worker[w].next
               t == worker[w].txn
               id == IF t = NoTxn THEN attempts[n].provider ELSE t
               rows == [attempts EXCEPT ![n].state = next, ![n].provider = id]
    <2>1. next \in PaymentStates /\ t \in Txns \cup {NoTxn} /\ n \in Attempts
      BY <1>11 DEF TypeOK, Work, WorkerInv, finishPaymentRetry, Outcomes, PaymentStates
    <2>2. worker' \in [Workers -> Work]
      BY <1>11, <1>b DEF finishPaymentRetry
    <2>3. id \in Txns \cup {NoTxn}
      BY <2>1 DEF TypeOK, paymentAttemptRow
    <2>4. /\ \/ attempts' = attempts
             \/ attempts' = SkipLater(rows, n, next)
          /\ \/ outbox' = outbox
             \/ outbox' = [outbox EXCEPT !.state = next, !.provider = id]
      BY <1>11 DEF finishPaymentRetry, WriteOutcome
    <2> HIDE DEF id, n, next
    <2>5. rows \in [Attempts -> paymentAttemptRow]
      BY <2>1, <2>3, <1>d, RowWrite, Zenon
    <2> HIDE DEF rows
    <2>6. attempts' \in [Attempts -> paymentAttemptRow]
      BY <2>4, <2>5, SkipLaterRows DEF TypeOK
    <2>7. outbox' \in paymentOutboxRow
      BY <2>4, <2>1, <2>3 DEF TypeOK, paymentOutboxRow
    <2> QED BY <1>11, <2>2, <2>6, <2>7 DEF finishPaymentRetry, TypeOK, provider
  <1>12. ASSUME NEW w \in Workers, ReconcilePendingPaymentAttempts(w) PROVE TypeOK'
    <2>1. \A n \in Attempts :
            [Idle EXCEPT !.pc = "lookup", !.n = n, !.job = "reconcile"] \in Work
      BY IdleWork DEF Work
    <2>2. worker' \in [Workers -> Work]
      BY <1>12, <1>a, <2>1 DEF ReconcilePendingPaymentAttempts
    <2> QED BY <1>12, <2>2 DEF ReconcilePendingPaymentAttempts, TypeOK, provider
  <1>13. ASSUME NEW w \in Workers, reconcilePaymentAttempt(w) PROVE TypeOK'
    <2>1. /\ [worker[w] EXCEPT !.pc = "finish", !.next = "operator_hold"] \in Work
          /\ \A t \in Txns, st \in PaymentStates :
               [worker[w] EXCEPT !.pc = "finish", !.txn = t, !.next = st] \in Work
      BY DEF TypeOK, Work, PaymentStates
    <2>2. \A s : paddlePaymentState(s) \in PaymentStates
      BY PaddleState DEF PaymentStates
    <2>3. worker' \in [Workers -> Work]
      BY <1>13, <1>a, <1>b, <2>1, <2>2
         DEF reconcilePaymentAttempt, FindTransactionsByAttempt
    <2> QED BY <1>13, <2>3 DEF reconcilePaymentAttempt, TypeOK, provider
  <1>e. ASSUME NEW h \in Hooks, NEW to \in Handling, HookTo(h, to)
        PROVE  hook' \in [Hooks -> Handling]
    BY <1>e DEF TypeOK, HookTo
  <1>14. CASE Crash
    <2>1. worker' \in [Workers -> Work] /\ hook' \in [Hooks -> Handling]
      BY <1>14, <1>b, NoHandling DEF Crash, TypeOK
    <2> QED BY <1>14, <2>1 DEF Crash, TypeOK, provider
  <1>15. ASSUME NEW t \in Txns, NEW from, NEW to \in Statuses, Advance(t, from, to)
         PROVE  TypeOK'
    BY <1>15 DEF Advance, TypeOK
  <1>16. ASSUME NEW h \in Hooks, NEW t \in Txns, NEW kind \in Statuses, ReadPayment(h, t, kind)
         PROVE  TypeOK'
    <2>1. [pc |-> "attempt", txn |-> t, kind |-> kind, state |-> outbox.state,
           latest |-> outbox.latest, failed |-> outbox.failed] \in Handling
      BY DEF TypeOK, paymentOutboxRow, Handling
    <2>2. hook' \in [Hooks -> Handling]
      BY <1>16, <1>e, <2>1 DEF ReadPayment
    <2> QED BY <1>16, <2>2 DEF ReadPayment, TypeOK, provider
  <1>19. ASSUME NEW h \in Hooks, ReadAttempt(h) PROVE TypeOK'
    <2>1. [hook[h] EXCEPT !.pc = "write"] \in Handling
      BY DEF TypeOK, Handling
    <2>2. /\ \/ HookTo(h, NoHook)
             \/ HookTo(h, [hook[h] EXCEPT !.pc = "write"])
          /\ \/ event' = event
             \/ event' = [event EXCEPT ![<<hook[h].txn, hook[h].kind>>] = "done"]
          /\ UNCHANGED <<outbox, attempts, worker, txn, calls, crashes>>
      BY <1>19 DEF ReadAttempt
    <2>3. hook' \in [Hooks -> Handling]
      BY <1>e, <2>1, <2>2, NoHandling
    <2>4. event' \in [Txns \X Statuses -> {"none", "sent", "done"}]
      BY <2>2 DEF TypeOK
    <2> QED BY <2>2, <2>3, <2>4 DEF TypeOK
  <1>20. ASSUME NEW h \in Hooks, WriteWebhook(h) PROVE TypeOK'
    <2>0. hook[h].txn \in Txns /\ hook[h].kind \in Statuses
      BY <1>20 DEF WriteWebhook, HookInv
    <2>a. PICK t \in Txns, kind \in Statuses : t = hook[h].txn /\ kind = hook[h].kind
      BY <2>0
    <2> DEFINE n == t[1]
               target == paddlePaymentState(kind)
               row == [state |-> target, provider |-> t,
                       last |-> [txn |-> t, rank |-> Rank[kind]]]
               rows == [attempts EXCEPT ![n] = row]
               first == target = "past_due" /\ ~hook[h].failed
    <2>1. n \in Attempts /\ target \in PaymentStates
      BY PaddleState DEF Txns, PaymentStates
    <2>2. row \in paymentAttemptRow
      <3>1. Rank[kind] \in 0..3
        BY DEF Rank, Statuses
      <3> HIDE DEF target
      <3> QED BY <3>1, <2>1, <1>d DEF paymentAttemptRow
    <2>3. /\ attempts' = SkipLater(IF first THEN schedulePaymentRetries(rows) ELSE rows,
                                   n, target)
          /\ \/ outbox' = [outbox EXCEPT !.state = target, !.provider = t,
                                         !.failed = @ \/ first]
             \/ outbox' = [outbox EXCEPT !.failed = @ \/ first]
      BY <1>20, <2>a DEF WriteWebhook, ApplyEvent
    <2> HIDE DEF row, target, n
    <2>4. rows \in [Attempts -> paymentAttemptRow]
      BY <2>1, <2>2 DEF TypeOK
    <2>5. outbox' \in paymentOutboxRow
      BY <2>1, <2>3 DEF TypeOK, paymentOutboxRow
    <2> HIDE DEF rows, first
    <2>6. attempts' \in [Attempts -> paymentAttemptRow]
      BY <2>3, <2>4, ScheduledRows, SkipLaterRows DEF TypeOK
    <2>7. event' \in [Txns \X Statuses -> {"none", "sent", "done"}]
      BY <1>20 DEF WriteWebhook, TypeOK
    <2>8. hook' \in [Hooks -> Handling]
      BY <1>20, <1>e, NoHandling DEF WriteWebhook
    <2> QED BY <1>20, <2>5, <2>6, <2>7, <2>8 DEF WriteWebhook, TypeOK
  <1>17. CASE UNCHANGED vars
    BY <1>17 DEF vars, TypeOK
  <1>18. "past_due" \in Statuses /\ "paid" \in Statuses /\ "canceled" \in Statuses
    BY DEF Statuses
  <1> QED
    BY <1>1, <1>2, <1>3, <1>4, <1>5, <1>6, <1>7, <1>8, <1>9, <1>10, <1>11, <1>12,
       <1>13, <1>14, <1>15, <1>16, <1>17, <1>18, <1>19, <1>20
       DEF Next, WorkerStep, CollectionFails, CustomerPays, ProviderCancels, ProcessWebhook

-----------------------------------------------------------------------------
(* The provider's side. *)

LEMMA ProviderStep ==
    ASSUME TypeOK, ProviderInv, PaidEventInv, HookInv, [Next]_vars
    PROVE  /\ ProviderInv' /\ PaidEventInv'
           /\ \A t \in Txns : txn[t] = "paid" => txn'[t] = "paid"
           /\ \A t \in Txns, kind \in Statuses :
                event[<<t, kind>>] # "none" => event'[<<t, kind>>] # "none"
  <1> DEFINE Goal == /\ ProviderInv' /\ PaidEventInv'
                     /\ \A t \in Txns : txn[t] = "paid" => txn'[t] = "paid"
                     /\ \A t \in Txns, kind \in Statuses :
                          event[<<t, kind>>] # "none" => event'[<<t, kind>>] # "none"
  <1> USE RetriesAssumption, CallsAssumption
  <1>1. ASSUME NEW w \in Workers, CreateTransaction(w) PROVE Goal
    <2> DEFINE n == worker[w].n
               new == <<n, calls[n] + 1>>
    <2>1. n \in Attempts /\ calls[n] \in Nat /\ calls[n] < MaxCalls
      BY <1>1 DEF CreateTransaction, TypeOK, Work
    <2>2. new \in Txns /\ new[1] = n /\ new[2] = calls[n] + 1
      BY <2>1 DEF Txns, TypeOK
    <2>3. \A m \in Attempts : calls'[m] = IF m = n THEN calls[n] + 1 ELSE calls[m]
      BY <1>1, <2>1 DEF CreateTransaction, TypeOK
    <2>4. txn[new] = "none" /\ \A kind \in Statuses : event[<<new, kind>>] = "none"
      BY <2>1, <2>2 DEF ProviderInv, TypeOK
    <2>5. \A t \in Txns : t[1] \in Attempts /\ calls[t[1]] <= calls'[t[1]]
      BY <2>1, <2>3 DEF Txns, TypeOK
    <2>6. \/ txn' = txn /\ event' = event
          \/ \E status \in {"ready", "past_due", "paid"} :
               /\ txn' = [txn EXCEPT ![new] = status]
               /\ event' = [event EXCEPT ![<<new, "ready">>] = "sent",
                                         ![<<new, status>>] = "sent"]
      BY <1>1 DEF CreateTransaction
    <2>7. \A t \in Txns : t[2] \in Nat /\ calls'[t[1]] \in Nat /\ calls[t[1]] \in Nat
      BY <2>1, <2>3 DEF Txns, TypeOK
    <2> HIDE DEF new, n
    <2>8. CASE txn' = txn /\ event' = event
      BY <2>5, <2>7, <2>8 DEF ProviderInv, PaidEventInv
    <2>9. ASSUME NEW status \in {"ready", "past_due", "paid"},
                 txn' = [txn EXCEPT ![new] = status],
                 event' = [event EXCEPT ![<<new, "ready">>] = "sent",
                                        ![<<new, status>>] = "sent"]
          PROVE  Goal
      <3>1. \A t \in Txns : txn'[t] = IF t = new THEN status ELSE txn[t]
        BY <2>2, <2>9 DEF TypeOK
      <3>2. \A t \in Txns, kind \in Statuses :
              event'[<<t, kind>>] = IF t = new /\ kind \in {"ready", status}
                                THEN "sent" ELSE event[<<t, kind>>]
        BY <2>2, <2>9 DEF TypeOK, Statuses
      <3>3. \A t \in Txns : txn'[t] # "none" => t[2] <= calls'[t[1]]
        BY <2>1, <2>2, <2>3, <2>5, <2>7, <3>1 DEF ProviderInv
      <3>4. \A t \in Txns, kind \in Statuses : event'[<<t, kind>>] # "none" => txn'[t] # "none"
        BY <3>1, <3>2, <2>4 DEF ProviderInv
      <3>5. \A t \in Txns : event'[<<t, "paid">>] # "none" => txn'[t] = "paid"
        BY <3>1, <3>2, <2>4 DEF PaidEventInv, Statuses
      <3> QED BY <3>1, <3>2, <3>3, <3>4, <3>5, <2>4 DEF ProviderInv, PaidEventInv
    <2> QED BY <2>6, <2>8, <2>9
  <1>2. ASSUME NEW t \in Txns, NEW from \in SUBSET {"ready", "past_due"},
               NEW to \in Statuses, Advance(t, from, to)
        PROVE  Goal
    <2>1. txn[t] \in {"ready", "past_due"} /\ calls' = calls
      BY <1>2 DEF Advance
    <2>2. \A u \in Txns : txn'[u] = IF u = t THEN to ELSE txn[u]
      BY <1>2 DEF Advance, TypeOK
    <2>3. \A u \in Txns, kind \in Statuses :
            event'[<<u, kind>>] = IF u = t /\ kind = to THEN "sent" ELSE event[<<u, kind>>]
      BY <1>2 DEF Advance, TypeOK
    <2>4. to # "none" /\ "paid" \in Statuses
      BY DEF Statuses
    <2>5. event[<<t, "paid">>] = "none"
      BY <2>1 DEF PaidEventInv
    <2> QED BY <2>1, <2>2, <2>3, <2>4, <2>5 DEF ProviderInv, PaidEventInv
  <1>3. ASSUME NEW h \in Hooks, ProcessWebhook(h) PROVE Goal
    <2>1. txn' = txn /\ calls' = calls
      BY <1>3 DEF ProcessWebhook, ReadPayment, ReadAttempt, WriteWebhook, provider
    <2>2. \/ event' = event
          \/ /\ hook[h].pc # "idle"
             /\ event' = [event EXCEPT ![<<hook[h].txn, hook[h].kind>>] = "done"]
      BY <1>3 DEF ProcessWebhook, ReadPayment, ReadAttempt, WriteWebhook, provider
    <2>3. \A u \in Txns, k \in Statuses : event'[<<u, k>>] # "none" <=> event[<<u, k>>] # "none"
      BY <2>2 DEF HookInv, TypeOK
    <2>4. "paid" \in Statuses
      BY DEF Statuses
    <2> QED BY <2>1, <2>3, <2>4 DEF ProviderInv, PaidEventInv
  <1>4. ASSUME UNCHANGED provider PROVE Goal
    BY <1>4 DEF provider, ProviderInv, PaidEventInv
  <1>5. "past_due" \in Statuses /\ "paid" \in Statuses /\ "canceled" \in Statuses
    BY DEF Statuses
  <1>6. ASSUME NEW w \in Workers, WorkerStep(w) PROVE Goal
    BY <1>1, <1>4, <1>6
       DEF WorkerStep, ProcessReadyPayments, SetPaymentCustomer, MarkSubmitting,
           ProcessScheduledPaymentRetries, claimPaymentRetry, CheckRetry,
           releasePaymentRetry, FinishSubmit, finishPaymentRetry,
           ReconcilePendingPaymentAttempts, reconcilePaymentAttempt
  <1>7. CASE QueuePayment \/ UNCHANGED vars \/ Crash
    BY <1>4, <1>7 DEF QueuePayment, Crash, vars, provider
  <1> QED
    BY <1>2, <1>3, <1>5, <1>6, <1>7
       DEF Next, CollectionFails, CustomerPays, ProviderCancels

-----------------------------------------------------------------------------
(* What a webhook transaction carries from one step to the next. *)

LEMMA HookInvStep ==
    ASSUME TypeOK, ProviderInv, PaidEventInv, HookInv, [Next]_vars
    PROVE  HookInv'
  <1> DEFINE OK(x, e) ==
        x.pc # "idle" =>
            /\ x.txn \in Txns /\ x.kind \in Statuses
            /\ e[<<x.txn, x.kind>>] # "none"
            /\ x.pc = "write" /\ x.state = "paid" => x.kind = "paid"
  <1>1. \A h \in Hooks : OK(hook[h], event')
    <2>1. \A t \in Txns, kind \in Statuses :
            event[<<t, kind>>] # "none" => event'[<<t, kind>>] # "none"
      BY ProviderStep
    <2> QED BY <2>1 DEF HookInv
  <1>2. ASSUME hook' = hook PROVE HookInv'
    BY <1>1, <1>2 DEF HookInv
  <1>3. OK(NoHook, event')
    BY DEF NoHook
  <1>4. ASSUME NEW h \in Hooks, NEW to, HookTo(h, to), OK(to, event') PROVE HookInv'
    <2>1. \A g \in Hooks : hook'[g] = IF g = h THEN to ELSE hook[g]
      BY <1>4 DEF HookTo, TypeOK
    <2>2. \A g \in Hooks : OK(hook'[g], event')
      <3> HIDE DEF OK
      <3> QED BY <1>1, <1>4, <2>1
    <2> QED BY <2>2 DEF HookInv
  <1>5. ASSUME NEW h \in Hooks, NEW t \in Txns, NEW kind \in Statuses, ReadPayment(h, t, kind)
        PROVE  HookInv'
    <2> DEFINE to == [pc |-> "attempt", txn |-> t, kind |-> kind, state |-> outbox.state,
                      latest |-> outbox.latest, failed |-> outbox.failed]
    <2>1. OK(to, event')
      BY <1>5 DEF ReadPayment, provider
    <2>2. HookTo(h, to)
      BY <1>5 DEF ReadPayment
    <2> HIDE DEF to, OK
    <2> QED BY <1>4, <2>1, <2>2
  <1>6. ASSUME NEW h \in Hooks, ReadAttempt(h) PROVE HookInv'
    <2> DEFINE to == [hook[h] EXCEPT !.pc = "write"]
               target == paddlePaymentState(hook[h].kind)
    <2>1. hook[h].pc = "attempt"
      BY <1>6 DEF ReadAttempt
    <2>2. \/ HookTo(h, NoHook)
          \/ HookTo(h, to) /\ ~(hook[h].state = "paid" /\ target # "paid")
      BY <1>6 DEF ReadAttempt
    <2>3. CASE HookTo(h, NoHook)
      <3> HIDE DEF OK
      <3> QED BY <1>3, <1>4, <2>3
    <2>4. CASE HookTo(h, to) /\ ~(hook[h].state = "paid" /\ target # "paid")
      <3>1. hook[h].state = "paid" => hook[h].kind = "paid"
        BY <2>4, PaddleState
      <3>2. /\ to.pc = "write" /\ to.txn = hook[h].txn /\ to.kind = hook[h].kind
            /\ to.state = hook[h].state
        BY DEF TypeOK, Handling
      <3> HIDE DEF to, target
      <3>3. OK(to, event')
        BY <1>1, <2>1, <3>1, <3>2
      <3> HIDE DEF OK
      <3> QED BY <1>4, <2>4, <3>3
    <2> HIDE DEF to, target, OK
    <2> QED BY <2>2, <2>3, <2>4
  <1>7. ASSUME NEW h \in Hooks, WriteWebhook(h) PROVE HookInv'
    <2>1. HookTo(h, NoHook)
      BY <1>7 DEF WriteWebhook
    <2> HIDE DEF OK
    <2> QED BY <1>3, <1>4, <2>1
  <1>8. CASE Crash
    <2>1. hook' = hook \/ \E h \in Hooks : HookTo(h, NoHook)
      BY <1>8 DEF Crash, HookTo
    <2> HIDE DEF OK
    <2> QED BY <1>2, <1>3, <1>4, <2>1
  <1>9. ASSUME NEW w \in Workers, WorkerStep(w) PROVE HookInv'
    BY <1>2, <1>9
       DEF WorkerStep, ProcessReadyPayments, SetPaymentCustomer, MarkSubmitting,
           ProcessScheduledPaymentRetries, claimPaymentRetry, CheckRetry,
           releasePaymentRetry, CreateTransaction, FinishSubmit, finishPaymentRetry,
           ReconcilePendingPaymentAttempts, reconcilePaymentAttempt
  <1>10. CASE \/ QueuePayment \/ UNCHANGED vars
              \/ \E t \in Txns : CollectionFails(t) \/ CustomerPays(t) \/ ProviderCancels(t)
    BY <1>2, <1>10 DEF QueuePayment, vars, CollectionFails, CustomerPays, ProviderCancels, Advance
  <1> HIDE DEF OK
  <1> QED BY <1>5, <1>6, <1>7, <1>8, <1>9, <1>10 DEF Next, ProcessWebhook

-----------------------------------------------------------------------------
(* What a worker carries from one step to the next. *)

WorkOK(work, status) ==
    /\ work.pc = "finish" =>
         /\ work.next \in Outcomes
         /\ work.next = "paid" => work.txn \in Txns /\ status[work.txn] = "paid"
    /\ work.pc \in {"claim", "method", "release"} => work.n # 0 /\ work.job = "submitting"
    /\ work.pc \in {"customer", "submit"} => work.n = 0 /\ work.job = "submitting"
    /\ work.pc = "create" => work.job = "submitting"
    /\ work.pc = "lookup" => work.job = "reconcile"

LEMMA WorkerFrame ==
    ASSUME TypeOK, WorkerInv, NEW w \in Workers, NEW to \in Work, Goto(w, to),
           \A t \in Txns : txn[t] = "paid" => txn'[t] = "paid",
           WorkOK(to, txn')
    PROVE  WorkerInv'
  <1>1. \A v \in Workers : WorkOK(worker[v], txn)
    BY DEF WorkerInv, WorkOK
  <1>2. \A v \in Workers : WorkOK(worker[v], txn')
    BY <1>1 DEF WorkOK
  <1>3. \A v \in Workers : worker'[v] = IF v = w THEN to ELSE worker[v]
    BY DEF Goto, TypeOK
  <1>4. \A v \in Workers : WorkOK(worker'[v], txn')
    BY <1>2, <1>3
  <1> QED BY <1>4 DEF WorkerInv, WorkOK

LEMMA WorkerInvStep ==
    ASSUME TypeOK, ProviderInv, PaidEventInv, HookInv, WorkerInv, [Next]_vars
    PROVE  WorkerInv'
  <1>p. \A t \in Txns : txn[t] = "paid" => txn'[t] = "paid"
    BY ProviderStep
  <1>w. \A w \in Workers : worker[w] \in Work /\ WorkOK(worker[w], txn)
    BY DEF TypeOK, WorkerInv, WorkOK
  <1>i. WorkOK(Idle, txn') /\ Idle \in Work /\ Idle.n = 0
    BY IdleWork DEF WorkOK, Idle
  <1>s. ASSUME NEW w \in Workers, Stop(w) PROVE WorkerInv'
    BY <1>s, <1>i, <1>p, WorkerFrame DEF Stop
  <1>1. ASSUME NEW w \in Workers, ProcessReadyPayments(w) PROVE WorkerInv'
    <2> DEFINE to == [Idle EXCEPT !.pc = "customer", !.job = "submitting"]
    <2>1. to \in Work /\ WorkOK(to, txn')
      BY <1>i DEF Work, WorkOK
    <2> HIDE DEF to
    <2> QED BY <1>1, <1>p, <2>1, WorkerFrame DEF ProcessReadyPayments, to
  <1>2. ASSUME NEW w \in Workers, SetPaymentCustomer(w) PROVE WorkerInv'
    <2> DEFINE to == [worker[w] EXCEPT !.pc = "submit"]
    <2>1. SetPaymentCustomer(w) => to \in Work /\ WorkOK(to, txn')
      BY <1>w DEF Work, WorkOK, SetPaymentCustomer
    <2> HIDE DEF to
    <2> QED BY <1>2, <1>s, <1>p, <2>1, WorkerFrame DEF SetPaymentCustomer, to
  <1>3. ASSUME NEW w \in Workers, MarkSubmitting(w) PROVE WorkerInv'
    <2> DEFINE to == [worker[w] EXCEPT !.pc = "create"]
    <2>1. MarkSubmitting(w) => to \in Work /\ WorkOK(to, txn')
      BY <1>w DEF Work, WorkOK, MarkSubmitting
    <2> HIDE DEF to
    <2> QED BY <1>3, <1>s, <1>p, <2>1, WorkerFrame DEF MarkSubmitting, to
  <1>4. ASSUME NEW w \in Workers, ProcessScheduledPaymentRetries(w) PROVE WorkerInv'
    <2>1. PICK n \in Queued :
            Goto(w, [Idle EXCEPT !.pc = "claim", !.n = n, !.job = "submitting"])
      BY <1>4 DEF ProcessScheduledPaymentRetries
    <2> DEFINE to == [Idle EXCEPT !.pc = "claim", !.n = n, !.job = "submitting"]
    <2>2. n \in Attempts /\ n # 0
      BY DEF Queued
    <2>3. to \in Work /\ WorkOK(to, txn')
      BY <2>2, <1>i DEF Work, WorkOK
    <2> HIDE DEF to
    <2> QED BY <1>p, <2>1, <2>3, WorkerFrame DEF to
  <1>5. ASSUME NEW w \in Workers, claimPaymentRetry(w) PROVE WorkerInv'
    <2> DEFINE to == [worker[w] EXCEPT !.pc = "method"]
    <2>1. claimPaymentRetry(w) => to \in Work /\ WorkOK(to, txn')
      BY <1>w DEF Work, WorkOK, claimPaymentRetry
    <2> HIDE DEF to
    <2> QED BY <1>5, <1>s, <1>p, <2>1, WorkerFrame DEF claimPaymentRetry, to
  <1>6. ASSUME NEW w \in Workers, CheckRetry(w) PROVE WorkerInv'
    <2> DEFINE a == [worker[w] EXCEPT !.pc = "release"]
               b == [worker[w] EXCEPT !.pc = "finish", !.next = "operator_hold"]
               c == [worker[w] EXCEPT !.pc = "create"]
    <2>0. worker[w].n # 0 /\ worker[w].job = "submitting"
      BY <1>6, <1>w DEF CheckRetry, WorkOK
    <2>1. /\ a \in Work /\ WorkOK(a, txn') /\ b \in Work /\ WorkOK(b, txn')
          /\ c \in Work /\ WorkOK(c, txn')
      BY <1>w, <2>0 DEF Work, WorkOK, Outcomes, PaymentStates
    <2>2. Goto(w, a) \/ Goto(w, b) \/ Goto(w, c)
      BY <1>6 DEF CheckRetry
    <2> HIDE DEF a, b, c
    <2> QED BY <1>p, <2>1, <2>2, WorkerFrame
  <1>7. ASSUME NEW w \in Workers, CreateTransaction(w) PROVE WorkerInv'
    <2> DEFINE n == worker[w].n
               t == <<n, calls[n] + 1>>
    <2>1. n \in Attempts /\ calls[n] \in 0..MaxCalls /\ calls[n] < MaxCalls
      BY <1>7 DEF CreateTransaction, TypeOK, Work
    <2>2. t \in Txns
      BY <2>1, CallsAssumption DEF Txns
    <2> DEFINE F(st, id) == [worker[w] EXCEPT !.pc = "finish", !.next = st, !.txn = id]
    <2>3. PICK st \in Outcomes, id \in Txns \cup {NoTxn} :
            /\ Goto(w, F(st, id))
            /\ st = "paid" => id \in Txns /\ txn'[id] = "paid"
      <3> HIDE DEF t, n
      <3>1. "reconcile" \in Outcomes
        BY DEF Outcomes
      <3>2. \A s : paddlePaymentState(s) \in Outcomes
        BY PaddleState DEF Outcomes
      <3>3. CASE Goto(w, F("reconcile", NoTxn))
        BY <3>1, <3>3
      <3>4. ASSUME NEW status \in {"ready", "past_due", "paid"},
                   NEW answer \in {status, "other"}, txn' = [txn EXCEPT ![t] = status],
                   Goto(w, F(paddlePaymentState(answer), t))
            PROVE  \E st \in Outcomes, id \in Txns \cup {NoTxn} :
                     /\ Goto(w, F(st, id))
                     /\ st = "paid" => id \in Txns /\ txn'[id] = "paid"
        <4>1. txn'[t] = status
          BY <2>2, <3>4 DEF TypeOK
        <4>2. paddlePaymentState(answer) = "paid" => status = "paid"
          BY PaddleState
        <4>3. paddlePaymentState(answer) \in Outcomes
          BY <3>2
        <4> HIDE DEF F
        <4> QED BY <2>2, <3>4, <4>1, <4>2, <4>3
      <3>5. \/ Goto(w, F("reconcile", NoTxn))
            \/ \E status \in {"ready", "past_due", "paid"} :
                 /\ txn' = [txn EXCEPT ![t] = status]
                 /\ \E answer \in {status, "other"} : Goto(w, F(paddlePaymentState(answer), t))
        BY <1>7 DEF CreateTransaction, n, t
      <3> QED BY <3>3, <3>4, <3>5
    <2>4. F(st, id) \in Work /\ WorkOK(F(st, id), txn')
      BY <1>w, <2>3 DEF Work, WorkOK, Outcomes, PaymentStates
    <2> HIDE DEF F
    <2> QED BY <1>p, <2>3, <2>4, WorkerFrame
  <1>8. ASSUME NEW w \in Workers, ReconcilePendingPaymentAttempts(w) PROVE WorkerInv'
    <2>1. PICK n \in Attempts :
            Goto(w, [Idle EXCEPT !.pc = "lookup", !.n = n, !.job = "reconcile"])
      BY <1>8 DEF ReconcilePendingPaymentAttempts
    <2> DEFINE to == [Idle EXCEPT !.pc = "lookup", !.n = n, !.job = "reconcile"]
    <2>2. to \in Work /\ WorkOK(to, txn')
      BY <1>i DEF Work, WorkOK
    <2> HIDE DEF to
    <2> QED BY <1>p, <2>1, <2>2, WorkerFrame DEF to
  <1>9. ASSUME NEW w \in Workers, reconcilePaymentAttempt(w) PROVE WorkerInv'
    <2> DEFINE F(t, st) == [worker[w] EXCEPT !.pc = "finish", !.txn = t, !.next = st]
               hold == [worker[w] EXCEPT !.pc = "finish", !.next = "operator_hold"]
    <2>1. hold \in Work /\ WorkOK(hold, txn')
      BY <1>w DEF Work, WorkOK, Outcomes, PaymentStates
    <2>2. \A t \in Txns : /\ F(t, paddlePaymentState(txn[t])) \in Work
                          /\ WorkOK(F(t, paddlePaymentState(txn[t])), txn')
      <3>1. \A t : /\ paddlePaymentState(txn[t]) \in Outcomes
                   /\ paddlePaymentState(txn[t]) = "paid" => txn[t] = "paid"
        BY PaddleState DEF Outcomes
      <3>2. ASSUME NEW t \in Txns, NEW st \in Outcomes, st = "paid" => txn'[t] = "paid"
            PROVE  F(t, st) \in Work /\ WorkOK(F(t, st), txn')
        <4>1. worker[w] \in Work /\ st \in PaymentStates
          BY <1>w DEF Outcomes, PaymentStates
        <4>2. F(t, st) \in Work
          BY <4>1 DEF Work
        <4>3. F(t, st).pc = "finish" /\ F(t, st).next = st /\ F(t, st).txn = t
          BY <4>1 DEF Work
        <4> HIDE DEF F
        <4> QED BY <3>2, <4>2, <4>3 DEF WorkOK
      <3> HIDE DEF F
      <3> QED BY <3>1, <3>2, <1>p
    <2>3. \/ Goto(w, hold) \/ Stop(w)
          \/ \E t \in Txns : Goto(w, F(t, paddlePaymentState(txn[t])))
      BY <1>9 DEF reconcilePaymentAttempt, FindTransactionsByAttempt
    <2> HIDE DEF F, hold
    <2> QED BY <1>p, <1>s, <2>1, <2>2, <2>3, WorkerFrame
  <1>10. ASSUME NEW w \in Workers,
                releasePaymentRetry(w) \/ FinishSubmit(w) \/ finishPaymentRetry(w)
         PROVE  WorkerInv'
    BY <1>10, <1>s DEF releasePaymentRetry, FinishSubmit, finishPaymentRetry
  <1>11. ASSUME worker' = worker PROVE WorkerInv'
    BY <1>11, <1>p DEF WorkerInv
  <1>12. CASE \/ QueuePayment \/ UNCHANGED vars \/ (\E h \in Hooks : ProcessWebhook(h))
              \/ \E t \in Txns : CollectionFails(t) \/ CustomerPays(t) \/ ProviderCancels(t)
    BY <1>11, <1>12 DEF QueuePayment, vars, ProcessWebhook, ReadPayment, ReadAttempt,
                        WriteWebhook, CollectionFails, CustomerPays, ProviderCancels, Advance
  <1>13. CASE Crash
    BY <1>s, <1>11, <1>13 DEF Crash
  <1> QED
    BY <1>1, <1>2, <1>3, <1>4, <1>5, <1>6, <1>7, <1>8, <1>9, <1>10, <1>12, <1>13
       DEF Next, WorkerStep

-----------------------------------------------------------------------------
(* One holder, one request. *)

Core == RowInv /\ HolderInv /\ RetryCreateOnce

\* A step that makes no request, claims nothing and gives nothing back.
LEMMA PassiveStep ==
    ASSUME TypeOK, Core, calls' = calls,
           \A n \in Attempts \ {0} :
               \/ attempts'[n].state = attempts[n].state
               \/ attempts[n].state = "queued" /\ attempts'[n].state = "skipped",
           \A w \in Workers, n \in Attempts \ {0} :
               Holds(w, n)' => /\ Holds(w, n)
                               /\ worker'[w].pc # "finish" => worker[w].pc # "finish"
    PROVE  Core'
  <1>1. RowInv'
    BY DEF Core, RowInv
  <1>2. HolderInv'
    <2> SUFFICES ASSUME NEW n \in Attempts \ {0}, NEW w \in Workers, Holds(w, n)'
                 PROVE  /\ \A v \in Workers : Holds(v, n)' => v = w
                        /\ attempts'[n].state \notin {"none", "queued", "skipped"}
                        /\ worker'[w].pc # "finish" =>
                             attempts'[n].state = "submitting" /\ calls'[n] = 0
      BY DEF HolderInv
    <2>1. Holds(w, n) /\ (worker'[w].pc # "finish" => worker[w].pc # "finish")
      OBVIOUS
    <2>2. /\ \A v \in Workers : Holds(v, n) => v = w
          /\ attempts[n].state \notin {"none", "queued", "skipped"}
          /\ worker[w].pc # "finish" => attempts[n].state = "submitting" /\ calls[n] = 0
      BY <2>1 DEF Core, HolderInv
    <2> QED BY <2>1, <2>2
  <1> QED BY <1>1, <1>2 DEF Core, RetryCreateOnce

\* Who holds what after worker w went on to work "to".
LEMMA HoldsAfter ==
    ASSUME TypeOK, NEW w \in Workers, NEW to, Goto(w, to)
    PROVE  /\ \A v \in Workers \ {w} : worker'[v] = worker[v]
           /\ worker'[w] = to
           /\ \A v \in Workers \ {w}, n \in Attempts : Holds(v, n)' <=> Holds(v, n)
           /\ \A n \in Attempts :
                Holds(w, n)' <=> /\ to.n = n /\ to.job = "submitting"
                                 /\ to.pc \in {"method", "release", "create", "finish"}
  BY DEF TypeOK, Goto, Holds

LEMMA StopHolds ==
    ASSUME TypeOK, NEW w \in Workers, Stop(w)
    PROVE  /\ \A n \in Attempts : ~Holds(w, n)'
           /\ \A v \in Workers \ {w} : worker'[v] = worker[v]
           /\ \A v \in Workers \ {w}, n \in Attempts : Holds(v, n)' <=> Holds(v, n)
  BY HoldsAfter DEF Stop, Idle

LEMMA PassiveWorkers ==
    ASSUME TypeOK, Core, NEW w \in Workers, NEW to, Goto(w, to),
           calls' = calls,
           \A n \in Attempts \ {0} :
               \/ attempts'[n].state = attempts[n].state
               \/ attempts[n].state = "queued" /\ attempts'[n].state = "skipped",
           \A n \in Attempts \ {0} :
               to.n = n /\ to.job = "submitting"
                 /\ to.pc \in {"method", "release", "create", "finish"} =>
                   Holds(w, n) /\ (to.pc # "finish" => worker[w].pc # "finish")
    PROVE  Core'
  <1>1. ASSUME NEW v \in Workers, NEW n \in Attempts \ {0}, Holds(v, n)'
        PROVE  Holds(v, n) /\ (worker'[v].pc # "finish" => worker[v].pc # "finish")
    BY <1>1, HoldsAfter
  <1> QED BY <1>1, PassiveStep

LEMMA ClaimCore ==
    ASSUME TypeOK, Core, WorkerInv, NEW w \in Workers, claimPaymentRetry(w) PROVE Core'
  <1> DEFINE n == worker[w].n
             to == [worker[w] EXCEPT !.pc = "method"]
  <1>1. n \in Attempts \ {0} /\ worker[w].job = "submitting" /\ calls' = calls
    BY DEF claimPaymentRetry, TypeOK, Work, WorkerInv, provider
  <1>2. CASE Stop(w) /\ attempts' = attempts
    <2>1. Goto(w, Idle) /\ Idle.pc = "idle"
      BY <1>2 DEF Stop, Idle
    <2> QED BY <1>1, <1>2, <2>1, PassiveWorkers
  <1>3. CASE /\ Stop(w) /\ attempts[n].state = "queued"
             /\ attempts' = [attempts EXCEPT ![n].state = "skipped"]
    <2>1. Goto(w, Idle) /\ Idle.pc = "idle"
      BY <1>3 DEF Stop, Idle
    <2>2. \A m \in Attempts \ {0} :
            \/ attempts'[m].state = attempts[m].state
            \/ attempts[m].state = "queued" /\ attempts'[m].state = "skipped"
      BY <1>1, <1>3 DEF TypeOK, paymentAttemptRow
    <2> QED BY <1>1, <2>1, <2>2, PassiveWorkers
  <1>4. CASE /\ Goto(w, to) /\ attempts[n].state = "queued"
             /\ attempts' = [attempts EXCEPT ![n].state = "submitting"]
    <2>1. \A m \in Attempts :
            attempts'[m].state = IF m = n THEN "submitting" ELSE attempts[m].state
      BY <1>1, <1>4 DEF TypeOK, paymentAttemptRow
    <2>2. to.n = n /\ to.job = "submitting" /\ to.pc = "method"
      BY <1>1 DEF TypeOK, Work
    <2>3. \A v \in Workers : ~Holds(v, n)
      BY <1>1, <1>4 DEF Core, HolderInv
    <2>4. calls[n] = 0
      BY <1>1, <1>4 DEF Core, RowInv
    <2> HIDE DEF n, to
    <2>5. /\ \A v \in Workers \ {w} : worker'[v] = worker[v]
          /\ worker'[w] = to
          /\ \A v \in Workers \ {w}, m \in Attempts : Holds(v, m)' <=> Holds(v, m)
          /\ \A m \in Attempts : Holds(w, m)' <=> m = n
      BY <1>4, <2>2, HoldsAfter
    <2>6. RowInv'
      BY <1>1, <2>1 DEF Core, RowInv
    <2>7. HolderInv'
      <3> SUFFICES ASSUME NEW m \in Attempts \ {0}, NEW v \in Workers, Holds(v, m)'
                   PROVE  /\ \A u \in Workers : Holds(u, m)' => u = v
                          /\ attempts'[m].state \notin {"none", "queued", "skipped"}
                          /\ worker'[v].pc # "finish" =>
                               attempts'[m].state = "submitting" /\ calls'[m] = 0
        BY DEF HolderInv
      <3>1. CASE m = n
        BY <3>1, <1>1, <2>1, <2>3, <2>4, <2>5
      <3>2. CASE m # n
        <4>1. v # w /\ Holds(v, m) /\ worker'[v] = worker[v]
          BY <3>2, <2>5
        <4> QED BY <3>2, <4>1, <1>1, <2>1, <2>5 DEF Core, HolderInv
      <3> QED BY <3>1, <3>2
    <2> QED BY <1>1, <2>6, <2>7 DEF Core, RetryCreateOnce
  <1> QED BY <1>2, <1>3, <1>4 DEF claimPaymentRetry

LEMMA ReleaseCore ==
    ASSUME TypeOK, Core, WorkerInv, NEW w \in Workers, releasePaymentRetry(w) PROVE Core'
  <1> DEFINE n == worker[w].n
  <1>1. /\ n \in Attempts \ {0} /\ worker[w].job = "submitting" /\ worker[w].pc = "release"
        /\ calls' = calls /\ Stop(w)
    BY DEF releasePaymentRetry, TypeOK, Work, WorkerInv, provider
  <1>2. Holds(w, n)
    BY <1>1 DEF Holds
  <1>3. calls[n] = 0 /\ \A v \in Workers : Holds(v, n) => v = w
    BY <1>1, <1>2 DEF Core, HolderInv
  <1>4. \A m \in Attempts : \/ attempts'[m].state = attempts[m].state
                            \/ m = n /\ attempts'[m].state = "queued"
    BY <1>1 DEF releasePaymentRetry, TypeOK, paymentAttemptRow
  <1> HIDE DEF n
  <1>5. RowInv'
    BY <1>1, <1>3, <1>4 DEF Core, RowInv
  <1>6. HolderInv'
    <2> SUFFICES ASSUME NEW m \in Attempts \ {0}, NEW v \in Workers, Holds(v, m)'
                 PROVE  /\ \A u \in Workers : Holds(u, m)' => u = v
                        /\ attempts'[m].state \notin {"none", "queued", "skipped"}
                        /\ worker'[v].pc # "finish" =>
                             attempts'[m].state = "submitting" /\ calls'[m] = 0
      BY DEF HolderInv
    <2>1. v # w /\ Holds(v, m) /\ worker'[v] = worker[v] /\ m # n
      BY <1>1, <1>3, StopHolds
    <2>2. \A u \in Workers : Holds(u, m)' => Holds(u, m)
      BY <1>1, StopHolds
    <2> QED BY <2>1, <2>2, <1>1, <1>4 DEF Core, HolderInv
  <1> QED BY <1>1, <1>5, <1>6 DEF Core, RetryCreateOnce

LEMMA CreateCore ==
    ASSUME TypeOK, Core, WorkerInv, NEW w \in Workers, CreateTransaction(w) PROVE Core'
  <1> DEFINE n == worker[w].n
  <1>1. /\ n \in Attempts /\ worker[w].job = "submitting" /\ worker[w].pc = "create"
        /\ attempts' = attempts /\ calls[n] \in Nat
    BY DEF CreateTransaction, TypeOK, Work, WorkerInv
  <1>2. \A m \in Attempts : calls'[m] = IF m = n THEN calls[n] + 1 ELSE calls[m]
    BY <1>1 DEF CreateTransaction, TypeOK
  <1>3. Holds(w, n)
    BY <1>1 DEF Holds
  <1>4. n # 0 => /\ calls[n] = 0 /\ attempts[n].state = "submitting"
                 /\ \A v \in Workers : Holds(v, n) => v = w
    BY <1>1, <1>3 DEF Core, HolderInv
  <1>5. \E to : Goto(w, to) /\ to.n = n /\ to.job = "submitting" /\ to.pc = "finish"
    <2> DEFINE F(st, id) == [worker[w] EXCEPT !.pc = "finish", !.next = st, !.txn = id]
    <2>1. PICK st, id : Goto(w, F(st, id))
      BY DEF CreateTransaction
    <2>2. F(st, id).n = n /\ F(st, id).job = "submitting" /\ F(st, id).pc = "finish"
      BY <1>1 DEF TypeOK, Work
    <2> HIDE DEF F, n
    <2> QED BY <2>1, <2>2
  <1> HIDE DEF n
  <1>6. /\ \A v \in Workers \ {w} : worker'[v] = worker[v]
        /\ worker'[w].pc = "finish"
        /\ \A v \in Workers \ {w}, m \in Attempts : Holds(v, m)' <=> Holds(v, m)
        /\ \A m \in Attempts : Holds(w, m)' <=> m = n
    BY <1>5, HoldsAfter
  <1>7. RowInv'
    BY <1>1, <1>2, <1>4 DEF Core, RowInv
  <1>8. HolderInv'
    <2> SUFFICES ASSUME NEW m \in Attempts \ {0}, NEW v \in Workers, Holds(v, m)'
                 PROVE  /\ \A u \in Workers : Holds(u, m)' => u = v
                        /\ attempts'[m].state \notin {"none", "queued", "skipped"}
                        /\ worker'[v].pc # "finish" =>
                             attempts'[m].state = "submitting" /\ calls'[m] = 0
      BY DEF HolderInv
    <2>1. CASE m = n
      BY <2>1, <1>1, <1>3, <1>4, <1>6
    <2>2. CASE m # n
      <3>1. v # w /\ Holds(v, m) /\ worker'[v] = worker[v]
        BY <2>2, <1>6
      <3> QED BY <2>2, <3>1, <1>1, <1>2, <1>6 DEF Core, HolderInv
    <2> QED BY <2>1, <2>2
  <1>9. RetryCreateOnce'
    BY <1>1, <1>2, <1>4 DEF Core, RetryCreateOnce
  <1> QED BY <1>7, <1>8, <1>9 DEF Core

\* A step that gives attempt n the outcome next, and no worker anything.
LEMMA OutcomeCore ==
    ASSUME TypeOK, Core, calls' = calls, NEW n \in Attempts,
           NEW rows \in [Attempts -> paymentAttemptRow], NEW next \in Outcomes,
           \A m \in Attempts \ {0} :
               \/ m = n /\ rows[m].state = next
               \/ m # n /\ rows[m].state = attempts[m].state
               \/ m # n /\ attempts[m].state = "none" /\ rows[m].state = "queued",
           attempts' = SkipLater(rows, n, next),
           \A v \in Workers, m \in Attempts :
               Holds(v, m)' => Holds(v, m) /\ worker'[v] = worker[v],
           \A v \in Workers : n # 0 /\ Holds(v, n)' => worker[v].pc = "finish"
    PROVE  Core'
  <1>1. \A m \in Attempts \ {0} :
          \/ m = n /\ attempts'[m].state = next
          \/ m # n /\ attempts'[m].state = attempts[m].state
          \/ /\ m # n /\ attempts[m].state \in {"none", "queued"}
             /\ attempts'[m].state \in {"queued", "skipped"}
    BY SkipLaterRows
  <1>2. next \notin {"none", "queued", "skipped"}
    BY DEF Outcomes
  <1>3. RowInv'
    BY <1>1, <1>2 DEF Core, RowInv
  <1>4. HolderInv'
    <2> SUFFICES ASSUME NEW m \in Attempts \ {0}, NEW v \in Workers, Holds(v, m)'
                 PROVE  /\ \A u \in Workers : Holds(u, m)' => u = v
                        /\ attempts'[m].state \notin {"none", "queued", "skipped"}
                        /\ worker'[v].pc # "finish" =>
                             attempts'[m].state = "submitting" /\ calls'[m] = 0
      BY DEF HolderInv
    <2>1. Holds(v, m) /\ worker'[v] = worker[v]
      OBVIOUS
    <2>2. /\ \A u \in Workers : Holds(u, m) => u = v
          /\ attempts[m].state \notin {"none", "queued", "skipped"}
          /\ worker[v].pc # "finish" => attempts[m].state = "submitting" /\ calls[m] = 0
      BY <2>1 DEF Core, HolderInv
    <2> QED BY <2>1, <2>2, <1>1, <1>2
  <1> QED BY <1>3, <1>4 DEF Core, RetryCreateOnce

LEMMA FinishCore ==
    ASSUME TypeOK, Core, WorkerInv, NEW w \in Workers, finishPaymentRetry(w) PROVE Core'
  <1>0. worker[w].n \in Attempts /\ worker[w].next \in Outcomes
    BY DEF finishPaymentRetry, TypeOK, Work, WorkerInv
  <1>a. PICK n \in Attempts, next \in Outcomes : n = worker[w].n /\ next = worker[w].next
    BY <1>0
  <1> DEFINE id == IF worker[w].txn = NoTxn THEN attempts[n].provider ELSE worker[w].txn
             rows == [attempts EXCEPT ![n].state = next, ![n].provider = id]
  <1>1. n \in Attempts /\ next \in Outcomes /\ worker[w].pc = "finish" /\ Stop(w)
    BY <1>a DEF finishPaymentRetry, TypeOK, Work, WorkerInv
  <1>2. calls' = calls
    BY DEF finishPaymentRetry, provider
  <1>3. CASE attempts' = attempts
    <2>1. Goto(w, Idle) /\ Idle.pc = "idle"
      BY <1>1 DEF Stop, Idle
    <2> QED BY <1>2, <1>3, <2>1, PassiveWorkers
  <1>4. CASE attempts' = SkipLater(rows, n, next)
    <2>1. id \in Txns \cup {NoTxn}
      BY <1>1 DEF TypeOK, paymentAttemptRow, Work
    <2> HIDE DEF id
    <2>2. next \in AttemptStates
      BY <1>1 DEF Outcomes, AttemptStates, PaymentStates
    <2>3. rows \in [Attempts -> paymentAttemptRow]
      BY <2>1, <2>2, RowWrite, Zenon
    <2>4. \A m \in Attempts :
            rows[m].state = IF m = n THEN next ELSE attempts[m].state
      BY <1>1 DEF TypeOK, paymentAttemptRow
    <2> HIDE DEF rows
    <2>5. \A v \in Workers, m \in Attempts :
            Holds(v, m)' => Holds(v, m) /\ worker'[v] = worker[v] /\ v # w
      BY <1>1, StopHolds
    <2>6. \A v \in Workers : n # 0 /\ Holds(v, n)' => worker[v].pc = "finish"
      <3> SUFFICES ASSUME NEW v \in Workers, n # 0, Holds(v, n)', worker[v].pc # "finish"
                   PROVE  FALSE
        OBVIOUS
      <3>1. Holds(v, n) /\ v # w
        BY <1>1, <2>5
      <3>2. attempts[n].state = "submitting"
        BY <1>1, <3>1 DEF Core, HolderInv
      <3>3. CASE worker[w].job = "submitting"
        <4>1. Holds(w, n)
          BY <1>1, <1>a, <3>3 DEF Holds
        <4> QED BY <1>1, <3>1, <4>1 DEF Core, HolderInv
      <3>4. CASE worker[w].job # "submitting"
        <4>1. attempts' = attempts
          BY <1>a, <3>2, <3>4 DEF finishPaymentRetry, WriteOutcome
        <4>2. next # "submitting"
          BY <1>1 DEF Outcomes
        <4>3. attempts'[n].state # "submitting"
          BY <1>4, <1>1, <2>3, <2>4, <4>2, SkipLaterRows
        <4> QED BY <4>1, <4>3, <3>2
      <3> QED BY <3>3, <3>4
    <2> QED BY <1>1, <1>2, <1>4, <2>3, <2>4, <2>5, <2>6, OutcomeCore
  <1> QED BY <1>a, <1>3, <1>4 DEF finishPaymentRetry, WriteOutcome

LEMMA WebhookCore ==
    ASSUME TypeOK, ProviderInv, HookInv, Core, NEW h \in Hooks, WriteWebhook(h)
    PROVE  Core'
  <1>0. /\ hook[h].txn \in Txns /\ hook[h].kind \in Statuses
        /\ event[<<hook[h].txn, hook[h].kind>>] # "none"
    BY DEF WriteWebhook, HookInv
  <1>a. PICK t \in Txns, kind \in Statuses : t = hook[h].txn /\ kind = hook[h].kind
    BY <1>0
  <1> DEFINE n == t[1]
             target == paddlePaymentState(kind)
             row == [state |-> target, provider |-> t,
                     last |-> [txn |-> t, rank |-> Rank[kind]]]
             base == [attempts EXCEPT ![n] = row]
             rows == IF target = "past_due" /\ ~hook[h].failed
                     THEN schedulePaymentRetries(base) ELSE base
  <1>1. n \in Attempts /\ target \in Outcomes /\ calls' = calls /\ worker' = worker
    BY PaddleState DEF Txns, Outcomes, WriteWebhook
  <1>2. n # 0 => calls[n] # 0
    <2>1. t[2] <= calls[n] /\ t[2] \in 1..MaxCalls
      BY <1>0, <1>a DEF ProviderInv, Txns
    <2>2. calls[n] \in Nat
      BY <1>1 DEF TypeOK
    <2> QED BY <2>1, <2>2, CallsAssumption
  <1>3. \A v \in Workers, m \in Attempts : Holds(v, m)' <=> Holds(v, m)
    BY <1>1 DEF Holds
  <1>5. ASSUME attempts' = SkipLater(rows, n, target) PROVE Core'
    <2>1. row \in paymentAttemptRow
      <3>1. Rank[kind] \in 0..3
        BY DEF Rank, Statuses
      <3> HIDE DEF target
      <3> QED BY <3>1, <1>1 DEF paymentAttemptRow, Outcomes, AttemptStates, PaymentStates
    <2>2. row.state = target
      OBVIOUS
    <2> HIDE DEF row, target
    <2>3. base \in [Attempts -> paymentAttemptRow]
      BY <1>1, <2>1 DEF TypeOK
    <2>4. \A m \in Attempts : base[m] = IF m = n THEN row ELSE attempts[m]
      BY <1>1 DEF TypeOK
    <2> HIDE DEF base
    <2>5. rows \in [Attempts -> paymentAttemptRow]
      BY <2>3, ScheduledRows
    <2>6. \A m \in Attempts :
            \/ rows[m] = base[m]
            \/ base[m].state = "none" /\ rows[m].state = "queued"
      BY <2>3, ScheduledRows
    <2> HIDE DEF rows, n
    <2>7. target # "none"
      BY <1>1 DEF Outcomes
    <2>8. \A m \in Attempts \ {0} :
            \/ m = n /\ rows[m].state = target
            \/ m # n /\ rows[m].state = attempts[m].state
            \/ m # n /\ attempts[m].state = "none" /\ rows[m].state = "queued"
      BY <2>2, <2>4, <2>6, <2>7
    <2>9. \A v \in Workers : n # 0 /\ Holds(v, n)' => worker[v].pc = "finish"
      BY <1>1, <1>2, <1>3 DEF Core, HolderInv
    <2> QED BY <1>1, <1>3, <1>5, <2>5, <2>8, <2>9, OutcomeCore
  <1> QED BY <1>a, <1>5 DEF WriteWebhook, ApplyEvent

LEMMA CoreStep ==
    ASSUME TypeOK, ProviderInv, HookInv, WorkerInv, Core, [Next]_vars
    PROVE  Core'
  <1>i. Idle.pc = "idle" /\ Idle.n = 0
    BY DEF Idle
  <1>s. ASSUME NEW w \in Workers, Stop(w), calls' = calls,
               \A n \in Attempts \ {0} : attempts'[n].state = attempts[n].state
        PROVE  Core'
    BY <1>s, <1>i, PassiveWorkers DEF Stop
  <1>z. ASSUME NEW expected, NEW next, NEW t, WriteState(expected, next, t)
        PROVE  \A n \in Attempts \ {0} : attempts'[n].state = attempts[n].state
    BY <1>z DEF WriteState, TypeOK
  <1>1. ASSUME NEW w \in Workers, ProcessReadyPayments(w) PROVE Core'
    <2> DEFINE to == [Idle EXCEPT !.pc = "customer", !.job = "submitting"]
    <2>1. to.pc = "customer"
      BY IdleWork DEF Work
    <2> HIDE DEF to
    <2> QED BY <1>1, <2>1, PassiveWorkers DEF ProcessReadyPayments, provider, to
  <1>2. ASSUME NEW w \in Workers, SetPaymentCustomer(w) PROVE Core'
    <2> DEFINE to == [worker[w] EXCEPT !.pc = "submit"]
    <2>1. to.pc = "submit"
      BY DEF TypeOK, Work
    <2> HIDE DEF to
    <2> QED BY <1>2, <1>s, <2>1, PassiveWorkers DEF SetPaymentCustomer, provider, to
  <1>3. ASSUME NEW w \in Workers, MarkSubmitting(w) PROVE Core'
    <2> DEFINE to == [worker[w] EXCEPT !.pc = "create"]
    <2>1. to.n = 0
      BY <1>3 DEF TypeOK, Work, MarkSubmitting, WorkerInv
    <2>2. \A n \in Attempts \ {0} : attempts'[n].state = attempts[n].state
      BY <1>3, <1>z DEF MarkSubmitting
    <2>3. calls' = calls /\ (Stop(w) \/ Goto(w, to))
      BY <1>3 DEF MarkSubmitting, provider
    <2> HIDE DEF to
    <2> QED BY <1>s, <2>1, <2>2, <2>3, PassiveWorkers
  <1>4. ASSUME NEW w \in Workers, ProcessScheduledPaymentRetries(w) PROVE Core'
    <2>1. PICK n : Goto(w, [Idle EXCEPT !.pc = "claim", !.n = n, !.job = "submitting"])
      BY <1>4 DEF ProcessScheduledPaymentRetries
    <2> DEFINE to == [Idle EXCEPT !.pc = "claim", !.n = n, !.job = "submitting"]
    <2>2. to.pc = "claim"
      BY IdleWork DEF Work
    <2>3. calls' = calls /\ attempts' = attempts
      BY <1>4 DEF ProcessScheduledPaymentRetries, provider
    <2> HIDE DEF to
    <2> QED BY <2>1, <2>2, <2>3, PassiveWorkers DEF to
  <1>5. ASSUME NEW w \in Workers, CheckRetry(w) PROVE Core'
    <2> DEFINE a == [worker[w] EXCEPT !.pc = "release"]
               b == [worker[w] EXCEPT !.pc = "finish", !.next = "operator_hold"]
               c == [worker[w] EXCEPT !.pc = "create"]
    <2>1. worker[w].pc = "method" /\ worker[w].job = "submitting"
      BY <1>5 DEF CheckRetry, WorkerInv
    <2>2. a.n = worker[w].n /\ b.n = worker[w].n /\ c.n = worker[w].n
      BY DEF TypeOK, Work
    <2>3. Goto(w, a) \/ Goto(w, b) \/ Goto(w, c)
      BY <1>5 DEF CheckRetry
    <2>4. calls' = calls /\ attempts' = attempts
      BY <1>5 DEF CheckRetry, provider
    <2>5. \A n \in Attempts : worker[w].n = n => Holds(w, n)
      BY <2>1 DEF Holds
    <2> HIDE DEF a, b, c
    <2> QED BY <2>1, <2>2, <2>3, <2>4, <2>5, PassiveWorkers
  <1>6. ASSUME NEW w \in Workers, FinishSubmit(w) PROVE Core'
    <2>1. \A n \in Attempts \ {0} : attempts'[n].state = attempts[n].state
      BY <1>6, <1>z DEF FinishSubmit
    <2> QED BY <1>6, <1>s, <2>1 DEF FinishSubmit, provider
  <1>7. ASSUME NEW w \in Workers, ReconcilePendingPaymentAttempts(w) PROVE Core'
    <2>1. PICK n : Goto(w, [Idle EXCEPT !.pc = "lookup", !.n = n, !.job = "reconcile"])
      BY <1>7 DEF ReconcilePendingPaymentAttempts
    <2> DEFINE to == [Idle EXCEPT !.pc = "lookup", !.n = n, !.job = "reconcile"]
    <2>2. to.pc = "lookup"
      BY IdleWork DEF Work
    <2>3. calls' = calls /\ attempts' = attempts
      BY <1>7 DEF ReconcilePendingPaymentAttempts, provider
    <2> HIDE DEF to
    <2> QED BY <2>1, <2>2, <2>3, PassiveWorkers DEF to
  <1>8. ASSUME NEW w \in Workers, reconcilePaymentAttempt(w) PROVE Core'
    <2>1. worker[w].job = "reconcile"
      BY <1>8 DEF reconcilePaymentAttempt, WorkerInv
    <2>2. \A t, st :
            /\ [worker[w] EXCEPT !.pc = "finish", !.txn = t, !.next = st].job = "reconcile"
            /\ [worker[w] EXCEPT !.pc = "finish", !.next = "operator_hold"].job = "reconcile"
      BY <2>1 DEF TypeOK, Work
    <2>3. calls' = calls /\ attempts' = attempts
      BY <1>8 DEF reconcilePaymentAttempt, provider
    <2>4. Stop(w) \/ \E to : Goto(w, to) /\ to.job = "reconcile"
      BY <1>8, <2>2 DEF reconcilePaymentAttempt
    <2> QED BY <1>s, <2>3, <2>4, PassiveWorkers
  <1>10. ASSUME worker' = worker, calls' = calls,
                \A n \in Attempts \ {0} : attempts'[n].state = attempts[n].state
         PROVE  Core'
    <2>1. \A w \in Workers, n \in Attempts : Holds(w, n)' <=> Holds(w, n)
      BY <1>10 DEF Holds
    <2> QED BY <1>10, <2>1, PassiveStep
  <1>9. CASE Crash
    BY <1>9, <1>s, <1>10 DEF Crash, provider
  <1>11. CASE \/ UNCHANGED vars
              \/ \E h \in Hooks : ReadAttempt(h) \/ \E t \in Txns, k \in Statuses : ReadPayment(h, t, k)
              \/ \E t \in Txns : CollectionFails(t) \/ CustomerPays(t) \/ ProviderCancels(t)
    BY <1>10, <1>11 DEF vars, ReadPayment, ReadAttempt, provider, CollectionFails,
                        CustomerPays, ProviderCancels, Advance
  <1>12. CASE QueuePayment
    <2>1. \A n \in Attempts \ {0} : attempts'[n].state = attempts[n].state
      BY <1>12 DEF QueuePayment, TypeOK
    <2> QED BY <1>10, <1>12, <2>1 DEF QueuePayment, provider
  <1> QED
    BY <1>1, <1>2, <1>3, <1>4, <1>5, <1>6, <1>7, <1>8, <1>9, <1>11, <1>12,
       ClaimCore, ReleaseCore, CreateCore, FinishCore, WebhookCore
       DEF Next, WorkerStep, ProcessWebhook

-----------------------------------------------------------------------------
(* The paid invoice. *)

\* A step that makes the invoice paid names a collected transaction.
LEMMA PaidStep ==
    ASSUME TypeOK, ProviderInv, PaidEventInv, HookInv, WorkerInv, PaidByItsTransaction,
           [Next]_vars
    PROVE  PaidByItsTransaction'
  <1>p. \A t \in Txns : txn[t] = "paid" => txn'[t] = "paid"
    BY ProviderStep
  <1>a. ASSUME outbox'.state = "paid" => \/ /\ outbox.state = "paid"
                                            /\ outbox'.provider = outbox.provider
                                         \/ /\ outbox'.provider \in Txns
                                            /\ txn[outbox'.provider] = "paid"
        PROVE  PaidByItsTransaction'
    BY <1>a, <1>p DEF PaidByItsTransaction
  <1>o. outbox \in paymentOutboxRow
    BY DEF TypeOK
  <1>1. ASSUME NEW w \in Workers, WorkerStep(w), ~FinishSubmit(w), ~finishPaymentRetry(w),
               ~MarkSubmitting(w)
        PROVE  PaidByItsTransaction'
    <2>1. \/ outbox' = outbox
          \/ outbox' = [outbox EXCEPT !.customer = TRUE]
          \/ \E n : outbox' = [outbox EXCEPT !.state = "submitting", !.latest = n]
          \/ outbox' = [outbox EXCEPT !.state = "past_due"]
      BY <1>1 DEF WorkerStep, ProcessReadyPayments, SetPaymentCustomer,
           ProcessScheduledPaymentRetries, claimPaymentRetry, CheckRetry,
           releasePaymentRetry, CreateTransaction, ReconcilePendingPaymentAttempts,
           reconcilePaymentAttempt
    <2>2. outbox'.state = "paid" => /\ outbox.state = "paid"
                                    /\ outbox'.provider = outbox.provider
      BY <1>o, <2>1 DEF paymentOutboxRow
    <2> QED BY <1>a, <2>2
  <1>2. ASSUME NEW w \in Workers, MarkSubmitting(w) PROVE PaidByItsTransaction'
    <2>1. outbox'.state = "paid" => /\ outbox.state = "paid"
                                    /\ outbox'.provider = outbox.provider
      BY <1>2, <1>o DEF MarkSubmitting, WriteState, paymentOutboxRow
    <2> QED BY <1>a, <2>1
  <1>3. ASSUME NEW w \in Workers, FinishSubmit(w) PROVE PaidByItsTransaction'
    <2>1. worker[w].next = "paid" => worker[w].txn \in Txns /\ txn[worker[w].txn] = "paid"
      BY <1>3 DEF FinishSubmit, WorkerInv
    <2>2. \A t \in Txns : t # NoTxn
      BY DEF Txns, NoTxn
    <2>3. \/ outbox' = outbox
          \/ /\ outbox'.state = worker[w].next
             /\ worker[w].txn # NoTxn => outbox'.provider = worker[w].txn
      BY <1>3, <1>o DEF FinishSubmit, WriteState, paymentOutboxRow
    <2> QED BY <1>a, <2>1, <2>2, <2>3
  <1>4. ASSUME NEW w \in Workers, finishPaymentRetry(w) PROVE PaidByItsTransaction'
    <2>1. worker[w].next = "paid" => worker[w].txn \in Txns /\ txn[worker[w].txn] = "paid"
      BY <1>4 DEF finishPaymentRetry, WorkerInv
    <2>2. \A t \in Txns : t # NoTxn
      BY DEF Txns, NoTxn
    <2>3. \/ outbox' = outbox
          \/ /\ outbox'.state = worker[w].next
             /\ worker[w].txn # NoTxn => outbox'.provider = worker[w].txn
      BY <1>4, <1>o DEF finishPaymentRetry, WriteOutcome, paymentOutboxRow
    <2> QED BY <1>a, <2>1, <2>2, <2>3
  <1>5. ASSUME NEW h \in Hooks, WriteWebhook(h) PROVE PaidByItsTransaction'
    <2> DEFINE target == paddlePaymentState(hook[h].kind)
    <2>1. hook[h].txn \in Txns /\ (target = "paid" => txn[hook[h].txn] = "paid")
      BY <1>5, PaddleState DEF WriteWebhook, HookInv, PaidEventInv
    <2>2. \/ outbox'.state = target /\ outbox'.provider = hook[h].txn
          \/ outbox'.state = outbox.state /\ outbox'.provider = outbox.provider
      BY <1>5, <1>o DEF WriteWebhook, ApplyEvent, paymentOutboxRow
    <2> HIDE DEF target
    <2> QED BY <1>a, <2>1, <2>2
  <1>6. ASSUME outbox' = outbox \/ outbox' = [outbox EXCEPT !.state = "ready"]
        PROVE  PaidByItsTransaction'
    BY <1>6, <1>a, <1>o DEF paymentOutboxRow
  <1>7. CASE \/ QueuePayment \/ UNCHANGED vars \/ Crash
             \/ \E h \in Hooks : ReadAttempt(h) \/ \E t \in Txns, k \in Statuses : ReadPayment(h, t, k)
             \/ \E t \in Txns : CollectionFails(t) \/ CustomerPays(t) \/ ProviderCancels(t)
    BY <1>6, <1>7 DEF QueuePayment, vars, Crash, ReadPayment, ReadAttempt, CollectionFails, CustomerPays,
                      ProviderCancels, Advance
  <1> QED BY <1>1, <1>2, <1>3, <1>4, <1>5, <1>7 DEF Next, ProcessWebhook

\* No step but the writing of the latest attempt's outcome and that of a webhook
\* transaction begun before the payment moves a paid invoice.
LEMMA PaidLeft ==
    ASSUME TypeOK, WorkerInv, HookInv, [Next]_vars, outbox.state = "paid",
           outbox'.state # "paid"
    PROVE  \/ \E w \in Workers : /\ worker[w].pc = "finish" /\ worker'[w] = Idle
                                 /\ worker[w].n = outbox.latest
           \/ \E h \in Hooks : /\ hook[h].pc = "write" /\ hook'[h] = NoHook
                               /\ hook[h].state # "paid"
                               /\ hook[h].txn[1] = hook[h].latest
  <1>o. outbox \in paymentOutboxRow
    BY DEF TypeOK
  <1>1. ASSUME NEW w \in Workers, WorkerStep(w), ~finishPaymentRetry(w) PROVE FALSE
    BY <1>1, <1>o DEF WorkerStep, ProcessReadyPayments, SetPaymentCustomer,
         MarkSubmitting, ProcessScheduledPaymentRetries, claimPaymentRetry, CheckRetry,
         releasePaymentRetry, CreateTransaction, FinishSubmit, WriteState,
         ReconcilePendingPaymentAttempts, reconcilePaymentAttempt, paymentOutboxRow
  <1>2. ASSUME NEW w \in Workers, finishPaymentRetry(w)
        PROVE  worker[w].pc = "finish" /\ worker'[w] = Idle /\ worker[w].n = outbox.latest
    <2>1. worker[w].pc = "finish" /\ worker'[w] = Idle
      BY <1>2 DEF finishPaymentRetry, Stop, Goto, TypeOK
    <2>2. \/ outbox' = outbox
          \/ /\ Follows(worker[w].n, worker[w].next, outbox.latest)
             /\ outbox'.state = worker[w].next
      BY <1>2, <1>o DEF finishPaymentRetry, WriteOutcome, paymentOutboxRow
    <2> QED BY <2>1, <2>2 DEF Follows
  <1>3. ASSUME NEW h \in Hooks, WriteWebhook(h)
        PROVE  /\ hook[h].pc = "write" /\ hook'[h] = NoHook /\ hook[h].state # "paid"
               /\ hook[h].txn[1] = hook[h].latest
    <2> DEFINE target == paddlePaymentState(hook[h].kind)
    <2>1. hook[h].pc = "write" /\ hook'[h] = NoHook
      BY <1>3 DEF WriteWebhook, HookTo, TypeOK
    <2>2. /\ outbox'.state = target
          /\ Follows(hook[h].txn[1], target, hook[h].latest)
      BY <1>3, <1>o DEF WriteWebhook, ApplyEvent, paymentOutboxRow
    <2>3. hook[h].state = "paid" => target = "paid"
      BY <2>1, PaddleState DEF HookInv
    <2> HIDE DEF target
    <2> QED BY <2>1, <2>2, <2>3 DEF Follows
  <1>4. CASE \/ QueuePayment \/ UNCHANGED vars \/ Crash
             \/ \E h \in Hooks : ReadAttempt(h) \/ \E t \in Txns, k \in Statuses : ReadPayment(h, t, k)
             \/ \E t \in Txns : CollectionFails(t) \/ CustomerPays(t) \/ ProviderCancels(t)
    BY <1>4 DEF QueuePayment, vars, Crash, ReadPayment, ReadAttempt, CollectionFails, CustomerPays,
                ProviderCancels, Advance
  <1> QED BY <1>1, <1>2, <1>3, <1>4 DEF Next, ProcessWebhook

-----------------------------------------------------------------------------
(* The theorems. *)

LEMMA InitInv == Init => IInv
  <1> SUFFICES ASSUME Init PROVE IInv
    OBVIOUS
  <1>1. TypeOK
    BY TypeInit
  <1>2. \A w \in Workers : worker[w] = Idle
    BY DEF Init
  <1>3. ProviderInv /\ PaidEventInv
    BY DEF Init, ProviderInv, PaidEventInv, Statuses
  <1>4. RowInv /\ RetryCreateOnce
    BY DEF Init, RowInv, RetryCreateOnce
  <1>5. HolderInv /\ WorkerInv
    BY <1>2 DEF Idle, HolderInv, WorkerInv, Holds
  <1>7. HookInv
    BY DEF Init, NoHook, HookInv
  <1>6. PaidByItsTransaction
    BY DEF Init, PaidByItsTransaction
  <1> QED BY <1>1, <1>3, <1>4, <1>5, <1>6, <1>7 DEF IInv

LEMMA NextInv == IInv /\ [Next]_vars => IInv'
  <1> SUFFICES ASSUME IInv, [Next]_vars PROVE IInv'
    OBVIOUS
  <1> USE DEF IInv
  <1>1. TypeOK'
    BY TypeStep
  <1>2. ProviderInv' /\ PaidEventInv'
    BY ProviderStep
  <1>3. WorkerInv'
    BY WorkerInvStep
  <1>4. Core'
    BY CoreStep DEF Core
  <1>5. PaidByItsTransaction'
    BY PaidStep
  <1>6. HookInv'
    BY HookInvStep
  <1> QED BY <1>1, <1>2, <1>3, <1>4, <1>5, <1>6 DEF Core

\* The inductive invariant holds of every behaviour of the payment workers,
\* the provider and the webhook workers.
THEOREM Invariance == Spec => []IInv
  BY InitInv, NextInv, PTL DEF Spec

\* The rows, the workers and the provider keep their types.
THEOREM TypeCorrect == Spec => []TypeOK
  <1>1. IInv => TypeOK
    BY DEF IInv
  <1> QED BY <1>1, Invariance, PTL

\* claimPaymentRetry and releasePaymentRetry keep every scheduled retry to one
\* create request, for any number of replicas, retries and crashes.
THEOREM RetryCreatesOnce == Spec => []RetryCreateOnce
  <1>1. IInv => RetryCreateOnce
    BY DEF IInv
  <1> QED BY <1>1, Invariance, PTL

\* Whoever marks the invoice paid names a transaction the provider collected.
THEOREM PaidTransaction == Spec => []PaidByItsTransaction
  <1>1. IInv => PaidByItsTransaction
    BY DEF IInv
  <1> QED BY <1>1, Invariance, PTL

\* Only finishPaymentRetry for the latest attempt, and a webhook transaction that
\* read the invoice before it was paid, for the attempt that was then the latest,
\* move a paid invoice, for any number of replicas.
THEOREM PaidIsLeftOnlyByLatest == Spec => PaidLeftOnlyByLatest
  <1>1. IInv /\ [Next]_vars =>
          [outbox.state = "paid" /\ outbox'.state # "paid" =>
             \/ \E w \in Workers : /\ worker[w].pc = "finish" /\ worker'[w] = Idle
                                   /\ worker[w].n = outbox.latest
             \/ \E h \in Hooks : /\ hook[h].pc = "write" /\ hook'[h] = NoHook
                                 /\ hook[h].state # "paid"
                                 /\ hook[h].txn[1] = hook[h].latest]_vars
    BY PaidLeft DEF IInv
  <1> QED BY <1>1, Invariance, PTL DEF Spec, PaidLeftOnlyByLatest

-----------------------------------------------------------------------------
(* The scheduled retries implement OneShot. *)

RetryNumbers == Attempts \ {0}

LEMMA PhaseFrame ==
    ASSUME \A n \in RetryNumbers : calls'[n] = calls[n],
           \A n \in RetryNumbers :
               \/ calls[n] > 0
               \/ attempts'[n].state = "submitting" <=> attempts[n].state = "submitting"
    PROVE  UNCHANGED Collection!vars
  <1>1. RetryPhase' = RetryPhase
    BY DEF RetryPhase, RetryNumbers
  <1>2. [n \in Attempts \ {0} |-> calls[n]]' = [n \in Attempts \ {0} |-> calls[n]]
    BY DEF RetryNumbers
  <1> QED BY <1>1, <1>2 DEF Collection!vars

LEMMA PhaseUpdate ==
    ASSUME NEW n \in RetryNumbers, NEW p, RetryPhase'[n] = p,
           \A m \in RetryNumbers \ {n} : RetryPhase'[m] = RetryPhase[m]
    PROVE  RetryPhase' = [RetryPhase EXCEPT ![n] = p]
  <1>1. /\ RetryPhase = [m \in RetryNumbers |-> RetryPhase[m]]
        /\ RetryPhase' = [m \in RetryNumbers |-> RetryPhase'[m]]
    BY DEF RetryPhase, RetryNumbers
  <1> QED BY <1>1

LEMMA PhaseValue ==
    /\ \A n \in RetryNumbers : RetryPhase[n] =
          IF calls[n] > 0 THEN "spent"
          ELSE IF attempts[n].state = "submitting" THEN "held" ELSE "open"
    /\ \A n \in RetryNumbers : RetryPhase'[n] =
          IF calls'[n] > 0 THEN "spent"
          ELSE IF attempts'[n].state = "submitting" THEN "held" ELSE "open"
  BY DEF RetryPhase, RetryNumbers

LEMMA PhaseHold ==
    ASSUME NEW n \in RetryNumbers, calls[n] = 0, calls' = calls,
           attempts[n].state # "submitting", attempts'[n].state = "submitting",
           \A m \in RetryNumbers \ {n} : attempts'[m].state = attempts[m].state
    PROVE  Collection!Next
  <1>1. RetryPhase[n] = "open" /\ RetryPhase' = [RetryPhase EXCEPT ![n] = "held"]
    BY PhaseValue, PhaseUpdate
  <1>2. Collection!Hold(n)
    BY <1>1 DEF Collection!Hold
  <1> QED BY <1>2 DEF Collection!Next, RetryNumbers

LEMMA PhaseGiveBack ==
    ASSUME NEW n \in RetryNumbers, calls[n] = 0, calls' = calls,
           attempts[n].state = "submitting", attempts'[n].state # "submitting",
           \A m \in RetryNumbers \ {n} :
               attempts'[m].state = "submitting" <=> attempts[m].state = "submitting"
    PROVE  Collection!Next
  <1>1. RetryPhase[n] = "held" /\ RetryPhase' = [RetryPhase EXCEPT ![n] = "open"]
    BY PhaseValue, PhaseUpdate
  <1>2. Collection!GiveBack(n)
    BY <1>1 DEF Collection!GiveBack
  <1> QED BY <1>2 DEF Collection!Next, RetryNumbers

\* An outcome written to attempt n, with no request made in this step.
LEMMA PhaseOutcome ==
    ASSUME TypeOK, calls' = calls, NEW n \in Attempts,
           NEW rows \in [Attempts -> paymentAttemptRow], NEW next \in Outcomes,
           \A m \in Attempts \ {0} :
               \/ m = n /\ rows[m].state = next
               \/ m # n /\ rows[m].state = attempts[m].state
               \/ m # n /\ attempts[m].state = "none" /\ rows[m].state = "queued",
           attempts' = SkipLater(rows, n, next)
    PROVE  Collection!Next \/ UNCHANGED Collection!vars
  <1>1. next # "submitting"
    BY DEF Outcomes
  <1>2. \A m \in RetryNumbers :
          \/ m = n /\ attempts'[m].state = next
          \/ m # n /\ (attempts'[m].state = "submitting" <=> attempts[m].state = "submitting")
    BY SkipLaterRows DEF RetryNumbers
  <1>3. \A m \in RetryNumbers : calls[m] \in Nat
    BY CallsAssumption DEF TypeOK, RetryNumbers
  <1>4. CASE n \in RetryNumbers /\ calls[n] = 0 /\ attempts[n].state = "submitting"
    BY <1>1, <1>2, <1>4, PhaseGiveBack
  <1>5. CASE ~(n \in RetryNumbers /\ calls[n] = 0 /\ attempts[n].state = "submitting")
    BY <1>1, <1>2, <1>3, <1>5, PhaseFrame
  <1> QED BY <1>4, <1>5

LEMMA RetryStep ==
    ASSUME IInv, [Next]_vars
    PROVE  Collection!Next \/ UNCHANGED Collection!vars
  <1> USE DEF IInv
  <1> DEFINE Goal == Collection!Next \/ UNCHANGED Collection!vars
  <1>0. \A w \in Workers : worker[w].n \in Attempts
    BY DEF TypeOK, Work
  <1>1. ASSUME calls' = calls, \A n \in RetryNumbers : attempts'[n].state = attempts[n].state
        PROVE  Goal
    BY <1>1, PhaseFrame
  <1>2. ASSUME NEW w \in Workers, claimPaymentRetry(w) PROVE Goal
    <2>1. PICK n \in Attempts : n = worker[w].n
      BY <1>0
    <2>2. n \in RetryNumbers /\ calls' = calls
      BY <1>2, <2>1 DEF claimPaymentRetry, WorkerInv, provider, RetryNumbers
    <2>3. CASE attempts' = attempts
      BY <1>1, <2>2, <2>3
    <2>4. ASSUME NEW st \in {"skipped", "submitting"}, attempts[n].state = "queued",
                 attempts' = [attempts EXCEPT ![n].state = st]
          PROVE  Goal
      <3>1. \A m \in Attempts :
              attempts'[m].state = IF m = n THEN st ELSE attempts[m].state
        BY <2>4 DEF TypeOK, paymentAttemptRow
      <3>2. calls[n] = 0
        BY <2>2, <2>4 DEF RowInv, RetryNumbers
      <3>3. CASE st = "submitting"
        BY <3>1, <3>2, <3>3, <2>2, <2>4, PhaseHold DEF RetryNumbers
      <3>4. CASE st = "skipped"
        BY <3>1, <3>4, <2>2, <2>4, PhaseFrame DEF RetryNumbers
      <3> QED BY <3>3, <3>4
    <2> QED BY <1>2, <2>1, <2>3, <2>4 DEF claimPaymentRetry
  <1>3. ASSUME NEW w \in Workers, releasePaymentRetry(w) PROVE Goal
    <2>1. PICK n \in Attempts : n = worker[w].n
      BY <1>0
    <2>2. /\ n \in RetryNumbers /\ calls' = calls
          /\ worker[w].pc = "release" /\ worker[w].job = "submitting"
      BY <1>3, <2>1 DEF releasePaymentRetry, WorkerInv, provider, RetryNumbers
    <2>3. CASE attempts' = attempts
      BY <1>1, <2>2, <2>3
    <2>4. CASE attempts' = [attempts EXCEPT ![n].state = "queued"]
      <3>1. \A m \in Attempts :
              attempts'[m].state = IF m = n THEN "queued" ELSE attempts[m].state
        BY <2>4 DEF TypeOK, paymentAttemptRow
      <3>2. Holds(w, n)
        BY <2>1, <2>2 DEF Holds
      <3>3. calls[n] = 0 /\ attempts[n].state = "submitting"
        BY <2>2, <3>2 DEF HolderInv, RetryNumbers
      <3> QED BY <3>1, <3>3, <2>2, PhaseGiveBack DEF RetryNumbers
    <2> QED BY <1>3, <2>1, <2>3, <2>4 DEF releasePaymentRetry
  <1>4. ASSUME NEW w \in Workers, CreateTransaction(w) PROVE Goal
    <2>1. PICK n \in Attempts : n = worker[w].n
      BY <1>0
    <2>2. /\ worker[w].pc = "create" /\ worker[w].job = "submitting"
          /\ attempts' = attempts /\ calls[n] \in Nat
      BY <1>4 DEF CreateTransaction, WorkerInv, TypeOK
    <2>3. \A m \in Attempts : calls'[m] = IF m = n THEN calls[n] + 1 ELSE calls[m]
      BY <1>4, <2>1 DEF CreateTransaction, TypeOK
    <2>4. CASE n = 0
      BY <2>2, <2>3, <2>4, PhaseFrame DEF RetryNumbers
    <2>5. CASE n # 0
      <3>1. Holds(w, n)
        BY <2>1, <2>2 DEF Holds
      <3>2. calls[n] = 0 /\ attempts[n].state = "submitting"
        BY <2>2, <2>5, <3>1 DEF HolderInv
      <3>3. RetryPhase[n] = "held" /\ RetryPhase' = [RetryPhase EXCEPT ![n] = "spent"]
        BY <2>2, <2>3, <2>5, <3>2, PhaseValue, PhaseUpdate DEF RetryNumbers
      <3>4. [m \in Attempts \ {0} |-> calls[m]]'
              = [[m \in Attempts \ {0} |-> calls[m]] EXCEPT ![n] = @ + 1]
        BY <2>3, <2>5
      <3>5. Collection!Request(n)
        BY <3>3, <3>4 DEF Collection!Request
      <3> QED BY <2>5, <3>5 DEF Collection!Next
    <2> QED BY <2>4, <2>5
  <1>5. ASSUME NEW w \in Workers, finishPaymentRetry(w) PROVE Goal
    <2>1. worker[w].next \in Outcomes /\ calls' = calls
      BY <1>5 DEF finishPaymentRetry, WorkerInv, provider
    <2>2. PICK n \in Attempts, next \in Outcomes : n = worker[w].n /\ next = worker[w].next
      BY <1>0, <2>1
    <2> DEFINE id == IF worker[w].txn = NoTxn THEN attempts[n].provider ELSE worker[w].txn
               rows == [attempts EXCEPT ![n].state = next, ![n].provider = id]
    <2>3. CASE attempts' = attempts
      BY <1>1, <2>1, <2>3
    <2>4. CASE attempts' = SkipLater(rows, n, next)
      <3>1. id \in Txns \cup {NoTxn}
        BY DEF TypeOK, paymentAttemptRow, Work
      <3> HIDE DEF id
      <3>2. next \in AttemptStates
        BY DEF Outcomes, AttemptStates, PaymentStates
      <3>3. rows \in [Attempts -> paymentAttemptRow]
        BY <3>1, <3>2, RowWrite, Zenon
      <3>4. \A m \in Attempts : rows[m].state = IF m = n THEN next ELSE attempts[m].state
        BY DEF TypeOK, paymentAttemptRow
      <3> HIDE DEF rows
      <3> QED BY <2>1, <2>4, <3>3, <3>4, PhaseOutcome
    <2> QED BY <1>5, <2>2, <2>3, <2>4 DEF finishPaymentRetry, WriteOutcome
  <1>6. ASSUME NEW h \in Hooks, WriteWebhook(h) PROVE Goal
    <2>0. hook[h].txn \in Txns /\ hook[h].kind \in Statuses
      BY <1>6 DEF WriteWebhook, HookInv
    <2>a. PICK t \in Txns, kind \in Statuses : t = hook[h].txn /\ kind = hook[h].kind
      BY <2>0
    <2> DEFINE n == t[1]
               target == paddlePaymentState(kind)
               row == [state |-> target, provider |-> t,
                       last |-> [txn |-> t, rank |-> Rank[kind]]]
               base == [attempts EXCEPT ![n] = row]
               rows == IF target = "past_due" /\ ~hook[h].failed
                       THEN schedulePaymentRetries(base) ELSE base
    <2>1. n \in Attempts /\ target \in Outcomes /\ calls' = calls
      BY <1>6, PaddleState DEF Txns, Outcomes, WriteWebhook
    <2>3. ASSUME attempts' = SkipLater(rows, n, target) PROVE Goal
      <3>1. row \in paymentAttemptRow
        <4>1. Rank[kind] \in 0..3
          BY DEF Rank, Statuses
        <4> HIDE DEF target
        <4> QED BY <4>1, <2>1 DEF paymentAttemptRow, Outcomes, AttemptStates, PaymentStates
      <3>2. row.state = target /\ target # "none"
        BY <2>1 DEF Outcomes
      <3> HIDE DEF row, target
      <3>3. base \in [Attempts -> paymentAttemptRow]
        BY <2>1, <3>1 DEF TypeOK
      <3>4. \A m \in Attempts : base[m] = IF m = n THEN row ELSE attempts[m]
        BY <2>1 DEF TypeOK
      <3> HIDE DEF base
      <3>5. rows \in [Attempts -> paymentAttemptRow]
        BY <3>3, ScheduledRows
      <3>6. \A m \in Attempts : \/ rows[m] = base[m]
                                \/ base[m].state = "none" /\ rows[m].state = "queued"
        BY <3>3, ScheduledRows
      <3> HIDE DEF rows, n
      <3>7. \A m \in Attempts \ {0} :
              \/ m = n /\ rows[m].state = target
              \/ m # n /\ rows[m].state = attempts[m].state
              \/ m # n /\ attempts[m].state = "none" /\ rows[m].state = "queued"
        BY <3>2, <3>4, <3>6
      <3> QED BY <2>1, <2>3, <3>5, <3>7, PhaseOutcome
    <2> QED BY <1>6, <2>a, <2>3 DEF WriteWebhook, ApplyEvent
  <1>7. ASSUME NEW expected, NEW next, NEW t, WriteState(expected, next, t), calls' = calls
        PROVE  Goal
    <2>1. \A n \in RetryNumbers : attempts'[n].state = attempts[n].state
      BY <1>7 DEF WriteState, TypeOK, RetryNumbers
    <2> QED BY <1>1, <1>7, <2>1
  <1>8. ASSUME NEW w \in Workers, MarkSubmitting(w) \/ FinishSubmit(w) PROVE Goal
    BY <1>7, <1>8 DEF MarkSubmitting, FinishSubmit, provider
  <1>9. CASE QueuePayment
    <2>1. \A n \in RetryNumbers : attempts'[n].state = attempts[n].state
      BY <1>9 DEF QueuePayment, TypeOK, RetryNumbers
    <2> QED BY <1>1, <1>9, <2>1 DEF QueuePayment, provider
  <1>10. ASSUME NEW w \in Workers,
                \/ ProcessReadyPayments(w) \/ SetPaymentCustomer(w)
                \/ ProcessScheduledPaymentRetries(w) \/ CheckRetry(w)
                \/ ReconcilePendingPaymentAttempts(w) \/ reconcilePaymentAttempt(w)
         PROVE  Goal
    <2>1. calls' = calls /\ attempts' = attempts
      BY <1>10 DEF ProcessReadyPayments, SetPaymentCustomer, CheckRetry, provider,
                   ProcessScheduledPaymentRetries, ReconcilePendingPaymentAttempts,
                   reconcilePaymentAttempt
    <2> QED BY <1>1, <2>1
  <1>11. CASE \/ UNCHANGED vars \/ Crash
              \/ \E h \in Hooks : ReadAttempt(h) \/ \E t \in Txns, k \in Statuses : ReadPayment(h, t, k)
              \/ \E t \in Txns : CollectionFails(t) \/ CustomerPays(t) \/ ProviderCancels(t)
    BY <1>1, <1>11 DEF vars, Crash, ReadPayment, ReadAttempt, provider, CollectionFails,
                       CustomerPays, ProviderCancels, Advance
  <1> QED
    BY <1>2, <1>3, <1>4, <1>5, <1>6, <1>8, <1>9, <1>10, <1>11
       DEF Next, WorkerStep, ProcessWebhook

\* The claims, releases, requests and outcomes of the scheduled retries are
\* steps of one-shot attempts: claimed by one worker, given back only with no
\* request made, spent for good by the first request.
THEOREM RetriesAreOneShot == Spec => OneShotRetries
  <1>1. Init => Collection!Init
    <2> SUFFICES ASSUME Init PROVE Collection!Init
      OBVIOUS
    <2>1. \A n \in Attempts : calls[n] = 0 /\ attempts[n].state = "none"
      BY DEF Init, NoRow
    <2>2. RetryPhase = [n \in Attempts \ {0} |-> "open"]
      BY <2>1 DEF RetryPhase
    <2>3. [n \in Attempts \ {0} |-> calls[n]] = [n \in Attempts \ {0} |-> 0]
      BY <2>1
    <2> QED BY <2>2, <2>3 DEF Collection!Init
  <1>2. IInv /\ [Next]_vars => [Collection!Next]_(Collection!vars)
    BY RetryStep
  <1> QED BY <1>1, <1>2, Invariance, PTL DEF Spec, OneShotRetries, Collection!Spec
=============================================================================
