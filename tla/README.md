# A TLA+ model of karst

karst is a post-quantum mesh VPN. A node agent (`bins/karstd`) keeps one
PHREATIC session with every peer, finds direct paths with AVEN, falls back to
PONOR relays, takes its configuration from a control plane, and checks what it
is told against the Bedrock transparency log. The control plane also meters what
an account uses, invoices it, caps what it may spend and collects the money. This
directory holds TLA+ modules translated from the source, TLC configurations that
check them on small instances, and TLAPS proofs for every value of the constants.

The modules fall into two groups that share no state: the node's sessions
(`PhreaticSession`, `TransportSession`, `Reassembler`, `CookieExchange`, from Rust)
and the control plane's money (`Payment`, `RelayCredits`, `DeviceUsage`, from Go,
with the Rust relay at the other end of `RelayCredits`).

## Inventory

| Component | State | Operations | Talks to | What makes it correct |
|---|---|---|---|---|
| Session (`crates/karst-node/src/session.rs`) | `State` (idle, handshaking, established with rekey / pending / previous), `answered`, `reassembly_id` | `connect`, `poll`, `adopt_responder`, `handle_response`, `promote`, `repeat_response`, `handle_cookie_reply` | driven by the engine under one lock per peer | the two ends come to share keys, keys in use are replaced only by proven ones, only one end rekeys, keys die on time, a pair never stays dark |
| Engine (`bins/karstd/src/engine.rs`) | roster, endpoints, cookie secret, Bedrock head | `connect_all`, `poll`, `outbound`, `inbound`, `inbound_from_relay`, `reconfigure`, endpoint updates | UDP and relay threads, drive loop, AVEN, control client | no lock held across cryptography, and still no unproven or stale result applied |
| Transport (`crates/karst-noise/src/transport.rs`) | send counter, replay window, age | `seal`, `open` | many threads per session | each message delivered at most once, only replays refused |
| Reassembly (`crates/karst-proto/src/reassembly.rs`) | bounded slot table | `push`, `expire` | one per UDP thread, one per session | bounded, and unvalidated sources confined |
| Cookies (`crates/karst-proto/src/dos.rs`) | current and previous secret | `rotate`, `issue`, `candidates` | engine, session | an honest initiator gets past a loaded responder |
| Handshake cryptography (`karst-noise/handshake.rs`, `symmetric.rs`) | none kept | `initiate`, `respond`, `try_finish` | session, engine | secrecy and authentication: modelled in ProVerif in `spec/models` |
| AVEN (`crates/karst-disco`, `bins/karstd/src/disco.rs`) | candidates, probe transactions, selected path | probe, pong, expiry, selection, rendezvous | engine endpoints, relay | never a dead path kept over a live one, no flapping, no stale release |
| Filter and flows (`bins/karstd/src/filter.rs`, `flow.rs`) | rules, flow table | permit, expire | engine | replies only to admitted flows; bounded |
| Relay (`bins/karst-relay`) | connections, mesh presence, roster | register, route, forward, revoke | nodes, other relays, control plane | one live connection per node, no loops |
| Payment collection (`server/.../karst/billing/{payment_*,paddle_*,webhook_process}.go`) | outbox row, attempt rows, webhook inbox | queue, submit, claim and release retries, finish, reconcile, process webhooks | a worker on every replica, the provider and its webhooks | money is asked for once per attempt, a payment is noticed and not undone |
| Spending cap (`billing/caps.go`, `api/relay_credits.go`, `bins/karst-relay/src/credits.rs`) | cap, grants and leases at the control plane; the allowance of each relay | set cap, reserve, lease, surrender; reserve, install, shut down | relays, administrators | what is forwarded on credits never costs more than the cap, through crashes and lost answers |
| Device usage (`server/.../karst/usage`, `billing/store.go`, `cmd/karstbilling`) | event ledger, coverage periods, checkpoints, invoices | track, configure, reconcile, report, finalize, prune | every transaction that changes membership | a count that is reported or invoiced is the real one; pruning loses nothing that is needed |
| Relay usage | counters, checkpoints | count, report, acknowledge | control plane | counted once through retries and restarts |
| PSK epochs (`server/.../karst/{control/epoch.go,psk}`) | epoch, salts | rotate, netmap | every node | epochs n and n-1 overlap through propagation |
| Bedrock (`crates/karst-bedrock`, `server/.../karst/bedrock`) | append-only log, head, anchors | append, verify, claim head | control plane, nodes | no rollback, no undetected equivocation |
| Compliance, audit, policy (`server/.../karst/{compliance,audit,policy}`) | stores | record, deliver, evaluate | administrators, nodes | not modelled |
| Control services (`server/.../karst/{control,relayalloc,rollout,ha,roster}`) | stores | sync, allocate, roll out, elect | nodes, relays | one leader, allocations consistent |
| Scaler (`bins/karst-scaler`) | breaker, decisions | advise, drive | cloud drivers | no actuation while the breaker is open |
| DNS, TUN, port mapping, IPC, CLI, FFI, console | mostly operating-system I/O | | | not modelled |
| `server/` outside `karst/` | | | | fork of third-party code, not modelled |

Hard behaviours, at their lines in `PROJECT.json` under `hazards`: two nodes
that dial at once; results computed outside a lock and applied after it; keys
that one end has and the other has not; messages lost, repeated and late; a
restart that forgets every session; retransmissions that race answers; a
bitmap that slides over word boundaries; a full table. In the control plane: two
replicas that work on the same row; an answer of the provider that is lost
after it acted; webhooks that arrive late and in any order; a budget shared by relays that
crash or hear late; a lease that outlives the decision it was based on; an event
whose timestamp is older than its commit; months whose events are gone; statements of
one transaction that each see another state of the tables.

## Modules

**`PhreaticSession`** - the sessions of two nodes with each other. `state[n]` is
`session.rs`'s `State` as one record (`hs` is the `Handshaking` handshake or
`Established`'s `rekey`). A handshake is the name of its `HandshakeInit`, a key
set the pair of that and a response, so two answers to one `HandshakeInit` give
different keys. Names nothing refers to any more are used again. Time is the age of
each handshake and session in ticks. Actions and code:

| Action | Code |
|---|---|
| `PollIdle`, `PollHandshaking`, `PollExpired`, `PollEstablished` | `Session::poll`, and the re-dial `Engine::poll` makes under the same lock |
| `RepeatResponse`, `Respond`, `Adopt` | `accept_handshake` / `accept_relayed_handshake`: `repeat_response`; the keys derived with no lock held; `adopt_responder` under the lock again |
| `HandleResponse` | `Session::handle_response` with the simultaneous-open tie-break |
| `OpenData`, `Promote` | `Engine::inbound` of transport data: keys cloned and tried outside the lock, then `promote` under it |
| `SendData` | `Engine::outbound`, `send_sealed` |
| `Tick`, `LateTick`, `Lose`, `Restart`, `Fault("dup")`, `Fault("roam")` | the environment: the clock, a lost, repeated or late datagram or thread, a `HandshakeInit` from an address that is not the recorded one, a restart |

`via` stands for `Engine::via` (an endpoint or a relay); answering a handshake
teaches the node one. A poll of a handshake always retransmits: a tick is longer
than `RETRY_MAX_MS`. In `Restart`, a node keeps only its configuration.

**`TransportSession`** - one direction of one session: `Seal` is `fetch_add`;
`Open` is everything before the window's lock, `Finish` everything from the AEAD's
verdict on, so that threads interleave between. The window is the code's array of
64-bit words, a word being the set of its one bits; `shift_by`, `get`, `set` and
`accept` follow the code.

**`Reassembler`** - `Reassembler::push` as an operator on the set of slots: single
fragments bypass the table, expiry runs inside `push` only, then the refusals in
order (cookie, source budget, capacity), then the checks on the fragment. It declares
no variables; `CookieExchange` extends it.

**`CookieExchange`** - an initiator, a responder under load and the reassembler
between them: `EmitInit` (dial and retransmissions, a new reassembly id each),
`EmitOther` (every other message the session sends: data, of a session being rekeyed or adopted in a
simultaneous open, or a `HandshakeResponse`; each moves `reassembly_id` too), `CookieReply`
(`handle_cookie_reply`), `Inbound` (`check_frag_mac`, `push`, `issue_cookie_reply`),
`OtherFragment` (the load), `Rotate` (`Engine::poll`). A MAC is the key that made it:
`Mac1` or the cookie's secret.

**`Payment`** - the collection of one finalized invoice. `outbox` and `attempts[n]` are
the rows, `worker[w]` what replica `w`'s payment worker holds between two steps, a
step being one SQL transaction or one provider call; `hook[h]` is the webhook a replica's
webhook worker has read but not applied; `txn` and `event` are the provider's
transactions and the events it sends of them.

| Action | Code |
|---|---|
| `QueuePayment` | `Store.QueuePayment` |
| `ProcessReadyPayments`, `SetPaymentCustomer`, `MarkSubmitting`, `CreateTransaction`, `FinishSubmit` | `ProcessReadyPayments` and `SubmitFinalizedInvoice`: list, look the customer up and save it, compare-and-set to submitting, the request, its outcome |
| `ProcessScheduledPaymentRetries`, `claimPaymentRetry`, `CheckRetry`, `releasePaymentRetry`, `CreateTransaction`, `finishPaymentRetry` | `processPaymentRetry`: list, claim, read the saved methods, give back or request, write the outcome |
| `ReconcilePendingPaymentAttempts`, `FindTransactionsByAttempt`, `reconcilePaymentAttempt` | list, ask the provider by attempt, write what it says |
| `ReadPayment`, `ReadAttempt`, `WriteWebhook` (together `ProcessWebhook`) | one pending event: the invoice is read without a lock; its attempt is read and it is decided whether the event conflicts, is stale or applies; the rows are written, whatever has become of them, and the event is marked |
| `CollectionFails`, `CustomerPays`, `ProviderCancels`, `Crash` | external: the provider's transactions change and an event is sent; a replica stops and forgets its work |

The payment worker's transactions are single steps because each locks the rows it reads (`FOR UPDATE`) or
writes under the condition it read; a webhook's does neither, so its reads are steps of their own, and so are its writes,
which hold the locks of the rows until the commit. A request may be made with no transaction, or with one whose answer is lost. Left out: due times (a
retry may be due at any moment), audit rows, pruning of the inbox, `ReconcilePayment` (no
caller outside tests). Events of two transactions are unrelated in time.

**`OneShot`** - what the collection promises of every scheduled retry: open, held, spent;
one request, made by the holder, and no way back from spent. `Payment` maps its
rows to it (`Collection`, a refinement).

**`RelayCredits`** - one account's monthly cap: the control plane's `caps`, `grants` and
`leases` composed with every relay's `Controller` over a channel that loses and delays. Actions:
`SetRelaySpendingCap`; `HandleReserve`, `HandleLease`, `HandleReply` (the request handler,
one step per transaction, the month chosen on arrival and kept); `SurrenderRelayCredits`;
at the relay `reserve` (admit a payload, or enqueue a request), `Send`, `install_uncapped`,
`install_grant`, `Shutdown` and `take_surrenderable_grants`; `Lose`, `LoseSurrender`,
`Crash`, `Tick`. `used[g]` is what was forwarded under grant `g`; `outside[p]` is what was forwarded in
month `p` without credits: by `ReserveUncapped`, on a lease, and by `ForwardDetached`, once `Shutdown` has
detached the gate and the hub forwards uncharged to clients still connected. The bill has both. A relay has one mapping
and one request on its way (a handler abandoned after 10 s is over before the retry);
a refused authorization is a lost request; a request's number stands for its random id
and the process generation, so a restarted relay never repeats one. `leases[p]` keeps the latest
expiry only, all the code reads; a cap is in force from then (the code takes the present if that is later, which no
comparison tells apart). A sum over rows (`CommittedIn`) is the number of the bytes the
rows stand for, which the proofs can reason about; there are finitely many relays. Both clocks run at the same rate, and the relay uses its own
for durations only. Not modelled: the limits on outstanding mappings and permits, cap revisions, signatures.

**`SpendingCap`** - what the cap promises of every month, in bytes: a limit, what is reserved
of it and what is spent of that; four operations (`SetLimit`, `Reserve`, `Spend`, `GiveBack`), each
within the bounds the others rely on. `RelayCredits` maps the cap row, the
sum of its grants and the bytes forwarded to it (`Budget`, a refinement), although
no place in the code holds the three numbers together: the limit and the grants are rows, and
the bytes spent are known to relays that crash and report late.

**`DeviceUsage`** - the ledger an account is billed from: `Track` and `TrackDisabled` (any
membership transaction), `ConfigureOn`/`ConfigureOff`, `Reconcile`, `DeleteAccount`,
`PruneFinalizedPeriod`, and the command that draws an invoice, a statement at a
time: `ReadCoverage`, `ReadCheckpoint`, `ReadOpening`, `FinalizeInvoice` (`draft` is what it has read so far). Its report runs
in a savepoint of the command's transaction, which has the default isolation, so each statement reads the tables as they are
then; one command runs at a time, and may be abandoned and started again. `RawChange` is a writer that bypasses
`Track`. A membership transaction is one step, its commit, with a timestamp sampled up
to `MaxOpen` ticks earlier; reports, invoices and pruning do not wait for it. Several `Track` calls of one
transaction are several steps, each with its own timestamp. A report
(`composeReport`, `Refused`, `Reportable`) is a function of the tables, per tick. History variables
(`truth`, `recorded`, `pruned`, `unseen`, `raw`) say what really happened: the members at
every tick, every event ever appended, the months deleted, the changes not recorded. `Kept(a, b)` says of
a window that nothing it adds to its checkpoint was pruned (`KeptSince` of a checkpoint); an invoice is `sound` if
its command started after the transactions of its month were over and with no change unseen, and if what its opening count
adds to the checkpoint it had selected was kept when it was read. Left out: digests, the
segment limit, the seven-year deletion, skew between replicas' clocks, `Append`'s replay
branch and transactions that change no membership, the relay half of an invoice.

**`MCPayment`, `MCRelayCredits`, `MCDeviceUsage`** - the symmetry sets for TLC.

**`PhreaticSessionProofs`, `PhreaticCalmProofs`, `TransportSessionProofs`, `CookieExchangeProofs`,
`PaymentProofs`, `RelayCreditsProofs`, `RelayBudgetProofs`, `DeviceUsageProofs`** - the
theorems. `PhreaticCalmProofs` extends `PhreaticSessionProofs` with the pair that no fault has met,
`RelayBudgetProofs` extends `RelayCreditsProofs` with the sums and the refinement.

Operators called *mutants* in the modules are wrong variants of the code (a
dropped guard, a missing reset, an off-by-one); no specification uses them.
`PROJECT.json` says which property finds each of them.

## Runs

| Run | Configuration | Result |
|---|---|---|
| `session_safety` | two nodes that dial each other, two threads each, timers 1/2/3 ticks, one fault of any kind | `TypeOK`, `InitiatorRekeys`, `ResponderExpiresFirst`, `NoUnprovenTakeover`, `OnlyInitiatorDials` hold (690 thousand states) |
| `session_recovery` | timers 3/4/6 (the ratio of 90/120/180 s), both or only one node with an endpoint, traffic both ways, one fault | `OutageBounded`, `QuiescentReadable`, `TrafficNeverStalls`, `Recovery` hold (80 thousand states) |
| `session_idle_rekey` | no fault, no traffic required | `QuiescentReadable` is violated |
| `session_restart_outage` | one restart | `OutageEndsAtExpiry` is violated |
| `transport_replay` | two-word window, two threads, four messages with lost runs of 62 and 64 between them | `TypeOK`, `AtMostOnce`, `WindowExact`, `OnlyReplaysRefused` hold (166 thousand states) |
| `cookie_load` | table of 3, threshold 2, 2 per source, another source that fills it, one rotation, one other message of the session, one fault | `TypeOK`, `UnvalidatedBounded`, `WithinBudget`, `Admitted` hold (739 thousand states) |
| `cookie_busy_session` | the session sends another message while its handshake is outstanding; no fault | `CookieHonoured` is violated |
| `payment_replicas` | two payment workers, one webhook worker, one retry, up to two requests per attempt, four events | `TypeOK`, `RetryCreateOnce`, `PaidByItsTransaction`, `OneShotRetries`, `PaidLeftOnlyByLatest` hold (3.2 million states) |
| `payment_progress` | one payment and one webhook worker, one crash, two retries, four events | `SubmittingEnds`, `PaymentNoticed` hold (154 thousand states) |
| `payment_first_submission` | two replicas, no crash | `OneCreatePerAttempt` is violated |
| `relay_credits` | two relays, a month and the start of the next, payloads of 1 and 2, grants of 2, caps that allow 2 or 3 bytes, two bytes outside credits, one crash or shutdown | `TypeOK`, `ChargeWithinCap`, `FenceWithinMonth`, `CountIsFinal`, `UsedWithinMonth`, `OneBudget` hold (1.0 million states) |
| `device_usage` | two devices, two months of two ticks and the tick after them, two events, two periods, one unrecorded change, transactions open for up to a tick | `TypeOK`, `ReportExact`, `ReportAvailable`, `RevocableUnlessCheckpointed`, `InvoiceExact` hold (1.6 million states) |

What the four violations show:

- *A quiet rekey.* `session.rs` says a rekey runs beside the session it replaces
  "so traffic never stalls". If the initiator sends nothing after a rekey, the
  responder never gets its proof; when its old session expires, `poll` goes to
  `Idle` and drops the new, unproven keys too, and dials. The initiator keeps that
  dial's keys pending, and seals under keys the responder has dropped until
  the responder sends something. `TrafficNeverStalls` is the comment's claim, and it holds, and
  is proved, for a pair whose ends both send.
- *Expiry is not always the end of an outage.* The comment at `initiated` says a pair
  with different keys recovers when both sides expire. After a restart in the
  middle of a simultaneous open both ends can be responders; neither rekeys,
  both expire, both dial at once, and a direction can be dark for a rekey
  interval more. `OutageBounded` is the bound that holds.
- *A cookie for a busy session.* `handle_cookie_reply` compares the reply with
  `reassembly_id`, which its comment calls the id of the last `HandshakeInit`. Data
  messages and a `HandshakeResponse` move the same field, so a session that sends one while
  its `HandshakeInit` is challenged ignores the challenge: a rekey under traffic, and a
  first handshake that crosses the peer's. It is admitted once it retransmits and sends nothing else before the
  next reply, which `Admitted` shows for a bounded number of other messages (`MaxOthers`);
  with traffic that never pauses longer than a reply takes, nothing guarantees it.
- *The first request of an invoice.* `paddle_process.go` says the worker is safe on every
  replica "because the transition to submitting is compare-and-set and every create
  remains one-shot". `UpdatePaymentState` reports success when the row is already in
  the state asked for, so of two replicas that listed the same ready invoice the
  second is told it made the transition, and requests a transaction too. Scheduled
  retries are claimed differently, and `RetryCreateOnce` holds of them.

Five properties are stated as the code keeps them, which is less than one might
expect. `PaidLeftOnlyByLatest`: `finishPaymentRetry` does not look at the invoice's state,
so the worker of the latest attempt, holding an older answer, can move a paid invoice back; and
`ProcessWebhook` reads the invoice without a lock and updates it unconditionally, so a webhook that read it before another
replica paid it can too, although its comment says that events "cannot roll the payment state
back". `ChargeWithinCap`: bytes forwarded outside credits are in the bill and not in the budget, which grants the
whole allowance besides. They are those on leases before the month's first cap is in force (or
of a lease that outlives the month before), and those forwarded at shutdown after the gate is detached. So the bill can exceed the cap, which
ADR 0052 says it cannot; the property bounds the excess by the price of these bytes. `InvoiceExact` excepts an invoice that is
not `sound`, of which there are three kinds: drawn while a transaction of its month may still be open, drawn with a
change still unseen, and drawn while an earlier month is being pruned (below).
`SubmittingEnds` excepts crashes: no listing selects a row left in submitting.
`RevocableUnlessCheckpointed`: once the enrolment event of a device that is still a
member is pruned, `Append` refuses to revoke it.

`ReportExact` and `InvoiceExact` are about windows and invoices whose events since their
checkpoint are kept (`Kept`). The comment in `Reporter.Devices` says that "Sequence continuity detects a
missing ledger row", which is true only if some later event is kept to show the gap.
Nothing orders the pruning of months: prune months 0 and 3, then month 1 (its invoice was drawn
late, when the checkpoint of month 3 already existed). Month 2, never pruned and without events of its own, is then
reported, and invoiced, with the count of month 0's checkpoint, and the report calls it complete. TLC
shows it with four months of one tick (`LastMonth = 3`, `MonthLen = 1`) when `Kept` is left out; the attempt to
prove the properties without it is what led there.

The invoice command has the same weakness in a narrower place. The comment says that the checkpoint and the events "share this
repeatable-read snapshot"; inside the command's transaction they do not. If an earlier month is pruned between the
statement that selects the checkpoint and the one that counts what follows it, the opening count lacks the events of
that month; if the invoiced month has no event of its own, nothing shows the gap. TLC finds it in the bounds of `device_usage` when
`KeptSince` is left out of `ReadOpening`. A prune after the opening count was read, and any commit between two statements, are
harmless, which is what `InvoiceExact` shows.

Bounds. `Ids` names five handshakes and five responses each and is never
exhausted: more names give the same number of states. One fault is what
the bounds on outages are about, as two faults far enough apart are two
outages; in `session_safety` one fault together with every interleaving of two
threads per node reaches the races listed as hazards. The timers of `session_safety` are
the smallest with the code's order (give up before reject, rekey before reject); `session_recovery`
needs the real ratio. A two-word window with bursts of 62 and 64 reaches every
boundary of `shift_by` (within a word, a carry, exactly a word, a word and a
carry, all of the window); the proofs cover every width. In `cookie_load` the
other source fills the table to the threshold but not to the end: with
enough validated sources (64 in the code's configuration) `CapacityExhausted`
refuses everybody. One rotation lets a cookie be one secret old; two take 240 s, longer than any handshake.

`payment_replicas`: the second replica is what the races need, one retry beside
the first attempt gives overlapping attempts, and two requests per attempt let the
first one be made twice. One webhook worker beside two payment workers lets an invoice change between a webhook's read and
its write; two webhook workers are beyond the run and in the proofs. `MaxEvents` bounds the events after which transactions change no
more; what was sent is still processed in any order. `payment_progress` has two retries, so that a later attempt can
stand between a payment and its event. In `relay_credits` neither cap is a whole number of
bytes, so the rounding of `maxRelayBytesForOverage` matters; two requests among the relays let both draw
on one budget or one draw again after a crash; two bytes outside credits (`MaxOutside`) are a payload of either
size, on a lease or at shutdown; the clock reaches the second month while
answers of the first are on their way. In `device_usage` `Retention` is 0, the value least
favourable to the properties (events go as soon as they are invoiced), and the clock goes on to
`MaxOpen` after the second month, so both can be invoiced when their transactions are over, and pruned, and the second month's
invoice can open from the first one's checkpoint, soundly. Two events are one for each
month, or a device that comes and goes; the window of two ticks
also lies across the months.

Symmetry is used where only safety is checked and the values are interchangeable
(replicas, relays, devices); the nodes of a session differ (the tie-break), and
`payment_progress` checks liveness. `transport_replay` may stop (the session
expires), and so may the five control-plane runs (an invoice is settled, a bound
reached): they are run without the deadlock check. The other runs never stop.

Fairness. Every inbound thread and `Engine::poll` run again and again (the
daemon's read loops and its drive loop): weak fairness of `Poll`, `Adopt`,
`Promote` and of each kind of delivery, meaning that a datagram that is not lost
arrives. Strong fairness of `Tick`: the clock moves on however much traffic keeps
arriving. Under `Chatty`, weak fairness of `SendData`: both ends have something to send; and a tick
leaves time for it to prove keys still pending. `session_idle_rekey` is what
happens without. In `CookieExchange`: the retransmission timer, the poll
and deliveries are weakly fair; the other source's load is not. In `Payment`: each
worker's step is weakly fair (`StartPaymentWorker`'s loop), and so is going on with a webhook that was begun. Beginning one for
each event of a payment is strongly fair, since a worker busy with another event cannot begin it:
`StartWebhookWorker`'s passes go through all pending events (assuming that a pass
of 100 reaches every one: see the hazard at `webhook_process.go:146`). The provider and the customer are not fair.

## Proofs

Checked by TLAPS for every value of the constants (sets of threads and names of
any size, any timers with `GiveUp < RejectAfter`, any number of faults, a window of any
number of words, a reassembler of any size and sources, any number of payment and webhook workers, retries, relays, months
and requests, any rate schedule and durations, any devices, billing months, retention and report window).

*Sessions.* The inductive invariant `IInv` of `PhreaticSessionProofs` has
four parts: `TypeOK`; `KeyOrigin` (keys a node holds as pending, or a thread
has in hand, come from a handshake the peer started); `InitiatorRekeys`; and
`Proven` (keys of a node's own handshake are in its session, and data under them on
the wire, only once it completed, and so is what a thread is about to promote).
`InitiatorRekeys` is not inductive alone: `promote` clears `initiated`, which is
right only because what it installs was started by the peer, which is
`KeyOrigin`. `Takeover` needs `Proven`: a promotion follows a data message
under those keys, and only their initiator, having completed, can have sent it first.
`InitiatorDials` follows from the actions and the type invariant. Each action is one step of
the proof, by conjunct.

`ResponderIsOlder` has an invariant of its own, `AgeInv`: of two copies of one key set the
responder's is at least as old. `ResponderExpiresFirst` is not inductive, because a thread that opened
a message holds a copy that `promote` puts back; `AgeInv` counts the copies in the threads' hands too. Its
argument: a responder's copy is made only in answering, under a name that
nothing refers to, so the initiator has no copy yet; the initiator's copy starts at age 0; the
clock ages all copies alike; and every other step moves or drops copies.

`QuietPairReadable` and `NeverStalls` assume `Chatty` (both ends send) and `RekeyAfter < RejectAfter`
(120 and 180 s in `session.rs`; with both equal to 3, TLC finds `QuiescentReadable` violated). Neither
property is near inductive: what one end holds says nothing unless the whole exchange is known. `CalmInv` describes
a pair while `faults = 0`. `Exchange`: a handshake is in one place only, its
`HandshakeInit` on the wire, the keys derived from it in one thread of the peer, or the
answer on the wire, and a node with a handshake waits for one of these. `Mode`: the pair is
in one of three modes. `Opening`: nobody has completed a handshake, and whoever
answered one waits for the answer to arrive (or, for the loser of the tie-break, for the winner's).
`Settled(n)`: both ends use the same keys at the same age, started by `n`, young enough that `n`
rekeys before they expire. `Turning(n)`: `n` has moved on to new keys, which the peer holds as pending, and
`n` keeps the old ones as previous, so both directions open. A response leads from
`Opening` to `Settled` and from `Settled` to `Turning`, a promotion back to `Settled`; the
lemmas go action by action and mode by mode. Once somebody can
dial, a tick only comes in `Settled`: in `Opening` messages on the wire are delivered first, and in `Turning`
the traffic that `Chatty` stands for proves the new keys first. An adopted handshake that the tie-break then discards, and a dial by
the responder beside the session, are cases of `Settled`.

*Replay window.* The inductive invariant is `WindowExact` with the types,
`AtMostOnce`, and that no delivered counter is beyond the window's head (without which
a counter above `highest` could be a replay); the work is in the lemmas on `shift_by`: the bit at
position `p` after a shift is the bit at `p - shift` before, by words and
remainders. `DeliveredAtMostOnce` and `RefusesOnlyReplays` follow from it, and so does `TypeCorrect`.

*Cookies and reassembly.* `IInv` of `CookieExchangeProofs`: `TypeOK` and `Table(slots)` (the table
is finite, has one entry per source and id, and is within its three bounds). `push` is taken apart by
lemmas: expiry and completion leave part of a table, and a new entry was let in by the
comparison that its bound needs; an entry never becomes unvalidated later.

*Payment.* `IInv` of `PaymentProofs`: `TypeOK`; `ProviderInv` (nothing exists at the
provider that no request made); `RowInv` (a row not claimed made no request); `HolderInv`
(a retry has one holder, is submitting with no request made until that holder makes it,
and is not back in the queue afterwards); `WorkerInv` (what a worker is about to write is an
outcome, paid only if the transaction was collected); `PaidEventInv`; `HookInv` (a webhook being handled is one
that was sent, and one that read a paid invoice writes only a payment); and the two
invariants. `PaidIsLeftOnlyByLatest` goes through the actions with `HookInv`; it says which writes can move a paid invoice back, not that
none does. `RetryCreateOnce` alone is not inductive: a request adds one to a count that is 0 only
because its maker is the one holder. The refinement theorem `RetriesAreOneShot` maps
initial states and every step of `Payment` to `OneShot` from the same invariant: claiming is
`Hold`, releasing (or an event that settles a claimed attempt) `GiveBack`, the request `Request`, everything else a stutter.

*Spending cap.* `IInv` of `RelayCreditsProofs`: `TypeOK`, `JobInv`, `FenceInv` (a
lease a relay counts on ends no later than the control plane's row of it, and a cap
waits for that row: this is why validity is counted from before the request),
`MonthInv` (a grant, held or on its way, does not outlast its month), `HeldInv` (what is held was
granted to its holder under an answered request, with numbers drawn in order) and
`CountInv` (a grant that is being returned has been let go of, and its number cannot be given again).
`FenceWithinMonth`, `CountIsFinal` and `UsedWithinMonth` follow. `TypeOK` itself says that no
grant is overdrawn. `RelayBudgetProofs` adds `SpendInv` (no more is forwarded under a grant than it grants) and
`BudgetInv` (a month with grants has a cap, and what they commit is within what it buys). A new grant is
within what was left; a surrender replaces what was granted by the final count, which `CountInv` makes
equal to what was used, so the sum falls and still covers what was forwarded; a cap is lowered
only to what covers the sum. The lemmas count bytes: `Bytes` grows with the
rows and the counts, and a new row adds its own. With the rounding of `maxRelayBytesForOverage`,
`SpendingWithinCap` follows: the bill is of the bytes on credits, whose price is within the cap, and of those outside, each of
which adds its own price at most (the allowance is used up, or is not).

`CapIsOneBudget` maps every step to `SpendingCap`. A step that leaves `caps`, `grants` and `used` alone
stutters. Setting a cap is `SetLimit`: with no rows nothing is reserved, raising keeps `BudgetInv`, lowering is
guarded by the sum. A new grant is `Reserve`: the new row adds its bytes, at most what was available, and nothing was
forwarded under it yet (`CountInv`). A payload is `Spend`: it is charged to one grant only, which needs `NumbersInv`
(a relay holds one grant per request number, so "the oldest that fits" is a single row, even when the relay
holds grants of two months); and it was reserved, because `CoverInv` (what is forwarded in a month is
within what is reserved) holds after the step too. A surrender is `GiveBack` of what is granted and not
counted, and `CoverInv` after the step says that none of it was forwarded.

*Device ledger.* `IInv` of `DeviceUsageProofs` relates the tables to `recorded`:
`LedgerInv` (the history is numbered without gaps, in the order of its timestamps, none later than `since`);
`CountInv` (enrolments less revocations are the enrollment rows now, and the count at any tick is
between none and all devices); `EnrolInv` (the generation of a row was started and not revoked);
`PruneInv` (what is kept is the history without the pruned months, all behind the latest checkpoint);
`CheckpointInv` (a checkpoint stands for the history up to the end of a month, and they are in order);
`TimeInv`; `PeriodInv` (periods follow each other, and only the last of an enabled collection is open); `TruthInv` (while a period is complete,
with no change unseen, the members are those of the history); `InvoiceInv`; and `DraftInv` (while an invoice's command may still
give a sound invoice, no transaction can reach back into its month, the checkpoint it selected stands for the history up to its
boundary, and the opening count is that of the history at the month's start).
The argument turns on `since`: the collection row serializes the transactions, so every timestamp is at
least that of the last commit, new events go at the end of the history, and what is
counted before `since` cannot change any more. A checkpoint is built when its rows are continuous with the one before, which
makes it stand for the history; a report over a window that is `Kept` adds
exactly the events that its checkpoint lacks, and so counts the history. `ReportAvailable` follows since everything after the latest checkpoint
is kept and numbered without a gap; `RevocableUnlessCheckpointed` since an enrolment that was
pruned is behind it; `InvoiceExact` since a sound invoice was exact and its month is before `since`. That it was exact although
its statements saw different tables: the checkpoint is a statement on a past that no longer changes, the opening count is of
events that were all there when it was read, and the month's own events cannot be pruned before the month has its invoice.

Only model-checked: `Recovery`, `Admitted`, `SubmittingEnds` and `PaymentNoticed` (liveness is
outside the prover's reach); and `OutageBounded`, which bounds the outage
after one fault: with any number of faults, as the theorems have it, the outages add up and it is false.

## Not modelled

Of the modelled parts: PSK epochs; the rekey after 2^60 messages and the end of
the 64-bit counter; the backoff schedule of retransmissions; `handle`, `accept`,
`respond_to` and `send`, the single-threaded entry points that the tests
use; the engine's `reconfigure`, relay choice, filter and Bedrock claims. A message is
never forged: the cryptography decides that, and `spec/models` is about it. What the three
control-plane modules leave out is said with each of them. A transaction is one step where it locks or compares what it
read, and a report on its own reads one snapshot (it asks for repeatable read); a webhook and an invoice, which do neither, are read
statement by statement.

How much of the repository this is: the Go modules stand for some two thousand lines
of a server of 167 thousand, most of which is a fork of third-party management code,
generated protocol and API types, mocks, HTTP plumbing and SQL; the Rust modules stand
for the session, transport, reassembly, cookie and credit code. The larger part of the
control plane (the API's handlers, stores of policy, compliance and audit, the fork's
account and peer managers) is record keeping with one transaction per request, where a model would restate the
statements. The other components are listed with their reasons in `PROJECT.json`.

Four disagreements of comments or documents with the code are recorded as hazards and have no run of their own; the properties
are stated around them, as explained with the runs. A webhook that read an invoice before it was paid moves it back
(`webhook_process.go:102`). Bytes forwarded on leases are billed and not budgeted, and a lease issued at
the end of a month outlives it although the next month's cap is in force
(`caps.go:421`). Pruned events that no later event is kept to reveal leave a report, or a late invoice, with an older
count (`report.go:94`), and so does a prune between two statements of the invoice's command (`billing.go:235`).

## Plan

In order, each with its runs and theorems:

1. `PhreaticSession`, `TransportSession`, `Reassembler`, `CookieExchange`, and their proofs (done).
2. `Payment` with the abstract `OneShot`, `RelayCredits` with the abstract `SpendingCap`,
   `DeviceUsage`, and the proofs of all three, the two refinements included (done).
3. AVEN: `PathTable` (candidates, probes, selection, expiry) and a composition with
   the engine's endpoint (`set_endpoint`, `release_endpoint`, the endpoint learnt in
   `accept_handshake`). Abstract specification: "the endpoint in use is one that answered". Safety: a release never removes an address learnt since;
   liveness: a live path is found again after the selected one dies.
4. PSK epochs: server rotation, netmaps that reach two nodes at different times,
   `peer_public_at_epoch`, `reconfigure`. Property: no interleaving of one rotation locks a pair
   out; theorem: nodes at most one epoch apart can always handshake.
5. The relay: hub and mesh presence with replacement and late disconnects.
   Abstract specification: a map from node to one connection, which the hub's tables implement.
6. Relay usage: checkpoints, upload and acknowledgement; with `RelayCredits`, the relay half of an invoice.
7. Bedrock: append, verify and head claims with lost messages; no rollback (theorem).
8. Proofs: a form of `OutageBounded` that counts from the last fault, which an invariant like
   `CalmInv`, with more modes, could carry.
