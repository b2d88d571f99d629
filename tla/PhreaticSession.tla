--------------------------- MODULE PhreaticSession ---------------------------
(***************************************************************************)
(* Two nodes' PHREATIC sessions with each other, as karst-node's session   *)
(* state machine runs them and karstd's engine drives them: the first      *)
(* handshake, simultaneous open and its tie-break, rekeying, the           *)
(* confirmation of responder keys, expiry, and the re-dial of an idle peer.*)
(*                                                                         *)
(* A handshake is named by the HandshakeInit that started it and a key set *)
(* by that HandshakeInit and the response that completed it: two responses *)
(* to one HandshakeInit derive unrelated keys.  Names that nothing refers  *)
(* to any more are reused, as nothing can tell a reused name from a new one.*)
(* Time is the age of each thing that has a deadline, in ticks.            *)
(***************************************************************************)
EXTENDS Naturals, FiniteSets

CONSTANTS
    A, B,          \* the two nodes; A has the higher static KEM public key
    None,          \* Rust's Option::None
    Ids,           \* names of handshakes and of responses (a bound)
    Workers,       \* threads that call Engine::inbound / inbound_from_relay
    Dialing,       \* possible sets of nodes configured to reach the other
    GiveUp,        \* HANDSHAKE_GIVE_UP_MS, in ticks
    RekeyAfter,    \* REKEY_AFTER_MS, in ticks
    RejectAfter,   \* REJECT_AFTER_MS, in ticks
    FaultKinds,    \* which faults happen: "loss", "dup", "late", "roam",
                   \* "restart"
    MaxFaults,     \* how many of them (a bound)
    DarkCap,       \* where the history variable dark stops counting (a bound)
    Chatty         \* both directions carry traffic in every tick

Nodes == {A, B}
Peer(n) == IF n = A THEN B ELSE A

ASSUME NodesAssumption == A # B /\ Dialing \subseteq SUBSET {A, B}
ASSUME IdsAssumption == Ids \subseteq Nat
\* session.rs asserts REJECT_AFTER_MS > HANDSHAKE_GIVE_UP_MS at compile time.
ASSUME TimesAssumption ==
    /\ GiveUp \in Nat \ {0} /\ RekeyAfter \in Nat /\ RejectAfter \in Nat
    /\ GiveUp < RejectAfter
ASSUME FaultsAssumption ==
    MaxFaults \in Nat /\ DarkCap \in Nat /\ 
        FaultKinds \subseteq {"loss", "dup", "late", "roam", "restart"}

Inits == [from : Nodes, id : Ids]
Keys == [init : Inits, resp : Ids]
Initiator(k) == k.init.from

\* A TransportSession: its key set and its age since established_ms.
Slot == [key : Keys, age : 0..RejectAfter]
\* A Handshake in flight: its HandshakeInit and its age since started_ms.
Handshake == [init : Inits, age : 0..GiveUp]
Option(S) == S \cup {None}

\* What an inbound thread holds between two critical sections of the session's
\* lock: keys to adopt (after respond()) or keys to promote (after open()).
Task == [step : {"adopt", "promote"}, slot : Slot]

Message ==
    [type : {"init"}, init : Inits]
        \cup [type : {"response"}, key : Keys]
        \cup [type : {"data"}, key : Keys, to : Nodes]

ASSUME NoneAssumption ==
    None \notin Slot \cup Handshake \cup Keys \cup Task

\* session.rs enum State; one record type for its three variants.
State ==
    [tag : {"Idle", "Handshaking", "Established"},
     hs : Option(Handshake),         \* Handshaking(hs), or Established's rekey
     session : Option(Slot),
     initiated : BOOLEAN,
     pending : Option(Slot),
     previous : Option(Slot)]

VARIABLES
    state,      \* state[n]: n's session state with its peer
    answered,   \* answered[n]: key set of the last HandshakeInit n answered
    dialers,    \* nodes whose configuration has an endpoint or a relay
    via,        \* nodes that have an endpoint or a relay to send through
    work,       \* work[n][w]: what thread w of node n has in hand
    net,        \* messages in flight
    due,        \* nodes whose Engine::poll has not run since the last tick
    faults,     \* faults so far
    completed,  \* history: key sets their initiator derived in handle_response
    dark        \* history: dark[n] is the number of ticks that have passed since
                \* the peer could last open what n seals

vars ==
    <<state, answered, dialers, via, work, net, due, faults, completed, dark>>

TypeOK ==
    /\ state \in [Nodes -> State]
    /\ answered \in [Nodes -> Option(Keys)]
    /\ dialers \subseteq Nodes
    /\ via \subseteq Nodes
    /\ work \in [Nodes -> [Workers -> Option(Task)]]
    /\ net \subseteq Message
    /\ due \subseteq Nodes
    /\ faults \in 0..MaxFaults
    /\ completed \subseteq Keys
    /\ dark \in [Nodes -> 0..DarkCap]
    /\ \A n \in Nodes :
         /\ state[n].tag = "Idle" => state[n].hs = None
         /\ state[n].tag = "Handshaking" => state[n].hs # None
         /\ state[n].tag = "Established" <=> state[n].session # None

-----------------------------------------------------------------------------
(* The session's states. *)

Idle ==
    [tag |-> "Idle", hs |-> None, session |-> None, initiated |-> FALSE,
     pending |-> None, previous |-> None]

Handshaking(h) == [Idle EXCEPT !.tag = "Handshaking", !.hs = h]

IsEstablished(n) == state[n].tag = "Established"

\* Handshake::abandoned and TransportSession::{expired, needs_rekey}.
abandoned(h) == h.age >= GiveUp
expired(s) == s.age >= RejectAfter
needs_rekey(s) == s.age >= RekeyAfter

\* The keys a node can open a transport message under: Session::inbound.
Slots(n) == {state[n].session, state[n].previous, state[n].pending} \ {None}
Opens(n, k) == \E s \in Slots(n) : s.key = k /\ ~expired(s)

wins_simultaneous_open_tiebreak(n) == n = A

-----------------------------------------------------------------------------
(* Fresh names: those that nothing refers to. *)

Tasks(n) == {work[n][w] : w \in Workers} \ {None}

\* Key sets that a node, a thread or a message holds.
KeysHeld ==
    {s.key : s \in UNION {Slots(n) : n \in Nodes}}
        \cup {t.slot.key : t \in UNION {Tasks(n) : n \in Nodes}}
        \cup {m.key : m \in {x \in net : x.type # "init"}}

KeysInUse ==
    completed \cup KeysHeld \cup ({answered[n] : n \in Nodes} \ {None})

InitsInUse ==
    {k.init : k \in KeysInUse}
        \cup {h.init : h \in {state[n].hs : n \in Nodes} \ {None}}
        \cup {m.init : m \in {x \in net : x.type = "init"}}

\* The least of the unused names: which one is taken makes no difference.
Least(S) == {i \in S : \A j \in S : i <= j}
FreshInits(n) ==
    {[from |-> n, id |-> i] :
        i \in Least({j \in Ids : [from |-> n, id |-> j] \notin InitsInUse})}
FreshKeys(i) ==
    {[init |-> i, resp |-> r] :
        r \in Least({j \in Ids : [init |-> i, resp |-> j] \notin KeysInUse})}

NewSlot(k) == [key |-> k, age |-> 0]

InitMsg(i) == [type |-> "init", init |-> i]
ResponseMsg(k) == [type |-> "response", key |-> k]
DataMsg(n, k) == [type |-> "data", key |-> k, to |-> Peer(n)]

-----------------------------------------------------------------------------
Init ==
    /\ state = [n \in Nodes |-> Idle]
    /\ answered = [n \in Nodes |-> None]
    /\ dialers \in Dialing
    /\ via = dialers
    /\ work = [n \in Nodes |-> [w \in Workers |-> None]]
    /\ net = {}
    /\ due = Nodes          \* connect_all runs before the first poll
    /\ faults = 0
    /\ completed = {}
    /\ dark = [n \in Nodes |-> 0]

Fault(kind) ==
    /\ kind \in FaultKinds
    /\ faults < MaxFaults
    /\ faults' = faults + 1

-----------------------------------------------------------------------------
(* Timers: Engine::poll holds the session's lock across Session::poll and  *)
(* the re-dial, so the two are one step.                                   *)

\* Session::connect on an idle session, if the peer can be reached at all.
DialOrIdle(n) ==
    \/ /\ n \in via
       /\ \E i \in FreshInits(n) :
            /\ state' = [state EXCEPT ![n] = Handshaking([init |-> i, age |-> 0])]
            /\ net' = net \cup {InitMsg(i)}
    \/ /\ n \notin via
       /\ state' = [state EXCEPT ![n] = Idle]
       /\ net' = net

\* poll's `*pending = None` and `*previous = None` for keys past their validity.
Unexpired(s) == IF s = None \/ expired(s) THEN None ELSE s
Hygiene(s) ==
    [s EXCEPT !.pending = Unexpired(@), !.previous = Unexpired(@)]

Polled(n) ==
    /\ n \in due
    /\ due' = due \ {n}
    /\ UNCHANGED <<answered, dialers, via, work, faults, completed, dark>>

PollIdle(n) ==
    /\ state[n].tag = "Idle"
    /\ DialOrIdle(n)
    /\ Polled(n)

PollHandshaking(n) ==
    /\ state[n].tag = "Handshaking"
    /\ \/ abandoned(state[n].hs) /\ DialOrIdle(n)
       \/ /\ ~abandoned(state[n].hs)
          /\ net' = net \cup {InitMsg(state[n].hs.init)}    \* retry_due
          /\ UNCHANGED state
    /\ Polled(n)

PollExpired(n) ==
    /\ IsEstablished(n)
    /\ expired(state[n].session)
    /\ DialOrIdle(n)
    /\ Polled(n)

PollEstablished(n) ==
    LET s == Hygiene(state[n]) IN
    /\ IsEstablished(n)
    /\ ~expired(s.session)
    /\ \/ /\ s.hs # None /\ abandoned(s.hs)
          /\ state' = [state EXCEPT ![n] = [s EXCEPT !.hs = None]]
          /\ net' = net
       \/ /\ s.hs # None /\ ~abandoned(s.hs)
          /\ state' = [state EXCEPT ![n] = s]
          /\ net' = net \cup {InitMsg(s.hs.init)}           \* retry_due
       \/ /\ s.hs = None /\ s.initiated /\ needs_rekey(s.session)
          /\ \E i \in FreshInits(n) :
               /\ state' = [state EXCEPT ![n] =
                              [s EXCEPT !.hs = [init |-> i, age |-> 0]]]
               /\ net' = net \cup {InitMsg(i)}
       \/ /\ s.hs = None /\ ~(s.initiated /\ needs_rekey(s.session))
          /\ state' = [state EXCEPT ![n] = s]
          /\ net' = net
    /\ Polled(n)

-----------------------------------------------------------------------------
(* Inbound messages. *)

\* Thread w takes m off the wire; a duplicated datagram is still in flight.
Take(m) ==
    \/ net' = net \ {m} /\ UNCHANGED faults
    \/ net' = net /\ Fault("dup")

\* The same, with the answer put on the wire.
TakeAndSend(m, reply) ==
    \/ net' = (net \ {m}) \cup {reply} /\ UNCHANGED faults
    \/ net' = net \cup {reply} /\ Fault("dup")

Answered(n, i) == answered[n] # None /\ answered[n].init = i

\* accept_handshake, accept_relayed_handshake: a HandshakeInit that is the one
\* answered last gets the same answer again.
RepeatResponse(n, w, m) ==
    /\ m.type = "init" /\ m.init.from = Peer(n)
    /\ work[n][w] = None
    /\ Answered(n, m.init)
    /\ TakeAndSend(m, ResponseMsg(answered[n]))
    /\ UNCHANGED <<state, answered, dialers, via, work, due, completed, dark>>

\* Otherwise the thread derives keys with no lock held; adopt_responder is its
\* next step.  A HandshakeInit from an address that is not the peer's recorded
\* endpoint skips repeat_response: the lookup that precedes it finds no peer.
Respond(n, w, m) ==
    /\ m.type = "init" /\ m.init.from = Peer(n)
    /\ work[n][w] = None
    /\ \/ /\ ~Answered(n, m.init)
          /\ Take(m)
       \/ /\ Answered(n, m.init)
          /\ net' = net \ {m} /\ Fault("roam")
    /\ \E k \in FreshKeys(m.init) :
         work' = [work EXCEPT ![n][w] = [step |-> "adopt", slot |-> NewSlot(k)]]
    /\ UNCHANGED <<state, answered, dialers, via, due, completed, dark>>

\* Mutants of adopt_responder: it discards this node's own outstanding dial; a
\* HandshakeInit alone replaces the session in use.
adopt_responder_discards_dial(s, derived) ==
    IF s.tag = "Established"
    THEN [s EXCEPT !.pending = derived]
    ELSE [tag |-> "Established", hs |-> None, session |-> derived,
          initiated |-> FALSE, pending |-> None, previous |-> None]
adopt_responder_takeover(s, derived) ==
    [tag |-> "Established", hs |-> s.hs, session |-> derived,
     initiated |-> FALSE, pending |-> None, previous |-> s.session]

\* Session::adopt_responder.
adopt_responder(s, derived) ==
    IF s.tag = "Established"
    THEN [s EXCEPT !.pending = derived]
    ELSE [tag |-> "Established", hs |-> s.hs, session |-> derived,
          initiated |-> FALSE, pending |-> None, previous |-> None]

Adopt(n, w) ==
    LET task == work[n][w] IN
    /\ task # None /\ task.step = "adopt"
    /\ work' = [work EXCEPT ![n][w] = None]
    /\ state' = [state EXCEPT ![n] = adopt_responder(@, task.slot)]
    /\ answered' = [answered EXCEPT ![n] = task.slot.key]
    /\ via' = via \cup {n}
    /\ net' = net \cup {ResponseMsg(task.slot.key)}
    /\ UNCHANGED <<dialers, due, faults, completed, dark>>

\* Mutant: a completed handshake drops the keys still awaiting their proof.
handle_response_drops_pending(n, s, k) ==
    IF s.tag = "Established" /\ ~s.initiated /\ ~wins_simultaneous_open_tiebreak(n)
    THEN [s EXCEPT !.hs = None]
    ELSE [tag |-> "Established", hs |-> None, session |-> NewSlot(k),
          initiated |-> TRUE, pending |-> None, previous |-> s.session]

\* Session::handle_response once try_finish has accepted the response.
handle_response(n, s, k) ==
    IF s.tag = "Established" /\ ~s.initiated /\ ~wins_simultaneous_open_tiebreak(n)
    THEN [s EXCEPT !.hs = None]
    ELSE [tag |-> "Established", hs |-> None, session |-> NewSlot(k),
          initiated |-> TRUE, pending |-> s.pending, previous |-> s.session]

HandleResponse(n, w, m) ==
    /\ m.type = "response" /\ Initiator(m.key) = n
    /\ work[n][w] = None
    /\ Take(m)
    /\ IF state[n].hs # None /\ state[n].hs.init = m.key.init
       THEN /\ state' = [state EXCEPT ![n] = handle_response(n, @, m.key)]
            /\ completed' = IF state'[n].session = NewSlot(m.key)
                            THEN completed \cup {m.key} ELSE completed
       ELSE UNCHANGED <<state, completed>>
    /\ UNCHANGED <<answered, dialers, via, work, due, dark>>

\* Transport data: inbound() under the lock, open() outside it.  Only keys that
\* open as Opened::Pending leave the thread anything to do: promote.  The replay
\* window refuses a second copy, so a duplicate of data is no delivery.
OpenData(n, w, m) ==
    LET s == state[n]
        under(slot) == slot # None /\ slot.key = m.key /\ ~expired(slot)
    IN
    /\ m.type = "data" /\ m.to = n
    /\ work[n][w] = None
    /\ net' = net \ {m}
    /\ IF under(s.pending) /\ ~under(s.session) /\ ~under(s.previous)
       THEN work' = [work EXCEPT ![n][w] = [step |-> "promote", slot |-> s.pending]]
       ELSE UNCHANGED work
    /\ UNCHANGED <<state, answered, dialers, via, due, faults, completed, dark>>

\* Mutants of promote: it adopts whatever is pending when it runs; it leaves
\* `initiated` alone; it stamps the keys with the time of the promotion; it
\* leaves this node's own rekey in flight.
promote_current(s, proven) ==
    IF s.tag # "Established" \/ s.session.key = proven.key THEN s
    ELSE [s EXCEPT !.session = s.pending, !.hs = None, !.initiated = FALSE,
                   !.previous = s.session, !.pending = None]
promote_keeps_role(s, proven) ==
    IF s.tag # "Established" \/ s.session.key = proven.key THEN s
    ELSE [s EXCEPT !.session = proven, !.hs = None, !.previous = s.session,
                   !.pending = IF @ # None /\ @.key = proven.key THEN None ELSE @]
promote_restamps(s, proven) ==
    IF s.tag # "Established" \/ s.session.key = proven.key THEN s
    ELSE [s EXCEPT !.session = NewSlot(proven.key), !.hs = None,
                   !.initiated = FALSE, !.previous = s.session,
                   !.pending = IF @ # None /\ @.key = proven.key THEN None ELSE @]
promote_keeps_rekey(s, proven) ==
    IF s.tag # "Established" \/ s.session.key = proven.key THEN s
    ELSE [s EXCEPT !.session = proven, !.initiated = FALSE, !.previous = s.session,
                   !.pending = IF @ # None /\ @.key = proven.key THEN None ELSE @]

\* Session::promote: the keys adopted are those that opened the message.  Keys
\* are told apart by Arc::ptr_eq: a slot is identified by its key set.
promote(s, proven) ==
    IF s.tag # "Established" \/ s.session.key = proven.key
    THEN s
    ELSE [s EXCEPT !.session = proven, !.hs = None, !.initiated = FALSE,
                   !.previous = s.session,
                   !.pending = IF @ # None /\ @.key = proven.key THEN None ELSE @]

Promote(n, w) ==
    LET task == work[n][w] IN
    /\ task # None /\ task.step = "promote"
    /\ work' = [work EXCEPT ![n][w] = None]
    /\ state' = [state EXCEPT ![n] = promote(@, task.slot)]
    /\ UNCHANGED <<answered, dialers, via, net, due, faults, completed, dark>>

\* Engine::send_sealed: transport() is the live session's keys.
SendData(n) ==
    LET s == state[n].session IN
    /\ IsEstablished(n) /\ n \in via
    /\ ~expired(s)
    /\ DataMsg(n, s.key) \notin net
    /\ net' = net \cup {DataMsg(n, s.key)}
    /\ UNCHANGED <<state, answered, dialers, via, work, due, faults, completed, dark>>

-----------------------------------------------------------------------------
(* The environment: time, loss, and a restart of the daemon. *)

Min(a, b) == IF a <= b THEN a ELSE b
Older(x, cap) == IF x = None THEN None ELSE [x EXCEPT !.age = Min(@ + 1, cap)]
Aged(s) ==
    [s EXCEPT !.hs = Older(@, GiveUp), !.session = Older(@, RejectAfter),
              !.pending = Older(@, RejectAfter), !.previous = Older(@, RejectAfter)]

\* Somebody's traffic would prove keys its peer still holds as pending.
ProofOutstanding ==
    \E n \in via :
        /\ IsEstablished(n) /\ ~expired(state[n].session)
        /\ Opens(Peer(n), state[n].session.key)
        /\ \A s \in {state[Peer(n)].session, state[Peer(n)].previous} \ {None} :
             s.key # state[n].session.key

\* Every handshake message has arrived, every timer and thread has run.
Quiescent ==
    /\ \A m \in net : m.type = "data"
    /\ due = {}
    /\ \A n \in Nodes : Tasks(n) = {}

\* The peer can open what n seals now.
Heard(n) ==
    /\ IsEstablished(n) /\ ~expired(state[n].session)
    /\ Opens(Peer(n), state[n].session.key)

Advance ==
    /\ state' = [n \in Nodes |-> Aged(state[n])]
    /\ work' = [n \in Nodes |-> [w \in Workers |->
                  IF work[n][w] = None THEN None
                  ELSE [work[n][w] EXCEPT !.slot = Older(@, RejectAfter)]]]
    /\ due' = Nodes
    /\ completed' = completed \cap KeysHeld
    /\ dark' = [n \in Nodes |-> IF Heard(n) THEN 0 ELSE Min(dark[n] + 1, DarkCap)]
    /\ UNCHANGED <<answered, dialers, via>>

\* A tick in which everything kept up; data still in flight is lost.
Tick ==
    /\ Quiescent
    /\ Chatty => ~ProofOutstanding
    /\ net' = {}
    /\ Advance
    /\ UNCHANGED faults

\* A tick that something did not keep up with: a delayed message, a stalled
\* thread or a poll that comes late.
LateTick ==
    /\ ~Quiescent
    /\ Fault("late")
    /\ net' = net
    /\ Advance

Lose(m) ==
    /\ net' = net \ {m}
    /\ Fault("loss")
    /\ UNCHANGED <<state, answered, dialers, via, work, due, completed, dark>>

\* The daemon stops and starts: nothing of a session is on disk.
Restart(n) ==
    /\ Fault("restart")
    /\ state' = [state EXCEPT ![n] = Idle]
    /\ answered' = [answered EXCEPT ![n] = None]
    /\ via' = (via \ {n}) \cup (dialers \cap {n})
    /\ work' = [work EXCEPT ![n] = [w \in Workers |-> None]]
    /\ due' = due \cup {n}
    /\ UNCHANGED <<dialers, net, completed, dark>>

-----------------------------------------------------------------------------
Poll(n) == PollIdle(n) \/ PollHandshaking(n) \/ PollExpired(n) \/ PollEstablished(n)

Next ==
    \/ \E n \in Nodes : Poll(n)
    \/ \E n \in Nodes : SendData(n)
    \/ \E n \in Nodes, w \in Workers : Adopt(n, w)
    \/ \E n \in Nodes, w \in Workers : Promote(n, w)
    \/ \E n \in Nodes, w \in Workers, m \in net : RepeatResponse(n, w, m)
    \/ \E n \in Nodes, w \in Workers, m \in net : Respond(n, w, m)
    \/ \E n \in Nodes, w \in Workers, m \in net : HandleResponse(n, w, m)
    \/ \E n \in Nodes, w \in Workers, m \in net : OpenData(n, w, m)
    \/ Tick
    \/ LateTick
    \/ \E m \in net : Lose(m)
    \/ \E n \in Nodes : Restart(n)

Spec == Init /\ [][Next]_vars

(***************************************************************************)
(* What the daemon's scheduling guarantees: every thread that has work does *)
(* it, the drive loop polls, the clock moves on however much traffic there  *)
(* is, and, under Chatty, both ends keep sending.  A message that is not    *)
(* lost arrives.                                                            *)
(***************************************************************************)
Fairness ==
    /\ SF_vars(Tick)
    /\ \A n \in Nodes :
         /\ WF_vars(Poll(n))
         /\ WF_vars(Chatty /\ SendData(n))
         /\ \A w \in Workers : WF_vars(Adopt(n, w) \/ Promote(n, w))
         /\ WF_vars(\E w \in Workers, m \in net :
                      RepeatResponse(n, w, m) \/ Respond(n, w, m))
         /\ WF_vars(\E w \in Workers, m \in net : HandleResponse(n, w, m))
         /\ WF_vars(\E w \in Workers, m \in net : OpenData(n, w, m))

FairSpec == Spec /\ Fairness

-----------------------------------------------------------------------------
(* Properties. *)

\* `initiated` says whether this end's own dial produced the keys it seals
\* under, through every promote, completion and tie-break.  So the two ends of
\* one key set never both rekey it (the stall documented at `initiated`).
InitiatorRekeys ==
    \A n \in Nodes : IsEstablished(n) =>
        (state[n].initiated <=> Initiator(state[n].session.key) = n)

\* Phreatic section 8.1: only the initiator of a session dials beside it.  A
\* responder's outstanding handshake is the one it had before it answered
\* (adopt_responder carries it over); no session becomes a responder's with a
\* rekey of this node's own still in flight, and no responder starts one.
OnlyInitiatorDials ==
    [][\A n \in Nodes :
        IsEstablished(n)' /\ ~state'[n].initiated /\ state'[n].hs # None =>
            /\ state[n].hs # None
            /\ state[n].hs.init = state'[n].hs.init
            /\ ~(IsEstablished(n) /\ state[n].initiated)]_vars

\* Phreatic section 12.6: the keys in use are replaced only by keys whose
\* initiator is known to have completed the handshake, whichever threads, dials
\* and late messages meet in between.
NoUnprovenTakeover ==
    [][\A n \in Nodes :
        IsEstablished(n) /\ IsEstablished(n)' =>
            \/ state[n].session.key = state'[n].session.key
            \/ state'[n].session.key \in completed']_vars

\* Of the two copies of a key set the responder's is the older, also after it
\* was promoted: the responder's expiry is the first, so REJECT_AFTER_MS bounds
\* the life of the keys and not of a copy of them.
ResponderExpiresFirst ==
    \A n \in Nodes : \A s \in Slots(n), t \in Slots(Peer(n)) :
        s.key = t.key /\ Initiator(s.key) = n => t.age >= s.age

\* As long as nothing was lost, late, duplicated or restarted: once messages,
\* threads and timers have settled, an established node's traffic can be opened
\* by an established peer.  No pair reports `established` at both ends while
\* nothing decrypts, through simultaneous open, rekeys and expiry.
QuiescentReadable ==
    Quiescent /\ faults = 0 =>
        \A n \in Nodes :
            IsEstablished(n) /\ IsEstablished(Peer(n)) /\ ~expired(state[n].session)
                => Heard(n)

\* A rekey runs "alongside the session it will replace, so traffic never stalls"
\* (poll): as long as nothing went wrong and somebody can be dialled, no tick
\* finds a direction that its peer cannot open, from the first handshake on and
\* through every rekey.
TrafficNeverStalls == faults = 0 /\ dialers # {} => \A n \in Nodes : dark[n] = 0

\* One fault costs a direction at most a session's life and a rekey interval.
OutageBounded == \A n \in Nodes : dark[n] <= RejectAfter + RekeyAfter

\* What session.rs says of a pair that fell out of step: it is over when
\* REJECT_AFTER_TIME expires both sides and the re-dial produces one clean
\* handshake.
OutageEndsAtExpiry == \A n \in Nodes : dark[n] <= RejectAfter

\* Whatever was lost, duplicated, delayed or restarted, the pair gets back to
\* two established ends that open each other's traffic.
Recovery == []<>(\A n \in Nodes : Heard(n))
=============================================================================
