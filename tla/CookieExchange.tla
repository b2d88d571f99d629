--------------------------- MODULE CookieExchange ---------------------------
(***************************************************************************)
(* Getting a HandshakeInit past a responder under load: the initiator      *)
(* fragments it, the responder's reassembler refuses an unvalidated source *)
(* and answers with a CookieReply, and the initiator retries once under    *)
(* the cookie (mac2).  The responder rotates its cookie secret meanwhile,  *)
(* and other sources fill its reassembler.                                 *)
(*                                                                         *)
(* A cookie is the secret it was computed from; a fragment MAC is the key  *)
(* that made it: Mac1 (the responder's static key) or a cookie.            *)
(***************************************************************************)
EXTENDS Reassembler

CONSTANTS
    Initiator,      \* the source address of the modelled initiator
    COUNT,          \* fragments of a HandshakeInit (3 in the code)
    MaxOthers,      \* messages other than HandshakeInits the initiator sends (a bound)
    FaultKinds,     \* which faults happen: "loss", "dup", "late"
    MaxFaults,      \* how many of them (a bound)
    MaxRotations,   \* how often the cookie secret rotates (a bound)
    Mac1, None

ASSUME ExchangeAssumption ==
    /\ Initiator \in Sources
    /\ COUNT \in 2..MAX_FRAGMENTS
    /\ MaxFaults \in Nat /\ MaxRotations \in Nat /\ MaxOthers \in Nat
    /\ Ids \subseteq Nat
    /\ FaultKinds \subseteq {"loss", "dup", "late"}

Secrets == 0..MaxRotations

ASSUME KeyAssumption == Mac1 # None /\ {Mac1, None} \cap (Secrets \cup Ids) = {}

VARIABLES
    slots,          \* the responder's Reassembler
    cookie,         \* CookieSecret: current and previous, None before the first poll
    reassembly_id,  \* Session::reassembly_id of the initiator, None: of no HandshakeInit
    init_id,        \* history: the id of the last HandshakeInit emission
    outstanding,    \* the initiator has a handshake in flight
    retry_due,      \* the retransmission timer has fired
    net,            \* fragments and CookieReplies in flight
    faults,
    others          \* messages of other types the initiator has sent

vars ==
    <<slots, cookie, reassembly_id, init_id, outstanding, retry_due, net, faults, others>>

Datagram ==
    [type : {"fragment"}, hdr : Fragment, key : {Mac1} \cup Secrets]
        \cup [type : {"reply"}, receiver_index : Ids, cookie : Secrets]

TypeOK ==
    /\ slots \subseteq Entry
    /\ \A e, f \in slots :
         e.source = f.source /\ e.reassembly_id = f.reassembly_id => e = f
    /\ cookie \in [current : Secrets \cup {None}, previous : Secrets \cup {None}]
    /\ reassembly_id \in Ids \cup {None}
    /\ init_id \in Ids \cup {None}
    /\ outstanding \in BOOLEAN
    /\ retry_due \in BOOLEAN
    /\ net \subseteq Datagram
    /\ faults \in 0..MaxFaults
    /\ others \in 0..MaxOthers

-----------------------------------------------------------------------------
\* A reassembly id is drawn at random (emit) or the last one plus one
\* (next_reassembly_id), of 2^32: a new one is one nothing refers to.
IdsInUse ==
    {reassembly_id, init_id}
        \cup {e.reassembly_id : e \in FromSource(slots, Initiator)}
        \cup {IF m.type = "reply" THEN m.receiver_index ELSE m.hdr.reassembly_id : m \in net}
Fresh(used) == {i \in Ids \ used : \A j \in Ids \ used : i <= j}
FreshIds == Fresh(IdsInUse)

\* karst_proto::fragment.
Header(id, i) ==
    [reassembly_id |-> id, idx |-> i, count |-> COUNT,
     len |-> IF i + 1 = COUNT THEN "short" ELSE "full"]
fragment(id, key) ==
    {[type |-> "fragment", key |-> key, hdr |-> Header(id, i)] : i \in 0..(COUNT - 1)}

Fault(kind) ==
    /\ kind \in FaultKinds
    /\ faults < MaxFaults
    /\ faults' = faults + 1

\* A datagram arrives; a duplicated one is still in flight.
Take(m, replies) ==
    \/ net' = (net \ {m}) \cup replies /\ UNCHANGED faults
    \/ net' = net \cup replies /\ Fault("dup")

Init ==
    /\ slots = {}
    /\ cookie = [current |-> None, previous |-> None]
    /\ reassembly_id = None
    /\ init_id = None
    /\ outstanding = TRUE
    /\ retry_due = TRUE
    /\ net = {}
    /\ faults = 0
    /\ others = 0

-----------------------------------------------------------------------------
(* The initiator. *)

\* Session::emit of the HandshakeInit: the dial, and every retransmission.
EmitInit ==
    /\ outstanding /\ retry_due
    /\ \E id \in FreshIds :
         /\ reassembly_id' = id
         /\ init_id' = id
         /\ net' = net \cup fragment(id, Mac1)
    /\ retry_due' = FALSE
    /\ UNCHANGED <<slots, cookie, outstanding, faults, others>>

\* Every other message the initiator's session sends to this peer takes an id too,
\* also with the HandshakeInit still unanswered: emit of a HandshakeResponse to the
\* peer's own dial, and data (next_reassembly_id) of a session that is being
\* rekeyed or was adopted as responder.  No HandshakeInit went
\* out under such an id, so all of them are None here.  MaxOthers bounds them.
EmitOther ==
    /\ others < MaxOthers
    /\ others' = others + 1
    /\ reassembly_id' = None
    /\ UNCHANGED <<slots, cookie, init_id, outstanding, retry_due, net, faults>>

\* Mutant of handle_cookie_reply: the retry is sent under mac1 again.
handle_cookie_reply_mac1(m) ==
    IF m.receiver_index = reassembly_id /\ outstanding
    THEN \E id \in FreshIds :
           /\ reassembly_id' = id
           /\ init_id' = id
           /\ Take(m, fragment(id, Mac1))
    ELSE UNCHANGED <<reassembly_id, init_id>> /\ Take(m, {})

\* Session::handle_cookie_reply.
handle_cookie_reply(m) ==
    IF m.receiver_index = reassembly_id /\ outstanding
    THEN \E id \in FreshIds :
           /\ reassembly_id' = id
           /\ init_id' = id
           /\ Take(m, fragment(id, m.cookie))
    ELSE UNCHANGED <<reassembly_id, init_id>> /\ Take(m, {})

CookieReply(m) ==
    /\ m.type = "reply"
    /\ handle_cookie_reply(m)
    /\ UNCHANGED <<slots, cookie, outstanding, retry_due, others>>

-----------------------------------------------------------------------------
(* The responder. *)

\* Engine::check_frag_mac.
addr_validated(key) == key \in {cookie.current, cookie.previous}
mac_ok(key) == key = Mac1 \/ addr_validated(key)

\* Engine::issue_cookie_reply: nothing before the secret is seeded.
issue_cookie_reply(id) ==
    IF cookie.current = None THEN {}
    ELSE {[type |-> "reply", receiver_index |-> id, cookie |-> cookie.current]}

\* Engine::inbound of a fragment.  A completed HandshakeInit is answered, and
\* the answer ends the initiator's handshake.
Inbound(m) ==
    LET result == push(slots, Initiator, addr_validated(m.key), m.hdr) IN
    /\ m.type = "fragment"
    /\ \/ /\ ~mac_ok(m.key)
          /\ Take(m, {})
          /\ UNCHANGED <<slots, outstanding>>
       \/ /\ mac_ok(m.key)
          /\ slots' = result.slots
          /\ outstanding' = (outstanding /\ result.outcome # "Complete")
          /\ Take(m, IF result.outcome = "CookieRequired"
                     THEN issue_cookie_reply(m.hdr.reassembly_id) ELSE {})
    /\ UNCHANGED <<cookie, reassembly_id, init_id, retry_due, others>>

\* Another source's first fragment, of a message in flight or of a new one; the
\* others are lost or late (to complete the message frees the slot, as expiry does).
OtherFragment(s, validated) ==
    LET started == {e.reassembly_id : e \in FromSource(slots, s)} IN
    /\ s # Initiator
    /\ \E id \in started \cup Fresh(started) :
         slots' = push(slots, s, validated, Header(id, 0)).slots
    /\ UNCHANGED <<cookie, reassembly_id, init_id, outstanding, retry_due, net, faults, others>>

\* Engine::poll seeds the secret, and rotates it when it is due.
Rotate ==
    /\ \/ /\ cookie.current = None
          /\ cookie' = [cookie EXCEPT !.current = 0]
       \/ /\ cookie.current # None
          /\ cookie.current < MaxRotations
          /\ cookie' = [current |-> cookie.current + 1, previous |-> cookie.current]
    /\ UNCHANGED <<slots, reassembly_id, init_id, outstanding, retry_due, net, faults, others>>

-----------------------------------------------------------------------------
(* The environment. *)

Older(e) == [e EXCEPT !.age = IF @ < timeout THEN @ + 1 ELSE @]

Advance ==
    /\ slots' = {Older(e) : e \in slots}
    /\ retry_due' = TRUE
    /\ UNCHANGED <<cookie, reassembly_id, init_id, outstanding, net, others>>

\* The retransmission timer fires after the answer has had time to arrive, or
\* before.
Tick == net = {} /\ ~retry_due /\ Advance /\ UNCHANGED faults
LateTick == net # {} /\ Fault("late") /\ Advance

Lose(m) ==
    /\ Fault("loss")
    /\ net' = net \ {m}
    /\ UNCHANGED <<slots, cookie, reassembly_id, init_id, outstanding, retry_due, others>>

Next ==
    \/ EmitInit
    \/ EmitOther
    \/ \E m \in net : CookieReply(m)
    \/ \E m \in net : Inbound(m)
    \/ \E s \in Sources, validated \in BOOLEAN : OtherFragment(s, validated)
    \/ Rotate
    \/ Tick
    \/ LateTick
    \/ \E m \in net : Lose(m)

Spec == Init /\ [][Next]_vars

\* The initiator's timers run, the responder's drive loop polls, and a datagram
\* that is not lost arrives.
Fairness ==
    /\ WF_vars(EmitInit)
    /\ WF_vars(Tick)
    /\ WF_vars(Rotate)
    /\ WF_vars(\E m \in net : CookieReply(m))
    /\ WF_vars(\E m \in net : Inbound(m))

FairSpec == Spec /\ Fairness

-----------------------------------------------------------------------------
(* Properties. *)

\* Phreatic section 9.1: sources that have not proved their address never hold
\* more than load_threshold entries between them, whatever validated sources,
\* expiry and rotation do to the table in between.
UnvalidatedBounded == Cardinality({e \in slots : ~e.validated}) <= load_threshold

\* Neither the table nor one source's share of it outgrows its bound, address
\* validated or not: push's two checks before it takes a slot.
WithinBudget ==
    /\ Cardinality(slots) <= max_entries
    /\ \A s \in Sources : Cardinality(FromSource(slots, s)) <= max_per_source

\* handle_cookie_reply's claim: a CookieReply correlates with the reassembly_id
\* "this session most recently sent a HandshakeInit fragment under".  One that
\* answers the last emission of an outstanding handshake would then be retried
\* under its cookie.
CookieHonoured ==
    [][\A m \in net :
        m.type = "reply" /\ outstanding /\ m.receiver_index = init_id =>
            \/ m \in net'
            \/ faults' # faults
            \/ fragment(init_id', m.cookie) \subseteq net']_vars

\* However loaded the responder is, and whenever it rotates its secret, a handshake
\* that stays outstanding gets through to it: a reply that races a retransmission,
\* a rotation or another message of the session (which makes the session ignore
\* it), and a lost or repeated fragment, only delay it.  (As long as the other
\* sources are too few to fill the table: then nobody is answered.)
Admitted == <>(~outstanding)
=============================================================================
