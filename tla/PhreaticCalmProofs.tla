------------------------- MODULE PhreaticCalmProofs -------------------------
(***************************************************************************)
(* What two nodes' sessions do as long as nothing goes wrong: no message    *)
(* lost, late or repeated, no restart, and traffic both ways.  The pair is  *)
(* then in one of three modes, opening its first session, settled on one    *)
(* set of keys, or turning from one set to the next, and in each of them    *)
(* both ends can be read.                                                   *)
(***************************************************************************)
EXTENDS PhreaticSessionProofs

\* Thread w of n has keys to adopt, or to promote.
Adopts(n, w) == work[n][w] # None /\ work[n][w].step = "adopt"
Promotes(n, w) == work[n][w] # None /\ work[n][w].step = "promote"

\* m answers a handshake of x.
AnswerTo(m, x) == m.type = "response" /\ Initiator(m.key) = x

\* One handshake of a node is in one place: its HandshakeInit on the wire, the
\* keys derived from it in a thread of the peer, or the answer on the wire.
InitOnWire(m) ==
    LET x == m.init.from IN
    /\ state[x].hs # None /\ state[x].hs.init = m.init
    /\ ~Answered(Peer(x), m.init)
    /\ \A w \in Workers : ~Adopts(Peer(x), w)
    /\ \A r \in net : ~AnswerTo(r, x)
InThread(n, w) ==
    LET x == Peer(n)
        k == work[n][w].slot.key
    IN
    /\ work[n][w].slot = NewSlot(k)
    /\ state[x].hs # None /\ state[x].hs.init = k.init
    /\ k \notin completed
    /\ \A v \in Workers : Adopts(n, v) => v = w
    /\ \A r \in net : ~AnswerTo(r, x)
AnswerOnWire(m) ==
    LET x == Initiator(m.key) IN
    /\ state[x].hs # None /\ state[x].hs.init = m.key.init
    /\ m.key \notin completed
    /\ \A r \in net : AnswerTo(r, x) => r = m

\* A node that was not polled since the tick has no handshake under way, and
\* one that has is waiting for something.
Waits(x) ==
    /\ x \in due => state[x].hs = None
    /\ state[x].hs # None =>
         \/ \E m \in net : m.type = "init" /\ m.init.from = x
         \/ \E w \in Workers : Adopts(Peer(x), w)
         \/ \E m \in net : AnswerTo(m, x)
    /\ IsEstablished(x) \/ state[x].hs # None => x \in via
    /\ ~IsEstablished(x) =>
         state[x].pending = None /\ state[x].previous = None /\ ~state[x].initiated

Exchange ==
    /\ \A m \in net : m.type = "init" => InitOnWire(m)
    /\ \A n \in Nodes, w \in Workers : Adopts(n, w) => InThread(n, w)
    /\ \A m \in net : m.type = "response" => AnswerOnWire(m)
    /\ \A x \in Nodes : Waits(x)

\* The pair is opening its first session: nobody has completed a handshake, and
\* a node that answered one waits for the peer to hear of it.  A node that gave
\* its own up to the tie-break leaves it to A to complete.
Answering(x) ==
    LET p == Peer(x) IN
    /\ p \notin due
    /\ \/ ResponseMsg(state[x].session.key) \in net
       \/ /\ x = A /\ state[p].hs = None /\ IsEstablished(p)
          /\ ResponseMsg(state[p].session.key) \in net

Opening ==
    /\ completed = {}
    /\ \A x \in Nodes :
         /\ ~state[x].initiated
         /\ state[x].pending = None /\ state[x].previous = None
         /\ \A w \in Workers : ~Promotes(x, w)
         /\ IsEstablished(x) => state[x].session.age = 0 /\ Answering(x)
         /\ x \in via /\ x \notin due => state[x].tag # "Idle"
    /\ \A m \in net : m.type = "response" =>
         state[Peer(Initiator(m.key))].session = NewSlot(m.key)

\* Both ends use the keys of n's handshake, the same copies of them.
Settled(n) ==
    LET p == Peer(n) IN
    /\ IsEstablished(n) /\ IsEstablished(p) /\ state[n].initiated
    /\ state[p].session = state[n].session
    /\ state[n].session.age < RejectAfter
    /\ n \notin due /\ state[n].hs = None => state[n].session.age + 1 < RejectAfter
    /\ \A x \in Nodes : state[x].pending # None => state[x].pending.key \notin completed
    /\ state[p].previous # None => state[p].previous.key \in completed
    /\ \A w \in Workers :
         /\ ~Promotes(n, w)
         /\ Promotes(p, w) =>
              /\ work[p][w].slot.key = state[p].session.key
              /\ n \notin due /\ state[n].hs = None /\ state[p].hs = None
    /\ state[p].hs # None =>
         n \notin due /\ state[n].hs = None /\ (p = A => state[n].previous = None)
    /\ \A m \in net : m.type = "response" =>
         \/ state[Peer(Initiator(m.key))].pending = NewSlot(m.key)
         \/ Initiator(m.key) = p /\ p = B

\* n has completed a handshake that the peer answered and has no proof of yet.
Turning(n) ==
    LET p == Peer(n) IN
    /\ IsEstablished(n) /\ IsEstablished(p) /\ state[n].initiated
    /\ \A x \in Nodes : state[x].hs = None
    /\ n \notin due /\ (state[p].initiated => p \notin due)
    /\ state[n].previous = state[p].session
    /\ state[p].pending = state[n].session
    /\ state[p].session.key \in completed
    /\ state[p].session.key # state[n].session.key
    /\ state[p].previous # None => state[p].previous.key # state[n].session.key
    /\ state[n].session.age + 1 < RejectAfter
    /\ state[p].session.age < RejectAfter
    /\ state[n].pending # None => state[n].pending.key \notin completed
    /\ \A w \in Workers :
         /\ ~Promotes(n, w)
         /\ Promotes(p, w) => work[p][w].slot = state[n].session

Mode == Opening \/ \E n \in Nodes : Settled(n) \/ Turning(n)

CalmInv ==
    faults = 0 =>
        /\ Exchange /\ Mode
        /\ dialers \subseteq via
        /\ dialers # {} => \A n \in Nodes : dark[n] = 0

-----------------------------------------------------------------------------
(* Facts about one state. *)

LEMMA TwoNodes ==
    ASSUME NEW n \in Nodes
    PROVE  /\ Peer(n) \in Nodes /\ Peer(n) # n /\ Peer(Peer(n)) = n
           /\ \A x \in Nodes : x = n \/ x = Peer(n)
BY NodesAssumption DEF Peer, Nodes

\* What the invariant of PhreaticSessionProofs says of one node, by field.
LEMMA NodeFacts ==
    ASSUME IInv, NEW n \in Nodes
    PROVE  /\ state[n].hs \in Option(Handshake) /\ state[n].session \in Option(Slot)
           /\ state[n].pending \in Option(Slot) /\ state[n].previous \in Option(Slot)
           /\ state[n].initiated \in BOOLEAN
           /\ state[n].tag \in {"Idle", "Handshaking", "Established"}
           /\ IsEstablished(n) <=> state[n].session # None
           /\ state[n].tag = "Idle" => state[n].hs = None
           /\ state[n].tag = "Handshaking" => state[n].hs # None
           /\ IsEstablished(n) => (state[n].initiated <=> Initiator(state[n].session.key) = n)
           /\ IsEstablished(n) => state[n].session \in Slot /\ state[n].session.age \in Nat
                                  /\ state[n].session.key \in Keys
           /\ IsEstablished(n) /\ state[n].initiated => state[n].session.key \in completed
           /\ state[n].pending # None => Initiator(state[n].pending.key) = Peer(n)
<1>1. /\ StateOK(state[n]) /\ FromPeer(n, state[n].pending)
      /\ Role(n, state[n]) /\ OwnProven(n, state[n], completed)
  BY IInvNode
<1> QED
  BY <1>1, TimesAssumption
  DEF StateOK, State, Option, Slot, FromPeer, Role, OwnProven, IsEstablished

\* Keys a thread has in hand are of the peer's handshake.
LEMMA ThreadFacts ==
    ASSUME IInv, NEW n \in Nodes, NEW w \in Workers, work[n][w] # None
    PROVE  /\ work[n][w] \in Task /\ work[n][w].slot \in Slot /\ work[n][w].slot # None
           /\ work[n][w].slot.key \in Keys /\ Initiator(work[n][w].slot.key) = Peer(n)
           /\ work[n][w].step \in {"adopt", "promote"}
<1>1. TypeOK /\ KeyOrigin
  BY DEF IInv
<1>2. work[n][w] \in Task /\ work[n][w].slot \in Slot /\ work[n][w].slot.key \in Keys
  BY <1>1, TaskType
<1>3. work[n][w].slot # None
  BY <1>2, NoneAssumption
<1> QED
  BY <1>1, <1>2, <1>3 DEF KeyOrigin, FromPeer, Task

LEMMA MessageFacts ==
    ASSUME IInv, NEW m \in net
    PROVE  /\ m.type \in {"init", "response", "data"}
           /\ m.type = "init" => m.init \in Inits /\ m.init.from \in Nodes /\ m = InitMsg(m.init)
           /\ m.type = "response" =>
                m.key \in Keys /\ Initiator(m.key) \in Nodes /\ m = ResponseMsg(m.key)
           /\ m.type = "data" => m.key \in Keys /\ m.to \in Nodes
<1>1. m \in Message
  BY DEF IInv, TypeOK
<1> QED
  BY <1>1 DEF Message, Keys, Inits, Initiator, InitMsg, ResponseMsg

\* Nobody uses keys past their validity.
LEMMA Young ==
    ASSUME IInv, Mode, NEW x \in Nodes, IsEstablished(x)
    PROVE  state[x].session.age < RejectAfter
<1>0. state[x].session.age \in Nat
  BY NodeFacts
<1>1. CASE Opening
  BY <1>1, TimesAssumption DEF Opening
<1>2. ASSUME NEW n \in Nodes, Settled(n) \/ Turning(n)
      PROVE  state[x].session.age < RejectAfter
  <2>1. x = n \/ x = Peer(n)
    BY TwoNodes
  <2> QED BY <1>0, <1>2, <2>1, TimesAssumption DEF Settled, Turning
<1> QED BY <1>1, <1>2 DEF Mode

LEMMA FreshInitUnused ==
    ASSUME IInv, NEW n \in Nodes, NEW i \in FreshInits(n)
    PROVE  i \in Inits /\ i.from = n /\ \A x \in Nodes : ~Answered(x, i)
<1>1. PICK j \in Least({y \in Ids : [from |-> n, id |-> y] \notin InitsInUse}) :
        i = [from |-> n, id |-> j]
  BY DEF FreshInits
<1>2. i \notin InitsInUse
  BY <1>1 DEF Least
<1>3. \A x \in Nodes : answered[x] # None => answered[x] \in KeysInUse
  BY DEF KeysInUse
<1>4. \A x \in Nodes : ~Answered(x, i)
  BY <1>2, <1>3 DEF Answered, InitsInUse
<1> QED BY <1>4, FreshInitType

LEMMA FreshKeyNew ==
    ASSUME NEW i \in Inits, NEW k \in FreshKeys(i)
    PROVE  k \in Keys /\ k.init = i /\ k \notin completed
<1>1. PICK r \in Least({x \in Ids : [init |-> i, resp |-> x] \notin KeysInUse}) :
        k = [init |-> i, resp |-> r]
  BY DEF FreshKeys
<1>2. k \notin KeysInUse
  BY <1>1 DEF Least
<1> QED
  BY <1>2, FreshKeyType DEF KeysInUse

-----------------------------------------------------------------------------
(* Engine::poll. *)

LEMMA HygieneFacts ==
    ASSUME NEW s, StateOK(s)
    PROVE  /\ Hygiene(s).tag = s.tag /\ Hygiene(s).hs = s.hs
           /\ Hygiene(s).session = s.session /\ Hygiene(s).initiated = s.initiated
           /\ Hygiene(s).pending \in {s.pending, None}
           /\ Hygiene(s).previous \in {s.previous, None}
           /\ s.pending # None /\ s.pending.age < RejectAfter => Hygiene(s).pending = s.pending
<1>1. Hygiene(s).pending = Unexpired(s.pending) /\ Hygiene(s).previous = Unexpired(s.previous)
  BY DEF StateOK, State, Hygiene
<1>2. s.pending # None => s.pending.age \in Nat
  BY DEF StateOK, State, Option, Slot
<1> QED
  BY <1>1, <1>2, HygieneOK, TimesAssumption DEF Unexpired, expired

\* What one node's poll does: nothing, a dial, a rekey, or hygiene.
PollsIdle(x) == ~IsEstablished(x) /\ x \notin via /\ UNCHANGED <<state, net>>
PollsDial(x, i) ==
    /\ ~IsEstablished(x) /\ x \in via
    /\ state' = [state EXCEPT ![x] = Handshaking([init |-> i, age |-> 0])]
    /\ net' = net \cup {InitMsg(i)}
PollsRekey(x, i) ==
    /\ IsEstablished(x) /\ state[x].initiated
    /\ state' = [state EXCEPT ![x] = [Hygiene(state[x]) EXCEPT !.hs = [init |-> i, age |-> 0]]]
    /\ net' = net \cup {InitMsg(i)}
PollsQuiet(x) ==
    /\ IsEstablished(x)
    /\ state[x].initiated => state[x].session.age < RekeyAfter
    /\ state' = [state EXCEPT ![x] = Hygiene(state[x])]
    /\ net' = net

LEMMA CalmPoll ==
    ASSUME IInv, Exchange, Mode, NEW x \in Nodes, Poll(x)
    PROVE  /\ x \in due /\ state[x].hs = None
           /\ due' = due \ {x}
           /\ UNCHANGED <<answered, dialers, via, work, faults, completed, dark>>
           /\ \/ PollsIdle(x) \/ PollsQuiet(x)
              \/ \E i \in FreshInits(x) : PollsDial(x, i) \/ PollsRekey(x, i)
<1>1. Polled(x)
  BY DEF Poll, PollIdle, PollHandshaking, PollExpired, PollEstablished
<1>2. x \in due /\ state[x].hs = None
  BY <1>1 DEF Polled, Exchange, Waits
<1>3. StateOK(state[x]) /\ TypeOK
  BY TypeOKState DEF IInv
<1>4. ~PollHandshaking(x)
  BY <1>2, NodeFacts DEF PollHandshaking
<1>5. ~PollExpired(x)
  <2> SUFFICES ASSUME IsEstablished(x) PROVE ~expired(state[x].session)
    BY DEF PollExpired
  <2>1. state[x].session.age < RejectAfter /\ state[x].session.age \in Nat
    BY Young, NodeFacts
  <2> QED BY <2>1, TimesAssumption DEF expired
<1>6. CASE PollIdle(x)
  <2>1. ~IsEstablished(x) /\ state[x].tag = "Idle"
    BY <1>6 DEF PollIdle, IsEstablished
  <2>2. state[x] = Idle
    <3>1. state[x] \in State /\ state[x].session = None /\ state[x].pending = None
            /\ state[x].previous = None /\ state[x].initiated = FALSE
      BY <1>3, <2>1, NodeFacts DEF Exchange, Waits, StateOK
    <3> QED BY <1>2, <2>1, <3>1 DEF State, Idle
  <2>3. [state EXCEPT ![x] = Idle] = state
    BY <1>3, <2>2 DEF TypeOK
  <2>4. DialOrIdle(x)
    BY <1>6 DEF PollIdle
  <2>5. PollsIdle(x) \/ \E i \in FreshInits(x) : PollsDial(x, i)
    BY <2>1, <2>3, <2>4 DEF DialOrIdle, PollsIdle, PollsDial
  <2> QED BY <1>1, <1>2, <2>5 DEF Polled
<1>7. CASE PollEstablished(x)
  <2> DEFINE s == Hygiene(state[x])
  <2>1. s.hs = None /\ s.initiated = state[x].initiated /\ s.session = state[x].session
    BY <1>2, <1>3, HygieneFacts
  <2>2. IsEstablished(x)
    BY <1>7 DEF PollEstablished
  <2>3. \/ /\ s.initiated /\ needs_rekey(s.session)
           /\ \E i \in FreshInits(x) :
               /\ state' = [state EXCEPT ![x] = [s EXCEPT !.hs = [init |-> i, age |-> 0]]]
               /\ net' = net \cup {InitMsg(i)}
        \/ /\ ~(s.initiated /\ needs_rekey(s.session))
           /\ state' = [state EXCEPT ![x] = s] /\ net' = net
    BY <1>7, <2>1 DEF PollEstablished
  <2>4. state[x].session.age \in Nat
    BY <2>2, NodeFacts
  <2> HIDE DEF s
  <2>5. CASE ~(s.initiated /\ needs_rekey(s.session)) /\ state' = [state EXCEPT ![x] = s] /\ net' = net
    <3>1. state[x].initiated => state[x].session.age < RekeyAfter
      BY <2>1, <2>4, <2>5, TimesAssumption DEF needs_rekey
    <3>2. PollsQuiet(x)
      BY <2>2, <2>5, <3>1 DEF PollsQuiet, s
    <3> QED BY <1>1, <1>2, <3>2 DEF Polled
  <2>6. CASE /\ s.initiated
             /\ \E i \in FreshInits(x) :
               /\ state' = [state EXCEPT ![x] = [s EXCEPT !.hs = [init |-> i, age |-> 0]]]
               /\ net' = net \cup {InitMsg(i)}
    <3>1. \E i \in FreshInits(x) : PollsRekey(x, i)
      BY <2>1, <2>2, <2>6 DEF PollsRekey, s
    <3> QED BY <1>1, <1>2, <3>1 DEF Polled
  <2> QED BY <2>3, <2>5, <2>6
<1> QED BY <1>4, <1>5, <1>6, <1>7 DEF Poll

-----------------------------------------------------------------------------
(* Exchange, step by step. *)

\* Steps that move no handshake on.
LEMMA ExchangeSame ==
    ASSUME IInv, Exchange, UNCHANGED <<answered, completed>>,
           due' \subseteq due, via \subseteq via',
           \A m \in net' : m \in net \/ m.type = "data",
           \A m \in net : m \in net' \/ m.type = "data",
           \A n \in Nodes, w \in Workers :
              /\ Adopts(n, w)' <=> Adopts(n, w)
              /\ Adopts(n, w) => work'[n][w] = work[n][w],
           \A n \in Nodes :
              /\ state'[n].hs = state[n].hs
              /\ IsEstablished(n)' <=> IsEstablished(n)
              /\ ~IsEstablished(n) => state'[n] = state[n]
    PROVE  Exchange'
<1>1. ASSUME NEW m \in net', m.type = "init" PROVE InitOnWire(m)'
  <2>1. m \in net /\ InitOnWire(m)
    BY <1>1 DEF Exchange
  <2>2. m.init.from \in Nodes /\ Peer(m.init.from) \in Nodes
    BY <1>1, <2>1, MessageFacts, TwoNodes
  <2> QED BY <2>1, <2>2 DEF InitOnWire, AnswerTo, Answered
<1>2. ASSUME NEW n \in Nodes, NEW w \in Workers, Adopts(n, w)' PROVE InThread(n, w)'
  <2>1. Adopts(n, w) /\ InThread(n, w) /\ work'[n][w] = work[n][w] /\ Peer(n) \in Nodes
    BY <1>2, TwoNodes DEF Exchange
  <2> QED BY <2>1 DEF InThread, AnswerTo
<1>3. ASSUME NEW m \in net', m.type = "response" PROVE AnswerOnWire(m)'
  <2>1. m \in net /\ AnswerOnWire(m) /\ Initiator(m.key) \in Nodes
    BY <1>3, MessageFacts DEF Exchange
  <2> QED BY <2>1 DEF AnswerOnWire, AnswerTo
<1>4. ASSUME NEW x \in Nodes PROVE Waits(x)'
  <2>1. Waits(x) /\ Peer(x) \in Nodes
    BY TwoNodes DEF Exchange
  <2>2. (\E m \in net : m.type = "init" /\ m.init.from = x) =>
           \E m \in net' : m.type = "init" /\ m.init.from = x
    OBVIOUS
  <2>3. (\E m \in net : AnswerTo(m, x)) => \E m \in net' : AnswerTo(m, x)
    BY DEF AnswerTo
  <2> QED BY <2>1, <2>2, <2>3 DEF Waits, IsEstablished
<1> QED BY <1>1, <1>2, <1>3, <1>4 DEF Exchange

\* A node with no handshake under way starts one.
LEMMA ExchangeDial ==
    ASSUME IInv, Exchange, NEW x \in Nodes, NEW i \in FreshInits(x),
           UNCHANGED <<answered, via, work, completed>>, due' = due \ {x},
           x \in via, state[x].hs = None, state'[x].hs = [init |-> i, age |-> 0],
           net' = net \cup {InitMsg(i)},
           IsEstablished(x)' <=> IsEstablished(x),
           ~IsEstablished(x) => state'[x].pending = None /\ state'[x].previous = None
                                  /\ ~state'[x].initiated,
           state'[Peer(x)] = state[Peer(x)]
    PROVE  Exchange'
<1>1. i \in Inits /\ i.from = x /\ \A n \in Nodes : ~Answered(n, i)
  BY FreshInitUnused
<1>2. /\ InitMsg(i).type = "init" /\ InitMsg(i).init = i
      /\ state'[x].hs # None /\ state'[x].hs.init = i
  BY <1>1, NewHandshakeType, NoneAssumption DEF InitMsg
<1>3. \A n \in Nodes, w \in Workers : Adopts(n, w)' <=> Adopts(n, w)
  BY DEF Adopts
<1>4. \A y \in Nodes : y = x \/ y = Peer(x)
  BY TwoNodes
<1>5. Peer(x) \in Nodes /\ Peer(x) # x /\ Peer(Peer(x)) = x
  BY TwoNodes
<1>6. \A m \in net : (m.type = "init" => m.init.from # x) /\ ~AnswerTo(m, x)
  <2> TAKE m \in net
  <2>1. m.type = "init" => m.init.from # x
    BY DEF Exchange, InitOnWire
  <2>2. ~AnswerTo(m, x)
    BY DEF Exchange, AnswerOnWire, AnswerTo
  <2> QED BY <2>1, <2>2
<1>7. \A w \in Workers : ~Adopts(Peer(x), w)
  BY <1>5 DEF Exchange, InThread
<1>8. \A m \in net' : m.type = "response" => m \in net
  BY <1>2
<1>9. ASSUME NEW m \in net', m.type = "init" PROVE InitOnWire(m)'
  <2>1. CASE m = InitMsg(i)
    BY <1>1, <1>2, <1>3, <1>5, <1>6, <1>7, <2>1 DEF InitOnWire, AnswerTo, Answered
  <2>2. CASE m \in net
    <3>1. InitOnWire(m) /\ m.init.from = Peer(x)
      BY <1>4, <1>6, <1>9, <2>2, MessageFacts DEF Exchange
    <3> QED BY <1>2, <1>3, <1>5, <3>1 DEF InitOnWire, AnswerTo, Answered
  <2> QED BY <2>1, <2>2
<1>10. ASSUME NEW n \in Nodes, NEW w \in Workers, Adopts(n, w)' PROVE InThread(n, w)'
  <2>1. Adopts(n, w) /\ InThread(n, w) /\ n = x
    BY <1>3, <1>4, <1>7, <1>10 DEF Exchange
  <2> QED BY <1>2, <1>3, <1>5, <2>1 DEF InThread, AnswerTo
<1>11. ASSUME NEW m \in net', m.type = "response" PROVE AnswerOnWire(m)'
  <2>1. m \in net /\ AnswerOnWire(m) /\ Initiator(m.key) = Peer(x)
    BY <1>4, <1>6, <1>8, <1>11, MessageFacts DEF Exchange, AnswerTo
  <2> QED BY <1>2, <2>1 DEF AnswerOnWire, AnswerTo
<1>12. Waits(x)'
  BY <1>1, <1>2 DEF Waits
<1>13. Waits(Peer(x))'
  <2>1. Waits(Peer(x)) /\ \A m \in net : m \in net'
    BY <1>5 DEF Exchange
  <2> QED BY <1>3, <1>5, <2>1 DEF Waits, IsEstablished, AnswerTo
<1> QED BY <1>4, <1>9, <1>10, <1>11, <1>12, <1>13 DEF Exchange

\* The HandshakeInit m of n's peer is in one thread of n from now on.
LEMMA ExchangeRespond ==
    ASSUME IInv, Exchange, NEW n \in Nodes, NEW w \in Workers, NEW m \in net, NEW k,
           m.type = "init", m.init.from = Peer(n), k \in FreshKeys(m.init),
           work[n][w] = None, net' = net \ {m},
           work' = [work EXCEPT ![n][w] = [step |-> "adopt", slot |-> NewSlot(k)]],
           UNCHANGED <<state, answered, via, due, completed>>
    PROVE  Exchange'
<1> DEFINE x == Peer(n)
<1>1. x \in Nodes /\ x # n /\ Peer(x) = n /\ \A y \in Nodes : y = x \/ y = n
  BY TwoNodes
<1>2. /\ m.init \in Inits /\ m = InitMsg(m.init) /\ InitOnWire(m)
      /\ k \in Keys /\ k.init = m.init /\ k \notin completed /\ NewSlot(k).key = k
  BY MessageFacts, FreshKeyNew, NewSlotType DEF Exchange
<1>3. /\ state[x].hs # None /\ state[x].hs.init = m.init
      /\ \A v \in Workers : ~Adopts(n, v)
      /\ \A r \in net : ~AnswerTo(r, x)
  BY <1>1, <1>2 DEF InitOnWire
<1> HIDE DEF x
<1>4. \A r \in net' : r.type = "init" => r.init.from # x
  <2> SUFFICES ASSUME NEW r \in net, r.type = "init", r.init.from = x PROVE r = m
    OBVIOUS
  <2>1. r.init = state[x].hs.init /\ r = InitMsg(r.init)
    BY MessageFacts DEF Exchange, InitOnWire
  <2> QED BY <1>2, <1>3, <2>1
<1>5. \A y \in Nodes, v \in Workers :
        work'[y][v] = IF y = n /\ v = w THEN [step |-> "adopt", slot |-> NewSlot(k)] ELSE work[y][v]
  BY DEF IInv, TypeOK
<1>t. [step |-> "adopt", slot |-> NewSlot(k)] # None
  BY <1>2, NewSlotType, NoneAssumption DEF Task
<1>6. /\ \A v \in Workers : Adopts(n, v)' <=> v = w
      /\ \A v \in Workers : Adopts(x, v)' <=> Adopts(x, v)
      /\ \A v \in Workers : work'[x][v] = work[x][v]
      /\ work'[n][w].slot = NewSlot(k)
  BY <1>1, <1>3, <1>5, <1>t DEF Adopts
<1>7. ASSUME NEW r \in net', r.type = "init" PROVE InitOnWire(r)'
  <2>1. r \in net /\ InitOnWire(r) /\ r.init.from = n
    BY <1>1, <1>4, <1>7, MessageFacts DEF Exchange
  <2> QED BY <1>1, <1>6, <2>1 DEF InitOnWire, AnswerTo, Answered, x
<1>8. ASSUME NEW y \in Nodes, NEW v \in Workers, Adopts(y, v)' PROVE InThread(y, v)'
  <2>1. CASE y = n
    BY <1>1, <1>2, <1>3, <1>6, <1>8, <2>1 DEF InThread, AnswerTo, x
  <2>2. CASE y = x
    <3>1. Adopts(x, v) /\ InThread(x, v)
      BY <1>1, <1>6, <1>8, <2>2 DEF Exchange
    <3> QED BY <1>1, <1>6, <2>2, <3>1 DEF InThread, AnswerTo
  <2> QED BY <1>1, <2>1, <2>2
<1>9. ASSUME NEW r \in net', r.type = "response" PROVE AnswerOnWire(r)'
  <2>1. r \in net /\ AnswerOnWire(r)
    BY <1>9 DEF Exchange
  <2> QED BY <2>1 DEF AnswerOnWire, AnswerTo
<1>10. Waits(x)'
  <2>1. Waits(x)
    BY <1>1 DEF Exchange
  <2> QED BY <1>1, <1>6, <2>1 DEF Waits, IsEstablished
<1>11. Waits(n)'
  <2>1. Waits(n)
    BY DEF Exchange
  <2>2. \A r \in net : (r.type = "init" /\ r.init.from = n) \/ AnswerTo(r, n) => r \in net'
    BY <1>1 DEF AnswerTo, x
  <2> QED BY <1>1, <1>6, <2>1, <2>2 DEF Waits, IsEstablished, AnswerTo, x
<1> QED BY <1>1, <1>7, <1>8, <1>9, <1>10, <1>11 DEF Exchange

\* adopt_responder sends the answer.
LEMMA ExchangeAdopt ==
    ASSUME IInv, Exchange, NEW n \in Nodes, NEW w \in Workers, Adopt(n, w)
    PROVE  Exchange'
<1> DEFINE x == Peer(n)
           k == work[n][w].slot.key
<1>1. x \in Nodes /\ x # n /\ Peer(x) = n /\ \A y \in Nodes : y = x \/ y = n
  BY TwoNodes
<1>2. /\ Adopts(n, w) /\ InThread(n, w) /\ k \in Keys /\ Initiator(k) = x
      /\ work' = [work EXCEPT ![n][w] = None]
      /\ state' = [state EXCEPT ![n] = adopt_responder(state[n], work[n][w].slot)]
      /\ answered' = [answered EXCEPT ![n] = k] /\ via' = via \cup {n}
      /\ net' = net \cup {ResponseMsg(k)}
      /\ UNCHANGED <<due, completed>>
  BY ThreadFacts DEF Adopt, Adopts, Exchange
<1>3. /\ state[x].hs # None /\ state[x].hs.init = k.init /\ k \notin completed
      /\ \A v \in Workers : Adopts(n, v) => v = w
      /\ \A r \in net : ~AnswerTo(r, x)
  BY <1>2 DEF InThread
<1>4. \A r \in net : r.type = "init" => r.init.from = n
  BY <1>1, <1>2, MessageFacts DEF Exchange, InitOnWire
<1>5. /\ state'[x] = state[x] /\ answered'[x] = answered[x]
      /\ state'[n].hs = state[n].hs /\ state'[n].tag = "Established"
  <2>1. StateOK(state[n])
    BY IInvNode
  <2>2. adopt_responder(state[n], work[n][w].slot).hs = state[n].hs
        /\ adopt_responder(state[n], work[n][w].slot).tag = "Established"
    BY <2>1 DEF adopt_responder, StateOK, State
  <2> QED BY <1>1, <1>2, <2>2 DEF IInv, TypeOK
<1>6. /\ \A v \in Workers : ~Adopts(n, v)'
      /\ \A v \in Workers : Adopts(x, v)' <=> Adopts(x, v)
      /\ \A v \in Workers : work'[x][v] = work[x][v]
  BY <1>1, <1>2, <1>3 DEF IInv, TypeOK, Adopts
<1>7. /\ ResponseMsg(k).type = "response" /\ ResponseMsg(k).key = k
      /\ \A r \in net' : r \in net \/ r = ResponseMsg(k)
  BY <1>2 DEF ResponseMsg
<1> HIDE DEF x, k
<1>8. ASSUME NEW r \in net', r.type = "init" PROVE InitOnWire(r)'
  <2>1. r \in net /\ InitOnWire(r) /\ r.init.from = n
    BY <1>4, <1>7, <1>8 DEF Exchange
  <2>2. \A q \in net' : ~AnswerTo(q, n)
    BY <1>1, <1>2, <1>7, <2>1 DEF InitOnWire, AnswerTo
  <2> QED BY <1>1, <1>5, <1>6, <2>1, <2>2 DEF InitOnWire, AnswerTo, Answered, x
<1>9. ASSUME NEW y \in Nodes, NEW v \in Workers, Adopts(y, v)' PROVE InThread(y, v)'
  <2>1. y = x /\ Adopts(x, v) /\ InThread(x, v)
    BY <1>1, <1>6, <1>9 DEF Exchange
  <2>2. \A q \in net' : ~AnswerTo(q, n)
    BY <1>1, <1>2, <1>7, <2>1 DEF InThread, AnswerTo
  <2> QED BY <1>1, <1>2, <1>5, <1>6, <2>1, <2>2 DEF InThread, AnswerTo
<1>10. ASSUME NEW r \in net', r.type = "response" PROVE AnswerOnWire(r)'
  <2>1. CASE r = ResponseMsg(k)
    BY <1>2, <1>3, <1>5, <1>7, <2>1 DEF AnswerOnWire, AnswerTo
  <2>2. CASE r \in net
    <3>1. AnswerOnWire(r) /\ Initiator(r.key) = n
      BY <1>1, <1>3, <1>10, <2>2, MessageFacts DEF Exchange, AnswerTo
    <3> QED BY <1>1, <1>2, <1>5, <1>7, <3>1 DEF AnswerOnWire, AnswerTo
  <2> QED BY <1>7, <2>1, <2>2
<1>11. Waits(x)'
  <2>1. Waits(x) /\ ResponseMsg(k) \in net' /\ AnswerTo(ResponseMsg(k), x)
    BY <1>1, <1>2, <1>7 DEF Exchange, AnswerTo
  <2> QED BY <1>1, <1>2, <1>5, <2>1 DEF Waits, IsEstablished, AnswerTo
<1>12. Waits(n)'
  <2>1. Waits(n) /\ \A r \in net : r \in net'
    BY <1>2 DEF Exchange
  <2> QED BY <1>1, <1>2, <1>5, <1>6, <2>1 DEF Waits, IsEstablished, AnswerTo, x
<1> QED BY <1>1, <1>8, <1>9, <1>10, <1>11, <1>12 DEF Exchange

\* The answer to n's handshake arrives: the handshake is over.
LEMMA ExchangeResponse ==
    ASSUME IInv, Exchange, NEW n \in Nodes, NEW m \in net, AnswerTo(m, n),
           state'[n].hs = None, IsEstablished(n)', n \in via,
           state'[Peer(n)] = state[Peer(n)],
           net' = net \ {m}, completed' \subseteq completed \cup {m.key},
           UNCHANGED <<answered, via, work, due>>
    PROVE  Exchange'
<1> DEFINE x == Peer(n)
<1>1. x \in Nodes /\ x # n /\ Peer(x) = n /\ \A y \in Nodes : y = x \/ y = n
  BY TwoNodes
<1>2. \A r \in net' : ~AnswerTo(r, n)
  BY DEF Exchange, AnswerOnWire, AnswerTo
<1>3. \A r \in net : r.type = "init" => r.init.from = x
  BY <1>1, MessageFacts DEF Exchange, InitOnWire
<1>4. \A v \in Workers : ~Adopts(x, v)
  BY <1>1 DEF Exchange, InThread
<1>5. \A y \in Nodes, v \in Workers : Adopts(y, v)' <=> Adopts(y, v)
  BY DEF Adopts
<1> HIDE DEF x
<1>6. ASSUME NEW r \in net', r.type = "init" PROVE InitOnWire(r)'
  <2>1. r \in net /\ InitOnWire(r) /\ r.init.from = x
    BY <1>3, <1>6 DEF Exchange
  <2> QED BY <1>1, <1>5, <2>1 DEF InitOnWire, AnswerTo, Answered, x
<1>7. ASSUME NEW y \in Nodes, NEW v \in Workers, Adopts(y, v)' PROVE InThread(y, v)'
  <2>1. y = n /\ Adopts(n, v) /\ InThread(n, v)
    BY <1>1, <1>4, <1>5, <1>7 DEF Exchange
  <2>2. Initiator(work[n][v].slot.key) = x
    BY <2>1, ThreadFacts DEF Adopts, x
  <2>3. work[n][v].slot.key \notin completed'
    BY <1>1, <2>1, <2>2 DEF InThread, AnswerTo
  <2> QED BY <1>1, <1>5, <2>1, <2>3 DEF InThread, AnswerTo, x
<1>8. ASSUME NEW r \in net', r.type = "response" PROVE AnswerOnWire(r)'
  <2>1. r \in net /\ AnswerOnWire(r) /\ Initiator(r.key) = x
    BY <1>1, <1>2, <1>8, MessageFacts DEF Exchange, AnswerTo
  <2>2. r.key \notin completed'
    BY <1>1, <2>1 DEF AnswerOnWire, AnswerTo
  <2> QED BY <2>1, <2>2 DEF AnswerOnWire, AnswerTo, x
<1>9. Waits(n)'
  BY DEF Waits, Exchange
<1>10. Waits(x)'
  <2>1. Waits(x)
    BY <1>1 DEF Exchange
  <2>2. \A r \in net : (r.type = "init" /\ r.init.from = x) \/ AnswerTo(r, x) => r \in net'
    BY <1>1 DEF AnswerTo
  <2> QED BY <1>1, <1>5, <2>1, <2>2 DEF Waits, IsEstablished, AnswerTo, x
<1> QED BY <1>1, <1>6, <1>7, <1>8, <1>9, <1>10 DEF Exchange

-----------------------------------------------------------------------------
(* A tick. *)

LEMMA AgedFacts ==
    ASSUME NEW s, StateOK(s)
    PROVE  /\ Aged(s).tag = s.tag /\ Aged(s).initiated = s.initiated
           /\ s.hs = None => Aged(s).hs = None
           /\ Aged(s).session = Older(s.session, RejectAfter)
           /\ Aged(s).pending = Older(s.pending, RejectAfter)
           /\ Aged(s).previous = Older(s.previous, RejectAfter)
BY DEF StateOK, State, Aged, Older

\* Once everything has settled no handshake is under way.
LEMMA CalmQuiet ==
    ASSUME IInv, Exchange, Quiescent, NEW x \in Nodes
    PROVE  /\ state[x].hs = None /\ x \notin due /\ \A w \in Workers : work[x][w] = None
           /\ \A m \in net : m.type = "data"
<1>1. \A y \in Nodes, w \in Workers : work[y][w] = None
  BY DEF Quiescent, Tasks
<1>2. \A m \in net : m.type = "data"
  BY DEF Quiescent
<1>3. Peer(x) \in Nodes /\ Waits(x)
  BY TwoNodes DEF Exchange
<1>4. state[x].hs = None
  BY <1>1, <1>2, <1>3 DEF Waits, Adopts, AnswerTo
<1> QED BY <1>1, <1>2, <1>4 DEF Quiescent

LEMMA TickStep ==
    ASSUME IInv, Exchange, Tick, NEW x \in Nodes
    PROVE  /\ state'[x].tag = state[x].tag /\ state'[x].initiated = state[x].initiated
           /\ state'[x].hs = None
           /\ state'[x].session = Older(state[x].session, RejectAfter)
           /\ state'[x].pending = Older(state[x].pending, RejectAfter)
           /\ state'[x].previous = Older(state[x].previous, RejectAfter)
           /\ \A w \in Workers : work'[x][w] = None
           /\ net' = {} /\ x \in due' /\ UNCHANGED <<answered, dialers, via>>
           /\ completed' = completed \cap KeysHeld
           /\ dark'[x] = IF Heard(x) THEN 0 ELSE Min(dark[x] + 1, DarkCap)
<1>1. /\ state'[x] = Aged(state[x]) /\ StateOK(state[x])
      /\ net' = {} /\ x \in due' /\ UNCHANGED <<answered, dialers, via>>
      /\ completed' = completed \cap KeysHeld
      /\ dark'[x] = IF Heard(x) THEN 0 ELSE Min(dark[x] + 1, DarkCap)
  BY IInvNode DEF Tick, Advance
<1>2. state[x].hs = None /\ \A w \in Workers : work[x][w] = None
  BY CalmQuiet DEF Tick
<1>3. \A w \in Workers : work'[x][w] = None
  BY <1>2 DEF Tick, Advance
<1> QED BY <1>1, <1>2, <1>3, AgedFacts

LEMMA ExchangeTick ==
    ASSUME IInv, Exchange, Tick
    PROVE  Exchange'
<1>1. net' = {}
  BY DEF Tick
<1>2. \A x \in Nodes, w \in Workers : ~Adopts(x, w)'
  BY TickStep DEF Adopts
<1>3. ASSUME NEW x \in Nodes PROVE Waits(x)'
  <2>1. Waits(x) /\ state[x].hs = None
    BY CalmQuiet DEF Exchange, Tick
  <2>2. /\ state'[x].tag = state[x].tag /\ state'[x].initiated = state[x].initiated
        /\ state'[x].hs = None /\ via' = via
        /\ state[x].pending = None => state'[x].pending = None
        /\ state[x].previous = None => state'[x].previous = None
    BY TickStep DEF Older
  <2> QED BY <2>1, <2>2 DEF Waits, IsEstablished
<1> QED BY <1>1, <1>2, <1>3 DEF Exchange

\* In the Opening mode nobody has a session when everything has settled.
LEMMA OpeningQuiet ==
    ASSUME IInv, Exchange, Quiescent, Opening, NEW x \in Nodes
    PROVE  state[x].tag = "Idle"
<1>1. /\ \A m \in net : m.type = "data"
      /\ state[x].hs = None
  BY CalmQuiet
<1>2. ~Answering(x)
  BY <1>1 DEF Answering, ResponseMsg
<1> QED BY <1>1, <1>2, NodeFacts DEF Opening, IsEstablished

\* With the peer holding the keys as pending there is a proof to wait for.
LEMMA TurningUnproven ==
    ASSUME IInv, Exchange, NEW n \in Nodes, Turning(n)
    PROVE  ProofOutstanding /\ Heard(n)
<1> DEFINE p == Peer(n)
<1>1. p \in Nodes /\ n \in via
  BY TwoNodes DEF Exchange, Waits, Turning
<1>2. /\ state[n].session.age \in Nat /\ state[n].session # None
      /\ state[p].session # None
  BY <1>1, NodeFacts DEF Turning
<1>3. ~expired(state[n].session)
  BY <1>2, TimesAssumption DEF Turning, expired
<1>4. state[n].session \in Slots(p)
  BY <1>2 DEF Turning, Slots
<1>5. Opens(p, state[n].session.key)
  BY <1>3, <1>4 DEF Opens
<1>6. \A s \in {state[p].session, state[p].previous} \ {None} : s.key # state[n].session.key
  BY DEF Turning
<1> QED BY <1>1, <1>3, <1>5, <1>6 DEF ProofOutstanding, Heard, Turning

\* Settled ends read each other.
LEMMA SettledHeard ==
    ASSUME IInv, NEW n \in Nodes, Settled(n), NEW x \in Nodes
    PROVE  Heard(x)
<1>1. Peer(n) \in Nodes /\ Peer(Peer(n)) = n /\ (x = n \/ x = Peer(n))
  BY TwoNodes
<1>2. /\ state[n].session.age \in Nat /\ state[n].session # None
      /\ IsEstablished(x)
  BY <1>1, NodeFacts DEF Settled
<1>3. state[x].session = state[n].session /\ state[Peer(x)].session = state[n].session
  BY <1>1 DEF Settled
<1>4. ~expired(state[n].session)
  BY <1>2, TimesAssumption DEF Settled, expired
<1> QED BY <1>2, <1>3, <1>4 DEF Heard, Opens, Slots

LEMMA SettledTick ==
    ASSUME IInv, Exchange, NEW n \in Nodes, Settled(n), Tick
    PROVE  Settled(n)'
<1> DEFINE p == Peer(n)
<1>1. p \in Nodes /\ \A x \in Nodes : x = n \/ x = p
  BY TwoNodes
<1>2. state[n].session \in Slot /\ state[n].session.age \in Nat
  BY NodeFacts DEF Settled
<1>3. state[n].session.age + 1 < RejectAfter
  BY CalmQuiet DEF Settled, Tick
<1>4. state'[n].session.age < RejectAfter
  <2>1. state'[n].session.age = Min(state[n].session.age + 1, RejectAfter)
    BY <1>2, OlderAge, TickStep
  <2> QED BY <1>2, <1>3, <2>1, TimesAssumption DEF Min
<1>5. ASSUME NEW x \in Nodes, state'[x].pending # None
      PROVE  state'[x].pending.key \notin completed'
  <2>1. state[x].pending # None /\ state'[x].pending.key = state[x].pending.key
    BY <1>5, TickStep, NodeFacts, OlderType
  <2> QED BY <2>1, TickStep DEF Settled
<1>6. ASSUME state'[p].previous # None PROVE state'[p].previous.key \in completed'
  <2>1. /\ state[p].previous # None /\ state'[p].previous.key = state[p].previous.key
        /\ completed' = completed \cap KeysHeld
    BY <1>1, <1>6, TickStep, NodeFacts, OlderType
  <2>2. state[p].previous \in Slots(p)
    BY <2>1 DEF Slots
  <2>3. state[p].previous.key \in KeysHeld
    BY <1>1, <2>2 DEF KeysHeld
  <2> QED BY <2>1, <2>3 DEF Settled
<1>7. \A x \in Nodes : /\ state'[x].tag = state[x].tag /\ state'[x].initiated = state[x].initiated
                       /\ state'[x].session = Older(state[x].session, RejectAfter)
                       /\ state'[x].hs = None /\ x \in due'
                       /\ \A w \in Workers : work'[x][w] = None
  BY TickStep
<1>8. net' = {}
  BY DEF Tick
<1> QED BY <1>1, <1>4, <1>5, <1>6, <1>7, <1>8 DEF Settled, IsEstablished, Promotes

LEMMA OpeningTick ==
    ASSUME IInv, Exchange, Opening, Tick
    PROVE  Opening'
<1>1. Quiescent /\ net' = {}
  BY DEF Tick
<1>2. ASSUME NEW x \in Nodes
      PROVE  /\ state'[x].tag = "Idle" /\ ~state'[x].initiated
             /\ state'[x].pending = None /\ state'[x].previous = None
             /\ \A w \in Workers : work'[x][w] = None
             /\ x \in due' /\ completed' = {}
  BY <1>1, TickStep, OpeningQuiet DEF Opening, Older
<1>3. completed' = {}
  BY <1>2, NodesAssumption DEF Nodes
<1> QED BY <1>1, <1>2, <1>3 DEF Opening, IsEstablished, Promotes

\* With traffic both ways a tick finds the pair opening or settled.
LEMMA CalmTick ==
    ASSUME IInv, Exchange, Mode, Chatty, Tick, dialers \subseteq via
    PROVE  /\ Exchange' /\ Mode'
           /\ dialers # {} => \A x \in Nodes : dark'[x] = 0
<1>1. Quiescent /\ ~ProofOutstanding /\ Exchange'
  BY ExchangeTick DEF Tick
<1>2. CASE Opening
  <2>1. dialers = {}
    <3> SUFFICES ASSUME NEW x \in dialers PROVE FALSE
      OBVIOUS
    <3>1. x \in Nodes /\ x \in via
      BY DEF IInv, TypeOK
    <3> QED BY <1>1, <1>2, <3>1, CalmQuiet, OpeningQuiet DEF Opening
  <2> QED BY <1>1, <1>2, <2>1, OpeningTick DEF Mode
<1>3. ASSUME NEW n \in Nodes, Settled(n)
      PROVE  Mode' /\ \A x \in Nodes : dark'[x] = 0
  <2>1. \A x \in Nodes : dark'[x] = 0
    BY <1>3, TickStep, SettledHeard
  <2> QED BY <1>3, <2>1, SettledTick DEF Mode
<1>4. ASSUME NEW n \in Nodes, Turning(n) PROVE FALSE
  BY <1>1, <1>4, TurningUnproven
<1> QED BY <1>1, <1>2, <1>3, <1>4 DEF Mode

-----------------------------------------------------------------------------
(* The modes: steps that leave both sessions as they are. *)

SameAnswers == \A m : m.type = "response" => (m \in net' <=> m \in net)

LEMMA OpeningSame ==
    ASSUME IInv, Opening, UNCHANGED <<state, via, due, completed>>, SameAnswers,
           \A x \in Nodes, w \in Workers : ~Promotes(x, w)'
    PROVE  Opening'
<1>1. ASSUME NEW x \in Nodes, Answering(x) PROVE Answering(x)'
  <2>1. \A k : ResponseMsg(k) \in net => ResponseMsg(k) \in net'
    BY DEF SameAnswers, ResponseMsg
  <2> QED BY <1>1, <2>1 DEF Answering, IsEstablished
<1> QED BY <1>1 DEF Opening, IsEstablished, SameAnswers

LEMMA SettledSame ==
    ASSUME IInv, NEW n \in Nodes, Settled(n), UNCHANGED <<state, due, completed>>, SameAnswers,
           \A x \in Nodes, w \in Workers :
              Promotes(x, w)' => Promotes(x, w) /\ work'[x][w] = work[x][w]
    PROVE  Settled(n)'
<1>1. Peer(n) \in Nodes
  BY TwoNodes
<1> QED BY <1>1 DEF Settled, IsEstablished, SameAnswers

LEMMA TurningSame ==
    ASSUME IInv, NEW n \in Nodes, Turning(n), UNCHANGED <<state, due, completed>>,
           \A x \in Nodes, w \in Workers :
              Promotes(x, w)' =>
                \/ Promotes(x, w) /\ work'[x][w] = work[x][w]
                \/ x = Peer(n) /\ work'[x][w].slot = state[n].session
    PROVE  Turning(n)'
<1>1. Peer(n) \in Nodes /\ Peer(n) # n
  BY TwoNodes
<1> QED BY <1>1 DEF Turning, IsEstablished

LEMMA ModeSame ==
    ASSUME IInv, Mode, UNCHANGED <<state, via, due, completed>>, SameAnswers,
           \A x \in Nodes, w \in Workers :
              Promotes(x, w)' => Promotes(x, w) /\ work'[x][w] = work[x][w]
    PROVE  Mode'
<1>1. CASE Opening
  BY <1>1, OpeningSame DEF Mode, Opening
<1>2. ASSUME NEW n \in Nodes, Settled(n) PROVE Mode'
  BY <1>2, SettledSame DEF Mode
<1>3. ASSUME NEW n \in Nodes, Turning(n) PROVE Mode'
  BY <1>3, TurningSame DEF Mode
<1> QED BY <1>1, <1>2, <1>3 DEF Mode

LEMMA CalmSendData ==
    ASSUME IInv, Exchange, Mode, NEW n \in Nodes, SendData(n)
    PROVE  Exchange' /\ Mode'
<1> DEFINE d == DataMsg(n, state[n].session.key)
<1>1. /\ net' = net \cup {d} /\ d.type = "data"
      /\ UNCHANGED <<state, answered, via, work, due, completed>>
  BY DEF SendData, DataMsg
<1> HIDE DEF d
<1>2. Exchange'
  BY <1>1, ExchangeSame DEF Adopts, IsEstablished
<1>3. SameAnswers
  BY <1>1 DEF SameAnswers
<1> QED BY <1>1, <1>2, <1>3, ModeSame DEF Promotes

\* The HandshakeInit of a handshake under way is answered for the first time.
LEMMA CalmRespond ==
    ASSUME IInv, Exchange, Mode, NEW n \in Nodes, NEW w \in Workers, NEW m \in net,
           Respond(n, w, m), faults = 0, faults' = 0
    PROVE  Exchange' /\ Mode'
<1>1. /\ m.type = "init" /\ m.init.from = Peer(n) /\ work[n][w] = None
      /\ UNCHANGED <<state, answered, via, due, completed>>
      /\ net' = net \ {m}
  BY DEF Respond, Take, Fault
<1>2. PICK k \in FreshKeys(m.init) :
        work' = [work EXCEPT ![n][w] = [step |-> "adopt", slot |-> NewSlot(k)]]
  BY DEF Respond
<1>3. Exchange'
  BY <1>1, <1>2, ExchangeRespond
<1>4. SameAnswers
  BY <1>1 DEF SameAnswers
<1>5. ASSUME NEW x \in Nodes, NEW v \in Workers, Promotes(x, v)'
      PROVE  Promotes(x, v) /\ work'[x][v] = work[x][v]
  <2>1. work'[x][v] = IF x = n /\ v = w THEN [step |-> "adopt", slot |-> NewSlot(k)]
                      ELSE work[x][v]
    BY <1>2 DEF IInv, TypeOK
  <2> QED BY <1>5, <2>1 DEF Promotes
<1> QED BY <1>1, <1>3, <1>4, <1>5, ModeSame

\* No HandshakeInit comes twice.
LEMMA CalmRepeat ==
    ASSUME IInv, Exchange, NEW n \in Nodes, NEW w \in Workers, NEW m \in net,
           RepeatResponse(n, w, m)
    PROVE  FALSE
<1>1. m.type = "init" /\ m.init.from = Peer(n) /\ Answered(n, m.init)
  BY DEF RepeatResponse
<1>2. InitOnWire(m) /\ Peer(Peer(n)) = n
  BY <1>1, TwoNodes DEF Exchange
<1> QED BY <1>1, <1>2 DEF InitOnWire

\* Data proves pending keys only while the peer is turning to them.
LEMMA CalmOpenData ==
    ASSUME IInv, Exchange, Mode, NEW n \in Nodes, NEW w \in Workers, NEW m \in net,
           OpenData(n, w, m)
    PROVE  Exchange' /\ Mode'
<1> DEFINE proves == /\ state[n].pending # None /\ state[n].pending.key = m.key
                     /\ work' = [work EXCEPT ![n][w] =
                                   [step |-> "promote", slot |-> state[n].pending]]
<1>1. /\ m.type = "data" /\ m.to = n /\ work[n][w] = None /\ net' = net \ {m}
      /\ UNCHANGED <<state, answered, via, due, completed>>
      /\ work' = work \/ proves
  BY DEF OpenData
<1>2. SameAnswers
  BY <1>1 DEF SameAnswers
<1>3. CASE work' = work
  <2>1. Exchange'
    BY <1>1, <1>3, ExchangeSame DEF Adopts, IsEstablished
  <2> QED BY <1>1, <1>2, <1>3, <2>1, ModeSame DEF Promotes
<1>4. CASE proves
  <2>1. \A x \in Nodes, v \in Workers :
          work'[x][v] = IF x = n /\ v = w THEN [step |-> "promote", slot |-> state[n].pending]
                        ELSE work[x][v]
    BY <1>4 DEF IInv, TypeOK
  <2>2. \A x \in Nodes, v \in Workers :
          /\ Adopts(x, v)' <=> Adopts(x, v)
          /\ Adopts(x, v) => work'[x][v] = work[x][v]
    BY <1>1, <2>1 DEF Adopts
  <2>3. Exchange'
    BY <1>1, <2>2, ExchangeSame DEF IsEstablished
  <2>4. state[n].pending.key \in completed
    <3>1. Initiator(m.key) = Peer(m.to)
      BY <1>1, <1>4, NodeFacts
    <3> QED BY <1>1, <1>4, <3>1 DEF IInv, Proven
  <2>5. ~Opening
    BY <1>4 DEF Opening
  <2>6. \A y \in Nodes : ~Settled(y)
    BY <1>4, <2>4 DEF Settled
  <2>7. PICK y \in Nodes : Turning(y)
    BY <2>5, <2>6 DEF Mode
  <2>8. n = Peer(y) /\ state[n].pending = state[y].session
    BY <1>4, <2>4, <2>7, TwoNodes DEF Turning
  <2>9. ASSUME NEW x \in Nodes, NEW v \in Workers, Promotes(x, v)'
        PROVE  \/ Promotes(x, v) /\ work'[x][v] = work[x][v]
               \/ x = Peer(y) /\ work'[x][v].slot = state[y].session
    BY <2>1, <2>8, <2>9 DEF Promotes
  <2>10. Turning(y)'
    BY <1>1, <2>7, <2>9, TurningSame
  <2> QED BY <2>3, <2>10 DEF Mode
<1> QED BY <1>1, <1>3, <1>4

-----------------------------------------------------------------------------
(* The modes: Engine::poll. *)

LEMMA ChangedState ==
    ASSUME IInv, NEW x \in Nodes, NEW t, state' = [state EXCEPT ![x] = t]
    PROVE  state'[x] = t /\ state'[Peer(x)] = state[Peer(x)]
BY TwoNodes DEF IInv, TypeOK

\* Both ends are established outside the Opening mode.
LEMMA OpeningUnless ==
    ASSUME Mode, NEW x \in Nodes, ~IsEstablished(x)
    PROVE  Opening
BY TwoNodes DEF Mode, Settled, Turning

\* While no handshake is under way there is no answer on the wire.
LEMMA NoAnswers ==
    ASSUME IInv, Exchange, NEW x \in Nodes, state[x].hs = None, state[Peer(x)].hs = None,
           NEW m \in net
    PROVE  m.type # "response"
<1> SUFFICES ASSUME m.type = "response" PROVE FALSE
  OBVIOUS
<1>1. AnswerOnWire(m) /\ (Initiator(m.key) = x \/ Initiator(m.key) = Peer(x))
  BY MessageFacts, TwoNodes DEF Exchange
<1> QED BY <1>1 DEF AnswerOnWire

LEMMA ModePollsIdle ==
    ASSUME IInv, Exchange, Mode, NEW x \in Nodes, PollsIdle(x), due' = due \ {x},
           UNCHANGED <<answered, via, work, completed>>
    PROVE  Exchange' /\ Mode'
<1>1. UNCHANGED <<state, net>> /\ x \notin via /\ Opening
  BY OpeningUnless DEF PollsIdle
<1>2. Exchange'
  BY <1>1, ExchangeSame DEF Adopts, IsEstablished
<1>3. \A y \in Nodes : Answering(y) => Answering(y)'
  BY <1>1 DEF Answering, IsEstablished
<1>4. Opening'
  BY <1>1, <1>3 DEF Opening, IsEstablished, Promotes
<1> QED BY <1>2, <1>4 DEF Mode

LEMMA ModePollsDial ==
    ASSUME IInv, Exchange, Mode, NEW x \in Nodes, NEW i \in FreshInits(x), PollsDial(x, i),
           x \in due, state[x].hs = None, due' = due \ {x},
           UNCHANGED <<answered, via, work, completed>>
    PROVE  Exchange' /\ Mode'
<1> DEFINE p == Peer(x)
           h == [init |-> i, age |-> 0]
<1>1. /\ p \in Nodes /\ p # x /\ Peer(p) = x /\ \A y \in Nodes : y = x \/ y = p
      /\ ~IsEstablished(x) /\ x \in via /\ Opening /\ net' = net \cup {InitMsg(i)}
  BY TwoNodes, OpeningUnless DEF PollsDial
<1>2. state'[x] = Handshaking(h) /\ state'[p] = state[p]
  BY ChangedState DEF PollsDial
<1>3. /\ state'[x].tag = "Handshaking" /\ state'[x].hs = h /\ ~state'[x].initiated
      /\ state'[x].pending = None /\ state'[x].previous = None
  BY <1>2 DEF Handshaking, Idle
<1> HIDE DEF h
<1>4. ~IsEstablished(p)
  BY <1>1 DEF Opening, Answering
<1>5. \A m \in net' : m.type # "response"
  <2>1. \A m \in net : m.type # "response"
    <3> SUFFICES ASSUME NEW m \in net, m.type = "response" PROVE FALSE
      OBVIOUS
    <3>1. /\ m.key \in Keys /\ Initiator(m.key) \in Nodes
          /\ state[Peer(Initiator(m.key))].session = NewSlot(m.key)
      BY <1>1, MessageFacts DEF Opening
    <3>2. Peer(Initiator(m.key)) \in {x, p}
      BY <1>1, <3>1
    <3> QED BY <1>1, <1>4, <3>1, <3>2, NewSlotType, NodeFacts
  <2> QED BY <1>1, <2>1 DEF InitMsg
<1>6. Exchange'
  BY <1>1, <1>2, <1>3, ExchangeDial DEF IsEstablished, h
<1>7. Opening'
  BY <1>1, <1>2, <1>3, <1>4, <1>5 DEF Opening, IsEstablished, Promotes
<1> QED BY <1>6, <1>7 DEF Mode

\* Only the end whose handshake it was renews the keys in use.
LEMMA ModePollsRekey ==
    ASSUME IInv, Exchange, Mode, NEW x \in Nodes, NEW i \in FreshInits(x), PollsRekey(x, i),
           x \in due, state[x].hs = None, due' = due \ {x},
           UNCHANGED <<answered, via, work, completed>>
    PROVE  Exchange' /\ Mode'
<1> DEFINE p == Peer(x)
           s == Hygiene(state[x])
           h == [init |-> i, age |-> 0]
<1>1. /\ p \in Nodes /\ p # x /\ Peer(p) = x /\ \A y \in Nodes : y = x \/ y = p
      /\ IsEstablished(x) /\ state[x].initiated /\ net' = net \cup {InitMsg(i)}
      /\ InitMsg(i).type = "init" /\ x \in via
  BY TwoNodes DEF PollsRekey, Exchange, Waits, InitMsg
<1>2. /\ StateOK(s) /\ s.tag = state[x].tag /\ s.session = state[x].session
      /\ s.initiated = state[x].initiated /\ s.pending \in {state[x].pending, None}
      /\ s.previous \in {state[x].previous, None}
  BY IInvNode, HygieneFacts, HygieneOK
<1>3. state'[x] = [s EXCEPT !.hs = h] /\ state'[p] = state[p]
  BY ChangedState DEF PollsRekey
<1>4. i \in Inits /\ h \in Handshake /\ h # None
  BY FreshInitType, NewHandshakeType, NoneAssumption
<1> HIDE DEF s, h
<1>5. /\ state'[x].hs = h /\ state'[x].tag = state[x].tag
      /\ state'[x].session = state[x].session /\ state'[x].initiated = state[x].initiated
      /\ state'[x].pending \in {state[x].pending, None}
      /\ state'[x].previous \in {state[x].previous, None}
  BY <1>2, <1>3 DEF StateOK, State
<1>6. Settled(x)
  <2>1. ~Opening
    BY <1>1 DEF Opening
  <2>2. \A n \in Nodes : ~Turning(n)
    BY <1>1 DEF Turning
  <2>3. ~Settled(p)
    <3> SUFFICES ASSUME Settled(p) PROVE FALSE
      OBVIOUS
    <3>1. IsEstablished(p) /\ state[p].initiated /\ state[x].session = state[p].session
      BY <1>1 DEF Settled
    <3> QED BY <1>1, <3>1, NodeFacts
  <2> QED BY <1>1, <2>1, <2>2, <2>3 DEF Mode
<1>7. state[p].hs = None /\ \A w \in Workers : ~Promotes(p, w)
  BY <1>6 DEF Settled
<1>8. \A m \in net' : m.type # "response"
  BY <1>1, <1>7, NoAnswers
<1>9. Exchange'
  BY <1>1, <1>3, <1>5, ExchangeDial DEF IsEstablished, h
<1>10. Settled(x)'
  BY <1>1, <1>3, <1>4, <1>5, <1>6, <1>7, <1>8 DEF Settled, IsEstablished, Promotes
<1> QED BY <1>9, <1>10 DEF Mode

LEMMA ModePollsQuiet ==
    ASSUME IInv, Exchange, Mode, NEW x \in Nodes, PollsQuiet(x), RekeyAfter < RejectAfter,
           x \in due, state[x].hs = None, due' = due \ {x},
           UNCHANGED <<answered, via, work, completed>>
    PROVE  Exchange' /\ Mode'
<1> DEFINE p == Peer(x)
           s == Hygiene(state[x])
<1>1. /\ p \in Nodes /\ p # x /\ Peer(p) = x /\ \A y \in Nodes : y = x \/ y = p
      /\ IsEstablished(x) /\ net' = net
  BY TwoNodes DEF PollsQuiet
<1>2. state'[x] = s /\ state'[p] = state[p]
  BY ChangedState DEF PollsQuiet
<1>3. /\ state'[x].hs = None /\ state'[x].tag = state[x].tag
      /\ state'[x].session = state[x].session /\ state'[x].initiated = state[x].initiated
      /\ state'[x].pending \in {state[x].pending, None}
      /\ state'[x].previous \in {state[x].previous, None}
      /\ state[x].pending # None /\ state[x].pending.age < RejectAfter =>
           state'[x].pending = state[x].pending
  BY <1>2, IInvNode, HygieneFacts
<1> HIDE DEF s
<1>4. Exchange'
  <2>1. \A n \in Nodes :
          /\ state'[n].hs = state[n].hs
          /\ IsEstablished(n)' <=> IsEstablished(n)
          /\ ~IsEstablished(n) => state'[n] = state[n]
    BY <1>1, <1>2, <1>3 DEF IsEstablished
  <2> QED BY <1>1, <2>1, ExchangeSame DEF Adopts
<1>5. \A y \in Nodes :
        /\ state'[y].hs = state[y].hs /\ state'[y].tag = state[y].tag
        /\ state'[y].session = state[y].session /\ state'[y].initiated = state[y].initiated
        /\ state'[y].pending \in {state[y].pending, None}
        /\ state'[y].previous \in {state[y].previous, None}
        /\ state[y].pending # None /\ state[y].pending.age < RejectAfter =>
             state'[y].pending = state[y].pending
  BY <1>1, <1>2, <1>3
<1>6. CASE Opening
  <2>1. \A y \in Nodes : Answering(y) => Answering(y)'
    BY <1>1, <1>5, TwoNodes DEF Answering, IsEstablished
  <2>2. \A m \in net : m.type = "response" => Peer(Initiator(m.key)) \in Nodes
    BY MessageFacts, TwoNodes
  <2>3. Opening'
    BY <1>1, <1>5, <1>6, <2>1, <2>2 DEF Opening, IsEstablished, Promotes
  <2> QED BY <1>4, <2>3 DEF Mode
<1>7. CASE Settled(x)
  <2>1. state[x].session.age + 1 < RejectAfter
    BY <1>1, <1>7, NodeFacts, TimesAssumption DEF PollsQuiet, Settled
  <2>2. state[p].hs = None /\ \A w \in Workers : ~Promotes(p, w)
    BY <1>7 DEF Settled
  <2>3. \A m \in net' : m.type # "response"
    BY <1>1, <2>2, NoAnswers
  <2>4. Settled(x)'
    BY <1>1, <1>5, <1>7, <2>1, <2>2, <2>3 DEF Settled, IsEstablished, Promotes
  <2> QED BY <1>4, <2>4 DEF Mode
<1>8. CASE Settled(p)
  <2>1. \A m \in net' : m.type = "response" =>
           \/ state'[Peer(Initiator(m.key))].pending = NewSlot(m.key)
           \/ Initiator(m.key) = x /\ x = B
    <3> SUFFICES ASSUME NEW m \in net, m.type = "response",
                        state[Peer(Initiator(m.key))].pending = NewSlot(m.key)
                 PROVE  state'[Peer(Initiator(m.key))].pending = NewSlot(m.key)
      BY <1>1, <1>8 DEF Settled
    <3>1. m.key \in Keys /\ Peer(Initiator(m.key)) \in Nodes
      BY MessageFacts, TwoNodes
    <3>2. NewSlot(m.key) # None /\ NewSlot(m.key).age < RejectAfter
      BY <3>1, NewSlotType, TimesAssumption DEF NewSlot
    <3> QED BY <1>5, <3>1, <3>2
  <2>2. Settled(p)'
    BY <1>1, <1>2, <1>5, <1>8, <2>1 DEF Settled, IsEstablished, Promotes
  <2> QED BY <1>1, <1>4, <2>2 DEF Mode
<1>9. CASE Turning(p)
  <2>1. state'[x].pending = state[p].session
    <3>1. state[x].pending = state[p].session /\ state[p].session # None
            /\ state[p].session.age < RejectAfter
      BY <1>1, <1>9, NodeFacts, TimesAssumption DEF Turning
    <3> QED BY <1>3, <3>1
  <2>2. Turning(p)'
    BY <1>1, <1>2, <1>5, <1>9, <2>1 DEF Turning, IsEstablished, Promotes
  <2> QED BY <1>1, <1>4, <2>2 DEF Mode
<1>10. ~Turning(x)
  BY DEF Turning
<1> QED BY <1>1, <1>6, <1>7, <1>8, <1>9, <1>10 DEF Mode

LEMMA CalmPolls ==
    ASSUME IInv, Exchange, Mode, RekeyAfter < RejectAfter, NEW x \in Nodes, Poll(x)
    PROVE  Exchange' /\ Mode'
<1>1. /\ x \in due /\ state[x].hs = None /\ due' = due \ {x}
      /\ UNCHANGED <<answered, via, work, completed>>
      /\ \/ PollsIdle(x) \/ PollsQuiet(x)
         \/ \E i \in FreshInits(x) : PollsDial(x, i) \/ PollsRekey(x, i)
  BY CalmPoll
<1> QED BY <1>1, ModePollsIdle, ModePollsQuiet, ModePollsDial, ModePollsRekey

-----------------------------------------------------------------------------
(* The modes: adopt_responder. *)

\* In the Opening mode keys to adopt are a node's first.
LEMMA OpeningAdopt ==
    ASSUME IInv, Exchange, Opening, NEW n \in Nodes, NEW w \in Workers, Adopt(n, w)
    PROVE  Opening'
<1> DEFINE x == Peer(n)
           k == work[n][w].slot.key
<1>1. /\ x \in Nodes /\ x # n /\ Peer(x) = n /\ \A y \in Nodes : y = x \/ y = n
  BY TwoNodes
<1>2. /\ InThread(n, w) /\ k \in Keys /\ Initiator(k) = x
      /\ work' = [work EXCEPT ![n][w] = None]
      /\ state' = [state EXCEPT ![n] = adopt_responder(state[n], work[n][w].slot)]
      /\ via' = via \cup {n} /\ net' = net \cup {ResponseMsg(k)}
      /\ UNCHANGED <<due, completed>>
  BY ThreadFacts DEF Adopt, Adopts, Exchange
<1>3. /\ work[n][w].slot = NewSlot(k) /\ state[x].hs # None
      /\ \A r \in net : ~AnswerTo(r, x)
  BY <1>2 DEF InThread
<1>4. x \notin due
  BY <1>1, <1>3 DEF Exchange, Waits
<1>5. ~IsEstablished(n)
  <2> SUFFICES ASSUME IsEstablished(n) PROVE FALSE
    OBVIOUS
  <2>1. Answering(n) /\ Initiator(state[n].session.key) # n /\ state[n].session.key \in Keys
    BY NodeFacts DEF Opening
  <2>2. Initiator(state[n].session.key) = x
    BY <1>1, <2>1 DEF Keys, Inits, Initiator
  <2>3. ResponseMsg(state[n].session.key) \notin net
    BY <1>3, <2>2 DEF AnswerTo, ResponseMsg
  <2> QED BY <1>3, <2>1, <2>3 DEF Answering
<1> HIDE DEF k
<1>6. /\ state'[n].tag = "Established" /\ state'[n].hs = state[n].hs
      /\ state'[n].session = NewSlot(k) /\ ~state'[n].initiated
      /\ state'[n].pending = None /\ state'[n].previous = None
      /\ state'[x] = state[x]
  <2>1. state'[n] = adopt_responder(state[n], NewSlot(k)) /\ state'[x] = state[x]
    BY <1>2, <1>3, ChangedState
  <2> QED BY <1>5, <2>1 DEF adopt_responder, IsEstablished
<1>7. \A y \in Nodes, v \in Workers : ~Promotes(y, v)'
  BY <1>2 DEF IInv, TypeOK, Opening, Promotes
<1>8. \A r \in net' : r.type = "response" =>
         state'[Peer(Initiator(r.key))].session = NewSlot(r.key)
  <2> SUFFICES ASSUME NEW r \in net', r.type = "response"
               PROVE  state'[Peer(Initiator(r.key))].session = NewSlot(r.key)
    OBVIOUS
  <2>1. CASE r = ResponseMsg(k)
    BY <1>1, <1>2, <1>6, <2>1 DEF ResponseMsg
  <2>2. CASE r \in net
    <3>1. Initiator(r.key) = n /\ state[x].session = NewSlot(r.key)
      BY <1>1, <1>3, <2>2, MessageFacts DEF Opening, AnswerTo
    <3> QED BY <1>6, <3>1
  <2> QED BY <1>2, <2>1, <2>2
<1>9. Answering(n)'
  <2>1. NewSlot(k).key = k
    BY DEF NewSlot
  <2> QED BY <1>2, <1>4, <1>6, <2>1 DEF Answering
<1>10. IsEstablished(x) => Answering(x)'
  <2> SUFFICES ASSUME IsEstablished(x) PROVE Answering(x)'
    OBVIOUS
  <2>1. Answering(x)
    BY <1>1 DEF Opening
  <2> QED BY <1>1, <1>2, <1>5, <1>6, <2>1 DEF Answering
<1>11. NewSlot(k).age = 0
  BY DEF NewSlot
<1> HIDE DEF x
<1> QED BY <1>1, <1>2, <1>6, <1>7, <1>8, <1>9, <1>10, <1>11 DEF Opening, IsEstablished

\* Keys adopted beside the ones in use are pending until their proof.
LEMMA SettledAdopt ==
    ASSUME IInv, Exchange, NEW o \in Nodes, Settled(o), NEW n \in Nodes, NEW w \in Workers,
           Adopt(n, w)
    PROVE  Settled(o)'
<1> DEFINE x == Peer(n)
           k == work[n][w].slot.key
<1>1. /\ x \in Nodes /\ x # n /\ Peer(x) = n /\ \A y \in Nodes : y = x \/ y = n
      /\ Peer(o) \in Nodes /\ IsEstablished(n)
  BY TwoNodes DEF Settled
<1>2. /\ InThread(n, w) /\ k \in Keys /\ Initiator(k) = x
      /\ work' = [work EXCEPT ![n][w] = None]
      /\ state' = [state EXCEPT ![n] = adopt_responder(state[n], work[n][w].slot)]
      /\ net' = net \cup {ResponseMsg(k)}
      /\ UNCHANGED <<due, completed>>
  BY ThreadFacts DEF Adopt, Adopts, Exchange
<1>3. /\ work[n][w].slot = NewSlot(k) /\ k \notin completed
      /\ \A r \in net : ~AnswerTo(r, x)
  BY <1>2 DEF InThread
<1>4. NewSlot(k).key = k
  BY DEF NewSlot
<1> HIDE DEF k
<1>5. /\ state'[n].tag = "Established" /\ state'[n].hs = state[n].hs
      /\ state'[n].session = state[n].session /\ state'[n].initiated = state[n].initiated
      /\ state'[n].pending = NewSlot(k) /\ state'[n].previous = state[n].previous
      /\ state'[x] = state[x]
  <2>1. state'[n] = adopt_responder(state[n], NewSlot(k)) /\ state'[x] = state[x]
    BY <1>2, <1>3, ChangedState
  <2>2. state[n] \in State
    BY DEF IInv, TypeOK
  <2> QED BY <1>1, <2>1, <2>2 DEF adopt_responder, IsEstablished, State
<1>6. \A y \in Nodes :
        /\ IsEstablished(y)' <=> IsEstablished(y)
        /\ state'[y].hs = state[y].hs /\ state'[y].session = state[y].session
        /\ state'[y].initiated = state[y].initiated /\ state'[y].previous = state[y].previous
        /\ state'[y].pending # None => state'[y].pending.key \notin completed
  BY <1>1, <1>3, <1>4, <1>5 DEF IsEstablished, Settled
<1>7. \A y \in Nodes, v \in Workers :
         Promotes(y, v)' => Promotes(y, v) /\ work'[y][v] = work[y][v]
  BY <1>2 DEF IInv, TypeOK, Promotes
<1>8. \A r \in net' : r.type = "response" =>
         \/ state'[Peer(Initiator(r.key))].pending = NewSlot(r.key)
         \/ Initiator(r.key) = Peer(o) /\ Peer(o) = B
  <2> SUFFICES ASSUME NEW r \in net', r.type = "response"
               PROVE  \/ state'[Peer(Initiator(r.key))].pending = NewSlot(r.key)
                      \/ Initiator(r.key) = Peer(o) /\ Peer(o) = B
    OBVIOUS
  <2>1. CASE r = ResponseMsg(k)
    BY <1>1, <1>2, <1>5, <2>1 DEF ResponseMsg
  <2>2. CASE r \in net
    <3>1. Initiator(r.key) = n
      BY <1>1, <1>3, <2>2, MessageFacts DEF AnswerTo
    <3>2. \/ state[x].pending = NewSlot(r.key)
          \/ Initiator(r.key) = Peer(o) /\ Peer(o) = B
      BY <2>2, <3>1 DEF Settled
    <3> QED BY <1>5, <3>1, <3>2
  <2> QED BY <1>2, <2>1, <2>2
<1> QED BY <1>1, <1>2, <1>6, <1>7, <1>8 DEF Settled

LEMMA CalmAdopt ==
    ASSUME IInv, Exchange, Mode, NEW n \in Nodes, NEW w \in Workers, Adopt(n, w)
    PROVE  Exchange' /\ Mode'
<1>1. state[Peer(n)].hs # None /\ Peer(n) \in Nodes
  BY TwoNodes DEF Adopt, Adopts, Exchange, InThread
<1>2. \A o \in Nodes : ~Turning(o)
  BY <1>1 DEF Turning
<1> QED BY <1>2, ExchangeAdopt, OpeningAdopt, SettledAdopt DEF Mode

-----------------------------------------------------------------------------
(* The modes: promote. *)

LEMMA CalmPromote ==
    ASSUME IInv, Exchange, Mode, NEW n \in Nodes, NEW w \in Workers, Promote(n, w)
    PROVE  Exchange' /\ Mode'
<1> DEFINE d == work[n][w].slot
           o == Peer(n)
<1>1. /\ Promotes(n, w) /\ work' = [work EXCEPT ![n][w] = None]
      /\ state' = [state EXCEPT ![n] = promote(state[n], d)]
      /\ UNCHANGED <<answered, via, net, due, completed>>
  BY DEF Promote, Promotes
<1>2. o \in Nodes /\ o # n /\ Peer(o) = n /\ \A y \in Nodes : y = n \/ y = o
  BY TwoNodes
<1>3. state'[n] = promote(state[n], d) /\ state'[o] = state[o] /\ state[n] \in State
  BY <1>1, ChangedState DEF IInv, TypeOK
<1>4. \A y \in Nodes, v \in Workers :
        /\ Promotes(y, v)' => Promotes(y, v) /\ work'[y][v] = work[y][v]
        /\ Adopts(y, v)' <=> Adopts(y, v)
        /\ Adopts(y, v) => work'[y][v] = work[y][v]
  BY <1>1 DEF IInv, TypeOK, Promotes, Adopts
<1> HIDE DEF d
<1>5. ~Opening /\ ~Settled(n) /\ ~Turning(n)
  BY <1>1 DEF Opening, Settled, Turning
<1>6. CASE Settled(o)
  <2>1. d.key = state[n].session.key
    BY <1>1, <1>2, <1>6 DEF Settled, d
  <2>2. state' = state
    BY <1>1, <1>3, <2>1 DEF promote, IInv, TypeOK
  <2>3. Exchange'
    BY <1>1, <1>4, <2>2, ExchangeSame DEF IsEstablished
  <2>4. SameAnswers
    BY <1>1 DEF SameAnswers
  <2> QED BY <1>1, <1>4, <2>2, <2>3, <2>4, ModeSame
<1>7. CASE Turning(o)
  <2>1. /\ d = state[o].session /\ IsEstablished(n) /\ state[n].hs = None /\ state[o].hs = None
        /\ state[n].session.key # d.key /\ state[n].pending = d
    BY <1>1, <1>2, <1>7 DEF Turning, d
  <2>2. /\ state'[n].tag = "Established" /\ state'[n].hs = None
        /\ state'[n].session = d /\ state'[n].previous = state[n].session
        /\ state'[n].pending = None
    BY <1>3, <2>1 DEF promote, IsEstablished, State
  <2>3. \A y \in Nodes : /\ state'[y].hs = state[y].hs
                         /\ IsEstablished(y)' <=> IsEstablished(y)
                         /\ ~IsEstablished(y) => state'[y] = state[y]
    BY <1>2, <1>3, <2>1, <2>2 DEF IsEstablished
  <2>4. Exchange'
    BY <1>1, <1>4, <2>3, ExchangeSame
  <2>5. \A m \in net' : m.type # "response"
    BY <1>1, <1>2, <2>1, NoAnswers
  <2>6. state[o].session.age \in Nat
    BY <1>2, <1>7, NodeFacts DEF Turning
  <2>7. Settled(o)'
    <3>1. IsEstablished(o)' /\ IsEstablished(n)' /\ state'[o].initiated
          /\ state'[n].session = state'[o].session
      BY <1>2, <1>3, <1>7, <2>1, <2>2, <2>3 DEF Turning
    <3>2. state'[o].session.age + 1 < RejectAfter /\ state'[o].session.age < RejectAfter
      BY <1>3, <1>7, <2>6, TimesAssumption DEF Turning
    <3>3. \A y \in Nodes : state'[y].pending # None => state'[y].pending.key \notin completed'
      BY <1>1, <1>2, <1>3, <1>7, <2>2 DEF Turning
    <3>4. state'[n].previous.key \in completed'
      BY <1>1, <1>2, <1>7, <2>2 DEF Turning
    <3>5. \A v \in Workers :
            /\ ~Promotes(o, v)'
            /\ Promotes(n, v)' => work'[n][v].slot = state'[n].session
      BY <1>2, <1>4, <1>7, <2>1, <2>2 DEF Turning
    <3>6. o \notin due' /\ state'[o].hs = None /\ state'[n].hs = None
      BY <1>1, <1>3, <1>7, <2>1, <2>2 DEF Turning
    <3> HIDE DEF o
    <3> QED BY <1>2, <2>5, <3>1, <3>2, <3>3, <3>4, <3>5, <3>6 DEF Settled
  <2> QED BY <1>2, <2>4, <2>7 DEF Mode
<1> QED BY <1>2, <1>5, <1>6, <1>7 DEF Mode

-----------------------------------------------------------------------------
(* The modes: handle_response. *)

\* The tie-break is lost: the answer is dropped with the handshake.
Discards(n) ==
    /\ IsEstablished(n) /\ ~state[n].initiated /\ n = B
    /\ state'[n].session = state[n].session /\ ~state'[n].initiated
    /\ state'[n].pending = state[n].pending /\ state'[n].previous = state[n].previous
    /\ completed' = completed
Completes(n, k) ==
    /\ IsEstablished(n) /\ ~state[n].initiated => n = A
    /\ state'[n].session = NewSlot(k) /\ state'[n].initiated
    /\ state'[n].pending = state[n].pending /\ state'[n].previous = state[n].session
    /\ completed' = completed \cup {k}

LEMMA ResponseStep ==
    ASSUME IInv, Exchange, NEW n \in Nodes, NEW w \in Workers, NEW m \in net,
           HandleResponse(n, w, m), faults = 0, faults' = 0
    PROVE  /\ AnswerTo(m, n) /\ m.key \in Keys /\ m.key \notin completed
           /\ state[n].hs # None /\ n \notin due /\ n \in via
           /\ net' = net \ {m} /\ UNCHANGED <<answered, via, work, due>>
           /\ state'[Peer(n)] = state[Peer(n)]
           /\ state'[n].hs = None /\ IsEstablished(n)'
           /\ Discards(n) \/ Completes(n, m.key)
           /\ \A r \in net' : r.type = "response" => Initiator(r.key) = Peer(n)
<1> DEFINE k == m.key
           s == handle_response(n, state[n], k)
<1>1. /\ AnswerTo(m, n) /\ k \in Keys /\ AnswerOnWire(m)
      /\ net' = net \ {m} /\ UNCHANGED <<answered, via, work, due>>
  BY MessageFacts DEF HandleResponse, AnswerTo, Exchange, Take, Fault
<1>2. /\ state[n].hs # None /\ state[n].hs.init = k.init /\ k \notin completed
      /\ \A r \in net : AnswerTo(r, n) => r = m
      /\ Initiator(k) = n
  BY <1>1 DEF AnswerOnWire, AnswerTo
<1>3. n \notin due /\ n \in via
  BY <1>2 DEF Exchange, Waits
<1>4. /\ state' = [state EXCEPT ![n] = s]
      /\ completed' = IF state'[n].session = NewSlot(k) THEN completed \cup {k} ELSE completed
  BY <1>2 DEF HandleResponse
<1>5. state'[n] = s /\ state'[Peer(n)] = state[Peer(n)] /\ state[n] \in State
  BY <1>4, ChangedState DEF IInv, TypeOK
<1>6. \A r \in net' : r.type = "response" => Initiator(r.key) = Peer(n)
  BY <1>1, <1>2, MessageFacts, TwoNodes DEF AnswerTo
<1>7. state[n].initiated \in BOOLEAN
  BY NodeFacts
<1> HIDE DEF k
<1>8. CASE IsEstablished(n) /\ ~state[n].initiated /\ n # A
  <2>1. s = [state[n] EXCEPT !.hs = None]
    BY <1>8 DEF handle_response, IsEstablished, wins_simultaneous_open_tiebreak
  <2>2. /\ s.hs = None /\ s.tag = state[n].tag /\ s.session = state[n].session
        /\ s.initiated = state[n].initiated /\ s.pending = state[n].pending
        /\ s.previous = state[n].previous
    BY <1>5, <2>1 DEF State
  <2>3. state[n].session # NewSlot(k)
    BY <1>2, <1>8, NodeFacts DEF NewSlot
  <2>4. Discards(n)
    BY <1>4, <1>5, <1>8, <2>2, <2>3 DEF Discards, Nodes
  <2> QED BY <1>1, <1>2, <1>3, <1>5, <1>6, <1>8, <2>2, <2>4 DEF IsEstablished, k
<1>9. CASE ~(IsEstablished(n) /\ ~state[n].initiated /\ n # A)
  <2>1. /\ s.hs = None /\ s.tag = "Established" /\ s.session = NewSlot(k)
        /\ s.initiated = TRUE /\ s.pending = state[n].pending
        /\ s.previous = state[n].session
    BY <1>9 DEF handle_response, IsEstablished, wins_simultaneous_open_tiebreak
  <2>2. Completes(n, k)
    BY <1>4, <1>5, <1>7, <1>9, <2>1 DEF Completes
  <2> QED BY <1>1, <1>2, <1>3, <1>5, <1>6, <2>1, <2>2 DEF IsEstablished, k
<1> QED BY <1>8, <1>9

\* The first answer to arrive opens the session; of two, A's does.
LEMMA OpeningResponse ==
    ASSUME IInv, Exchange, Opening, NEW n \in Nodes, NEW w \in Workers, NEW m \in net,
           HandleResponse(n, w, m), faults = 0, faults' = 0
    PROVE  Mode'
<1> DEFINE p == Peer(n)
           k == m.key
<1>1. p \in Nodes /\ p # n /\ Peer(p) = n /\ \A y \in Nodes : y = n \/ y = p
  BY TwoNodes
<1>2. /\ AnswerTo(m, n) /\ k \in Keys /\ k \notin completed
      /\ state[n].hs # None /\ n \notin due
      /\ net' = net \ {m} /\ UNCHANGED <<via, work, due>>
      /\ state'[p] = state[p] /\ state'[n].hs = None /\ IsEstablished(n)'
      /\ Discards(n) \/ Completes(n, k)
      /\ \A r \in net' : r.type = "response" => Initiator(r.key) = p
  BY ResponseStep
<1>3. /\ state[p].session = NewSlot(k) /\ NewSlot(k) # None
      /\ NewSlot(k).key = k /\ NewSlot(k).age = 0
  <2>1. Initiator(k) = n /\ m.type = "response"
    BY <1>2 DEF AnswerTo
  <2> QED BY <1>2, <2>1, NewSlotType DEF Opening, NewSlot
<1>4. IsEstablished(p) /\ IsEstablished(p)'
  BY <1>1, <1>2, <1>3, NodeFacts DEF IsEstablished
<1>5. \A y \in Nodes, v \in Workers : ~Promotes(y, v)'
  BY <1>2 DEF Opening, Promotes
<1> HIDE DEF p, k
<1>6. CASE Completes(n, k)
  <2>1. /\ state'[n].session = NewSlot(k) /\ state'[n].initiated
        /\ state'[n].pending = None /\ state[n].previous = None
        /\ state'[p].pending = None /\ state'[p].previous = None
    BY <1>1, <1>2, <1>6 DEF Completes, Opening
  <2>2. \A r \in net' : r.type = "response" => Initiator(r.key) = p /\ p = B
    <3>1. CASE IsEstablished(n)
      BY <1>1, <1>2, <1>6, <3>1, NodesAssumption DEF Completes, Opening, Nodes
    <3>2. CASE ~IsEstablished(n)
      <4> SUFFICES ASSUME NEW r \in net', r.type = "response" PROVE FALSE
        OBVIOUS
      <4>1. r \in net /\ r.key \in Keys /\ Initiator(r.key) = p
        BY <1>2, MessageFacts
      <4>2. state[n].session = NewSlot(r.key)
        BY <1>1, <4>1 DEF Opening
      <4> QED BY <3>2, <4>1, <4>2, NewSlotType, NodeFacts
    <3> QED BY <3>1, <3>2
  <2>3. p = A => state'[n].previous = None
    BY <1>1, <1>6, NodeFacts DEF Completes, Opening
  <2>4. 0 < RejectAfter /\ 0 + 1 < RejectAfter
    BY TimesAssumption
  <2>5. Settled(n)'
    BY <1>1, <1>2, <1>3, <1>4, <1>5, <2>1, <2>2, <2>3, <2>4 DEF Settled, p
  <2> QED BY <2>5 DEF Mode
<1>7. CASE Discards(n)
  <2>1. n = B /\ p = A /\ IsEstablished(n) /\ Answering(n) /\ Answering(p)
    BY <1>1, <1>4, <1>7, NodesAssumption DEF Discards, Opening, Nodes, Peer
  <2>2. Initiator(state[n].session.key) # n
    BY <1>7, <2>1, NodeFacts DEF Discards
  <2>3. ResponseMsg(state[n].session.key) \in net'
    <3>1. ResponseMsg(state[n].session.key) \in net
      BY <1>1, <2>1 DEF Answering
    <3>2. ResponseMsg(state[n].session.key) # m
      BY <1>2, <2>2 DEF AnswerTo, ResponseMsg
    <3> QED BY <1>2, <3>1, <3>2
  <2>4. Answering(n)'
    BY <1>2, <1>7, <2>1, <2>3 DEF Answering, Discards
  <2>5. Answering(p)'
    BY <1>1, <1>2, <1>7, <2>1, <2>3 DEF Answering, Discards
  <2>6. \A r \in net' : r.type = "response" =>
           state'[Peer(Initiator(r.key))].session = NewSlot(r.key)
    BY <1>1, <1>2, <1>7 DEF Opening, Discards
  <2>7. Opening'
    BY <1>1, <1>2, <1>4, <1>5, <1>7, <2>1, <2>4, <2>5, <2>6
    DEF Opening, Discards, IsEstablished
  <2> QED BY <2>7 DEF Mode
<1> QED BY <1>2, <1>6, <1>7

\* The end that completes a handshake beside the keys in use turns to the new
\* ones, which the peer holds as pending.
LEMMA SettledResponse ==
    ASSUME IInv, Exchange, NEW o \in Nodes, Settled(o), NEW n \in Nodes, NEW w \in Workers,
           NEW m \in net, HandleResponse(n, w, m), faults = 0, faults' = 0
    PROVE  Mode'
<1> DEFINE p == Peer(n)
           k == m.key
<1>1. /\ p \in Nodes /\ p # n /\ Peer(p) = n /\ \A y \in Nodes : y = n \/ y = p
      /\ IsEstablished(n) /\ IsEstablished(p) /\ state[n].session = state[p].session
  BY TwoNodes DEF Settled
<1>2. /\ AnswerTo(m, n) /\ k \in Keys /\ k \notin completed
      /\ state[n].hs # None /\ n \notin due
      /\ net' = net \ {m} /\ UNCHANGED <<via, work, due>>
      /\ state'[p] = state[p] /\ state'[n].hs = None /\ IsEstablished(n)'
      /\ Discards(n) \/ Completes(n, k)
      /\ \A r \in net' : r.type = "response" => Initiator(r.key) = p
  BY ResponseStep
<1>3. NewSlot(k).key = k /\ NewSlot(k).age = 0 /\ Initiator(k) = n /\ IsEstablished(p)'
  BY <1>1, <1>2 DEF NewSlot, AnswerTo, IsEstablished
<1>4. state[n].session.key \in completed /\ state[n].session.age < RejectAfter
      /\ (state[n].initiated <=> o = n) /\ (state[p].initiated <=> o = p)
  BY <1>1, NodeFacts DEF Settled
<1>5. \A v \in Workers : ~Promotes(n, v)
  BY <1>1, <1>2 DEF Settled
<1>6. state[n].pending # None => state[n].pending.key # k /\ state[n].pending.key \notin completed
  BY <1>1, <1>3, NodeFacts DEF Settled
<1> HIDE DEF k
<1>7. CASE Discards(n)
  <2>1. o = p /\ state[p].hs = None
    BY <1>1, <1>2, <1>4, <1>7 DEF Discards, Settled
  <2>2. \A r \in net' : r.type # "response"
    <3> SUFFICES ASSUME NEW r \in net', r.type = "response" PROVE FALSE
      OBVIOUS
    <3>1. AnswerOnWire(r) /\ Initiator(r.key) = p
      BY <1>2 DEF Exchange
    <3> QED BY <2>1, <3>1 DEF AnswerOnWire
  <2>3. \A y \in Nodes :
          /\ state'[y].session = state[y].session /\ state'[y].pending = state[y].pending
          /\ state'[y].previous = state[y].previous
          /\ state'[y].initiated <=> state[y].initiated
    BY <1>1, <1>2, <1>7 DEF Discards
  <2>4. Settled(p)'
    BY <1>1, <1>2, <1>3, <1>5, <1>7, <2>1, <2>2, <2>3 DEF Settled, Discards, Promotes
  <2> QED BY <1>1, <2>4 DEF Mode
<1>8. CASE Completes(n, k)
  <2>1. state[p].hs = None /\ \A v \in Workers : ~Promotes(p, v)
    BY <1>1, <1>2 DEF Settled
  <2>2. state[p].pending = NewSlot(k)
    <3>1. ~(o = p /\ n = B)
      BY <1>1, <1>4, <1>8, NodesAssumption DEF Completes
    <3>2. m.type = "response" /\ Initiator(m.key) = n
      BY <1>2 DEF AnswerTo
    <3>3. \/ state[p].pending = NewSlot(m.key)
          \/ n = Peer(o) /\ Peer(o) = B
      BY <3>2 DEF Settled
    <3> QED BY <1>1, <3>1, <3>3 DEF k
  <2>3. state[p].initiated => p \notin due
    BY <1>1, <1>2, <1>4 DEF Settled
  <2>4. state[p].previous # None => state[p].previous.key # k
    BY <1>1, <1>2, <1>4, <1>8 DEF Settled, Completes
  <2>5. \A y \in Nodes, v \in Workers : ~Promotes(y, v)'
    BY <1>1, <1>2, <1>5, <2>1 DEF Promotes
  <2>6. 0 + 1 < RejectAfter
    BY TimesAssumption
  <2>7. Turning(n)'
    BY <1>1, <1>2, <1>3, <1>4, <1>6, <1>8, <2>1, <2>2, <2>3, <2>4, <2>5, <2>6
    DEF Turning, Completes
  <2> QED BY <2>7 DEF Mode
<1> QED BY <1>2, <1>7, <1>8

LEMMA CalmResponse ==
    ASSUME IInv, Exchange, Mode, NEW n \in Nodes, NEW w \in Workers, NEW m \in net,
           HandleResponse(n, w, m), faults = 0, faults' = 0
    PROVE  Exchange' /\ Mode'
<1>1. Exchange'
  <2>1. /\ AnswerTo(m, n) /\ state'[n].hs = None /\ IsEstablished(n)' /\ n \in via
        /\ state'[Peer(n)] = state[Peer(n)] /\ net' = net \ {m}
        /\ UNCHANGED <<answered, via, work, due>>
        /\ completed' \subseteq completed \cup {m.key}
    BY ResponseStep DEF Discards, Completes
  <2> QED BY <2>1, ExchangeResponse
<1>2. \A o \in Nodes : ~Turning(o)
  BY ResponseStep DEF Turning
<1> QED BY <1>1, <1>2, OpeningResponse, SettledResponse DEF Mode

-----------------------------------------------------------------------------
(* The invariant. *)

LEMMA CalmInit == Init => CalmInv
<1> SUFFICES ASSUME Init PROVE CalmInv
  OBVIOUS
<1>1. \A x \in Nodes :
        /\ state[x] = Idle /\ \A w \in Workers : work[x][w] = None
        /\ x \in due /\ dark[x] = 0
  BY DEF Init
<1>2. \A x \in Nodes :
        /\ state[x].tag = "Idle" /\ state[x].hs = None /\ ~state[x].initiated
        /\ state[x].pending = None /\ state[x].previous = None
  BY <1>1 DEF Idle
<1>3. net = {} /\ completed = {} /\ dialers \subseteq via
  BY DEF Init
<1>4. Exchange
  BY <1>1, <1>2, <1>3 DEF Exchange, Waits, Adopts, IsEstablished
<1>5. Opening
  BY <1>1, <1>2, <1>3 DEF Opening, Promotes, IsEstablished
<1> QED BY <1>1, <1>3, <1>4, <1>5 DEF CalmInv, Mode

\* A step that keeps faults at 0 is no fault.
LEMMA CalmNext ==
    ASSUME IInv, CalmInv, Chatty, RekeyAfter < RejectAfter, [Next]_vars
    PROVE  CalmInv'
<1> SUFFICES ASSUME faults' = 0
             PROVE  /\ Exchange' /\ Mode'
                    /\ dialers' \subseteq via'
                    /\ dialers' # {} => \A x \in Nodes : dark'[x] = 0
  BY DEF CalmInv
<1>1. faults \in Nat
  BY FaultsAssumption DEF IInv, TypeOK
<1>2. \A kind : ~Fault(kind)
  BY <1>1 DEF Fault
<1>3. ~LateTick /\ (\A m \in net : ~Lose(m)) /\ \A x \in Nodes : ~Restart(x)
  BY <1>2 DEF LateTick, Lose, Restart
<1>4. faults = 0
  BY <1>2, <1>3 DEF Next, vars, Poll, PollIdle, PollHandshaking, PollExpired, PollEstablished,
     Polled, SendData, Adopt, Promote, RepeatResponse, Respond, HandleResponse, OpenData,
     Take, TakeAndSend, Tick
<1>5. /\ Exchange /\ Mode /\ dialers \subseteq via
      /\ dialers # {} => \A x \in Nodes : dark[x] = 0
  BY <1>4 DEF CalmInv
<1>6. CASE Tick
  <2>1. UNCHANGED <<dialers, via>>
    BY <1>6 DEF Tick, Advance
  <2> QED BY <1>5, <1>6, <2>1, CalmTick
<1>7. CASE UNCHANGED vars
  <2>1. UNCHANGED <<state, answered, dialers, via, work, net, due, completed, dark>>
    BY <1>7 DEF vars
  <2>2. Exchange'
    BY <1>5, <2>1, ExchangeSame DEF Adopts, IsEstablished
  <2>3. Mode'
    BY <1>5, <2>1, ModeSame DEF Promotes, SameAnswers
  <2> QED BY <1>5, <2>1, <2>2, <2>3
<1>8. ASSUME Next, ~Tick
      PROVE  Exchange' /\ Mode' /\ UNCHANGED <<dialers, dark>> /\ via \subseteq via'
  <2>1. ASSUME NEW x \in Nodes, Poll(x)
        PROVE  Exchange' /\ Mode' /\ UNCHANGED <<dialers, dark>> /\ via \subseteq via'
    BY <1>5, <2>1, CalmPoll, CalmPolls
  <2>2. ASSUME NEW x \in Nodes, SendData(x)
        PROVE  Exchange' /\ Mode' /\ UNCHANGED <<dialers, dark>> /\ via \subseteq via'
    BY <1>5, <2>2, CalmSendData DEF SendData
  <2>3. ASSUME NEW x \in Nodes, NEW w \in Workers, Adopt(x, w)
        PROVE  Exchange' /\ Mode' /\ UNCHANGED <<dialers, dark>> /\ via \subseteq via'
    BY <1>5, <2>3, CalmAdopt DEF Adopt
  <2>4. ASSUME NEW x \in Nodes, NEW w \in Workers, Promote(x, w)
        PROVE  Exchange' /\ Mode' /\ UNCHANGED <<dialers, dark>> /\ via \subseteq via'
    BY <1>5, <2>4, CalmPromote DEF Promote
  <2>5. ASSUME NEW x \in Nodes, NEW w \in Workers, NEW m \in net, Respond(x, w, m)
        PROVE  Exchange' /\ Mode' /\ UNCHANGED <<dialers, dark>> /\ via \subseteq via'
    BY <1>4, <1>5, <2>5, CalmRespond DEF Respond
  <2>6. ASSUME NEW x \in Nodes, NEW w \in Workers, NEW m \in net, HandleResponse(x, w, m)
        PROVE  Exchange' /\ Mode' /\ UNCHANGED <<dialers, dark>> /\ via \subseteq via'
    BY <1>4, <1>5, <2>6, CalmResponse DEF HandleResponse
  <2>7. ASSUME NEW x \in Nodes, NEW w \in Workers, NEW m \in net, OpenData(x, w, m)
        PROVE  Exchange' /\ Mode' /\ UNCHANGED <<dialers, dark>> /\ via \subseteq via'
    BY <1>5, <2>7, CalmOpenData DEF OpenData
  <2>8. \A x \in Nodes, w \in Workers, m \in net : ~RepeatResponse(x, w, m)
    BY <1>5, CalmRepeat
  <2> QED BY <1>3, <1>8, <2>1, <2>2, <2>3, <2>4, <2>5, <2>6, <2>7, <2>8 DEF Next
<1> QED BY <1>5, <1>6, <1>7, <1>8

\* Settled ends read each other, and a node that turned is read by its peer,
\* which it still reads under the keys before.
LEMMA CalmReadable ==
    ASSUME IInv, CalmInv
    PROVE  QuiescentReadable /\ TrafficNeverStalls
<1>1. TrafficNeverStalls
  BY DEF CalmInv, TrafficNeverStalls
<1>2. ASSUME Quiescent, faults = 0, NEW x \in Nodes, IsEstablished(x) PROVE Heard(x)
  <2>1. Exchange /\ Mode
    BY <1>2 DEF CalmInv
  <2>2. ~Opening
    BY <1>2, <2>1, OpeningQuiet DEF IsEstablished
  <2>3. ASSUME NEW n \in Nodes, Settled(n) PROVE Heard(x)
    BY <2>3, SettledHeard
  <2>4. ASSUME NEW n \in Nodes, Turning(n) PROVE Heard(x)
    <3>1. CASE x = n
      BY <2>1, <2>4, <3>1, TurningUnproven
    <3>2. CASE x = Peer(n)
      <4>1. /\ Peer(x) = n /\ state[x].session.age < RejectAfter
            /\ state[n].previous = state[x].session
        BY <2>4, <3>2, TwoNodes DEF Turning
      <4>2. state[x].session # None /\ state[x].session.age \in Nat
        BY <1>2, NodeFacts
      <4>3. ~expired(state[x].session)
        BY <4>1, <4>2, TimesAssumption DEF expired
      <4> QED BY <1>2, <4>1, <4>2, <4>3 DEF Heard, Opens, Slots
    <3> QED BY <3>1, <3>2, TwoNodes
  <2> QED BY <2>1, <2>2, <2>3, <2>4 DEF Mode
<1> QED BY <1>1, <1>2 DEF QuiescentReadable

\* QuiescentReadable, with traffic both ways: while nothing goes wrong, once
\* messages, threads and timers have settled an established end's traffic is
\* opened by an established peer.  REKEY_AFTER_MS is below REJECT_AFTER_MS in
\* session.rs (120 s and 180 s): keys are renewed before they expire.
THEOREM QuietPairReadable ==
    ASSUME Chatty, RekeyAfter < RejectAfter
    PROVE  Spec => []QuiescentReadable
<1>1. Init => IInv /\ CalmInv
  BY IInvInit, CalmInit
<1>2. IInv /\ CalmInv /\ [Next]_vars => IInv' /\ CalmInv'
  BY IInvNext, CalmNext
<1>3. IInv /\ CalmInv => QuiescentReadable
  BY CalmReadable
<1> QED BY <1>1, <1>2, <1>3, PTL DEF Spec

\* TrafficNeverStalls: from the first tick on, through every rekey and whoever
\* of the two starts it, no tick finds a direction the peer cannot open, as long
\* as both ends send and nothing is lost, late, repeated or restarted.
THEOREM NeverStalls ==
    ASSUME Chatty, RekeyAfter < RejectAfter
    PROVE  Spec => []TrafficNeverStalls
<1>1. Init => IInv /\ CalmInv
  BY IInvInit, CalmInit
<1>2. IInv /\ CalmInv /\ [Next]_vars => IInv' /\ CalmInv'
  BY IInvNext, CalmNext
<1>3. IInv /\ CalmInv => TrafficNeverStalls
  BY CalmReadable
<1> QED BY <1>1, <1>2, <1>3, PTL DEF Spec
=============================================================================
