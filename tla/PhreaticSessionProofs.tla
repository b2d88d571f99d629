------------------------ MODULE PhreaticSessionProofs ------------------------
(***************************************************************************)
(* Proofs about PhreaticSession for every number of threads, names and     *)
(* faults and every choice of timeouts.                                    *)
(***************************************************************************)
EXTENDS PhreaticSession, TLAPS

(* What the type invariant says of one node's session state. *)
StateOK(s) ==
    /\ s \in State
    /\ s.tag = "Idle" => s.hs = None
    /\ s.tag = "Handshaking" => s.hs # None
    /\ s.tag = "Established" <=> s.session # None

LEMMA PeerNode ==
    ASSUME NEW n \in Nodes
    PROVE  Peer(n) \in Nodes /\ Peer(n) # n /\ Peer(Peer(n)) = n
BY NodesAssumption DEF Peer, Nodes

LEMMA TypeOKState ==
    ASSUME TypeOK, NEW n \in Nodes
    PROVE  StateOK(state[n])
BY DEF TypeOK, StateOK

LEMMA NewSlotType ==
    ASSUME NEW k \in Keys
    PROVE  NewSlot(k) \in Slot /\ NewSlot(k) # None /\ NewSlot(k).key = k
BY TimesAssumption, NoneAssumption DEF NewSlot, Slot

LEMMA IdleOK == StateOK(Idle)
BY DEF StateOK, Idle, State, Option

LEMMA HandshakingOK ==
    ASSUME NEW h \in Handshake
    PROVE  StateOK(Handshaking(h)) /\ Handshaking(h).tag = "Handshaking"
BY NoneAssumption DEF StateOK, Idle, Handshaking, State, Option

LEMMA AdoptOK ==
    ASSUME NEW s, StateOK(s), NEW d \in Slot
    PROVE  StateOK(adopt_responder(s, d))
<1> d # None
  BY NoneAssumption
<1> QED
  BY DEF StateOK, State, Option, adopt_responder

LEMMA HandleResponseOK ==
    ASSUME NEW s, StateOK(s), NEW k \in Keys, NEW n
    PROVE  StateOK(handle_response(n, s, k))
BY NewSlotType DEF StateOK, State, Option, handle_response

LEMMA PromoteOK ==
    ASSUME NEW s, StateOK(s), NEW d \in Slot
    PROVE  StateOK(promote(s, d))
<1> d # None
  BY NoneAssumption
<1> QED
  BY DEF StateOK, State, Option, promote

LEMMA HygieneOK ==
    ASSUME NEW s, StateOK(s)
    PROVE  StateOK(Hygiene(s)) /\ Hygiene(s).tag = s.tag
             /\ Hygiene(s).session = s.session /\ Hygiene(s).hs = s.hs
             /\ Hygiene(s).initiated = s.initiated
BY DEF StateOK, State, Option, Hygiene, Unexpired

LEMMA OlderType ==
    ASSUME NEW x \in Option(Slot)
    PROVE  /\ Older(x, RejectAfter) \in Option(Slot)
           /\ Older(x, RejectAfter) = None <=> x = None
           /\ x # None => Older(x, RejectAfter).key = x.key
BY TimesAssumption, NoneAssumption DEF Older, Option, Slot, Min

LEMMA OlderHandshake ==
    ASSUME NEW x \in Option(Handshake)
    PROVE  /\ Older(x, GiveUp) \in Option(Handshake)
           /\ Older(x, GiveUp) = None <=> x = None
           /\ x # None => Older(x, GiveUp).init = x.init
BY TimesAssumption, NoneAssumption DEF Older, Option, Handshake, Min

LEMMA AgedOK ==
    ASSUME NEW s, StateOK(s)
    PROVE  StateOK(Aged(s))
BY OlderType, OlderHandshake DEF StateOK, State, Aged

-----------------------------------------------------------------------------
(* Every action keeps the types. *)

LEMMA FreshInitType ==
    ASSUME NEW n \in Nodes, NEW i \in FreshInits(n)
    PROVE  i \in Inits /\ i.from = n
<1>1. PICK j \in Least({x \in Ids : [from |-> n, id |-> x] \notin InitsInUse}) :
        i = [from |-> n, id |-> j]
  BY DEF FreshInits
<1>2. j \in Ids
  BY DEF Least
<1> QED
  BY <1>1, <1>2 DEF Inits

LEMMA FreshKeyType ==
    ASSUME NEW i \in Inits, NEW k \in FreshKeys(i)
    PROVE  k \in Keys /\ k.init = i
<1>1. PICK r \in Least({x \in Ids : [init |-> i, resp |-> x] \notin KeysInUse}) :
        k = [init |-> i, resp |-> r]
  BY DEF FreshKeys
<1>2. r \in Ids
  BY DEF Least
<1> QED
  BY <1>1, <1>2 DEF Keys

LEMMA NewHandshakeType ==
    ASSUME NEW i \in Inits
    PROVE  [init |-> i, age |-> 0] \in Handshake
BY TimesAssumption DEF Handshake

LEMMA MessageType ==
    /\ \A i \in Inits : InitMsg(i) \in Message /\ InitMsg(i).type = "init"
    /\ \A k \in Keys : ResponseMsg(k) \in Message /\ ResponseMsg(k).type = "response"
    /\ \A n \in Nodes, k \in Keys :
         /\ DataMsg(n, k) \in Message /\ DataMsg(n, k).type = "data"
         /\ DataMsg(n, k).key = k /\ DataMsg(n, k).to = Peer(n)
BY PeerNode DEF InitMsg, ResponseMsg, DataMsg, Message

\* A poll that ends the session leaves a state without keys.
LEMMA DialOrIdleStep ==
    ASSUME TypeOK, NEW n \in Nodes, DialOrIdle(n)
    PROVE  \E t : /\ StateOK(t) /\ t.tag # "Established"
                  /\ t.pending = None
                  /\ state' = [state EXCEPT ![n] = t]
                  /\ net' \subseteq Message
                  /\ \A m \in net' : m \in net \/ m.type = "init"
<1>1. CASE n \in via
  <2>1. PICK i \in FreshInits(n) :
          /\ state' = [state EXCEPT ![n] = Handshaking([init |-> i, age |-> 0])]
          /\ net' = net \cup {InitMsg(i)}
    BY <1>1 DEF DialOrIdle
  <2>2. [init |-> i, age |-> 0] \in Handshake /\ i \in Inits
    BY FreshInitType, NewHandshakeType
  <2>3. Handshaking([init |-> i, age |-> 0]).pending = None
    BY DEF Handshaking, Idle
  <2> QED
    BY <2>1, <2>2, <2>3, HandshakingOK, MessageType DEF TypeOK
<1>2. CASE n \notin via
  <2>1. state' = [state EXCEPT ![n] = Idle] /\ net' = net
    BY <1>2 DEF DialOrIdle
  <2>2. Idle.tag # "Established" /\ Idle.pending = None
    BY DEF Idle
  <2> QED
    BY <2>1, <2>2, IdleOK DEF TypeOK
<1> QED
  BY <1>1, <1>2

\* What a poll of an established, unexpired session does to it.
LEMMA PollEstablishedStep ==
    ASSUME TypeOK, NEW n \in Nodes, PollEstablished(n)
    PROVE  \E h \in Option(Handshake) :
              /\ state' = [state EXCEPT ![n] = [Hygiene(state[n]) EXCEPT !.hs = h]]
              /\ h # None =>
                   \/ state[n].hs # None /\ h = state[n].hs
                   \/ state[n].initiated
              /\ net' \subseteq Message
              /\ \A m \in net' : m \in net \/ m.type = "init"
<1> DEFINE s == Hygiene(state[n])
<1>1. StateOK(s) /\ s.hs = state[n].hs /\ s.initiated = state[n].initiated
  BY TypeOKState, HygieneOK
<1>2. s.hs \in Option(Handshake) /\ None \in Option(Handshake) /\ net \subseteq Message
  BY <1>1 DEF StateOK, State, Option, TypeOK
<1>3. [s EXCEPT !.hs = s.hs] = s
  BY <1>1 DEF StateOK, State
<1>4. CASE /\ s.hs # None
           /\ state' = [state EXCEPT ![n] = [s EXCEPT !.hs = None]]
           /\ net' = net
  BY <1>2, <1>4
<1>5. CASE /\ s.hs # None
           /\ state' = [state EXCEPT ![n] = s]
           /\ net' = net \cup {InitMsg(s.hs.init)}
  <2>1. s.hs.init \in Inits
    BY <1>2, <1>5 DEF Option, Handshake
  <2>2. InitMsg(s.hs.init) \in Message /\ InitMsg(s.hs.init).type = "init"
    BY <2>1, MessageType
  <2> QED
    BY <1>1, <1>2, <1>3, <1>5, <2>2
<1>6. CASE /\ s.hs = None /\ s.initiated
           /\ \E i \in FreshInits(n) :
               /\ state' = [state EXCEPT ![n] = [s EXCEPT !.hs = [init |-> i, age |-> 0]]]
               /\ net' = net \cup {InitMsg(i)}
  <2>1. PICK i \in FreshInits(n) :
               /\ state' = [state EXCEPT ![n] = [s EXCEPT !.hs = [init |-> i, age |-> 0]]]
               /\ net' = net \cup {InitMsg(i)}
    BY <1>6
  <2>2. i \in Inits /\ [init |-> i, age |-> 0] \in Option(Handshake)
    BY FreshInitType, NewHandshakeType DEF Option
  <2> QED
    BY <1>1, <1>2, <1>6, <2>1, <2>2, MessageType
<1>7. CASE /\ s.hs = None
           /\ state' = [state EXCEPT ![n] = s]
           /\ net' = net
  BY <1>2, <1>3, <1>7
<1> QED
  BY <1>4, <1>5, <1>6, <1>7 DEF PollEstablished

LEMMA TypeOKInit == Init => TypeOK
BY IdleOK, NodesAssumption, FaultsAssumption DEF Init, TypeOK, StateOK, Nodes, Option

LEMMA TaskType ==
    ASSUME TypeOK, NEW n \in Nodes, NEW w \in Workers, work[n][w] # None
    PROVE  work[n][w] \in Task /\ work[n][w].slot \in Slot
                /\ work[n][w].slot.key \in Keys
<1>1. work[n][w] \in Task
  BY DEF TypeOK, Option
<1> QED
  BY <1>1 DEF Task, Slot

\* Steps that replace one node's session state and keep the rest well typed.
LEMMA TypeOKState1 ==
    ASSUME TypeOK, NEW n \in Nodes, NEW t, StateOK(t),
           state' = [state EXCEPT ![n] = t]
    PROVE  /\ state' \in [Nodes -> State]
           /\ \A x \in Nodes : StateOK(state'[x])
BY TypeOKState DEF TypeOK, StateOK

LEMMA TypeOKAll ==
    ASSUME state' \in [Nodes -> State], \A x \in Nodes : StateOK(state'[x]),
           answered' \in [Nodes -> Option(Keys)],
           dialers' \subseteq Nodes, via' \subseteq Nodes,
           work' \in [Nodes -> [Workers -> Option(Task)]],
           net' \subseteq Message, due' \subseteq Nodes, faults' \in 0..MaxFaults,
           completed' \subseteq Keys, dark' \in [Nodes -> 0..DarkCap]
    PROVE  TypeOK'
BY DEF TypeOK, StateOK

LEMMA FaultType ==
    ASSUME TypeOK, NEW kind, Fault(kind)
    PROVE  faults' \in 0..MaxFaults
BY FaultsAssumption DEF Fault, TypeOK

LEMMA TypeOKPoll ==
    ASSUME TypeOK, NEW n \in Nodes, Poll(n)
    PROVE  TypeOK'
<1>1. Polled(n) /\ due' \subseteq Nodes
  BY DEF Poll, PollIdle, PollHandshaking, PollExpired, PollEstablished, Polled, TypeOK
<1>2. CASE DialOrIdle(n)
  <2>1. PICK t : StateOK(t) /\ state' = [state EXCEPT ![n] = t] /\ net' \subseteq Message
    BY <1>2, DialOrIdleStep
  <2> QED
    BY <1>1, <2>1, TypeOKState1, TypeOKAll DEF Polled, TypeOK
<1>3. CASE /\ state[n].tag = "Handshaking"
           /\ net' = net \cup {InitMsg(state[n].hs.init)}
           /\ UNCHANGED state
  <2>1. state[n].hs.init \in Inits
    BY <1>3, TypeOKState DEF StateOK, State, Option, Handshake
  <2> QED
    BY <1>1, <1>3, <2>1, TypeOKState, TypeOKAll, MessageType DEF Polled, TypeOK
<1>4. CASE PollEstablished(n)
  <2>1. PICK h \in Option(Handshake) :
          /\ state' = [state EXCEPT ![n] = [Hygiene(state[n]) EXCEPT !.hs = h]]
          /\ net' \subseteq Message
    BY <1>4, PollEstablishedStep
  <2>2. StateOK(Hygiene(state[n])) /\ Hygiene(state[n]).tag = "Established"
    BY <1>4, TypeOKState, HygieneOK DEF PollEstablished, IsEstablished
  <2>3. StateOK([Hygiene(state[n]) EXCEPT !.hs = h])
    BY <2>2 DEF StateOK, State
  <2> QED
    BY <1>1, <2>1, <2>3, TypeOKState1, TypeOKAll DEF Polled, TypeOK
<1> QED
  BY <1>2, <1>3, <1>4 DEF Poll, PollIdle, PollHandshaking, PollExpired

LEMMA TypeOKInbound ==
    ASSUME TypeOK, NEW n \in Nodes, NEW w \in Workers, NEW m \in net,
           \/ RepeatResponse(n, w, m) \/ Respond(n, w, m)
           \/ HandleResponse(n, w, m) \/ OpenData(n, w, m)
    PROVE  TypeOK'
<1> USE DEF TypeOK
<1>0. m \in Message /\ (\A x \in Nodes : StateOK(state[x]))
  BY TypeOKState
<1>1. CASE RepeatResponse(n, w, m)
  <2>1. answered[n] \in Keys
    BY <1>1 DEF RepeatResponse, Answered, Option
  <2>2. net' \subseteq Message /\ faults' \in 0..MaxFaults
    BY <1>1, <2>1, MessageType, FaultType DEF RepeatResponse, TakeAndSend
  <2> QED
    BY <1>0, <1>1, <2>2, TypeOKAll DEF RepeatResponse
<1>2. CASE Respond(n, w, m)
  <2>1. m.init \in Inits
    BY <1>0, <1>2 DEF Respond, Message
  <2>2. PICK k \in FreshKeys(m.init) :
          work' = [work EXCEPT ![n][w] = [step |-> "adopt", slot |-> NewSlot(k)]]
    BY <1>2 DEF Respond
  <2>3. [step |-> "adopt", slot |-> NewSlot(k)] \in Option(Task)
    BY <2>1, FreshKeyType, NewSlotType DEF Task, Option
  <2>4. net' \subseteq Message /\ faults' \in 0..MaxFaults
    BY <1>2, FaultType DEF Respond, Take
  <2> QED
    BY <1>0, <1>2, <2>2, <2>3, <2>4, TypeOKAll DEF Respond
<1>3. CASE HandleResponse(n, w, m)
  <2>1. m.key \in Keys
    BY <1>0, <1>3 DEF HandleResponse, Message
  <2>2. net' \subseteq Message /\ faults' \in 0..MaxFaults
    BY <1>3, FaultType DEF HandleResponse, Take
  <2>3. state' \in [Nodes -> State] /\ \A x \in Nodes : StateOK(state'[x])
    <3>1. StateOK(handle_response(n, state[n], m.key))
      BY <1>0, <2>1, HandleResponseOK
    <3> QED
      BY <1>0, <1>3, <3>1, TypeOKState1 DEF HandleResponse
  <2>4. completed' \subseteq Keys
    BY <1>3, <2>1 DEF HandleResponse
  <2> QED
    BY <1>3, <2>2, <2>3, <2>4, TypeOKAll DEF HandleResponse
<1>4. CASE OpenData(n, w, m)
  <2>1. work' \in [Nodes -> [Workers -> Option(Task)]]
    <3>1. CASE UNCHANGED work
      BY <3>1
    <3>2. CASE /\ state[n].pending # None
               /\ work' = [work EXCEPT ![n][w] = [step |-> "promote", slot |-> state[n].pending]]
      <4>1. [step |-> "promote", slot |-> state[n].pending] \in Option(Task)
        BY <1>0, <3>2 DEF StateOK, State, Option, Task
      <4> QED
        BY <3>2, <4>1
    <3> QED
      BY <1>4, <3>1, <3>2 DEF OpenData
  <2> QED
    BY <1>0, <1>4, <2>1, TypeOKAll DEF OpenData
<1> QED
  BY <1>1, <1>2, <1>3, <1>4

LEMMA TypeOKThread ==
    ASSUME TypeOK, NEW n \in Nodes, NEW w \in Workers, Adopt(n, w) \/ Promote(n, w)
    PROVE  TypeOK'
<1> USE DEF TypeOK
<1>1. work[n][w] # None
  BY DEF Adopt, Promote
<1>2. work[n][w].slot \in Slot /\ work[n][w].slot.key \in Keys
  BY <1>1, TaskType
<1>3. work' \in [Nodes -> [Workers -> Option(Task)]]
  <2>1. work' = [work EXCEPT ![n][w] = None]
    BY DEF Adopt, Promote
  <2> QED
    BY <2>1 DEF Option
<1>4. CASE Adopt(n, w)
  <2>1. StateOK(adopt_responder(state[n], work[n][w].slot))
    BY <1>2, TypeOKState, AdoptOK
  <2>2. answered' \in [Nodes -> Option(Keys)]
    BY <1>2, <1>4 DEF Adopt, Option
  <2>3. net' \subseteq Message
    BY <1>2, <1>4, MessageType DEF Adopt
  <2> QED
    BY <1>3, <1>4, <2>1, <2>2, <2>3, TypeOKState1, TypeOKAll DEF Adopt
<1>5. CASE Promote(n, w)
  <2>1. StateOK(promote(state[n], work[n][w].slot))
    BY <1>2, TypeOKState, PromoteOK
  <2> QED
    BY <1>3, <1>5, <2>1, TypeOKState1, TypeOKAll DEF Promote
<1> QED
  BY <1>4, <1>5

LEMMA TypeOKSendData ==
    ASSUME TypeOK, NEW n \in Nodes, SendData(n)
    PROVE  TypeOK'
<1>1. state[n].session \in Slot
  BY TypeOKState DEF StateOK, State, Option, SendData, IsEstablished
<1>2. DataMsg(n, state[n].session.key) \in Message
  BY <1>1, MessageType DEF Slot
<1> QED
  BY <1>2, TypeOKState, TypeOKAll DEF SendData, TypeOK

\* Threads keep their keys, which age like the session's own.
LEMMA AdvanceWork ==
    ASSUME TypeOK, Advance, NEW n \in Nodes, NEW w \in Workers
    PROVE  /\ work'[n][w] \in Option(Task)
           /\ work'[n][w] = None <=> work[n][w] = None
           /\ work[n][w] # None =>
                /\ work'[n][w].step = work[n][w].step
                /\ work'[n][w].slot.key = work[n][w].slot.key
<1>1. CASE work[n][w] = None
  BY <1>1 DEF Advance, Option
<1>2. CASE work[n][w] # None
  <2> DEFINE t == work[n][w]
  <2>1. t \in Task /\ t.slot \in Slot
    BY <1>2, TaskType
  <2>2. /\ Older(t.slot, RejectAfter) \in Slot
        /\ Older(t.slot, RejectAfter).key = t.slot.key
    BY <2>1, OlderType, NoneAssumption DEF Option
  <2>3. work'[n][w] = [t EXCEPT !.slot = Older(t.slot, RejectAfter)]
    BY <1>2 DEF Advance
  <2>4. [t EXCEPT !.slot = Older(t.slot, RejectAfter)] \in Task
    BY <2>1, <2>2 DEF Task
  <2>5. /\ [t EXCEPT !.slot = Older(t.slot, RejectAfter)].step = t.step
        /\ [t EXCEPT !.slot = Older(t.slot, RejectAfter)].slot.key = t.slot.key
    BY <2>1, <2>2 DEF Task
  <2> QED
    BY <1>2, <2>3, <2>4, <2>5, NoneAssumption DEF Option
<1> QED
  BY <1>1, <1>2

LEMMA TypeOKAdvance ==
    ASSUME TypeOK, Advance, net' \subseteq Message, faults' \in 0..MaxFaults
    PROVE  TypeOK'
<1>1. state' \in [Nodes -> State] /\ \A x \in Nodes : StateOK(state'[x])
  BY TypeOKState, AgedOK DEF Advance, StateOK
<1>2. work' \in [Nodes -> [Workers -> Option(Task)]]
  <2>1. work' = [n \in Nodes |-> [w \in Workers |-> work'[n][w]]]
    BY DEF Advance
  <2> QED
    BY <2>1, AdvanceWork
<1>3. dark' \in [Nodes -> 0..DarkCap]
  BY FaultsAssumption DEF Advance, TypeOK, Min
<1> QED
  BY <1>1, <1>2, <1>3, TypeOKAll DEF Advance, TypeOK

LEMMA TypeOKEnvironment ==
    ASSUME TypeOK,
           Tick \/ LateTick \/ (\E m \in net : Lose(m)) \/ (\E n \in Nodes : Restart(n))
    PROVE  TypeOK'
<1>1. CASE Tick
  BY <1>1, TypeOKAdvance DEF Tick, TypeOK
<1>2. CASE LateTick
  BY <1>2, TypeOKAdvance, FaultType DEF LateTick, TypeOK
<1>3. CASE \E m \in net : Lose(m)
  BY <1>3, TypeOKState, TypeOKAll, FaultType DEF Lose, TypeOK
<1>4. ASSUME NEW n \in Nodes, Restart(n)
      PROVE  TypeOK'
  <2>1. work' \in [Nodes -> [Workers -> Option(Task)]]
    BY <1>4 DEF Restart, TypeOK, Option
  <2>2. answered' \in [Nodes -> Option(Keys)]
    BY <1>4 DEF Restart, TypeOK, Option
  <2>3. faults' \in 0..MaxFaults
    BY <1>4, FaultType DEF Restart
  <2> QED
    BY <1>4, <2>1, <2>2, <2>3, IdleOK, TypeOKState1, TypeOKAll DEF Restart, TypeOK
<1> QED
  BY <1>1, <1>2, <1>3, <1>4

LEMMA TypeOKNext == TypeOK /\ [Next]_vars => TypeOK'
<1> SUFFICES ASSUME TypeOK, [Next]_vars
             PROVE  TypeOK'
  OBVIOUS
<1>1. CASE UNCHANGED vars
  BY <1>1 DEF vars, TypeOK
<1>2. CASE Next
  BY <1>2, TypeOKPoll, TypeOKInbound, TypeOKThread, TypeOKSendData, TypeOKEnvironment
     DEF Next
<1> QED
  BY <1>1, <1>2

\* Every variable keeps its type, and the three variants of the session's State
\* hold what their Rust counterparts hold: keys exactly in Established, a
\* handshake in Handshaking and none in Idle.
THEOREM Typing == Spec => []TypeOK
<1>1. Init => TypeOK
  BY TypeOKInit
<1>2. TypeOK /\ [Next]_vars => TypeOK'
  BY TypeOKNext
<1> QED
  BY <1>1, <1>2, PTL DEF Spec

-----------------------------------------------------------------------------
(***************************************************************************)
(* The inductive invariant.  Keys a node holds as pending, or a thread has *)
(* in hand, come from a handshake the peer started; keys of this node's own *)
(* handshake reach its session, and traffic sealed under them the wire,    *)
(* only once it completed; so does what a thread is about to promote.      *)
(***************************************************************************)
FromPeer(n, s) == s # None => Initiator(s.key) = Peer(n)

KeyOrigin ==
    \A n \in Nodes :
        /\ FromPeer(n, state[n].pending)
        /\ \A w \in Workers : work[n][w] # None => FromPeer(n, work[n][w].slot)

Role(n, s) ==
    s.tag = "Established" => (s.initiated <=> Initiator(s.session.key) = n)

OwnProven(n, s, C) ==
    s.tag = "Established" /\ Initiator(s.session.key) = n => s.session.key \in C

Proven ==
    /\ \A n \in Nodes : OwnProven(n, state[n], completed)
    /\ \A m \in net :
         m.type = "data" /\ Initiator(m.key) = Peer(m.to) => m.key \in completed
    /\ \A n \in Nodes, w \in Workers :
         work[n][w] # None /\ work[n][w].step = "promote"
            => work[n][w].slot.key \in completed

IInv == TypeOK /\ KeyOrigin /\ InitiatorRekeys /\ Proven

\* What IInv says of one node.
LEMMA IInvNode ==
    ASSUME IInv, NEW n \in Nodes
    PROVE  /\ StateOK(state[n]) /\ FromPeer(n, state[n].pending)
           /\ Role(n, state[n]) /\ OwnProven(n, state[n], completed)
BY TypeOKState DEF IInv, KeyOrigin, InitiatorRekeys, IsEstablished, Role, Proven

\* Steps that change one node's session state and add neither threads' work nor
\* data to the wire.
LEMMA IInvState1 ==
    ASSUME IInv, TypeOK', NEW n \in Nodes, NEW t,
           state' = [state EXCEPT ![n] = t],
           FromPeer(n, t.pending), Role(n, t), OwnProven(n, t, completed'),
           completed \subseteq completed',
           \A x \in Nodes, w \in Workers : work'[x][w] \in {work[x][w], None},
           \A m \in net' : m \in net \/ m.type # "data"
    PROVE  IInv'
<1>1. \A x \in Nodes : state'[x] = IF x = n THEN t ELSE state[x]
  BY DEF IInv, TypeOK
<1>2. KeyOrigin'
  BY <1>1, IInvNode DEF IInv, KeyOrigin, FromPeer, Peer
<1>3. InitiatorRekeys'
  BY <1>1, IInvNode DEF InitiatorRekeys, IsEstablished, Role
<1>4. Proven'
  <2>1. \A x \in Nodes : OwnProven(x, state'[x], completed')
    BY <1>1, IInvNode DEF OwnProven
  <2>2. \A m \in net' :
          m.type = "data" /\ Initiator(m.key) = Peer(m.to) => m.key \in completed'
    BY DEF IInv, Proven
  <2>3. \A x \in Nodes, w \in Workers :
          work'[x][w] # None /\ work'[x][w].step = "promote"
             => work'[x][w].slot.key \in completed'
    BY DEF IInv, Proven
  <2> QED
    BY <2>1, <2>2, <2>3 DEF Proven
<1> QED
  BY <1>2, <1>3, <1>4 DEF IInv

\* Steps that leave every session state alone.
LEMMA IInvSameState ==
    ASSUME IInv, TypeOK', UNCHANGED <<state, completed>>,
           \A x \in Nodes, w \in Workers :
              \/ work'[x][w] \in {work[x][w], None}
              \/ /\ FromPeer(x, work'[x][w].slot)
                 /\ work'[x][w].step = "promote" => work'[x][w].slot.key \in completed,
           \A m \in net' :
              \/ m \in net \/ m.type # "data"
              \/ Initiator(m.key) = Peer(m.to) => m.key \in completed
    PROVE  IInv'
<1>1. KeyOrigin'
  BY DEF IInv, KeyOrigin, FromPeer
<1>2. InitiatorRekeys'
  BY DEF IInv, InitiatorRekeys, IsEstablished
<1>3. Proven'
  BY DEF IInv, Proven
<1> QED
  BY <1>1, <1>2, <1>3 DEF IInv

LEMMA IInvInit == Init => IInv
BY TypeOKInit
   DEF Init, IInv, KeyOrigin, FromPeer, InitiatorRekeys, IsEstablished, Proven,
       OwnProven, Idle

LEMMA IInvPoll ==
    ASSUME IInv, TypeOK', NEW n \in Nodes, Poll(n)
    PROVE  IInv'
<1>1. TypeOK /\ UNCHANGED <<work, completed>>
  BY DEF IInv, Poll, PollIdle, PollHandshaking, PollExpired, PollEstablished, Polled
<1>2. CASE DialOrIdle(n)
  <2>1. PICK t : /\ StateOK(t) /\ t.tag # "Established" /\ t.pending = None
                 /\ state' = [state EXCEPT ![n] = t]
                 /\ \A m \in net' : m \in net \/ m.type = "init"
    BY <1>1, <1>2, DialOrIdleStep
  <2> QED
    BY <1>1, <2>1, IInvState1 DEF FromPeer, Role, OwnProven
<1>3. CASE /\ state[n].tag = "Handshaking"
           /\ net' = net \cup {InitMsg(state[n].hs.init)}
           /\ UNCHANGED state
  <2>1. InitMsg(state[n].hs.init).type = "init"
    BY DEF InitMsg
  <2> QED
    BY <1>1, <1>3, <2>1, IInvSameState
<1>4. CASE PollEstablished(n)
  <2>1. PICK h \in Option(Handshake) :
          /\ state' = [state EXCEPT ![n] = [Hygiene(state[n]) EXCEPT !.hs = h]]
          /\ \A m \in net' : m \in net \/ m.type = "init"
    BY <1>1, <1>4, PollEstablishedStep
  <2> DEFINE t == [Hygiene(state[n]) EXCEPT !.hs = h]
  <2>2. /\ t.tag = state[n].tag /\ t.session = state[n].session
        /\ t.initiated = state[n].initiated
        /\ t.pending \in {state[n].pending, None}
    BY IInvNode DEF StateOK, State, Hygiene, Unexpired
  <2>3. FromPeer(n, t.pending) /\ Role(n, t) /\ OwnProven(n, t, completed')
    BY <1>1, <2>2, IInvNode DEF FromPeer, Role, OwnProven
  <2> QED
    BY <1>1, <2>1, <2>3, IInvState1
<1> QED
  BY <1>2, <1>3, <1>4 DEF Poll, PollIdle, PollHandshaking, PollExpired

LEMMA IInvInbound ==
    ASSUME IInv, TypeOK', NEW n \in Nodes, NEW w \in Workers, NEW m \in net,
           \/ RepeatResponse(n, w, m) \/ Respond(n, w, m)
           \/ HandleResponse(n, w, m) \/ OpenData(n, w, m)
    PROVE  IInv'
<1>0. TypeOK /\ m \in Message
  BY DEF IInv, TypeOK
<1>1. CASE RepeatResponse(n, w, m)
  <2>1. ResponseMsg(answered[n]).type = "response"
    BY DEF ResponseMsg
  <2> QED
    BY <1>1, <2>1, IInvSameState DEF RepeatResponse, TakeAndSend
<1>2. CASE Respond(n, w, m)
  <2>1. m.init \in Inits /\ m.init.from = Peer(n)
    BY <1>0, <1>2 DEF Respond, Message
  <2>2. PICK k \in FreshKeys(m.init) :
          work' = [work EXCEPT ![n][w] = [step |-> "adopt", slot |-> NewSlot(k)]]
    BY <1>2 DEF Respond
  <2>3. Initiator(NewSlot(k).key) = Peer(n)
    BY <2>1, FreshKeyType, NewSlotType DEF Initiator
  <2>4. \A x \in Nodes, v \in Workers :
          \/ work'[x][v] = work[x][v]
          \/ x = n /\ work'[x][v] = [step |-> "adopt", slot |-> NewSlot(k)]
    BY <1>0, <2>2 DEF TypeOK
  <2> QED
    BY <1>2, <2>3, <2>4, IInvSameState DEF Respond, Take, FromPeer
<1>3. CASE HandleResponse(n, w, m)
  <2>1. m.key \in Keys /\ Initiator(m.key) = n /\ UNCHANGED work
    BY <1>0, <1>3 DEF HandleResponse, Message
  <2>2. \A x \in net' : x \in net
    BY <1>3 DEF HandleResponse, Take
  <2>3. CASE UNCHANGED <<state, completed>>
    BY <2>1, <2>2, <2>3, IInvSameState
  <2>4. CASE /\ state' = [state EXCEPT ![n] = handle_response(n, state[n], m.key)]
             /\ completed' = IF state'[n].session = NewSlot(m.key)
                             THEN completed \cup {m.key} ELSE completed
    <3> DEFINE t == handle_response(n, state[n], m.key)
    <3>1. state'[n] = t
      BY <1>0, <2>4 DEF TypeOK
    <3>2. NewSlot(m.key).key = m.key
      BY <2>1, NewSlotType
    <3>3. FromPeer(n, t.pending)
      BY IInvNode DEF FromPeer, handle_response, StateOK, State
    <3>4. Role(n, t)
      BY <2>1, <3>2, IInvNode DEF Role, handle_response, StateOK, State
    <3>5. OwnProven(n, t, completed')
      BY <2>4, <3>1, <3>2, IInvNode DEF OwnProven, handle_response, StateOK, State
    <3> QED
      BY <2>1, <2>2, <2>4, <3>3, <3>4, <3>5, IInvState1
  <2> QED
    BY <1>3, <2>3, <2>4 DEF HandleResponse
<1>4. CASE OpenData(n, w, m)
  <2>1. UNCHANGED <<state, completed>> /\ net' \subseteq net
    BY <1>4 DEF OpenData
  <2>2. CASE UNCHANGED work
    BY <2>1, <2>2, IInvSameState
  <2>3. CASE /\ state[n].pending # None /\ state[n].pending.key = m.key
             /\ work' = [work EXCEPT ![n][w] = [step |-> "promote", slot |-> state[n].pending]]
    <3>1. Initiator(m.key) = Peer(n)
      BY <2>3, IInvNode DEF FromPeer
    <3>2. m.key \in completed
      BY <1>4, <3>1 DEF OpenData, IInv, Proven
    <3>3. \A x \in Nodes, v \in Workers :
            \/ work'[x][v] = work[x][v]
            \/ x = n /\ work'[x][v] = [step |-> "promote", slot |-> state[n].pending]
      BY <1>0, <2>3 DEF TypeOK
    <3> QED
      BY <2>1, <2>3, <3>1, <3>2, <3>3, IInvSameState DEF FromPeer
  <2> QED
    BY <1>4, <2>2, <2>3 DEF OpenData
<1> QED
  BY <1>1, <1>2, <1>3, <1>4

LEMMA IInvThread ==
    ASSUME IInv, TypeOK', NEW n \in Nodes, NEW w \in Workers,
           Adopt(n, w) \/ Promote(n, w)
    PROVE  IInv'
<1> DEFINE d == work[n][w].slot
<1>0. TypeOK /\ work[n][w] # None
  BY DEF IInv, Adopt, Promote
<1>1. d \in Slot /\ d # None
  BY <1>0, TaskType, NoneAssumption
<1>2. Initiator(d.key) = Peer(n) /\ Initiator(d.key) # n
  BY <1>0, <1>1, PeerNode DEF IInv, KeyOrigin, FromPeer
<1>3. \A x \in Nodes, v \in Workers : work'[x][v] \in {work[x][v], None}
  BY <1>0 DEF Adopt, Promote, TypeOK
<1>4. CASE Adopt(n, w)
  <2> DEFINE t == adopt_responder(state[n], d)
  <2>1. ResponseMsg(d.key).type = "response"
    BY DEF ResponseMsg
  <2>2. FromPeer(n, t.pending)
    BY <1>2, IInvNode DEF FromPeer, adopt_responder, StateOK, State
  <2>3. Role(n, t) /\ OwnProven(n, t, completed)
    BY <1>2, IInvNode DEF Role, OwnProven, adopt_responder, StateOK, State
  <2> QED
    BY <1>3, <1>4, <2>1, <2>2, <2>3, IInvState1 DEF Adopt
<1>5. CASE Promote(n, w)
  <2> DEFINE t == promote(state[n], d)
  <2>1. FromPeer(n, t.pending)
    BY IInvNode DEF FromPeer, promote, StateOK, State
  <2>2. Role(n, t) /\ OwnProven(n, t, completed)
    BY <1>2, IInvNode DEF Role, OwnProven, promote, StateOK, State
  <2> QED
    BY <1>3, <1>5, <2>1, <2>2, IInvState1 DEF Promote
<1> QED
  BY <1>4, <1>5

LEMMA IInvSendData ==
    ASSUME IInv, TypeOK', NEW n \in Nodes, SendData(n)
    PROVE  IInv'
<1> DEFINE k == state[n].session.key
           msg == DataMsg(n, k)
<1>1. k \in Keys /\ state[n].tag = "Established"
  BY IInvNode DEF SendData, IsEstablished, StateOK, State, Option, Slot
<1>2. msg.key = k /\ Peer(msg.to) = n
  BY <1>1, PeerNode, MessageType
<1>3. Initiator(k) = n => k \in completed
  BY <1>1, IInvNode DEF OwnProven
<1> QED
  BY <1>2, <1>3, IInvSameState DEF SendData

\* A tick forgets completed key sets, but none that a node, a thread or a
\* message still holds.
LEMMA IInvAdvance ==
    ASSUME IInv, TypeOK', Advance, net' \subseteq net
    PROVE  IInv'
<1>0. TypeOK
  BY DEF IInv
<1>1. ASSUME NEW n \in Nodes
      PROVE  /\ state'[n].tag = state[n].tag /\ state'[n].initiated = state[n].initiated
             /\ state[n].tag = "Established" => state'[n].session.key = state[n].session.key
             /\ state'[n].pending # None =>
                  state[n].pending # None /\ state'[n].pending.key = state[n].pending.key
  <2> DEFINE s == state[n]
  <2>1. s \in State /\ s.session \in Option(Slot) /\ s.pending \in Option(Slot)
    BY IInvNode DEF StateOK, State
  <2>2. state'[n] = Aged(s)
    BY DEF Advance
  <2>3. /\ Aged(s).tag = s.tag /\ Aged(s).initiated = s.initiated
        /\ Aged(s).session = Older(s.session, RejectAfter)
        /\ Aged(s).pending = Older(s.pending, RejectAfter)
    BY <2>1 DEF Aged, State
  <2>4. s.tag = "Established" => s.session # None
    BY IInvNode DEF StateOK
  <2>5. s.session # None => Older(s.session, RejectAfter).key = s.session.key
    BY <2>1, OlderType
  <2>6. Older(s.pending, RejectAfter) # None =>
          s.pending # None /\ Older(s.pending, RejectAfter).key = s.pending.key
    BY <2>1, OlderType
  <2> QED
    BY <2>2, <2>3, <2>4, <2>5, <2>6
<1>2. KeyOrigin'
  <2> SUFFICES ASSUME NEW n \in Nodes
               PROVE  /\ FromPeer(n, state'[n].pending)
                      /\ \A w \in Workers :
                           work'[n][w] # None => FromPeer(n, work'[n][w].slot)
    BY DEF KeyOrigin, FromPeer
  <2>1. FromPeer(n, state'[n].pending)
    BY <1>1, IInvNode DEF FromPeer
  <2>2. ASSUME NEW w \in Workers, work'[n][w] # None
        PROVE  FromPeer(n, work'[n][w].slot)
    <3>1. work[n][w] # None /\ work'[n][w].slot.key = work[n][w].slot.key
      BY <1>0, <2>2, AdvanceWork
    <3>2. work[n][w].slot # None
      BY <1>0, <3>1, TaskType, NoneAssumption
    <3>3. Initiator(work[n][w].slot.key) = Peer(n)
      BY <3>1, <3>2 DEF IInv, KeyOrigin, FromPeer
    <3> QED
      BY <3>1, <3>3 DEF FromPeer, Initiator
  <2> QED
    BY <2>1, <2>2
<1>3. InitiatorRekeys'
  BY <1>1 DEF IInv, InitiatorRekeys, IsEstablished
<1>4. \A n \in Nodes : OwnProven(n, state'[n], completed')
  <2> SUFFICES ASSUME NEW n \in Nodes, state'[n].tag = "Established",
                      Initiator(state'[n].session.key) = n
               PROVE  state'[n].session.key \in completed'
    BY DEF OwnProven
  <2>1. state[n].session.key \in completed /\ state[n].session # None
    BY <1>1, IInvNode DEF OwnProven, StateOK
  <2>2. state[n].session \in UNION {Slots(x) : x \in Nodes}
    BY <2>1 DEF Slots
  <2>3. state[n].session.key \in KeysHeld
    BY <2>2 DEF KeysHeld
  <2>4. state'[n].session.key = state[n].session.key
    BY <1>1
  <2> QED
    BY <2>1, <2>3, <2>4 DEF Advance
<1>5. \A m \in net' :
        m.type = "data" /\ Initiator(m.key) = Peer(m.to) => m.key \in completed'
  <2> SUFFICES ASSUME NEW m \in net, m.type = "data", Initiator(m.key) = Peer(m.to)
               PROVE  m.key \in completed'
    OBVIOUS
  <2>1. m.key \in completed
    BY DEF IInv, Proven
  <2>2. m \in {x \in net : x.type # "init"}
    OBVIOUS
  <2>3. m.key \in KeysHeld
    BY <2>2 DEF KeysHeld
  <2> QED
    BY <2>1, <2>3 DEF Advance
<1>6. \A n \in Nodes, w \in Workers :
        work'[n][w] # None /\ work'[n][w].step = "promote"
           => work'[n][w].slot.key \in completed'
  <2> SUFFICES ASSUME NEW n \in Nodes, NEW w \in Workers, work'[n][w] # None,
                      work'[n][w].step = "promote"
               PROVE  work'[n][w].slot.key \in completed'
    OBVIOUS
  <2>1. /\ work[n][w] # None /\ work[n][w].step = "promote"
        /\ work'[n][w].slot.key = work[n][w].slot.key
    BY <1>0, AdvanceWork
  <2>2. work[n][w].slot.key \in completed
    BY <2>1 DEF IInv, Proven
  <2>3. work[n][w] \in UNION {Tasks(x) : x \in Nodes}
    BY <2>1 DEF Tasks
  <2>4. work[n][w].slot.key \in KeysHeld
    BY <2>3 DEF KeysHeld
  <2> QED
    BY <2>1, <2>2, <2>4 DEF Advance
<1> QED
  BY <1>2, <1>3, <1>4, <1>5, <1>6 DEF IInv, Proven

LEMMA IInvEnvironment ==
    ASSUME IInv, TypeOK',
           Tick \/ LateTick \/ (\E m \in net : Lose(m)) \/ (\E n \in Nodes : Restart(n))
    PROVE  IInv'
<1>1. CASE Tick
  BY <1>1, IInvAdvance DEF Tick
<1>2. CASE LateTick
  BY <1>2, IInvAdvance DEF LateTick
<1>3. CASE \E m \in net : Lose(m)
  BY <1>3, IInvSameState DEF Lose
<1>4. ASSUME NEW n \in Nodes, Restart(n)
      PROVE  IInv'
  <2>1. FromPeer(n, Idle.pending) /\ Role(n, Idle) /\ OwnProven(n, Idle, completed')
    BY DEF FromPeer, Role, OwnProven, Idle
  <2>2. \A x \in Nodes, v \in Workers : work'[x][v] \in {work[x][v], None}
    BY <1>4 DEF Restart, IInv, TypeOK
  <2> QED
    BY <1>4, <2>1, <2>2, IInvState1 DEF Restart
<1> QED
  BY <1>1, <1>2, <1>3, <1>4

LEMMA IInvNext == IInv /\ [Next]_vars => IInv'
<1> SUFFICES ASSUME IInv, [Next]_vars
             PROVE  IInv'
  OBVIOUS
<1>1. TypeOK'
  BY TypeOKNext DEF IInv
<1>2. CASE UNCHANGED vars
  BY <1>1, <1>2, IInvSameState DEF vars
<1>3. CASE Next
  BY <1>1, <1>3, IInvPoll, IInvInbound, IInvThread, IInvSendData, IInvEnvironment
     DEF Next
<1> QED
  BY <1>2, <1>3

\* For any interleaving of polls, threads, lost, late and repeated messages and
\* restarts, a node takes itself for the initiator exactly of key sets its own
\* dial produced.
THEOREM InitiatorRekeysAlways == Spec => []InitiatorRekeys
<1>1. Init => IInv
  BY IInvInit
<1>2. IInv /\ [Next]_vars => IInv'
  BY IInvNext
<1>3. IInv => InitiatorRekeys
  BY DEF IInv
<1> QED
  BY <1>1, <1>2, <1>3, PTL DEF Spec

-----------------------------------------------------------------------------
(***************************************************************************)
(* The two action properties: what one step may do to one node's session   *)
(* state, from s to t, when C is the set of completed key sets after it.    *)
(***************************************************************************)
Takes(s, t, C) ==
    s.tag = "Established" /\ t.tag = "Established" =>
        s.session.key = t.session.key \/ t.session.key \in C

Dials(s, t) ==
    t.tag = "Established" /\ ~t.initiated /\ t.hs # None =>
        /\ s.hs # None
        /\ s.hs.init = t.hs.init
        /\ ~(s.tag = "Established" /\ s.initiated)

LEMMA ChangeOne ==
    ASSUME TypeOK, NEW n \in Nodes, NEW t, state' = [state EXCEPT ![n] = t],
           Takes(state[n], t, completed'), Dials(state[n], t)
    PROVE  \A x \in Nodes : Takes(state[x], state'[x], completed')
                              /\ Dials(state[x], state'[x])
<1>1. \A x \in Nodes : state'[x] = IF x = n THEN t ELSE state[x]
  BY DEF TypeOK
<1> QED
  BY <1>1 DEF Takes, Dials

LEMMA ChangeNone ==
    ASSUME UNCHANGED state
    PROVE  \A x \in Nodes : Takes(state[x], state'[x], completed')
                              /\ Dials(state[x], state'[x])
BY DEF Takes, Dials

LEMMA ChangePoll ==
    ASSUME IInv, NEW n \in Nodes, Poll(n)
    PROVE  \A x \in Nodes : Takes(state[x], state'[x], completed')
                              /\ Dials(state[x], state'[x])
<1>1. TypeOK
  BY DEF IInv
<1>2. CASE DialOrIdle(n)
  <2>1. PICK t : t.tag # "Established" /\ state' = [state EXCEPT ![n] = t]
    BY <1>1, <1>2, DialOrIdleStep
  <2> QED
    BY <1>1, <2>1, ChangeOne DEF Takes, Dials
<1>3. CASE UNCHANGED state
  BY <1>3, ChangeNone
<1>4. CASE PollEstablished(n)
  <2>1. PICK h \in Option(Handshake) :
          /\ state' = [state EXCEPT ![n] = [Hygiene(state[n]) EXCEPT !.hs = h]]
          /\ h # None =>
               \/ state[n].hs # None /\ h = state[n].hs
               \/ state[n].initiated
    BY <1>1, <1>4, PollEstablishedStep
  <2> DEFINE t == [Hygiene(state[n]) EXCEPT !.hs = h]
  <2>2. /\ t.tag = state[n].tag /\ t.session = state[n].session
        /\ t.initiated = state[n].initiated /\ t.hs = h
    BY IInvNode DEF StateOK, State, Hygiene
  <2>3. Takes(state[n], t, completed') /\ Dials(state[n], t)
    BY <2>1, <2>2 DEF Takes, Dials
  <2> QED
    BY <1>1, <2>1, <2>3, ChangeOne
<1> QED
  BY <1>2, <1>3, <1>4 DEF Poll, PollIdle, PollHandshaking, PollExpired

LEMMA ChangeResponse ==
    ASSUME IInv, NEW n \in Nodes, NEW w \in Workers, NEW m \in net,
           HandleResponse(n, w, m)
    PROVE  \A x \in Nodes : Takes(state[x], state'[x], completed')
                              /\ Dials(state[x], state'[x])
<1>1. TypeOK /\ m \in Message
  BY DEF IInv, TypeOK
<1>2. m.key \in Keys
  BY <1>1 DEF HandleResponse, Message
<1>3. CASE UNCHANGED state
  BY <1>3, ChangeNone
<1>4. CASE /\ state' = [state EXCEPT ![n] = handle_response(n, state[n], m.key)]
           /\ completed' = IF state'[n].session = NewSlot(m.key)
                           THEN completed \cup {m.key} ELSE completed
  <2> DEFINE t == handle_response(n, state[n], m.key)
  <2>1. state'[n] = t
    BY <1>1, <1>4 DEF TypeOK
  <2>2. NewSlot(m.key).key = m.key
    BY <1>2, NewSlotType
  <2>3. Takes(state[n], t, completed')
    BY <1>4, <2>1, <2>2, IInvNode DEF Takes, handle_response, StateOK, State
  <2>4. Dials(state[n], t)
    BY IInvNode DEF Dials, handle_response, StateOK, State
  <2> QED
    BY <1>1, <1>4, <2>3, <2>4, ChangeOne
<1> QED
  BY <1>3, <1>4 DEF HandleResponse

LEMMA ChangeThread ==
    ASSUME IInv, NEW n \in Nodes, NEW w \in Workers,
           Adopt(n, w) \/ Promote(n, w)
    PROVE  \A x \in Nodes : Takes(state[x], state'[x], completed')
                              /\ Dials(state[x], state'[x])
<1> DEFINE d == work[n][w].slot
<1>0. TypeOK
  BY DEF IInv
<1>1. CASE Adopt(n, w)
  <2> DEFINE t == adopt_responder(state[n], d)
  <2>1. Takes(state[n], t, completed') /\ Dials(state[n], t)
    BY IInvNode DEF Takes, Dials, adopt_responder, StateOK, State
  <2> QED
    BY <1>0, <1>1, <2>1, ChangeOne DEF Adopt
<1>2. CASE Promote(n, w)
  <2> DEFINE t == promote(state[n], d)
  <2>1. d.key \in completed'
    BY <1>2 DEF Promote, IInv, Proven
  <2>2. Takes(state[n], t, completed') /\ Dials(state[n], t)
    BY <2>1, IInvNode DEF Takes, Dials, promote, StateOK, State
  <2> QED
    BY <1>0, <1>2, <2>2, ChangeOne DEF Promote
<1> QED
  BY <1>1, <1>2

LEMMA ChangeAdvance ==
    ASSUME IInv, Advance
    PROVE  \A x \in Nodes : Takes(state[x], state'[x], completed')
                              /\ Dials(state[x], state'[x])
<1> SUFFICES ASSUME NEW x \in Nodes
             PROVE  Takes(state[x], state'[x], completed') /\ Dials(state[x], state'[x])
  OBVIOUS
<1> DEFINE s == state[x]
<1>1. /\ s \in State /\ s.session \in Option(Slot) /\ s.hs \in Option(Handshake)
      /\ s.tag = "Established" => s.session # None
  BY IInvNode DEF StateOK, State
<1>2. /\ state'[x].tag = s.tag /\ state'[x].initiated = s.initiated
      /\ state'[x].session = Older(s.session, RejectAfter)
      /\ state'[x].hs = Older(s.hs, GiveUp)
  BY <1>1 DEF Advance, Aged, State
<1>3. s.session # None => Older(s.session, RejectAfter).key = s.session.key
  BY <1>1, OlderType
<1>4. Older(s.hs, GiveUp) # None => s.hs # None /\ Older(s.hs, GiveUp).init = s.hs.init
  BY <1>1, OlderHandshake
<1> QED
  BY <1>1, <1>2, <1>3, <1>4 DEF Takes, Dials

LEMMA ChangeStep ==
    ASSUME IInv, [Next]_vars
    PROVE  \A x \in Nodes : Takes(state[x], state'[x], completed')
                              /\ Dials(state[x], state'[x])
<1>1. CASE UNCHANGED state
  BY <1>1, ChangeNone
<1>2. ASSUME NEW n \in Nodes, Poll(n)
      PROVE  \A x \in Nodes : Takes(state[x], state'[x], completed')
                                /\ Dials(state[x], state'[x])
  BY <1>2, ChangePoll
<1>3. ASSUME NEW n \in Nodes, NEW w \in Workers, Adopt(n, w) \/ Promote(n, w)
      PROVE  \A x \in Nodes : Takes(state[x], state'[x], completed')
                                /\ Dials(state[x], state'[x])
  BY <1>3, ChangeThread
<1>4. ASSUME NEW n \in Nodes, NEW w \in Workers, NEW m \in net, HandleResponse(n, w, m)
      PROVE  \A x \in Nodes : Takes(state[x], state'[x], completed')
                                /\ Dials(state[x], state'[x])
  BY <1>4, ChangeResponse
<1>5. CASE Tick \/ LateTick
  BY <1>5, ChangeAdvance DEF Tick, LateTick
<1>6. ASSUME NEW n \in Nodes, Restart(n)
      PROVE  \A x \in Nodes : Takes(state[x], state'[x], completed')
                                /\ Dials(state[x], state'[x])
  <2>1. Idle.tag # "Established"
    BY DEF Idle
  <2> QED
    BY <1>6, <2>1, ChangeOne DEF Restart, Takes, Dials, IInv
<1>7. CASE \/ \E n \in Nodes : SendData(n)
           \/ \E n \in Nodes, w \in Workers, m \in net :
                RepeatResponse(n, w, m) \/ Respond(n, w, m) \/ OpenData(n, w, m)
           \/ \E m \in net : Lose(m)
           \/ UNCHANGED vars
  BY <1>1, <1>7 DEF SendData, RepeatResponse, Respond, OpenData, Lose, vars
<1> QED
  BY <1>2, <1>3, <1>4, <1>5, <1>6, <1>7 DEF Next

\* However threads, dials, retransmissions and restarts interleave, one
\* established session follows another only under keys whose initiator
\* completed the handshake: a HandshakeInit alone never displaces a session.
THEOREM Takeover == Spec => NoUnprovenTakeover
<1>1. Init => IInv
  BY IInvInit
<1>2. IInv /\ [Next]_vars => IInv'
  BY IInvNext
<1>3. IInv /\ [Next]_vars =>
        [\A n \in Nodes :
            IsEstablished(n) /\ IsEstablished(n)' =>
                \/ state[n].session.key = state'[n].session.key
                \/ state'[n].session.key \in completed']_vars
  BY ChangeStep DEF Takes, IsEstablished
<1> QED
  BY <1>1, <1>2, <1>3, PTL DEF Spec, NoUnprovenTakeover

\* Only the initiator of a session starts a handshake beside it, in every
\* interleaving: no promotion or tie-break turns an initiator with a rekey in
\* flight into a responder with one.
THEOREM InitiatorDials == Spec => OnlyInitiatorDials
<1>1. Init => IInv
  BY IInvInit
<1>2. IInv /\ [Next]_vars => IInv'
  BY IInvNext
<1>3. IInv /\ [Next]_vars =>
        [\A n \in Nodes :
            IsEstablished(n)' /\ ~state'[n].initiated /\ state'[n].hs # None =>
                /\ state[n].hs # None
                /\ state[n].hs.init = state'[n].hs.init
                /\ ~(IsEstablished(n) /\ state[n].initiated)]_vars
  BY ChangeStep DEF Dials, IsEstablished
<1> QED
  BY <1>1, <1>2, <1>3, PTL DEF Spec, OnlyInitiatorDials

-----------------------------------------------------------------------------
(***************************************************************************)
(* The age of the two ends' copies of one key set.  The copies a thread     *)
(* holds between two critical sections count as well: promote puts one back *)
(* into the session.                                                        *)
(***************************************************************************)
Copies(n) == Slots(n) \cup {t.slot : t \in Tasks(n)}

AgeInv ==
    \A n \in Nodes : \A s \in Copies(n), t \in Copies(Peer(n)) :
        s.key = t.key /\ Initiator(s.key) = n => t.age >= s.age

LEMMA CopyType ==
    ASSUME TypeOK, NEW n \in Nodes, NEW s \in Copies(n)
    PROVE  s \in Slot /\ s # None /\ s.key \in Keys /\ s.age \in Nat /\ s.key \in KeysHeld
<1>1. s \in Slot
  <2>1. CASE s \in Slots(n)
    BY <2>1, TypeOKState DEF Slots, StateOK, State, Option
  <2>2. CASE s \in {t.slot : t \in Tasks(n)}
    BY <2>2, TaskType DEF Tasks
  <2> QED
    BY <2>1, <2>2 DEF Copies
<1>2. s # None
  BY <1>1, NoneAssumption
<1>3. s.key \in Keys /\ s.age \in Nat
  BY <1>1, TimesAssumption DEF Slot
<1>4. s.key \in KeysHeld
  BY DEF Copies, KeysHeld
<1> QED
  BY <1>1, <1>2, <1>3, <1>4

LEMMA FewerCopies ==
    ASSUME AgeInv, \A x \in Nodes : Copies(x)' \subseteq Copies(x)
    PROVE  AgeInv'
<1> SUFFICES ASSUME NEW n \in Nodes, NEW s \in Copies(n)', NEW t \in Copies(Peer(n))',
                    s.key = t.key, Initiator(s.key) = n
             PROVE  t.age >= s.age
  BY DEF AgeInv
<1>1. s \in Copies(n) /\ t \in Copies(Peer(n))
  BY PeerNode
<1> QED
  BY <1>1 DEF AgeInv

\* One node's session state changes; threads only put work down.
LEMMA CopiesMove ==
    ASSUME TypeOK, NEW n \in Nodes, NEW t, state' = [state EXCEPT ![n] = t],
           {t.session, t.previous, t.pending} \ {None} \subseteq Copies(n),
           \A x \in Nodes, w \in Workers : work'[x][w] \in {work[x][w], None}
    PROVE  \A x \in Nodes : Copies(x)' \subseteq Copies(x)
<1> TAKE x \in Nodes
<1>1. \A k \in Tasks(x)' : k \in Tasks(x)
  BY DEF Tasks
<1>2. \A s \in Slots(x)' : s \in Copies(x)
  <2>1. CASE x = n
    <3>1. state'[x] = t
      BY <2>1 DEF TypeOK
    <3> QED
      BY <2>1, <3>1 DEF Slots
  <2>2. CASE x # n
    <3>1. state'[x] = state[x]
      BY <2>2 DEF TypeOK
    <3> QED
      BY <3>1 DEF Slots, Copies
  <2> QED
    BY <2>1, <2>2
<1> QED
  BY <1>1, <1>2 DEF Copies

LEMMA CopiesSame ==
    ASSUME UNCHANGED <<state, work>>
    PROVE  \A x \in Nodes : Copies(x)' \subseteq Copies(x)
BY DEF Copies, Slots, Tasks

LEMMA AgePoll ==
    ASSUME TypeOK, AgeInv, NEW n \in Nodes, Poll(n)
    PROVE  AgeInv'
<1>1. UNCHANGED work
  BY DEF Poll, PollIdle, PollHandshaking, PollExpired, PollEstablished, Polled
<1>2. CASE DialOrIdle(n)
  <2>1. PICK t : /\ t \in {Idle} \cup {Handshaking(h) : h \in Handshake}
                 /\ state' = [state EXCEPT ![n] = t]
    BY <1>2, FreshInitType, NewHandshakeType DEF DialOrIdle
  <2>2. t.session = None /\ t.previous = None /\ t.pending = None
    <3>1. CASE t = Idle
      BY <3>1 DEF Idle
    <3>2. ASSUME NEW h \in Handshake, t = Handshaking(h)
          PROVE  t.session = None /\ t.previous = None /\ t.pending = None
      BY <3>2 DEF Idle, Handshaking
    <3> QED
      BY <2>1, <3>1, <3>2
  <2> QED
    BY <1>1, <2>1, <2>2, CopiesMove, FewerCopies
<1>3. CASE UNCHANGED state
  BY <1>1, <1>3, CopiesSame, FewerCopies
<1>4. CASE PollEstablished(n)
  <2>1. PICK h \in Option(Handshake) :
          state' = [state EXCEPT ![n] = [Hygiene(state[n]) EXCEPT !.hs = h]]
    BY <1>4, PollEstablishedStep
  <2> DEFINE t == [Hygiene(state[n]) EXCEPT !.hs = h]
  <2>2. /\ t.session = state[n].session
        /\ t.previous \in {state[n].previous, None} /\ t.pending \in {state[n].pending, None}
    BY TypeOKState DEF StateOK, State, Hygiene, Unexpired
  <2> HIDE DEF t
  <2>3. {t.session, t.previous, t.pending} \ {None} \subseteq Copies(n)
    BY <2>2 DEF Copies, Slots
  <2>4. state' = [state EXCEPT ![n] = t]
    BY <2>1 DEF t
  <2> QED
    BY <1>1, <2>3, <2>4, CopiesMove, FewerCopies
<1> QED
  BY <1>2, <1>3, <1>4 DEF Poll, PollIdle, PollHandshaking, PollExpired

LEMMA AgeThread ==
    ASSUME TypeOK, AgeInv, NEW n \in Nodes, NEW w \in Workers, Adopt(n, w) \/ Promote(n, w)
    PROVE  AgeInv'
<1> DEFINE d == work[n][w].slot
<1>1. d \in Copies(n)
  BY DEF Adopt, Promote, Copies, Tasks
<1>2. \A x \in Nodes, v \in Workers : work'[x][v] \in {work[x][v], None}
  BY DEF Adopt, Promote, TypeOK
<1>3. StateOK(state[n])
  BY TypeOKState
<1> HIDE DEF d
<1>4. CASE state' = [state EXCEPT ![n] = adopt_responder(state[n], d)]
  <2> DEFINE t == adopt_responder(state[n], d)
  <2>1. /\ t.session \in {state[n].session, d} /\ t.previous \in {state[n].previous, None}
        /\ t.pending \in {d, None}
    BY <1>3 DEF adopt_responder, StateOK, State
  <2> HIDE DEF t
  <2>2. {t.session, t.previous, t.pending} \ {None} \subseteq Copies(n)
    BY <1>1, <2>1 DEF Copies, Slots
  <2> QED
    BY <1>2, <1>4, <2>2, CopiesMove, FewerCopies DEF t
<1>5. CASE state' = [state EXCEPT ![n] = promote(state[n], d)]
  <2> DEFINE t == promote(state[n], d)
  <2>1. /\ t.session \in {state[n].session, d}
        /\ t.previous \in {state[n].previous, state[n].session}
        /\ t.pending \in {state[n].pending, None}
    BY <1>3 DEF promote, StateOK, State
  <2> HIDE DEF t
  <2>2. {t.session, t.previous, t.pending} \ {None} \subseteq Copies(n)
    BY <1>1, <2>1 DEF Copies, Slots
  <2> QED
    BY <1>2, <1>5, <2>2, CopiesMove, FewerCopies DEF t
<1> QED
  BY <1>4, <1>5 DEF Adopt, Promote, d

LEMMA FreshKeyUnused ==
    ASSUME NEW i \in Inits, NEW k \in FreshKeys(i)
    PROVE  k \notin KeysHeld
<1>1. PICK r \in Least({x \in Ids : [init |-> i, resp |-> x] \notin KeysInUse}) :
        k = [init |-> i, resp |-> r]
  BY DEF FreshKeys
<1>2. k \notin KeysInUse
  BY <1>1 DEF Least
<1> QED
  BY <1>2 DEF KeysInUse

\* A new copy is the initiator's, or that of keys nobody has yet.
LEMMA OneNewCopy ==
    ASSUME TypeOK, AgeInv, NEW n \in Nodes, NEW d, d.age = 0,
           \/ Initiator(d.key) = n
           \/ Initiator(d.key) = Peer(n) /\ d.key \notin KeysHeld,
           Copies(n)' \subseteq Copies(n) \cup {d},
           Copies(Peer(n))' \subseteq Copies(Peer(n))
    PROVE  AgeInv'
<1> SUFFICES ASSUME NEW x \in Nodes, NEW s \in Copies(x)', NEW t \in Copies(Peer(x))',
                    s.key = t.key, Initiator(s.key) = x
             PROVE  t.age >= s.age
  BY DEF AgeInv
<1>1. Peer(n) \in Nodes /\ Peer(n) # n /\ Peer(Peer(n)) = n /\ (x = n \/ x = Peer(n))
  BY PeerNode, NodesAssumption DEF Peer, Nodes
<1>2. CASE s \in Copies(x) /\ t \in Copies(Peer(x))
  BY <1>2 DEF AgeInv
<1>3. CASE x = n /\ s = d
  <2>1. t \in Copies(Peer(n))
    BY <1>3
  <2>2. t.age \in Nat
    BY <1>1, <2>1, CopyType
  <2> QED
    BY <1>3, <2>2
<1>4. CASE x = Peer(n) /\ t = d
  <2>1. s \in Copies(Peer(n)) /\ Initiator(d.key) # n
    BY <1>1, <1>4
  <2>2. s.key \in KeysHeld
    BY <1>1, <2>1, CopyType
  <2> QED
    BY <1>4, <2>1, <2>2
<1> QED
  BY <1>1, <1>2, <1>3, <1>4

LEMMA AgeRespond ==
    ASSUME TypeOK, AgeInv, NEW n \in Nodes, NEW w \in Workers, NEW m \in net, Respond(n, w, m)
    PROVE  AgeInv'
<1>1. m.init \in Inits /\ m.init.from = Peer(n)
  BY DEF Respond, TypeOK, Message
<1>2. PICK k \in FreshKeys(m.init) :
        work' = [work EXCEPT ![n][w] = [step |-> "adopt", slot |-> NewSlot(k)]]
  BY DEF Respond
<1>3. k \in Keys /\ k.init = m.init /\ k \notin KeysHeld
  BY <1>1, FreshKeyType, FreshKeyUnused
<1>4. NewSlot(k).age = 0 /\ NewSlot(k).key = k /\ Initiator(k) = Peer(n)
  BY <1>1, <1>3 DEF NewSlot, Initiator
<1>5. \A x \in Nodes, v \in Workers :
        work'[x][v] = IF x = n /\ v = w THEN [step |-> "adopt", slot |-> NewSlot(k)] ELSE work[x][v]
  BY <1>2 DEF TypeOK
<1>6. UNCHANGED state
  BY DEF Respond
<1>7. Copies(n)' \subseteq Copies(n) \cup {NewSlot(k)}
  <2>1. \A c \in Tasks(n)' : c \in Tasks(n) \/ c.slot = NewSlot(k)
    BY <1>5 DEF Tasks
  <2> QED
    BY <1>6, <2>1 DEF Copies, Slots
<1>8. Copies(Peer(n))' \subseteq Copies(Peer(n))
  <2>1. Peer(n) \in Nodes /\ Peer(n) # n
    BY PeerNode
  <2>2. \A c \in Tasks(Peer(n))' : c \in Tasks(Peer(n))
    BY <1>5, <2>1 DEF Tasks
  <2> QED
    BY <1>6, <2>2 DEF Copies, Slots
<1> QED
  BY <1>3, <1>4, <1>7, <1>8, OneNewCopy

LEMMA AgeResponse ==
    ASSUME TypeOK, AgeInv, NEW n \in Nodes, NEW w \in Workers, NEW m \in net,
           HandleResponse(n, w, m)
    PROVE  AgeInv'
<1>1. m.key \in Keys /\ Initiator(m.key) = n /\ UNCHANGED work
  BY DEF HandleResponse, TypeOK, Message
<1>2. CASE UNCHANGED state
  BY <1>1, <1>2, CopiesSame, FewerCopies
<1>3. CASE state' = [state EXCEPT ![n] = handle_response(n, state[n], m.key)]
  <2> DEFINE t == handle_response(n, state[n], m.key)
             d == NewSlot(m.key)
  <2>1. d.age = 0 /\ d.key = m.key
    BY DEF NewSlot
  <2> HIDE DEF d
  <2>2. /\ t.session \in {state[n].session, d} /\ t.pending = state[n].pending
        /\ t.previous \in {state[n].previous, state[n].session}
    BY TypeOKState DEF handle_response, StateOK, State, d
  <2> HIDE DEF t
  <2>3. state'[n] = t /\ Peer(n) # n /\ state'[Peer(n)] = state[Peer(n)]
    BY <1>3, PeerNode DEF TypeOK, t
  <2>4. \A s \in Slots(n)' : s \in Slots(n) \/ s = d
    BY <2>2, <2>3 DEF Slots
  <2>5. Copies(n)' \subseteq Copies(n) \cup {d}
    BY <1>1, <2>4 DEF Copies, Tasks
  <2>6. Copies(Peer(n))' \subseteq Copies(Peer(n))
    BY <1>1, <2>3 DEF Copies, Tasks, Slots
  <2> QED
    BY <1>1, <2>1, <2>5, <2>6, OneNewCopy
<1> QED
  BY <1>2, <1>3 DEF HandleResponse

LEMMA AgeOpenData ==
    ASSUME TypeOK, AgeInv, NEW n \in Nodes, NEW w \in Workers, NEW m \in net, OpenData(n, w, m)
    PROVE  AgeInv'
<1>1. UNCHANGED state
  BY DEF OpenData
<1>2. CASE UNCHANGED work
  BY <1>1, <1>2, CopiesSame, FewerCopies
<1>3. CASE /\ state[n].pending # None
           /\ work' = [work EXCEPT ![n][w] = [step |-> "promote", slot |-> state[n].pending]]
  <2> DEFINE d == state[n].pending
  <2>1. d \in Slots(n)
    BY <1>3 DEF Slots
  <2>2. \A x \in Nodes, v \in Workers :
          work'[x][v] = IF x = n /\ v = w THEN [step |-> "promote", slot |-> d] ELSE work[x][v]
    BY <1>3 DEF TypeOK
  <2> HIDE DEF d
  <2>3. \A x \in Nodes : \A c \in Tasks(x)' : c \in Tasks(x) \/ (x = n /\ c.slot = d)
    BY <2>2 DEF Tasks
  <2>4. \A x \in Nodes : Copies(x)' \subseteq Copies(x)
    BY <1>1, <2>1, <2>3 DEF Copies, Slots
  <2> QED
    BY <2>4, FewerCopies
<1> QED
  BY <1>2, <1>3 DEF OpenData

LEMMA OlderAge ==
    ASSUME NEW s \in Slot
    PROVE  /\ Older(s, RejectAfter).key = s.key
           /\ Older(s, RejectAfter).age = Min(s.age + 1, RejectAfter)
<1>1. s # None
  BY NoneAssumption
<1> QED
  BY <1>1 DEF Older, Slot

LEMMA AgeAdvance ==
    ASSUME TypeOK, AgeInv, Advance
    PROVE  AgeInv'
<1>1. ASSUME NEW x \in Nodes, NEW s \in Copies(x)'
      PROVE  \E c \in Copies(x) : s = Older(c, RejectAfter)
  <2>1. CASE s \in Slots(x)'
    <3>1. /\ state'[x].session = Older(state[x].session, RejectAfter)
          /\ state'[x].pending = Older(state[x].pending, RejectAfter)
          /\ state'[x].previous = Older(state[x].previous, RejectAfter)
      BY TypeOKState DEF Advance, Aged, StateOK, State
    <3>2. PICK c \in {state[x].session, state[x].pending, state[x].previous} :
            s = Older(c, RejectAfter) /\ s # None
      BY <2>1, <3>1 DEF Slots
    <3>3. c # None
      BY <3>2 DEF Older
    <3> QED
      BY <3>2, <3>3 DEF Copies, Slots
  <2>2. CASE s \in {t.slot : t \in Tasks(x)'}
    <3>1. PICK w \in Workers : work'[x][w] # None /\ s = work'[x][w].slot
      BY <2>2 DEF Tasks
    <3>2. /\ work[x][w] # None
          /\ work'[x][w] = [work[x][w] EXCEPT !.slot = Older(work[x][w].slot, RejectAfter)]
      BY <3>1 DEF Advance
    <3>3. work[x][w] \in Task
      BY <3>2, TaskType
    <3>4. s = Older(work[x][w].slot, RejectAfter)
      BY <3>1, <3>2, <3>3 DEF Task
    <3>5. work[x][w].slot \in Copies(x)
      BY <3>2 DEF Copies, Tasks
    <3> QED
      BY <3>4, <3>5
  <2> QED
    BY <2>1, <2>2 DEF Copies
<1> SUFFICES ASSUME NEW n \in Nodes, NEW s \in Copies(n)', NEW t \in Copies(Peer(n))',
                    s.key = t.key, Initiator(s.key) = n
             PROVE  t.age >= s.age
  BY DEF AgeInv
<1>2. Peer(n) \in Nodes
  BY PeerNode
<1>3. PICK c \in Copies(n) : s = Older(c, RejectAfter)
  BY <1>1
<1>4. PICK e \in Copies(Peer(n)) : t = Older(e, RejectAfter)
  BY <1>1, <1>2
<1>5. c \in Slot /\ e \in Slot /\ c.age \in Nat /\ e.age \in Nat
  BY <1>2, CopyType
<1>6. /\ s.key = c.key /\ t.key = e.key
      /\ s.age = Min(c.age + 1, RejectAfter) /\ t.age = Min(e.age + 1, RejectAfter)
  BY <1>3, <1>4, <1>5, OlderAge
<1>7. e.age >= c.age
  BY <1>6 DEF AgeInv
<1> QED
  BY <1>5, <1>6, <1>7, TimesAssumption DEF Min

LEMMA AgeNext == TypeOK /\ AgeInv /\ [Next]_vars => AgeInv'
<1> SUFFICES ASSUME TypeOK, AgeInv, [Next]_vars PROVE AgeInv'
  OBVIOUS
<1>1. CASE UNCHANGED <<state, work>>
  BY <1>1, CopiesSame, FewerCopies
<1>2. ASSUME NEW n \in Nodes, Poll(n) PROVE AgeInv'
  BY <1>2, AgePoll
<1>3. ASSUME NEW n \in Nodes, NEW w \in Workers, Adopt(n, w) \/ Promote(n, w) PROVE AgeInv'
  BY <1>3, AgeThread
<1>4. ASSUME NEW n \in Nodes, NEW w \in Workers, NEW m \in net, Respond(n, w, m) PROVE AgeInv'
  BY <1>4, AgeRespond
<1>5. ASSUME NEW n \in Nodes, NEW w \in Workers, NEW m \in net, HandleResponse(n, w, m)
      PROVE  AgeInv'
  BY <1>5, AgeResponse
<1>6. ASSUME NEW n \in Nodes, NEW w \in Workers, NEW m \in net, OpenData(n, w, m) PROVE AgeInv'
  BY <1>6, AgeOpenData
<1>7. CASE Tick \/ LateTick
  BY <1>7, AgeAdvance DEF Tick, LateTick
<1>8. ASSUME NEW n \in Nodes, Restart(n) PROVE AgeInv'
  <2>1. /\ state' = [state EXCEPT ![n] = Idle]
        /\ \A x \in Nodes, w \in Workers : work'[x][w] \in {work[x][w], None}
    BY <1>8 DEF Restart, TypeOK
  <2>2. Idle.session = None /\ Idle.previous = None /\ Idle.pending = None
    BY DEF Idle
  <2> QED
    BY <2>1, <2>2, CopiesMove, FewerCopies
<1>9. CASE \/ \E n \in Nodes : SendData(n)
           \/ \E n \in Nodes, w \in Workers, m \in net : RepeatResponse(n, w, m)
           \/ \E m \in net : Lose(m)
           \/ UNCHANGED vars
  BY <1>1, <1>9 DEF SendData, RepeatResponse, Lose, vars
<1> QED
  BY <1>2, <1>3, <1>4, <1>5, <1>6, <1>7, <1>8, <1>9 DEF Next

\* ResponderExpiresFirst: through adoption, promotion, rekeys, late polls,
\* duplicates and restarts the responder's copy of a key set is never younger
\* than the initiator's.
THEOREM ResponderIsOlder == Spec => []ResponderExpiresFirst
<1>1. Init => AgeInv
  <2> SUFFICES ASSUME Init, NEW n \in Nodes PROVE Copies(n) = {}
    BY DEF AgeInv
  <2>1. Slots(n) = {}
    BY DEF Init, Slots, Idle
  <2>2. Tasks(n) = {}
    BY DEF Init, Tasks
  <2> QED
    BY <2>1, <2>2 DEF Copies
<1>2. AgeInv => ResponderExpiresFirst
  BY DEF AgeInv, ResponderExpiresFirst, Copies
<1> QED
  BY <1>1, <1>2, AgeNext, Typing, PTL DEF Spec
=============================================================================
