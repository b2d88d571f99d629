----------------------- MODULE TransportSessionProofs -----------------------
(***************************************************************************)
(* The replay window of a transport session accepts every counter at most  *)
(* once and refuses only replays, for every window size, every number of   *)
(* threads and every order of arrival.                                     *)
(***************************************************************************)
EXTENDS TransportSession, TLAPS

Bitmap == [Words -> SUBSET Bit]

-----------------------------------------------------------------------------
(* What the operations on the bitmap do to the offset they are about. *)

LEMMA Offset ==
    ASSUME NEW p \in Nat
    PROVE  /\ p \div 64 \in Nat /\ p % 64 \in Bit
           /\ p = 64 * (p \div 64) + (p % 64)
<1>1. p \div 64 \in Nat
  OBVIOUS
<1>2. p % 64 = p - 64 * (p \div 64)
  OBVIOUS
<1>3. p % 64 \in Bit
  BY DEF Bit
<1> QED
  BY <1>1, <1>2, <1>3 DEF Bit

\* The word and bit of an offset are unique.
LEMMA OffsetUnique ==
    ASSUME NEW p \in Nat, NEW q \in Nat, NEW b \in Bit, p = 64 * q + b
    PROVE  p \div 64 = q /\ p % 64 = b
BY DEF Bit

LEMMA WordOf ==
    ASSUME NEW p \in Nat
    PROVE  p < REPLAY_WINDOW <=> p \div 64 \in Words
BY WordsAssumption, Offset DEF Words, REPLAY_WINDOW, Bit

LEMMA EmptyBitmap ==
    /\ [i \in Words |-> {}] \in Bitmap
    /\ \A p \in Nat : ~get([i \in Words |-> {}], p)
BY DEF Bitmap, get

LEMMA SetBit ==
    ASSUME NEW bits \in Bitmap, NEW i \in Nat, i < REPLAY_WINDOW
    PROVE  /\ set(bits, i) \in Bitmap
           /\ \A p \in Nat : get(set(bits, i), p) <=> get(bits, p) \/ p = i
<1>1. i \div 64 \in Words /\ i % 64 \in Bit
  BY Offset, WordOf
<1>2. set(bits, i) = [bits EXCEPT ![i \div 64] = @ \cup {i % 64}]
  BY <1>1 DEF set
<1>3. set(bits, i) \in Bitmap
  BY <1>1, <1>2 DEF Bitmap
<1>4. ASSUME NEW p \in Nat
      PROVE  get(set(bits, i), p) <=> get(bits, p) \/ p = i
  <2>1. p = i <=> p \div 64 = i \div 64 /\ p % 64 = i % 64
    BY Offset
  <2>2. CASE p \div 64 = i \div 64
    BY <1>1, <1>2, <2>1, <2>2 DEF get, Bitmap
  <2>3. CASE p \div 64 # i \div 64
    BY <1>1, <1>2, <2>1, <2>3 DEF get, Bitmap
  <2> QED
    BY <2>2, <2>3
<1> QED
  BY <1>3, <1>4

\* shift_by moves the bit at every offset by shift, across word boundaries.
LEMMA ShiftBits ==
    ASSUME NEW bits \in Bitmap, NEW shift \in Nat
    PROVE  /\ shift_by(bits, shift) \in Bitmap
           /\ \A p \in 0..(REPLAY_WINDOW - 1) :
                get(shift_by(bits, shift), p) <=> p >= shift /\ get(bits, p - shift)
<1> DEFINE words == shift \div 64
           k == shift % 64
           word(i) == IF i < words THEN {}
                      ELSE shl(bits[i - words], k) \cup
                           (IF k > 0 /\ i > words THEN shr(bits[i - words - 1], 64 - k)
                            ELSE {})
<1>1. words \in Nat /\ k \in Bit /\ shift = 64 * words + k
  BY Offset
<1>2. shift_by(bits, shift) = [i \in Words |-> word(i)]
  BY DEF shift_by
<1>3. \A i \in Words : word(i) \subseteq Bit
  BY DEF shl, shr
<1>4. shift_by(bits, shift) \in Bitmap
  BY <1>2, <1>3 DEF Bitmap
<1>5. ASSUME NEW p \in 0..(REPLAY_WINDOW - 1)
      PROVE  get(shift_by(bits, shift), p) <=> p >= shift /\ get(bits, p - shift)
  <2> DEFINE i == p \div 64
             b == p % 64
  <2>0. REPLAY_WINDOW \in Nat
    BY WordsAssumption DEF REPLAY_WINDOW
  <2>1. p \in Nat /\ i \in Words /\ i \in Nat /\ b \in Bit /\ p = 64 * i + b
    BY <2>0, Offset, WordOf
  <2>2. get(shift_by(bits, shift), p) <=> b \in word(i)
    BY <1>2, <2>1 DEF get
  <2> HIDE DEF i, b
  <2>3. CASE i < words
    BY <1>1, <2>1, <2>2, <2>3 DEF Bit
  <2>4. CASE i >= words /\ b >= k
    <3>1. p >= shift /\ p - shift = 64 * (i - words) + (b - k)
      BY <1>1, <2>1, <2>4 DEF Bit
    <3>2. p - shift \in Nat /\ i - words \in Nat /\ b - k \in Bit
      BY <1>1, <2>1, <2>4, <3>1 DEF Bit
    <3>3. (p - shift) \div 64 = i - words /\ (p - shift) % 64 = b - k
      BY <3>1, <3>2, OffsetUnique
    <3>4. i - words \in Words
      BY <1>1, <2>1, <2>4, WordsAssumption DEF Words
    <3>5. get(bits, p - shift) <=> b - k \in bits[i - words]
      BY <3>3, <3>4 DEF get
    <3>6. b \in shl(bits[i - words], k) <=> b - k \in bits[i - words]
      BY <2>1, <2>4 DEF shl
    <3>7. b \notin shr(bits[i - words - 1], 64 - k) \/ ~(k > 0 /\ i > words)
      <4>1. i > words => i - words - 1 \in Words
        BY <1>1, <2>1, WordsAssumption DEF Words
      <4>2. i > words => bits[i - words - 1] \subseteq Bit
        BY <4>1 DEF Bitmap
      <4>3. b + (64 - k) \notin Bit
        BY <1>1, <2>1, <2>4 DEF Bit
      <4> QED
        BY <4>2, <4>3 DEF shr
    <3>8. b \in word(i) <=> b \in shl(bits[i - words], k)
      BY <1>1, <2>1, <2>4, <3>7
    <3> QED
      BY <2>2, <3>1, <3>5, <3>6, <3>8
  <2>5. CASE i = words /\ b < k
    <3>1. ~(p >= shift)
      BY <1>1, <2>1, <2>5 DEF Bit
    <3>2. b \notin word(i)
      BY <1>1, <2>1, <2>5 DEF shl, Bit
    <3> QED
      BY <2>2, <3>1, <3>2
  <2>6. CASE i > words /\ b < k
    <3>1. p >= shift /\ p - shift = 64 * (i - words - 1) + (b + (64 - k))
      BY <1>1, <2>1, <2>6 DEF Bit
    <3>2. p - shift \in Nat /\ i - words - 1 \in Nat /\ b + (64 - k) \in Bit
      BY <1>1, <2>1, <2>6, <3>1 DEF Bit
    <3>3. (p - shift) \div 64 = i - words - 1 /\ (p - shift) % 64 = b + (64 - k)
      BY <3>1, <3>2, OffsetUnique
    <3>4. i - words - 1 \in Words
      BY <1>1, <2>1, <2>6, WordsAssumption DEF Words
    <3>5. get(bits, p - shift) <=> b + (64 - k) \in bits[i - words - 1]
      BY <3>3, <3>4 DEF get
    <3>6. b \notin shl(bits[i - words], k)
      BY <1>1, <2>1, <2>6 DEF shl, Bit
    <3>7. b \in shr(bits[i - words - 1], 64 - k) <=> b + (64 - k) \in bits[i - words - 1]
      BY <2>1 DEF shr
    <3>8. k > 0 /\ ~(i < words)
      BY <1>1, <2>1, <2>6 DEF Bit
    <3>9. b \in word(i) <=> b \in shr(bits[i - words - 1], 64 - k)
      BY <2>6, <3>6, <3>8
    <3> QED
      BY <2>2, <3>1, <3>5, <3>7, <3>9
  <2> QED
    BY <1>1, <2>1, <2>3, <2>4, <2>5, <2>6 DEF Bit
<1> QED
  BY <1>4, <1>5

-----------------------------------------------------------------------------
(***************************************************************************)
(* The inductive invariant: the bitmap is the delivered counters of the    *)
(* last REPLAY_WINDOW (WindowExact), no delivered counter lies beyond the   *)
(* window's head, and each was delivered once.                             *)
(***************************************************************************)
Exact(w, D) ==
    \A p \in 0..(REPLAY_WINDOW - 1) :
        get(w.bits, p) <=> p <= w.highest /\ w.highest - p \in D
Below(w, D) == \A c \in D : c <= w.highest

IInv ==
    /\ TypeOK
    /\ WindowExact
    /\ Below(window, DOMAIN host)
    /\ AtMostOnce

\* Recording a counter that the window admits.
LEMMA Recorded ==
    ASSUME NEW w \in ReplayWindow, NEW D \in SUBSET Nat, NEW c \in Nat,
           NEW v, v = accept(w, c),
           Exact(w, D), Below(w, D), Admits(w, c)
    PROVE  /\ v \in ReplayWindow /\ v.highest \in {w.highest, c}
           /\ c \notin D /\ Exact(v, D \cup {c}) /\ Below(v, D \cup {c})
<1> USE DEF Exact, Below
<1>0. REPLAY_WINDOW \in Nat /\ 0 < REPLAY_WINDOW
  BY WordsAssumption DEF REPLAY_WINDOW
<1>1. w.bits \in Bitmap /\ w.highest \in Nat
  BY DEF ReplayWindow, Bitmap
<1>2. CASE c > w.highest
  <2> DEFINE shift == c - w.highest
             slid == IF shift >= REPLAY_WINDOW THEN [i \in Words |-> {}]
                     ELSE shift_by(w.bits, shift)
  <2>1. v = [highest |-> c, bits |-> set(slid, 0)]
    BY <1>2 DEF accept
  <2>2. shift \in Nat /\ shift > 0
    BY <1>1, <1>2
  <2>3. slid \in Bitmap
    BY <1>1, <2>2, EmptyBitmap, ShiftBits
  <2>4. \A p \in 0..(REPLAY_WINDOW - 1) :
          get(slid, p) <=> p >= shift /\ get(w.bits, p - shift)
    <3>1. CASE shift >= REPLAY_WINDOW
      BY <1>0, <2>2, <3>1, EmptyBitmap
    <3>2. CASE ~(shift >= REPLAY_WINDOW)
      BY <1>1, <2>2, <3>2, ShiftBits
    <3> QED
      BY <3>1, <3>2
  <2> HIDE DEF slid
  <2>5. set(slid, 0) \in Bitmap
    BY <1>0, <2>3, SetBit
  <2>6. \A p \in Nat : get(set(slid, 0), p) <=> get(slid, p) \/ p = 0
    BY <1>0, <2>3, SetBit
  <2>7. v \in ReplayWindow /\ v.highest = c /\ v.bits = set(slid, 0)
    BY <2>1, <2>5 DEF ReplayWindow, Bitmap
  <2>8. ASSUME NEW p \in 0..(REPLAY_WINDOW - 1)
        PROVE  get(v.bits, p) <=> p <= c /\ c - p \in D \cup {c}
    <3>1. CASE p = 0
      BY <2>6, <2>7, <3>1
    <3>2. CASE p # 0 /\ p < shift
      <4>1. ~get(v.bits, p)
        BY <1>0, <2>2, <2>4, <2>6, <2>7, <3>2
      <4>2. p <= c /\ c - p > w.highest /\ c - p # c
        BY <1>0, <1>1, <1>2, <3>2
      <4> QED
        BY <1>1, <4>1, <4>2
    <3>3. CASE p # 0 /\ p >= shift
      <4>1. p - shift \in 0..(REPLAY_WINDOW - 1)
        BY <1>0, <2>2, <3>3
      <4>2. get(v.bits, p) <=> get(w.bits, p - shift)
        BY <1>0, <2>4, <2>6, <2>7, <3>3
      <4>3. get(w.bits, p - shift) <=>
              p - shift <= w.highest /\ w.highest - (p - shift) \in D
        BY <4>1
      <4>4. /\ w.highest - (p - shift) = c - p
            /\ p - shift <= w.highest <=> p <= c
            /\ c - p # c
        BY <1>0, <1>1, <3>3
      <4> QED
        BY <4>2, <4>3, <4>4
    <3> QED
      BY <1>0, <2>2, <3>1, <3>2, <3>3
  <2> QED
    BY <1>1, <1>2, <2>7, <2>8
<1>3. CASE ~(c > w.highest)
  <2> DEFINE back == w.highest - c
  <2>1. back \in Nat /\ back < REPLAY_WINDOW /\ ~get(w.bits, back)
    BY <1>1, <1>3 DEF Admits
  <2>2. v = [w EXCEPT !.bits = set(w.bits, back)]
    BY <1>3 DEF accept
  <2>3. set(w.bits, back) \in Bitmap
    BY <1>1, <2>1, SetBit
  <2>4. v \in ReplayWindow /\ v.highest = w.highest /\ v.bits = set(w.bits, back)
    BY <2>2, <2>3 DEF ReplayWindow, Bitmap
  <2>5. \A p \in Nat : get(v.bits, p) <=> get(w.bits, p) \/ p = back
    BY <1>1, <2>1, <2>4, SetBit
  <2>6. c \notin D
    BY <1>0, <1>1, <1>3, <2>1
  <2>7. ASSUME NEW p \in 0..(REPLAY_WINDOW - 1)
        PROVE  get(v.bits, p) <=> p <= w.highest /\ w.highest - p \in D \cup {c}
    <3>1. p = back <=> p <= w.highest /\ w.highest - p = c
      BY <1>0, <1>1, <1>3
    <3> QED
      BY <1>0, <2>5, <3>1
  <2> QED
    BY <1>1, <1>3, <2>4, <2>6, <2>7
<1> QED
  BY <1>2, <1>3

LEMMA IInvInit == Init => IInv
<1> SUFFICES ASSUME Init
             PROVE  IInv
  OBVIOUS
<1>1. window.highest = 0 /\ window.bits = [i \in Words |-> {}]
  BY DEF Init
<1>2. REPLAY_WINDOW \in Nat
  BY WordsAssumption DEF REPLAY_WINDOW
<1>3. window \in ReplayWindow
  BY EmptyBitmap DEF Init, ReplayWindow, Bitmap
<1>4. DOMAIN host = {} /\ {opening[o].counter : o \in {x \in Openers : opening[x] # None}} = {}
  BY DEF Init
<1>5. TypeOK
  <2>1. send_counter \in 0..MaxCounter /\ window.highest <= MaxCounter
    BY <1>1, CounterAssumption DEF Init
  <2>2. opening \in [Openers -> Opening \cup {None}] /\ expired \in BOOLEAN
    BY DEF Init
  <2>3. net \subseteq 0..MaxCounter
    BY DEF Init
  <2> QED
    BY <1>3, <1>4, <2>1, <2>2, <2>3 DEF TypeOK
<1>6. ASSUME NEW p \in 0..(REPLAY_WINDOW - 1)
      PROVE  ~get(window.bits, p)
  BY <1>1, <1>2, EmptyBitmap
<1>7. WindowExact
  BY <1>4, <1>6 DEF WindowExact
<1> QED
  BY <1>4, <1>5, <1>7 DEF IInv, AtMostOnce, Below

LEMMA NetType == TypeOK => net \subseteq Nat
BY CounterAssumption DEF TypeOK

\* Steps that neither deliver nor touch the window.
LEMMA IInvQuiet ==
    ASSUME IInv, TypeOK', UNCHANGED <<window, host>>
    PROVE  IInv'
BY DEF IInv, WindowExact, AtMostOnce, Below

\* What finishing an undamaged message does.
LEMMA FinishStep ==
    ASSUME IInv, NEW o \in Openers, Finish(o), opening[o].intact
    PROVE  LET c == opening[o].counter IN
           /\ c \in net /\ c \in Nat
           /\ Admits(window, c) => c \notin DOMAIN host /\ host' = Delivered(c)
           /\ ~Admits(window, c) =>
                /\ UNCHANGED <<window, host>>
                /\ c \in DOMAIN host \/ c + REPLAY_WINDOW <= window.highest
<1> DEFINE c == opening[o].counter
<1>1. c \in net /\ c \in Nat
  BY NetType DEF Finish, IInv, TypeOK
<1>2. window \in ReplayWindow /\ window.highest \in Nat /\ DOMAIN host \subseteq Nat
  BY NetType DEF IInv, TypeOK, ReplayWindow
<1>3. REPLAY_WINDOW \in Nat
  BY WordsAssumption DEF REPLAY_WINDOW
<1>4. CASE Admits(window, c)
  <2>1. Exact(window, DOMAIN host) /\ Below(window, DOMAIN host)
    BY DEF IInv, WindowExact, Exact
  <2>2. c \notin DOMAIN host
    BY <1>1, <1>2, <1>4, <2>1, Recorded
  <2> QED
    BY <1>1, <1>4, <2>2 DEF Finish
<1>5. CASE ~Admits(window, c)
  <2>1. UNCHANGED <<window, host>>
    BY <1>5 DEF Finish, accept
  <2>2. ~(c > window.highest)
    BY <1>5 DEF Admits
  <2>3. CASE window.highest - c < REPLAY_WINDOW
    <3>1. get(window.bits, window.highest - c)
      BY <1>5, <2>3 DEF Admits
    <3>2. window.highest - c \in 0..(REPLAY_WINDOW - 1)
      BY <1>1, <1>2, <1>3, <2>2, <2>3
    <3>3. window.highest - (window.highest - c) \in DOMAIN host
      BY <3>1, <3>2 DEF IInv, WindowExact
    <3> QED
      BY <1>1, <1>2, <1>5, <2>1, <3>3
  <2>4. CASE ~(window.highest - c < REPLAY_WINDOW)
    BY <1>1, <1>2, <1>3, <1>5, <2>1, <2>4
  <2> QED
    BY <2>3, <2>4
<1> QED
  BY <1>4, <1>5

LEMMA IInvFinish ==
    ASSUME IInv, NEW o \in Openers, Finish(o)
    PROVE  IInv'
<1> DEFINE c == opening[o].counter
<1>1. /\ UNCHANGED <<send_counter, net, expired>>
      /\ opening' = [opening EXCEPT ![o] = None]
  BY DEF Finish
<1>2. /\ opening' \in [Openers -> Opening \cup {None}]
      /\ \A x \in Openers : opening'[x] # None => opening'[x] = opening[x]
  BY <1>1 DEF IInv, TypeOK
<1>3. CASE UNCHANGED <<window, host>>
  <2>1. TypeOK'
    BY <1>1, <1>2, <1>3 DEF IInv, TypeOK
  <2> QED
    BY <1>3, <2>1, IInvQuiet
<1>4. CASE opening[o].intact /\ Admits(window, c)
  <2>1. c \in net /\ c \in Nat /\ c \notin DOMAIN host /\ host' = Delivered(c)
    BY <1>4, FinishStep
  <2>2. DOMAIN host' = DOMAIN host \cup {c} /\ DOMAIN host' \subseteq net
    BY <2>1 DEF Delivered, IInv, TypeOK
  <2>3. AtMostOnce'
    BY <2>1, <2>2 DEF IInv, AtMostOnce, Delivered
  <2>4. window' = accept(window, c)
    BY <1>4 DEF Finish
  <2>5. window \in ReplayWindow /\ DOMAIN host \subseteq Nat
    BY NetType DEF IInv, TypeOK
  <2>6. Exact(window, DOMAIN host) /\ Below(window, DOMAIN host)
    BY DEF IInv, WindowExact, Exact
  <2>7. /\ window' \in ReplayWindow /\ window'.highest \in {window.highest, c}
        /\ Exact(window', DOMAIN host \cup {c}) /\ Below(window', DOMAIN host \cup {c})
    BY <1>4, <2>1, <2>4, <2>5, <2>6, Recorded
  <2>8. window'.highest <= MaxCounter
    BY <2>1, <2>7 DEF IInv, TypeOK
  <2>9. TypeOK'
    BY <1>1, <1>2, <2>2, <2>7, <2>8 DEF IInv, TypeOK
  <2>10. WindowExact'
    BY <2>2, <2>7 DEF WindowExact, Exact
  <2> QED
    BY <2>2, <2>3, <2>7, <2>9, <2>10 DEF IInv, Below
<1> QED
  BY <1>3, <1>4, FinishStep DEF Finish

LEMMA IInvNext == IInv /\ [Next]_vars => IInv'
<1> SUFFICES ASSUME IInv, [Next]_vars
             PROVE  IInv'
  OBVIOUS
<1>0. TypeOK
  BY DEF IInv
<1>1. CASE Seal
  <2>1. TypeOK'
    BY <1>0, <1>1, CounterAssumption DEF Seal, TypeOK
  <2> QED
    BY <1>1, <2>1, IInvQuiet DEF Seal
<1>2. ASSUME NEW n \in Bursts, LostBurst(n)
      PROVE  IInv'
  <2>1. TypeOK'
    BY <1>0, <1>2, CounterAssumption DEF LostBurst, TypeOK
  <2> QED
    BY <1>2, <2>1, IInvQuiet DEF LostBurst
<1>3. ASSUME NEW o \in Openers, NEW c \in net, NEW intact \in BOOLEAN, Open(o, c, intact)
      PROVE  IInv'
  <2>1. [counter |-> c, intact |-> intact] \in Opening
    BY <1>0, NetType DEF Opening
  <2>2. TypeOK'
    BY <1>0, <1>3, <2>1 DEF Open, TypeOK
  <2> QED
    BY <1>3, <2>2, IInvQuiet DEF Open
<1>4. ASSUME NEW o \in Openers, Finish(o)
      PROVE  IInv'
  BY <1>4, IInvFinish
<1>5. CASE Expire
  <2>1. TypeOK'
    BY <1>0, <1>5 DEF Expire, TypeOK
  <2> QED
    BY <1>5, <2>1, IInvQuiet DEF Expire
<1>6. CASE UNCHANGED vars
  <2>1. TypeOK'
    BY <1>0, <1>6 DEF vars, TypeOK
  <2> QED
    BY <1>6, <2>1, IInvQuiet DEF vars
<1> QED
  BY <1>1, <1>2, <1>3, <1>4, <1>5, <1>6 DEF Next

-----------------------------------------------------------------------------
\* Every variable keeps its type; a thread's message, the window's bitmap and the
\* host's counts among them (TransportSession::open, ReplayWindow).
THEOREM TypeCorrect == Spec => []TypeOK
<1>1. IInv => TypeOK
  BY DEF IInv
<1> QED
  BY <1>1, IInvInit, IInvNext, PTL DEF Spec

\* For every window size and any number of threads: however a session's
\* messages are repeated, delayed and reordered, no payload is delivered twice.
THEOREM DeliveredAtMostOnce == Spec => []AtMostOnce
<1>1. IInv => AtMostOnce
  BY DEF IInv
<1> QED
  BY <1>1, IInvInit, IInvNext, PTL DEF Spec

\* For every window size the bitmap after any sequence of slides is exactly the
\* delivered counters among the last REPLAY_WINDOW.
THEOREM WindowIsExact == Spec => []WindowExact
<1>1. IInv => WindowExact
  BY DEF IInv
<1> QED
  BY <1>1, IInvInit, IInvNext, PTL DEF Spec

\* An undamaged message is refused only when it was delivered before or fell
\* out of the window.
THEOREM RefusesOnlyReplays == Spec => OnlyReplaysRefused
<1>1. IInv /\ [Next]_vars =>
        [\A o \in Openers :
            LET t == opening[o] IN
            t # None /\ opening'[o] = None /\ t.intact /\ host' = host =>
                \/ t.counter \in DOMAIN host
                \/ t.counter + REPLAY_WINDOW <= window.highest]_vars
  <2> SUFFICES ASSUME IInv, Next, NEW o \in Openers, opening[o] # None,
                      opening'[o] = None, opening[o].intact, host' = host
               PROVE  \/ opening[o].counter \in DOMAIN host
                      \/ opening[o].counter + REPLAY_WINDOW <= window.highest
    BY DEF vars
  <2> DEFINE c == opening[o].counter
  <2>1. Finish(o)
    BY NoneAssumption
       DEF Next, Seal, LostBurst, Open, Finish, Expire, IInv, TypeOK
  <2>2. CASE Admits(window, c)
    <3>1. c \notin DOMAIN host /\ host' = Delivered(c)
      BY <2>1, <2>2, FinishStep
    <3>2. c \in DOMAIN host'
      BY <3>1 DEF Delivered
    <3> QED
      BY <3>1, <3>2
  <2>3. CASE ~Admits(window, c)
    BY <2>1, <2>3, FinishStep
  <2> QED
    BY <2>2, <2>3
<1> QED
  BY <1>1, IInvInit, IInvNext, PTL DEF Spec, OnlyReplaysRefused
=============================================================================
