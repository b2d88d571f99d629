-------------------------- MODULE TransportSession --------------------------
(***************************************************************************)
(* One direction of an established PHREATIC session: the atomic send       *)
(* counter, a network that loses, repeats, reorders and damages messages,  *)
(* and threads that authenticate a message with no lock held and then      *)
(* record its counter in the shared replay window.  A message is its       *)
(* counter; a word of the window is the set of its bits that are 1.        *)
(***************************************************************************)
EXTENDS Naturals, FiniteSets

CONSTANTS
    WINDOW_WORDS,   \* 64-bit words of the window (32 in the code)
    Openers,        \* threads that open messages
    Bursts,         \* sizes of runs of messages that are all lost
    MaxCounter,     \* how far the send counter goes (a bound)
    MaxMessages,    \* how many sealed messages can arrive (a bound)
    None

ASSUME WordsAssumption == WINDOW_WORDS \in Nat \ {0}
ASSUME CounterAssumption == MaxCounter \in Nat /\ Bursts \subseteq Nat

Bit == 0..63
Words == 0..(WINDOW_WORDS - 1)
REPLAY_WINDOW == WINDOW_WORDS * 64

\* What a thread has in hand between the AEAD and the window's lock.
Opening == [counter : Nat, intact : BOOLEAN]
ASSUME NoneAssumption == None \notin Opening

VARIABLES
    send_counter,
    window,       \* ReplayWindow
    net,          \* counters of the messages that can still arrive
    opening,      \* opening[o]: the message thread o is working on
    expired,      \* the session is past REJECT_AFTER_MS
    host          \* history: how often each counter's payload was delivered

vars == <<send_counter, window, net, opening, expired, host>>

ReplayWindow == [highest : Nat, bits : [Words -> SUBSET Bit]]

TypeOK ==
    /\ send_counter \in 0..MaxCounter
    /\ window \in ReplayWindow
    /\ net \subseteq 0..MaxCounter
    /\ opening \in [Openers -> Opening \cup {None}]
    /\ expired \in BOOLEAN
    /\ DOMAIN host \cup {opening[o].counter : o \in {x \in Openers : opening[x] # None}}
         \subseteq net
    /\ window.highest <= MaxCounter

-----------------------------------------------------------------------------
(* The replay window. *)

get(bits, idx) == idx \div 64 \in Words /\ idx % 64 \in bits[idx \div 64]
set(bits, idx) ==
    IF idx \div 64 \in Words
    THEN [bits EXCEPT ![idx \div 64] = @ \cup {idx % 64}]
    ELSE bits

\* Mutant of shl: bits shifted out of the word are kept.
shl_unmasked(word, k) == {b + k : b \in word}

\* checked_shl and checked_shr of one word.
shl(word, k) == {b \in Bit : b >= k /\ b - k \in word}
shr(word, k) == {b \in Bit : b + k \in word}

\* Mutant of shift_by: no bits are carried from one word into the next.
shift_by_no_carry(bits, shift) ==
    [i \in Words |->
        IF i < shift \div 64 THEN {} ELSE shl(bits[i - shift \div 64], shift % 64)]

shift_by(bits, shift) ==
    LET words == shift \div 64
        k == shift % 64
    IN  [i \in Words |->
            IF i < words THEN {}
            ELSE shl(bits[i - words], k) \cup
                 (IF k > 0 /\ i > words THEN shr(bits[i - words - 1], 64 - k) ELSE {})]

\* Mutant of Admits: a counter that just left the window is not too old.
Admits_off_by_one(w, counter) ==
    counter > w.highest \/ (w.highest - counter <= REPLAY_WINDOW
                              /\ ~get(w.bits, w.highest - counter))

\* ReplayWindow::accept: what it returns, and the window after it.
Admits(w, counter) ==
    counter > w.highest \/ (w.highest - counter < REPLAY_WINDOW
                              /\ ~get(w.bits, w.highest - counter))

accept(w, counter) ==
    IF ~Admits(w, counter) THEN w
    ELSE IF counter > w.highest
    THEN LET shift == counter - w.highest
             slid == IF shift >= REPLAY_WINDOW THEN [i \in Words |-> {}]
                     ELSE shift_by(w.bits, shift)
         IN  [highest |-> counter, bits |-> set(slid, 0)]
    ELSE [w EXCEPT !.bits = set(@, w.highest - counter)]

-----------------------------------------------------------------------------
Init ==
    /\ send_counter = 0
    /\ window = [highest |-> 0, bits |-> [i \in Words |-> {}]]
    /\ net = {}
    /\ opening = [o \in Openers |-> None]
    /\ expired = FALSE
    /\ host = [c \in {} |-> 0]

\* TransportSession::seal: fetch_add, then the message is on the wire.
Seal ==
    /\ ~expired
    /\ send_counter < MaxCounter /\ Cardinality(net) < MaxMessages
    /\ send_counter' = send_counter + 1
    /\ net' = net \cup {send_counter}
    /\ UNCHANGED <<window, opening, expired, host>>

\* A run of sealed messages none of which arrives.
LostBurst(n) ==
    /\ ~expired
    /\ send_counter + n <= MaxCounter
    /\ send_counter' = send_counter + n
    /\ UNCHANGED <<window, net, opening, expired, host>>

\* TransportSession::open up to the AEAD: any message, any number of times, as
\* it was sealed or damaged on the way.
Open(o, c, intact) ==
    /\ ~expired
    /\ opening[o] = None
    /\ opening' = [opening EXCEPT ![o] = [counter |-> c, intact |-> intact]]
    /\ UNCHANGED <<send_counter, window, net, expired, host>>

Delivered(c) ==
    [x \in DOMAIN host \cup {c} |->
        IF x \notin DOMAIN host THEN 1 ELSE IF x = c THEN host[x] + 1 ELSE host[x]]

\* Mutant: the counter is recorded before the AEAD has decided.
Finish_records_first(o) ==
    LET t == opening[o] IN
    /\ t # None
    /\ opening' = [opening EXCEPT ![o] = None]
    /\ window' = accept(window, t.counter)
    /\ host' = IF t.intact /\ Admits(window, t.counter) THEN Delivered(t.counter)
               ELSE host
    /\ UNCHANGED <<send_counter, net, expired>>

\* The rest of open: AuthenticationFailed leaves the window alone; otherwise
\* the window's lock is taken and the counter recorded or refused as a Replay.
Finish(o) ==
    LET t == opening[o] IN
    /\ t # None
    /\ opening' = [opening EXCEPT ![o] = None]
    /\ \/ ~t.intact /\ UNCHANGED <<window, host>>
       \/ /\ t.intact
          /\ window' = accept(window, t.counter)
          /\ host' = IF Admits(window, t.counter) THEN Delivered(t.counter) ELSE host
    /\ UNCHANGED <<send_counter, net, expired>>

Expire ==
    /\ ~expired
    /\ expired' = TRUE
    /\ UNCHANGED <<send_counter, window, net, opening, host>>

Next ==
    \/ Seal
    \/ \E n \in Bursts : LostBurst(n)
    \/ \E o \in Openers, c \in net, intact \in BOOLEAN : Open(o, c, intact)
    \/ \E o \in Openers : Finish(o)
    \/ Expire

Spec == Init /\ [][Next]_vars

-----------------------------------------------------------------------------
(* Properties. *)

\* Phreatic section 8, "Accept `counter` exactly once": however often, late and
\* on how many threads at once a message arrives, its payload reaches the host
\* at most once.
AtMostOnce == \A c \in DOMAIN host : host[c] = 1

\* The bitmap is exactly the delivered counters among the last REPLAY_WINDOW,
\* through every slide by part of a word, by whole words and by more than the
\* window.
WindowExact ==
    \A p \in 0..(REPLAY_WINDOW - 1) :
        get(window.bits, p) <=> p <= window.highest /\ window.highest - p \in DOMAIN host

\* An undamaged message is refused only if its payload was delivered before or
\* it is REPLAY_WINDOW or more behind: no damaged copy and no slide of the
\* window costs the peer a message it sent once.
OnlyReplaysRefused ==
    [][\A o \in Openers :
        LET t == opening[o] IN
        t # None /\ opening'[o] = None /\ t.intact /\ host' = host =>
            \/ t.counter \in DOMAIN host
            \/ t.counter + REPLAY_WINDOW <= window.highest]_vars
=============================================================================
