------------------------------- MODULE OneShot -------------------------------
(***************************************************************************)
(* What the collection of an invoice promises of every scheduled retry: an *)
(* attempt is open until a worker holds it; a held attempt is given back   *)
(* or settled without a request, or its one create request is made, after  *)
(* which it is spent for good.  A holder that crashes leaves it held.      *)
(***************************************************************************)
EXTENDS Naturals

CONSTANT Attempts

VARIABLES
    phase,      \* phase[n]: "open", "held" or "spent"
    requests    \* requests[n]: create requests made for attempt n

vars == <<phase, requests>>

Init ==
    /\ phase = [n \in Attempts |-> "open"]
    /\ requests = [n \in Attempts |-> 0]

Hold(n) ==
    /\ phase[n] = "open"
    /\ phase' = [phase EXCEPT ![n] = "held"]
    /\ UNCHANGED requests

GiveBack(n) ==
    /\ phase[n] = "held"
    /\ phase' = [phase EXCEPT ![n] = "open"]
    /\ UNCHANGED requests

Request(n) ==
    /\ phase[n] = "held"
    /\ phase' = [phase EXCEPT ![n] = "spent"]
    /\ requests' = [requests EXCEPT ![n] = @ + 1]

Next == \E n \in Attempts : Hold(n) \/ GiveBack(n) \/ Request(n)

Spec == Init /\ [][Next]_vars
=============================================================================
