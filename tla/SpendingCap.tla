----------------------------- MODULE SpendingCap -----------------------------
(***************************************************************************)
(* What the spending cap promises of every month's credits, in bytes:      *)
(* nothing is reserved before there is a limit, what is reserved stays     *)
(* within it, and what is charged to credits was reserved before.          *)
(* Reserved bytes that were not used may be given back; charged ones never *)
(* are.  A limit is never set below what is reserved.                      *)
(***************************************************************************)
EXTENDS Integers

CONSTANTS Months, Limits

VARIABLES
    limit,       \* limit[p]: the bytes that month p's cap buys, 0 without a cap
    reserved,    \* reserved[p]: bytes handed out to relays and not given back
    spent        \* spent[p]: bytes charged to credits

vars == <<limit, reserved, spent>>

Init ==
    /\ limit = [p \in Months |-> 0]
    /\ reserved = [p \in Months |-> 0]
    /\ spent = [p \in Months |-> 0]

SetLimit(p) ==
    /\ \E n \in Limits :
        /\ reserved[p] <= n
        /\ limit' = [limit EXCEPT ![p] = n]
    /\ UNCHANGED <<reserved, spent>>

Reserve(p) ==
    /\ \E n \in 1..(limit[p] - reserved[p]) :
        reserved' = [reserved EXCEPT ![p] = @ + n]
    /\ UNCHANGED <<limit, spent>>

Spend(p) ==
    /\ \E n \in 1..(reserved[p] - spent[p]) :
        spent' = [spent EXCEPT ![p] = @ + n]
    /\ UNCHANGED <<limit, reserved>>

GiveBack(p) ==
    /\ \E n \in 1..(reserved[p] - spent[p]) :
        reserved' = [reserved EXCEPT ![p] = @ - n]
    /\ UNCHANGED <<limit, spent>>

Next == \E p \in Months : SetLimit(p) \/ Reserve(p) \/ Spend(p) \/ GiveBack(p)

Spec == Init /\ [][Next]_vars
=============================================================================
