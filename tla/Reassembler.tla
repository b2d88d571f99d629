---------------------------- MODULE Reassembler ----------------------------
(***************************************************************************)
(* karst-proto's fragment reassembler: a bounded table of messages in      *)
(* flight, as operators on the set of its occupied slots.  Which slot an   *)
(* entry sits in makes no difference; an entry is found by its source and  *)
(* reassembly id.  A payload is its length class: full, or short as only a *)
(* last fragment may be.                                                   *)
(***************************************************************************)
EXTENDS Naturals, FiniteSets

CONSTANTS
    Sources,          \* addresses fragments come from
    Ids,              \* reassembly ids (a bound)
    MAX_FRAGMENTS,
    max_entries, max_per_source, load_threshold,
    timeout           \* timeout_ms, in ticks

ASSUME ConfigAssumption ==
    /\ MAX_FRAGMENTS \in Nat \ {0}
    /\ max_entries \in Nat /\ max_per_source \in Nat /\ load_threshold \in Nat
    /\ timeout \in Nat \ {0}

Fragment ==
    [reassembly_id : Ids, idx : 0..(MAX_FRAGMENTS - 1), count : 1..MAX_FRAGMENTS,
     len : {"full", "short"}]

\* validated is history: was the source address-validated when the entry was
\* allocated.
Entry ==
    [source : Sources, reassembly_id : Ids, count : 1..MAX_FRAGMENTS,
     received : SUBSET (0..(MAX_FRAGMENTS - 1)), age : 0..timeout,
     validated : BOOLEAN]

NewEntry(source, validated, hdr) ==
    [source |-> source, reassembly_id |-> hdr.reassembly_id, count |-> hdr.count,
     received |-> {}, age |-> 0, validated |-> validated]

complete(e) == e.received = 0..(e.count - 1)

expire(slots) == {e \in slots : e.age < timeout}

FromSource(slots, source) == {e \in slots : e.source = source}

\* Mutant of InFlight: a duplicate fragment opens an entry of its own.
InFlight_unfilled(slots, source, hdr) ==
    {e \in FromSource(slots, source) :
        e.reassembly_id = hdr.reassembly_id /\ hdr.idx \notin e.received}

InFlight(slots, source, hdr) ==
    {e \in FromSource(slots, source) : e.reassembly_id = hdr.reassembly_id}

\* Mutants of Refusal: the load is compared one too late; the budget of a
\* source counts only the entries it was validated for.
Refusal_over_threshold(slots, source, validated) ==
    IF ~validated /\ Cardinality(slots) > load_threshold THEN "CookieRequired"
    ELSE IF Cardinality(FromSource(slots, source)) >= max_per_source
         THEN "SourceBudgetExhausted"
    ELSE IF Cardinality(slots) >= max_entries THEN "CapacityExhausted"
    ELSE "None"
Refusal_validated_unmetered(slots, source, validated) ==
    IF ~validated /\ Cardinality(slots) >= load_threshold THEN "CookieRequired"
    ELSE IF ~validated /\ Cardinality(FromSource(slots, source)) >= max_per_source
         THEN "SourceBudgetExhausted"
    ELSE IF Cardinality(slots) >= max_entries THEN "CapacityExhausted"
    ELSE "None"

\* The checks that precede an allocation, in push's order.
Refusal(slots, source, validated) ==
    IF ~validated /\ Cardinality(slots) >= load_threshold THEN "CookieRequired"
    ELSE IF Cardinality(FromSource(slots, source)) >= max_per_source
         THEN "SourceBudgetExhausted"
    ELSE IF Cardinality(slots) >= max_entries THEN "CapacityExhausted"
    ELSE "None"

\* The checks on a fragment of entry e, and the entry with it stored.
Misfit(e, hdr) ==
    IF e.count # hdr.count THEN "Inconsistent"
    ELSE IF hdr.idx \in e.received THEN "Duplicate"
    ELSE IF hdr.idx + 1 < hdr.count /\ hdr.len = "short" THEN "Inconsistent"
    ELSE "None"
Filled(e, hdr) == [e EXCEPT !.received = @ \cup {hdr.idx}]

\* Reassembler::push: what it returns, and the slots after it.  A single
\* fragment touches no slot, not even to expire one; a fragment that does not
\* fit the entry it was the first of leaves that entry behind, empty.
push(slots, source, validated, hdr) ==
    LET live == expire(slots)
        found == InFlight(live, source, hdr)
        refusal == IF found # {} THEN "None" ELSE Refusal(live, source, validated)
        e == IF found # {} THEN CHOOSE x \in found : TRUE
             ELSE NewEntry(source, validated, hdr)
        misfit == Misfit(e, hdr)
        rest == live \ {e}
    IN  IF hdr.count = 1 THEN [outcome |-> "Complete", slots |-> slots]
        ELSE IF refusal # "None" THEN [outcome |-> refusal, slots |-> live]
        ELSE IF misfit # "None" THEN [outcome |-> misfit, slots |-> rest \cup {e}]
        ELSE IF complete(Filled(e, hdr)) THEN [outcome |-> "Complete", slots |-> rest]
        ELSE [outcome |-> "Buffered", slots |-> rest \cup {Filled(e, hdr)}]
=============================================================================
