------------------------------- MODULE Round -------------------------------
(***************************************************************************)
(* What a fan-out promises whoever calls it (council/collab.py, _fan_out:  *)
(* "One parallel call per model. Returns [(model, result)]"): some calls   *)
(* are in flight, never more than a limit, until the round returns with a  *)
(* result for every place of the pool or raises; from then on nothing is   *)
(* in flight and no result changes.  FanOut implements it, and Council is  *)
(* built on it.                                                            *)
(***************************************************************************)
EXTENDS Integers, FiniteSets

CONSTANTS Limit,     \* the calls that may be in flight at a time
          Results    \* what a call may come to

VARIABLES
    pool,     \* the models called
    state,    \* "calling", "returned" or "raised"
    busy,     \* the places of the pool whose calls are in flight
    result    \* the results, none before the round returns

vars == <<pool, state, busy, result>>

Init == /\ state = "calling"
        /\ busy = {}
        /\ result = <<>>

Work == /\ state = "calling"
        /\ busy' \in SUBSET DOMAIN pool
        /\ Cardinality(busy') <= Limit
        /\ UNCHANGED <<pool, state, result>>

Return == /\ state = "calling"
          /\ busy = {}
          /\ state' = "returned"
          /\ result' \in [DOMAIN pool -> Results]
          /\ UNCHANGED <<pool, busy>>

Raise == /\ state = "calling"
         /\ busy = {}
         /\ state' = "raised"
         /\ UNCHANGED <<pool, busy, result>>

Next == Work \/ Return \/ Raise

Spec == Init /\ [][Next]_vars
=============================================================================
