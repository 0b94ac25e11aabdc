----------------------------- MODULE Escalation -----------------------------
(***************************************************************************)
(* What the escalation state machine promises (the docstring of            *)
(* classifier.decide_next and Section 6 of the schema document), with no   *)
(* registry, no diffs and no reports: a task is tried by free models at    *)
(* most twice, by a stronger tier at most once, and a verifier that could  *)
(* not run is charged to nobody.                                           *)
(*                                                                         *)
(* charged is the tier of every attempt that failed on its merits.         *)
(***************************************************************************)
EXTENDS Sequences

VARIABLES state, charged

vars == <<state, charged>>

Terminal == {"DONE", "HUMAN_REVIEW", "VERIFY_ERROR", "NO_MODEL", "ABORTED"}
Charges == {<<>>, <<"free">>, <<"free", "free">>, <<"strong">>,
            <<"free", "strong">>, <<"free", "free", "strong">>}

TypeOK == state \in {"NEW", "RUNNING", "ESCALATED"} \cup Terminal /\ charged \in Charges

Init == state = "NEW" /\ charged = <<>>

\* The first model is picked; a complex task starts with a stronger tier.
Assign == /\ state = "NEW"
          /\ state' \in {"RUNNING", "ESCALATED"}
          /\ UNCHANGED charged

\* No model may be asked, or none need be.
Decline == /\ state = "NEW"
           /\ state' \in {"NO_MODEL", "DONE"}
           /\ UNCHANGED charged

Pass == /\ state \in {"RUNNING", "ESCALATED"}
        /\ state' = "DONE"
        /\ UNCHANGED charged

VerifierUnable == /\ state \in {"RUNNING", "ESCALATED"}
                  /\ state' = "VERIFY_ERROR"
                  /\ UNCHANGED charged

FirstFreeFailure == /\ state = "RUNNING"
                    /\ charged = <<>>
                    /\ charged' = <<"free">>
                    /\ state' \in {"RUNNING", "ESCALATED", "HUMAN_REVIEW"}

SecondFreeFailure == /\ state = "RUNNING"
                     /\ charged = <<"free">>
                     /\ charged' = <<"free", "free">>
                     /\ state' \in {"ESCALATED", "HUMAN_REVIEW"}

StrongFailure == /\ state = "ESCALATED"
                 /\ charged' = Append(charged, "strong")
                 /\ state' = "HUMAN_REVIEW"

\* An exception nobody catches ends the process.
Abort == /\ state \notin Terminal
         /\ state' = "ABORTED"
         /\ UNCHANGED charged

Next == \/ Assign \/ Decline \/ Pass \/ VerifierUnable
        \/ FirstFreeFailure \/ SecondFreeFailure \/ StrongFailure \/ Abort

Spec == Init /\ [][Next]_vars
=============================================================================
