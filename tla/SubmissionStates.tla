------------------------- MODULE SubmissionStates -------------------------
(***************************************************************************)
(* What the name table DraftSubmissionStateName promises about one         *)
(* submission: the states and, for each, the "next_states" it may move to  *)
(* (ietf/name/fixtures/names.json, filled by the migrations of ietf/name). *)
(* This is the abstract specification of the submission tool: no files, no *)
(* requests, only the workflow.                                            *)
(***************************************************************************)
CONSTANT Sub            \* primary keys of Submission rows of one draft name
VARIABLE state          \* state[s]: Submission.state_id, "none" if no row yet

\* States in which a submission is still being processed.
Live == {"uploaded", "auth", "aut-appr", "grp-appr", "manual"}
StateName == Live \cup {"cancel", "posted"}

\* DraftSubmissionStateName.next_states
NextStates(st) ==
  CASE st = "uploaded" -> {"auth", "aut-appr", "grp-appr", "manual", "cancel"}
    [] st \in {"auth", "aut-appr", "grp-appr", "manual"} -> {"cancel", "posted"}
    [] OTHER -> {}

Init == state = [s \in Sub |-> "none"]

Create(s) == /\ state[s] = "none"
             /\ state' = [state EXCEPT ![s] = "uploaded"]

Move(s) == \E st \in NextStates(state[s]) : state' = [state EXCEPT ![s] = st]

Next == \E s \in Sub : Create(s) \/ Move(s)

Spec == Init /\ [][Next]_state
=============================================================================
