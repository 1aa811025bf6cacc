---------------------------- MODULE MCSubmission ----------------------------
(* Submission with model values; submissions and processes are symmetric.  *)
(* failed remembers that some request has died half way.                   *)
EXTENDS Submission, TLC

VARIABLE failed

Symmetry == Permutations(Sub) \cup Permutations(Req)

\* The existing drafts worth distinguishing: active and reviewed by IANA,
\* expired, published as an RFC.
SomeMarks ==
  {NoMark} \cup
  {[state |-> "active", stream |-> "later", iana |-> "reviewed", needrev |-> TRUE],
   [state |-> "expired", stream |-> "wg-doc", iana |-> "none", needrev |-> FALSE],
   [state |-> "rfc", stream |-> "later", iana |-> "changed", needrev |-> TRUE]}

MCInit == Init /\ marks \in SomeMarks /\ failed = FALSE
Fine   == NextOK /\ UNCHANGED failed
Fails  == (\E r \in Req : Abort(r)) /\ failed' = TRUE

MCSpec   == MCInit /\ [][Fine \/ Fails]_<<vars, failed>>
MCSpecOK == MCInit /\ [][Fine]_<<vars, failed>>

\* Here the failures are not counted.
MCFairSpec == MCInit /\ [][Next /\ UNCHANGED failed]_<<vars, failed>> /\ Fairness

\* For overlapping requests: an active draft, reviewed by IANA.
OneDraft == /\ Init /\ failed = FALSE
            /\ marks = [state |-> "active", stream |-> "later", iana |-> "reviewed", needrev |-> TRUE]
OverlapSpec == OneDraft /\ [][Fine]_<<vars, failed>>

\* As long as no posting has died half way, move_files_to_repository and the
\* archiving before it leave only the current revision in the repository.
OnlyCurrentUnlessFailed == failed \/ OnlyCurrentInRepository
=============================================================================
