-------------------------- MODULE MCIesgEvaluation --------------------------
(* IesgEvaluation with model values and a short calendar.  failed          *)
(* remembers that some request has died half way.                          *)
EXTENDS IesgEvaluation, TLC

VARIABLE failed

Symmetry == Permutations(Ad) \cup Permutations(Req)

\* The positions edit_position treats differently.
SomePosition == {"yes", "discuss", "norecord"}

\* For runs about states and ballots: without the IANA state, which decides
\* nothing but its own next value, and the ghost promise, which no guard reads.
Decisive == <<state, ballots, verdict, lastcall, telechat, today, req, failed>>

MCInit == Init /\ failed = FALSE
Fine   == NextOK /\ UNCHANGED failed
Fails  == (\E r \in Req : Abort(r)) /\ failed' = TRUE

\* MCSpec does not count the failures.
MCSpec     == MCInit /\ [][Next /\ UNCHANGED failed]_<<vars, failed>>
MCSpecOK   == MCInit /\ [][Fine]_<<vars, failed>>
MCFairSpec == MCInit /\ [][Fine \/ Fails]_<<vars, failed>> /\ Fairness

\* As long as no request has died half way: the event add_state_change_event
\* wrote last names the state, and change_state is not refused.
HistoryUnlessFailed == failed \/ HistoryIsTrue

\* As long as no request has died half way: IANA has been asked to review
\* every draft in Last Call.
IanaUnlessFailed == failed \/ IanaAsked

\* As long as no request has died half way, expire-last-calls does not end a
\* Last Call before the date that was announced.
LastCallUncutUnlessFailed == [][failed \/ ~CutsLastCall]_vars
=============================================================================
