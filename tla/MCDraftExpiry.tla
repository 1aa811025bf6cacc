--------------------------- MODULE MCDraftExpiry ---------------------------
(* DraftExpiry on few revisions and a short life.  failed remembers that   *)
(* some request has died half way.                                         *)
EXTENDS DraftExpiry

VARIABLE failed

MCInit == Init /\ failed = FALSE
Fine   == NextOK /\ UNCHANGED failed
Fails  == (\E r \in Req : Abort(r)) /\ failed' = TRUE

MCSpec     == MCInit /\ [][Fine \/ Fails]_<<vars, failed>>
MCFairSpec == MCSpec /\ Fairness

\* As long as no request has died half way, the text of the current revision
\* is where readers, or do_resurrect, find it.
CurrentKeptUnlessFailed == failed \/ CurrentKept
=============================================================================
