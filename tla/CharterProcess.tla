-------------------------- MODULE CharterProcess --------------------------
(***************************************************************************)
(* What the chartering pages promise about one charter: the abstract       *)
(* specification of doc/views_charter.  Everything a button does happens   *)
(* at once.  A revision 01-02 is [major |-> 1, minor |-> 2]; an approved   *)
(* one, 01, has no second half and minor -1, so that revisions compare as  *)
(* their strings do.                                                       *)
(***************************************************************************)
EXTENDS Integers

CONSTANTS MaxMajor, MaxMinor     \* bounds of the model; the code stops at 99

VARIABLE view    \* rev, state and ballots of the charter, state of the group,
                 \* and the revisions whose text is in CHARTER_PATH

Rev   == [major : 0..MaxMajor, minor : -1..MaxMinor]
Stage == {"infrev", "intrev", "extrev", "iesgrev"}
State == Stage \cup {"notrev", "approved"}
Group == {"proposed", "bof", "active", "abandon"}
Kind  == {"r-extrev", "r-wo-ext", "approve"}
View  == [rev : Rev, state : State, ballots : SUBSET Kind, group : Group,
          texts : SUBSET Rev]

Newer(v, w) == v.major > w.major \/ (v.major = w.major /\ v.minor > w.minor)
Approved(n) == [major |-> n, minor |-> -1]

\* Either a new group without a charter text or one with an approved charter.
Init ==
  \/ \E g \in {"proposed", "bof"} :
       view = [rev |-> [major |-> 0, minor |-> 0], state |-> "notrev",
               ballots |-> {}, group |-> g, texts |-> {}]
  \/ view = [rev |-> Approved(1), state |-> "approved",
             ballots |-> {}, group |-> "active", texts |-> {Approved(1)}]

\* A text is given a number that no text has had; numbers of one charter grow.
Revise ==
  \E v \in Rev \ view.texts :
    /\ v.major = view.rev.major /\ v.minor >= 0
    /\ v = view.rev \/ Newer(v, view.rev)
    /\ view' = [view EXCEPT !.rev = v, !.texts = @ \cup {v}]

\* The ballots a stage may open.
Opens(s) == CASE s = "intrev"  -> {{}, {"r-extrev"}, {"r-wo-ext"}}
              [] s = "iesgrev" -> {{"approve"}}
              [] OTHER         -> {{}}

\* Another stage, of this effort or of one that takes up where the last
\* one, abandoned meanwhile, has ended.
Move ==
  \E s \in Stage, v \in Rev :
    /\ v = view.rev \/ (v.major = view.rev.major /\ Newer(v, view.rev))
    /\ \E b \in Opens(s) :
         view' = [view EXCEPT !.state = s, !.rev = v, !.ballots = @ \cup b]

\* The approved charter is in force again, or there is no group to be.
Abandon ==
  view' = IF view.group \in {"proposed", "bof"}
          THEN [view EXCEPT !.state = "notrev", !.group = "abandon", !.ballots = {}]
          ELSE [view EXCEPT !.state = "approved", !.rev = Approved(@.major), !.ballots = {}]

\* The group works on the approved text, under the next whole number.
\* Without a text there is nothing to number.
Approve ==
  \E v \in Rev :
    /\ v = view.rev \/ (v.major = view.rev.major /\ Newer(v, view.rev))
    /\ \E b \in {{}, view.ballots} :
         LET next == Approved(v.major + 1)
             done == [view EXCEPT !.state = "approved", !.group = "active", !.ballots = b]
         IN view' = IF v \in view.texts
                    THEN [done EXCEPT !.rev = next, !.texts = @ \cup {next}]
                    ELSE [done EXCEPT !.rev = v]

\* group/edit proposes a group again, whatever became of it.
Propose == view' = [view EXCEPT !.group = "proposed"]

Next == Revise \/ Move \/ Abandon \/ Approve \/ Propose

Spec == Init /\ [][Next]_view
=============================================================================
