--------------------------- MODULE IesgEvaluation ---------------------------
(***************************************************************************)
(* IESG processing of ONE active Internet-Draft (ietf/doc: views_draft,    *)
(* views_ballot, lastcall, utils): its draft-iesg state, the last call,    *)
(* the ballot and its positions, the telechat it is scheduled for and the  *)
(* IANA review it needs.                                                   *)
(*                                                                         *)
(* As in Submission, every ORM statement commits on its own.  A request    *)
(* loads the document, decides on what it read, and then executes its      *)
(* statements one by one; Plan lists them.  Mail is sent between them and  *)
(* may raise, and a process may be restarted: Abort.                       *)
(***************************************************************************)
EXTENDS Integers, Sequences, FiniteSets

CONSTANTS Ad,            \* the Area Directors
          Position,      \* positions the ballot offers (BallotPositionName)
          Secretariat,   \* a user who is not an Area Director
          Req,           \* processes that serve requests and run cron jobs
          Picked,        \* states chosen by hand in ChangeStateForm
          Telechats,     \* TelechatDate rows
          MaxDay,        \* bound on the calendar and on last calls
          MaxBallot      \* bound on BallotDocEvents: no ballot is issued beyond it

IesgState == {"pub-req", "watching", "lc-req", "lc", "writeupw", "goaheadw",
              "iesg-eva", "defer", "ann", "dead"}

ASSUME EvaluationAssumption ==
  /\ Secretariat \notin Ad
  /\ "yes" \in Position
  /\ Picked \subseteq IesgState
  /\ MaxDay \in Nat /\ MaxBallot \in Nat
  /\ Telechats \subseteq Nat

VARIABLES
  iesg,       \* the draft-iesg members of the many-to-many Document.states
  tag,        \* "sub": one of IESG_SUBSTATE_TAGS is set
  iana,       \* state of type draft-iana-review
  started,    \* a started_iesg_process event exists
  log,        \* the state named by the latest event on the draft-iesg state
  ballot,     \* the BallotDocEvents: "created" and "closed", oldest first
  votes,      \* latest changed_ballot_position per ballot and Area Director
  verdict,    \* how many ballot events precede the latest decision, or NoVerdict
  lastcall,   \* expiry date of the latest sent_last_call event, or NoDate
  promise,    \* ghost: expiry date of the latest announcement mailed out
  telechat,   \* date of the latest scheduled_for_telechat event, or NoDate
  today,
  req         \* req[r]: program counter and local variables of process r

ballots == <<ballot, votes>>
state == <<iesg, tag, log, started>>
dates == <<lastcall, promise, telechat>>
vars == <<state, iana, ballots, verdict, dates, today, req>>

Day      == 0..MaxDay
Date     == Day \cup Telechats
NoDate   == -1
NoVerdict == -1
User     == Ad \cup {Secretariat}
Vote     == [ballot : Nat \ {0}, ad : Ad, pos : Position]

\* The statements each kind of request executes once it has decided, in order.
Plan ==
 [start    |-> [remove |-> "add", add |-> "started", started |-> "telechat", telechat |-> "idle"],
  to_iesg  |-> [started |-> "remove", remove |-> "add", add |-> "log", log |-> "idle"],
  change   |-> [remove |-> "add", add |-> "log", log |-> "iana", iana |-> "idle"],
  lc_req   |-> [remove |-> "add", add |-> "log", log |-> "idle"],
  lc       |-> [remove |-> "add", add |-> "log", log |-> "lastcall", lastcall |-> "iana",
                iana |-> "idle"],
  lc_end   |-> [remove |-> "add", add |-> "log", log |-> "idle"],
  defer    |-> [remove |-> "add", add |-> "log", log |-> "telechat", telechat |-> "idle"],
  undefer  |-> [remove |-> "add", add |-> "log", log |-> "telechat", telechat |-> "idle"],
  issue    |-> [create |-> "yes", yes |-> "idle"],
  clear    |-> [close |-> "create", create |-> "check"],
  approve  |-> [remove |-> "add", add |-> "close", close |-> "verdict", verdict |-> "log",
                log |-> "idle"]]

Op == DOMAIN Plan \cup {"none"}
PC == {"idle", "remove", "add", "started", "log", "iana", "lastcall", "telechat",
       "create", "yes", "close", "verdict", "check"}

Local == [pc : PC, op : Op, prev : IesgState \cup {"none"}, new : IesgState \cup {"none"},
          newtag : {"none", "sub", "keep"}, had : BOOLEAN, changed : BOOLEAN,
          day : Date \cup {NoDate}, user : User]

Idle == [pc |-> "idle", op |-> "none", prev |-> "none", new |-> "none", newtag |-> "keep",
         had |-> FALSE, changed |-> FALSE, day |-> NoDate, user |-> Secretariat]

TypeOK ==
  /\ iesg \subseteq IesgState
  /\ tag \in {"none", "sub"}
  /\ iana \in {"none", "need-rev", "done"}
  /\ started \in BOOLEAN
  /\ log \in IesgState \cup {"none"}
  /\ ballot \in Seq({"created", "closed"})
  /\ votes \subseteq Vote
  /\ verdict \in Nat \cup {NoVerdict}
  /\ lastcall \in Date \cup {NoDate}
  /\ promise \in Date \cup {NoDate}
  /\ telechat \in Date \cup {NoDate}
  /\ today \in Day
  /\ req \in [Req -> Local]

\* A draft the IESG has not seen yet.
Init ==
  /\ iesg = {} /\ tag = "none" /\ iana = "none"
  /\ started = FALSE /\ log = "none"
  /\ ballot = <<>> /\ votes = {} /\ verdict = NoVerdict
  /\ lastcall = NoDate /\ promise = NoDate /\ telechat = NoDate
  /\ today = 0
  /\ req = [r \in Req |-> Idle]

(***************************************************************************)
(* Helpers                                                                 *)
(***************************************************************************)

\* get_state("draft-iesg"): one of the states, should there be several.
GetState(s) == s \in iesg \/ (iesg = {} /\ s = "none")

BallotOpen == ballot # <<>> /\ ballot[Len(ballot)] = "created"

\* latest_event(BallotDocEvent, type="created_ballot"); 0: there is none
Created == {i \in DOMAIN ballot : ballot[i] = "created"}
LatestBallot == IF Created = {} THEN 0
                ELSE CHOOSE i \in Created : \A j \in Created : j <= i

\* TelechatDate.objects.active().order_by("date")[n], if there is such a date
Active == {d \in Telechats : d >= today}
NthActive(n, d) == d \in Active /\ Cardinality({e \in Active : e < d}) = n

\* Document.telechat_date()
OnTelechat == telechat # NoDate /\ telechat >= today

Load(r, local) ==
  /\ req[r].pc = "idle"
  /\ req' = [req EXCEPT ![r] = local]
  /\ UNCHANGED <<state, iana, ballots, verdict, lastcall, telechat, today>>

\* The local variables of a request that sets the state (prev is what it
\* read), and of one about the ballot.  change_state has compared the states
\* already; the other handlers find out when they set it.
Setting(op, pc, prev, new, newtag, day) ==
  [pc |-> pc, op |-> op, prev |-> prev, new |-> new, newtag |-> newtag, had |-> FALSE,
   changed |-> op = "change", day |-> day, user |-> Secretariat]

Balloting(op, pc, had, user) ==
  [pc |-> pc, op |-> op, prev |-> "none", new |-> "none", newtag |-> "keep", had |-> had,
   changed |-> FALSE, day |-> NoDate, user |-> user]

\* The request continues with its next statement, knowing had and changed.
Follow(local, had, changed) ==
  LET pc == Plan[local.op][local.pc]
  IN IF pc = "idle" THEN Idle
     ELSE [local EXCEPT !.pc = pc, !.had = had, !.changed = changed]

AdvanceWith(r, had, changed) == req' = [req EXCEPT ![r] = Follow(req[r], had, changed)]
Advance(r) == AdvanceWith(r, req[r].had, req[r].changed)

(***************************************************************************)
(* Statements                                                              *)
(***************************************************************************)

\* Mutant: the draft keeps the state it had.
RemoveNothing(r) ==
  /\ req[r].pc = "remove"
  /\ AdvanceWith(r, req[r].new \in iesg, req[r].changed)
  /\ UNCHANGED <<state, iana, ballots, verdict, dates, today>>

\* set_state reads the states of the type, removes the others ...
Remove(r) ==
  /\ req[r].pc = "remove"
  /\ iesg' = iesg \cap {req[r].new}
  /\ AdvanceWith(r, req[r].new \in iesg, req[r].changed)
  /\ UNCHANGED <<tag, log, started, iana, ballots, verdict, dates, today>>

\* ... and adds the new one if it was not there; the substate tags follow,
\* and the handler now knows whether add_state_change_event will write.
Add(r) ==
  /\ req[r].pc = "add"
  /\ LET me == req[r]
     IN /\ iesg' = IF me.had THEN iesg ELSE iesg \cup {me.new}
        /\ tag' = IF me.newtag = "keep" THEN tag ELSE me.newtag
        /\ AdvanceWith(r, me.had, me.changed \/ me.prev # me.new \/ tag # tag')
  /\ UNCHANGED <<log, started, iana, ballots, verdict, dates, today>>

\* Mutant: the event names the state the draft comes from.
LogPrevious(r) ==
  /\ req[r].pc = "log"
  /\ log' = IF req[r].changed THEN req[r].prev ELSE log
  /\ Advance(r)
  /\ UNCHANGED <<iesg, tag, started, iana, ballots, verdict, dates, today>>

\* add_state_change_event
Log(r) ==
  /\ req[r].pc = "log"
  /\ log' = IF req[r].changed THEN req[r].new ELSE log
  /\ Advance(r)
  /\ UNCHANGED <<iesg, tag, started, iana, ballots, verdict, dates, today>>

\* the started_iesg_process event
Started(r) ==
  /\ req[r].pc = "started"
  /\ started' = TRUE
  /\ log' = req[r].new
  /\ Advance(r)
  /\ UNCHANGED <<iesg, tag, iana, ballots, verdict, dates, today>>

\* Mutant: only a Last Call asks IANA for a review.
IanaIfEvaluated(r) ==
  /\ req[r].pc = "iana"
  /\ iana' = IF req[r].new = "iesg-eva" /\ iana = "none" THEN "need-rev" ELSE iana
  /\ Advance(r)
  /\ UNCHANGED <<state, ballots, verdict, dates, today>>

\* "need-rev" when Last Call or the evaluation starts, unless a state is set
Iana(r) ==
  /\ req[r].pc = "iana"
  /\ iana' = IF req[r].new \in {"iesg-eva", "lc"} /\ iana = "none" THEN "need-rev" ELSE iana
  /\ Advance(r)
  /\ UNCHANGED <<state, ballots, verdict, dates, today>>

\* the LastCallDocEvent, sent today
LastCall(r) ==
  /\ req[r].pc = "lastcall"
  /\ lastcall' = req[r].day
  /\ Advance(r)
  /\ UNCHANGED <<state, iana, ballots, verdict, promise, telechat, today>>

\* update_telechat
Telechat(r) ==
  /\ req[r].pc = "telechat"
  /\ telechat' = req[r].day
  /\ Advance(r)
  /\ UNCHANGED <<state, iana, ballots, verdict, lastcall, promise, today>>

\* create_ballot_if_not_open; whether it is open was read a moment earlier,
\* by the previous statement of the request ("had").
Create(r) ==
  /\ req[r].pc = "create"
  /\ ballot' = IF req[r].had THEN ballot ELSE Append(ballot, "created")
  /\ Advance(r)
  /\ UNCHANGED <<state, iana, votes, verdict, dates, today>>

\* Mutant: whoever sends the ballot is counted, an Area Director or not.
YesOfAnyone(r) ==
  /\ req[r].pc = "yes"
  /\ votes' = votes \cup {[ballot |-> LatestBallot, ad |-> req[r].user, pos |-> "yes"]}
  /\ Advance(r)
  /\ UNCHANGED <<state, iana, ballot, verdict, dates, today>>

\* "sending the ballot counts as a yes"
Yes(r) ==
  /\ req[r].pc = "yes"
  /\ LET me == req[r].user
     IN votes' = IF \/ me = Secretariat
                    \/ \E v \in votes : v.ad = me /\ v.ballot = LatestBallot
                 THEN votes
                 ELSE votes \cup {[ballot |-> LatestBallot, ad |-> me, pos |-> "yes"]}
  /\ Advance(r)
  /\ UNCHANGED <<state, iana, ballot, verdict, dates, today>>

\* Mutant: a ballot is left open.
CloseNothing(r) ==
  /\ req[r].pc = "close"
  /\ AdvanceWith(r, BallotOpen, req[r].changed)
  /\ UNCHANGED <<state, iana, ballots, verdict, dates, today>>

\* close_ballot: the check and the event, and clear_ballot's next check, that
\* no ballot is open, are one step
Close(r) ==
  /\ req[r].pc = "close"
  /\ ballot' = IF BallotOpen THEN Append(ballot, "closed") ELSE ballot
  /\ AdvanceWith(r, FALSE, req[r].changed)
  /\ UNCHANGED <<state, iana, votes, verdict, dates, today>>

\* the iesg_approved or iesg_disapproved event
Verdict(r) ==
  /\ req[r].pc = "verdict"
  /\ verdict' = Len(ballot)
  /\ Advance(r)
  /\ UNCHANGED <<state, iana, ballots, dates, today>>

\* clear_ballot undefers a deferred ballot; it fails when the draft has no
\* state, do_undefer_ballot when there is no telechat left.
CheckDefer(r) ==
  /\ req[r].pc = "check"
  /\ \/ /\ GetState("defer")
        /\ \E d \in Active :
             /\ NthActive(0, d)
             /\ req' = [req EXCEPT ![r] = Setting("undefer", "remove", "defer", "iesg-eva", "none", d)]
     \/ /\ iesg # {"defer"} \/ Active = {}
        /\ req' = [req EXCEPT ![r] = Idle]
  /\ UNCHANGED <<state, iana, ballots, verdict, dates, today>>

Step(r) ==
  \/ Remove(r) \/ Add(r) \/ Log(r) \/ Started(r) \/ Iana(r) \/ LastCall(r)
  \/ Telechat(r) \/ Create(r) \/ Yes(r) \/ Close(r) \/ Verdict(r) \/ CheckDefer(r)

(***************************************************************************)
(* Request handlers: what they check and decide when they load the draft   *)
(***************************************************************************)

\* edit_info: the first time it starts the IESG process, later it only
\* schedules the draft for a telechat (or takes it off the agenda).
EditInfo(r, s, d) ==
  /\ d \in Active \cup {NoDate}
  /\ \/ GetState("none") /\ s \in {"pub-req", "watching"}
        /\ Load(r, Setting("start", "remove", "none", s, "keep", d))
     \/ iesg # {} /\ s \in iesg
        /\ Load(r, Setting("start", "telechat", s, s, "keep", d))
  /\ UNCHANGED promise

\* to_iesg: a working group submits the draft for publication.
ToIesg(r, prev) ==
  /\ GetState(prev) /\ prev # "pub-req"
  /\ Load(r, Setting("to_iesg", IF prev = "none" THEN "started" ELSE "remove",
                     prev, "pub-req", "keep", NoDate))
  /\ UNCHANGED promise

\* change_state: next_states are suggestions, any state can be picked.
ChangeState(r, prev, s, t) ==
  /\ GetState(prev)
  /\ started
  /\ s \in Picked
  /\ s # prev \/ t # tag
  /\ Load(r, Setting("change", "remove", prev, s, t, NoDate))
  /\ UNCHANGED promise

\* lastcalltext, "Request Last Call"
RequestLastCall(r, prev) ==
  /\ GetState(prev) /\ prev # "none"
  /\ Load(r, Setting("lc_req", "remove", prev, "lc-req", "none", NoDate))
  /\ UNCHANGED promise

\* make_last_call: the announcement is mailed before anything is saved.
MakeLastCall(r, prev, d) ==
  /\ GetState(prev) /\ prev # "none"
  /\ d \in Day /\ d >= today
  /\ Load(r, Setting("lc", "remove", prev, "lc", "none", d))
  /\ promise' = d

LastCallOver == lastcall # NoDate /\ lastcall <= today

\* Mutant: only the job of the last day closes a Last Call.
ExpireLastCallToday(r, prev, s) ==
  /\ "lc" \in iesg /\ GetState(prev) /\ lastcall = today
  /\ s \in {"writeupw", "goaheadw"}
  /\ Load(r, Setting("lc_end", "remove", prev, s, "none", NoDate))
  /\ UNCHANGED promise

\* Mutant: every draft in Last Call is taken.
ExpireLastCallAny(r, prev, s) ==
  /\ "lc" \in iesg /\ GetState(prev)
  /\ s \in {"writeupw", "goaheadw"}
  /\ Load(r, Setting("lc_end", "remove", prev, s, "none", NoDate))
  /\ UNCHANGED promise

\* bin/expire-last-calls: get_expired_last_calls, then expire_last_call; the
\* new state depends on the text of the ballot write-up.
ExpireLastCall(r, prev, s) ==
  /\ "lc" \in iesg /\ GetState(prev) /\ LastCallOver
  /\ s \in {"writeupw", "goaheadw"}
  /\ Load(r, Setting("lc_end", "remove", prev, s, "none", NoDate))
  /\ UNCHANGED promise

\* Mutant: issuing always opens a new ballot.
IssueBallotAgain(r, u) ==
  /\ Len(ballot) < MaxBallot
  /\ Load(r, Balloting("issue", "create", FALSE, u))
  /\ UNCHANGED promise

\* ballot_writeupnotes, "Save and Issue Ballot": in any state of the draft
IssueBallot(r, u) ==
  /\ Len(ballot) < MaxBallot
  /\ Load(r, Balloting("issue", "create", BallotOpen, u))
  /\ UNCHANGED promise

\* clear_ballot; a draft has one type of ballot, "approve".
ClearBallot(r) ==
  /\ Len(ballot) < MaxBallot
  /\ Load(r, Balloting("clear", "close", FALSE, Secretariat))
  /\ UNCHANGED promise

\* edit_position: the URL names the ballot, which may be closed by now; a
\* position is saved when it differs from the previous one.
EditPosition(b, ad, p) ==
  /\ b \in Created
  /\ LET old == {v \in votes : v.ballot = b /\ v.ad = ad}
     IN /\ IF old = {} THEN p # "norecord" ELSE \A v \in old : v.pos # p
        /\ votes' = (votes \ old) \cup {[ballot |-> b, ad |-> ad, pos |-> p]}
  /\ UNCHANGED <<state, iana, ballot, verdict, dates, today, req>>

\* defer_ballot: to the second telechat from now
DeferBallot(r, prev) ==
  /\ GetState(prev) /\ prev \notin {"none", "defer"}
  /\ OnTelechat
  /\ \E d \in Active : NthActive(1, d) /\ Load(r, Setting("defer", "remove", prev, "defer", "none", d))
  /\ UNCHANGED promise

\* undefer_ballot: to the next telechat
UndeferBallot(r) ==
  /\ GetState("defer")
  /\ \E d \in Active :
       NthActive(0, d) /\ Load(r, Setting("undefer", "remove", "defer", "iesg-eva", "none", d))
  /\ UNCHANGED promise

\* approve_ballot: the approval text says whether to publish; positions are
\* not looked at.  When the RFC Editor's server refuses the notice the
\* request ends with nothing changed.
ApproveBallot(r, prev, s) ==
  /\ GetState(prev) /\ prev # "none"
  /\ s \in {"ann", "dead"}
  /\ Load(r, Setting("approve", "remove", prev, s, "none", NoDate))
  /\ UNCHANGED promise

\* change_iana_state, or the synchronisation with IANA: never to no state
ChangeIanaState(s) ==
  /\ s \in {"need-rev", "done"} /\ s # iana
  /\ iana' = s
  /\ UNCHANGED <<state, ballots, verdict, dates, today, req>>

Tick ==
  /\ today < MaxDay
  /\ today' = today + 1
  /\ UNCHANGED <<state, iana, ballots, verdict, dates, req>>

\* An exception or a restart ends a request anywhere.
Abort(r) ==
  /\ req[r].pc # "idle"
  /\ req' = [req EXCEPT ![r] = Idle]
  /\ UNCHANGED <<state, iana, ballots, verdict, dates, today>>

Start(r) ==
  \/ \E s \in IesgState, d \in Active \cup {NoDate} : EditInfo(r, s, d)
  \/ \E prev \in IesgState \cup {"none"} :
       \/ ToIesg(r, prev) \/ RequestLastCall(r, prev) \/ DeferBallot(r, prev)
       \/ \E s \in Picked, t \in {"none", "sub"} : ChangeState(r, prev, s, t)
       \/ \E d \in Day : MakeLastCall(r, prev, d)
       \/ \E s \in {"writeupw", "goaheadw"} : ExpireLastCall(r, prev, s)
       \/ \E s \in {"ann", "dead"} : ApproveBallot(r, prev, s)
  \/ \E u \in User : IssueBallot(r, u)
  \/ ClearBallot(r) \/ UndeferBallot(r)

NextOK ==
  \/ \E r \in Req : Start(r) \/ Step(r)
  \/ \E b \in DOMAIN ballot, ad \in Ad, p \in Position : EditPosition(b, ad, p)
  \/ \E s \in {"need-rev", "done"} : ChangeIanaState(s)
  \/ Tick

Next == NextOK \/ \E r \in Req : Abort(r)

\* SpecOK: nothing fails half way.
Spec   == Init /\ [][Next]_vars
SpecOK == Init /\ [][NextOK]_vars

\* Requests progress, days pass, and the nightly job reaches the draft again
\* and again without being stopped each time before its first statement.
Fairness ==
  /\ \A r \in Req : WF_vars(Step(r))
  /\ WF_vars(Tick)
  /\ SF_vars(\E r \in Req, prev \in IesgState, s \in {"writeupw", "goaheadw"} :
               ExpireLastCall(r, prev, s))
  /\ SF_vars(\E r \in Req : req[r].op = "lc_end" /\ Remove(r))

FairSpec == Spec /\ Fairness

(***************************************************************************)
(* Properties of requests that do not overlap (Req a singleton)            *)
(***************************************************************************)
Quiet == \A r \in Req : req[r].pc = "idle"

\* set_state "switches" the state: the draft is never in two states of one
\* type, which every get_state relies on, even when requests die half way.
OneState == Cardinality(iesg) <= 1

\* The most recently created ballot, when it is not closed, holds every
\* position of ballots that have not been closed: none is out of sight of
\* active_ad_positions.
PositionsShown ==
  \A v \in votes : (\A i \in v.ballot..Len(ballot) : ballot[i] # "closed")
                    => v.ballot = LatestBallot

\* When the IESG's decision is recorded no ballot is open, although the
\* request may die between closing the ballot and writing the event.
ApprovalEndsBallot ==
  verdict > 0 => ballot[verdict] = "closed"

\* When nothing fails, the history tells the truth: the last recorded state
\* change names the state the draft is in, and a draft in the IESG's hands has
\* a started_iesg_process event (change_state refuses it otherwise).
HistoryIsTrue ==
  Quiet => /\ iesg = IF log = "none" THEN {} ELSE {log}
           /\ iesg # {} => started

\* When nothing fails, IANA has been asked to review every draft that is, or
\* has been announced to be, in Last Call.
IanaAsked ==
  Quiet /\ (iesg = {"lc"} \/ lastcall # NoDate) => iana # "none"

\* A Last Call is cut short when expire-last-calls ends it although the latest
\* announcement asked for comments until a later date.  Not when nothing fails.
CutsLastCall ==
  \E r \in Req, prev \in IesgState, s \in IesgState :
     ExpireLastCall(r, prev, s) /\ promise > today

\* A Last Call that was recorded ends, by expire-last-calls if by nobody else.
LastCallEnds == (iesg = {"lc"} /\ lastcall # NoDate) ~> iesg # {"lc"}

=============================================================================
