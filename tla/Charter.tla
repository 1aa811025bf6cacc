------------------------------ MODULE Charter ------------------------------
(***************************************************************************)
(* One charter and its group: doc/views_charter and doc/utils_charter.     *)
(* As in Submission a handler is a sequence of statements that commit one  *)
(* by one; Script gives, for each kind of request, its statements in       *)
(* order, and Abort ends a request between any two.  The milestones, which *)
(* an approval moves afterwards, are in Milestones.                        *)
(***************************************************************************)
EXTENDS Integers

CONSTANTS Req,                   \* processes that serve requests
          MaxMajor, MaxMinor     \* bounds of the model; the code stops at 99

VARIABLES
  charter,       \* the Document: column rev and state of type charter
  type,          \* Group.type: a working group or a research group
  group,         \* Group.state
  ballots,       \* kinds of ballot that are open on the charter
  text,          \* text[v]: how often a text was written to charter-name-v.txt
  saved,         \* revs of the DocHistory rows
  announced,     \* revs of the NewRevisionDocEvents
  work,          \* work[r]: program counter and local variables of process r
  shown          \* ghost: the charter when no request was under way

row   == <<charter, type, group, ballots, text, saved, announced>>
vars  == <<charter, type, group, ballots, text, saved, announced, work, shown>>

Process == INSTANCE CharterProcess WITH view <- shown

Rev   == Process!Rev
Stage == Process!Stage
State == Process!State
Newer(v, w) == Process!Newer(v, w)
Approved(n) == Process!Approved(n)

Op == {"submit", "move", "abandon", "drop", "approve", "adopt", "edit", "note",
       "propose"}
PC == {"idle", "history", "announce", "write", "save", "state", "close",
       "ballot", "group", "copy", "renumber"}
Choice == Process!Kind \cup {"none"}
Local  == [pc : PC, op : Op, old : Rev, rev : Rev, to : State, ballot : Choice]

None == [major |-> 0, minor |-> 0]
Idle == [pc |-> "idle", op |-> "edit", old |-> None, rev |-> None,
         to |-> "notrev", ballot |-> "none"]

TypeOK ==
  /\ charter \in [rev : Rev, state : State]
  /\ type \in {"wg", "rg"}
  /\ group \in Process!Group
  /\ ballots \subseteq Process!Kind
  /\ text \in [Rev -> 0..2]
  /\ saved \subseteq Rev
  /\ announced \subseteq Rev
  /\ work \in [Req -> Local]
  /\ shown \in Process!View

Current == [rev |-> charter.rev, state |-> charter.state, ballots |-> ballots,
            group |-> group, texts |-> {v \in Rev : text[v] > 0}]

\* get_or_create_initial_charter, or a charter that was approved before.
Init ==
  /\ type \in {"wg", "rg"}
  /\ ballots = {} /\ saved = {}
  /\ work = [r \in Req |-> Idle]
  /\ \/ /\ group \in {"proposed", "bof"}
        /\ charter = [rev |-> [major |-> 0, minor |-> 0], state |-> "notrev"]
        /\ announced = {}
     \/ /\ group = "active"
        /\ charter = [rev |-> Approved(1), state |-> "approved"]
        /\ announced = {Approved(1)}
  /\ text = [v \in Rev |-> IF v \in announced THEN 1 ELSE 0]
  /\ shown = Current

(***************************************************************************)
(* The statements of each kind of request, in their order                  *)
(***************************************************************************)
\* Mutant: the row gets the approved revision before the event for it is saved
ScriptRenumberFirst == [
  submit  |-> [history |-> "announce", announce |-> "write", write |-> "save", save |-> "idle"],
  move    |-> [history |-> "state", state |-> "save", save |-> "ballot", ballot |-> "idle"],
  abandon |-> [history |-> "state", state |-> "close", close |-> "save", save |-> "idle"],
  drop    |-> [group |-> "history", history |-> "state", state |-> "close", close |-> "save", save |-> "idle"],
  approve |-> [history |-> "state", state |-> "close", close |-> "group", group |-> "copy",
               copy |-> "renumber", renumber |-> "announce", announce |-> "idle"],
  adopt   |-> [history |-> "state", state |-> "save", save |-> "group", group |-> "copy",
               copy |-> "renumber", renumber |-> "announce", announce |-> "idle"],
  edit    |-> [history |-> "save", save |-> "idle"],
  note    |-> [save |-> "idle"],
  propose |-> [group |-> "idle"]]

\* Mutant: abandoning an effort leaves its ballots open
ScriptLeaveOpen == [
  submit  |-> [history |-> "announce", announce |-> "write", write |-> "save", save |-> "idle"],
  move    |-> [history |-> "state", state |-> "save", save |-> "ballot", ballot |-> "idle"],
  abandon |-> [history |-> "state", state |-> "save", save |-> "idle"],
  drop    |-> [group |-> "history", history |-> "state", state |-> "save", save |-> "idle"],
  approve |-> [history |-> "state", state |-> "close", close |-> "group", group |-> "copy",
               copy |-> "announce", announce |-> "renumber", renumber |-> "idle"],
  adopt   |-> [history |-> "state", state |-> "save", save |-> "group", group |-> "copy",
               copy |-> "announce", announce |-> "renumber", renumber |-> "idle"],
  edit    |-> [history |-> "save", save |-> "idle"],
  note    |-> [save |-> "idle"],
  propose |-> [group |-> "idle"]]

\* submit; change_state to another stage, abandoning the rechartering of a
\* group or a group that was never chartered, approving the charter of a
\* research group; approve; edit_ad and edit_notify; announcement_text.
Script == [
  submit  |-> [history |-> "announce", announce |-> "write", write |-> "save", save |-> "idle"],
  move    |-> [history |-> "state", state |-> "save", save |-> "ballot", ballot |-> "idle"],
  abandon |-> [history |-> "state", state |-> "close", close |-> "save", save |-> "idle"],
  drop    |-> [group |-> "history", history |-> "state", state |-> "close", close |-> "save", save |-> "idle"],
  approve |-> [history |-> "state", state |-> "close", close |-> "group", group |-> "copy",
               copy |-> "announce", announce |-> "renumber", renumber |-> "idle"],
  adopt   |-> [history |-> "state", state |-> "save", save |-> "group", group |-> "copy",
               copy |-> "announce", announce |-> "renumber", renumber |-> "idle"],
  edit    |-> [history |-> "save", save |-> "idle"],
  note    |-> [save |-> "idle"],
  propose |-> [group |-> "idle"]]

\* Mutant: a charter that moves on leaves no history of the revision it had
FirstMoves(op) == IF op \in {"drop", "propose"} THEN "group"
                  ELSE IF op = "note" THEN "save" ELSE IF op = "move" THEN "state" ELSE "history"

First(op) == IF op \in {"drop", "propose"} THEN "group" ELSE IF op = "note" THEN "save" ELSE "history"

(***************************************************************************)
(* Revisions                                                               *)
(***************************************************************************)
NotUploadedYet == charter.rev.minor = 0 /\ text[charter.rev] = 0

\* Mutant: the history of abandoned efforts is not searched
NextRevUnchecked ==
  IF NotUploadedYet THEN {charter.rev}
  ELSE {v \in Rev : v.major = charter.rev.major /\ v.minor = charter.rev.minor + 1}

\* next_revision, again as long as the history has that revision; empty
\* beyond the bounds of the model.
NextRev ==
  LET free == {v \in Rev \ saved : v.major = charter.rev.major /\ v.minor > charter.rev.minor}
  IN IF NotUploadedYet THEN {charter.rev}
     ELSE {v \in free : \A w \in free : v.minor <= w.minor}

\* initcharter and recharter take up an effort that was abandoned.
Restored ==
  LET later == {v \in saved : Newer(v, charter.rev)}
      rev   == IF later = {} THEN charter.rev
               ELSE CHOOSE v \in later : \A w \in later : v = w \/ Newer(v, w)
  IN IF rev.minor = -1 THEN [rev EXCEPT !.minor = 0] ELSE rev

NextApproved(v) == Approved(v.major + 1)

\* get_charter_text in group/utils: the revision the pages of the group show,
\* preferably approved.
GroupText ==
  LET known    == {charter.rev} \cup saved
      approved == {v \in known : v.minor = -1}
      from     == IF approved = {} THEN known ELSE approved
  IN CHOOSE v \in from : \A w \in from : v = w \/ Newer(v, w)

(***************************************************************************)
(* The decision of each handler, on the charter it has loaded              *)
(***************************************************************************)
Chartering ==
  charter.state \notin {"notrev", "approved"} /\ group \in {"proposed", "bof", "active"}

Load(r, op, rev, to, ballot) ==
  /\ work[r].pc = "idle"
  /\ work' = [work EXCEPT ![r] = [pc |-> First(op), op |-> op, old |-> charter.rev,
                                  rev |-> rev, to |-> to, ballot |-> ballot]]
  /\ UNCHANGED row

Submit(r) == \E v \in NextRev : Load(r, "submit", v, charter.state, "none")

\* The kinds of ballot that come with a stage of a working group.
BallotFor(s) ==
  IF type = "wg" /\ s = "intrev" THEN {"r-extrev", "r-wo-ext"}
  ELSE IF type = "wg" /\ s = "iesgrev" THEN {"approve"} ELSE {"none"}

\* change_state without an option, and after "Start chartering" or "Recharter"
Choose(r, s, rev) ==
  /\ s # charter.state
  /\ IF s = "approved"
     THEN rev.major < MaxMajor /\ Load(r, "adopt", rev, s, "none")
     ELSE \E b \in BallotFor(s) : Load(r, "move", rev, s, b)

ChangeState(r) ==
  \E s \in IF type = "wg" THEN Stage ELSE {"intrev", "extrev", "approved"} :
    Choose(r, s, charter.rev)

StartProcess(r) ==
  \E s \in IF type = "wg" THEN {"infrev"} ELSE {"intrev", "extrev", "approved"} :
    Choose(r, s, Restored)

\* The page of a charter offers it while the group is being chartered.
Abandon(r) ==
  /\ Chartering
  /\ IF group \in {"proposed", "bof"}
     THEN Load(r, "drop", charter.rev, "notrev", "none")
     ELSE Load(r, "abandon", Approved(charter.rev.major), "approved", "none")

\* The approval page can be reached, and sent, in every state.
Approve(r) ==
  charter.rev.major < MaxMajor /\ Load(r, "approve", charter.rev, "approved", "none")

\* edit_ad and edit_notify, and announcement_text, which keeps no history
EditRow(r) == \E op \in {"edit", "note"} : Load(r, op, charter.rev, charter.state, "none")

\* group/edit, also on an active group when the Secretariat confirms that
Propose(r) == Load(r, "propose", charter.rev, charter.state, "none")

(***************************************************************************)
(* The statements                                                          *)
(***************************************************************************)
\* Process r executes the statement it has come to.
Statement(r, what) ==
  /\ work[r].pc = what
  /\ LET next == Script[work[r].op][what]
     IN work' = [work EXCEPT ![r] = IF next = "idle" THEN Idle ELSE [@ EXCEPT !.pc = next]]

\* save_document_in_history
SaveHistory(r) ==
  /\ Statement(r, "history") /\ saved' = saved \cup {work[r].old}
  /\ UNCHANGED <<charter, type, group, ballots, text, announced>>

\* charter.set_state
SetState(r) ==
  /\ Statement(r, "state") /\ charter' = [charter EXCEPT !.state = work[r].to]
  /\ UNCHANGED <<type, group, ballots, text, saved, announced>>

\* charter.save() writes the revision, the one it has read if it is not about it.
Save(r) ==
  /\ Statement(r, "save") /\ charter' = [charter EXCEPT !.rev = work[r].rev]
  /\ UNCHANGED <<type, group, ballots, text, saved, announced>>

\* close_open_ballots
Close(r) ==
  /\ Statement(r, "close") /\ ballots' = {}
  /\ UNCHANGED <<charter, type, group, text, saved, announced>>

\* create_ballot_if_not_open
CreateBallot(r) ==
  /\ Statement(r, "ballot") /\ ballots' = ballots \cup ({work[r].ballot} \ {"none"})
  /\ UNCHANGED <<charter, type, group, text, saved, announced>>

\* change_group_state_after_charter_approval, or the end of a proposed group
SetGroup(r) ==
  /\ Statement(r, "group")
  /\ group' = CASE work[r].op = "drop" -> "abandon"
                [] work[r].op = "propose" -> "proposed"
                [] OTHER -> "active"
  /\ UNCHANGED <<charter, type, ballots, text, saved, announced>>

Written(v) == [text EXCEPT ![v] = IF @ = 2 THEN 2 ELSE @ + 1]

\* UploadForm.save
WriteText(r) ==
  /\ Statement(r, "write") /\ text' = Written(work[r].rev)
  /\ UNCHANGED <<charter, type, group, ballots, saved, announced>>

\* fix_charter_revision_after_approval.  No text to copy: its error page is
\* returned to callers that do not look at it.
CopyText(r) ==
  /\ text[work[r].rev] > 0 /\ Statement(r, "copy")
  /\ text' = Written(NextApproved(work[r].rev))
  /\ UNCHANGED <<charter, type, group, ballots, saved, announced>>
CopyFails(r) ==
  /\ text[work[r].rev] = 0 /\ work[r].pc = "copy"
  /\ work' = [work EXCEPT ![r] = Idle]
  /\ UNCHANGED row

Announce(r) ==
  /\ Statement(r, "announce")
  /\ announced' = announced \cup
       {IF work[r].op = "submit" THEN work[r].rev ELSE NextApproved(work[r].rev)}
  /\ UNCHANGED <<charter, type, group, ballots, text, saved>>

Renumber(r) ==
  /\ Statement(r, "renumber")
  /\ charter' = [charter EXCEPT !.rev = NextApproved(work[r].rev)]
  /\ UNCHANGED <<type, group, ballots, text, saved, announced>>

\* The process is killed, or a template or a file is at fault.
Dies(r) ==
  /\ work[r].pc # "idle" /\ work' = [work EXCEPT ![r] = Idle]
  /\ UNCHANGED row

Step(r) ==
  \/ SaveHistory(r) \/ SetState(r) \/ Save(r) \/ Close(r) \/ CreateBallot(r)
  \/ SetGroup(r) \/ WriteText(r) \/ CopyText(r) \/ CopyFails(r)
  \/ Announce(r) \/ Renumber(r)

Start(r) ==
  \/ Submit(r) \/ ChangeState(r) \/ StartProcess(r)
  \/ Abandon(r) \/ Approve(r) \/ EditRow(r) \/ Propose(r)

\* The ghost follows when nobody is at work.
Quiet == \A r \in Req : work[r].pc = "idle"
Show  == shown' = IF Quiet' THEN Current' ELSE shown

NextOK == (\E r \in Req : Start(r) \/ Step(r)) /\ Show
Abort  == (\E r \in Req : Dies(r)) /\ Show

Spec   == Init /\ [][NextOK \/ Abort]_vars
SpecOK == Init /\ [][NextOK]_vars

(***************************************************************************)
(* Properties                                                              *)
(***************************************************************************)

\* The text of the revision a charter has is among those that were announced:
\* charter_with_milestones_txt looks for the event and answers 404 without.
\* The order of the writes in submit and approve keeps it, whoever dies.
TextIsAnnounced == text[charter.rev] > 0 => charter.rev \in announced

\* No text is written over another one: a number belongs to one text, those
\* of abandoned efforts included.
TextsAreFinal == \A v \in Rev : text[v] <= 1

\* A charter that is not under review has no open ballot ("kill hanging
\* ballots").
NoHangingBallot == Quiet /\ charter.state \in {"notrev", "approved"} => ballots = {}

\* While a group is rechartered, and after an effort was abandoned, its pages
\* show the text that was approved last.
GroupTextIsApproved ==
  LET approved == {v \in announced : v.minor = -1}
  IN Quiet /\ approved # {} => GroupText \in approved /\ \A v \in approved : ~Newer(v, GroupText)

\* Requests that neither overlap nor die do what the chartering pages promise,
\* each in one step.
FollowsProcess == Process!Spec
=============================================================================
