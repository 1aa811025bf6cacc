------------------------- MODULE DatatrackerProofs -------------------------
(***************************************************************************)
(* The theorems about single parts, as properties of MCDatatracker: for    *)
(* every value of its constants, a behaviour that is about a part is one   *)
(* of that part's module.  Charters, community lists and nominations have  *)
(* proof modules of their own; sessions, materials and milestones have     *)
(* their invariants here, and so have the types of all parts together.     *)
(***************************************************************************)
EXTENDS FeedsProofs, FiniteSetTheorems

ChP   == INSTANCE CharterProofs
ListP == INSTANCE CommunityListProofs
NomP  == INSTANCE NominationsProofs

ChPart   == part = "charter" => ChP!CharterInv
ListPart == part = "lists" => ListP!ListInv
NomPart  == part = "nominations" => NomP!NomInv

\* Operators of the charter module, the same in both instances
LEMMA SameRevisions ==
  /\ Ch!Rev = ChP!Rev /\ Ch!Stage = ChP!Stage /\ Ch!Idle = ChP!Idle
  /\ Ch!Script = ChP!Script /\ Ch!NextRev = ChP!NextRev /\ Ch!Restored = ChP!Restored
  /\ Ch!Current = ChP!Current /\ Ch!Quiet = ChP!Quiet /\ Ch!row = ChP!row
  /\ \A op : Ch!First(op) = ChP!First(op)
  /\ \A n : Ch!Approved(n) = ChP!Approved(n)
  /\ \A v : Ch!NextApproved(v) = ChP!NextApproved(v) /\ Ch!Written(v) = ChP!Written(v)
  /\ \A s : Ch!BallotFor(s) = ChP!BallotFor(s)
BY DEF Ch!Rev, Ch!Process!Rev, Ch!Stage, Ch!Process!Stage, Ch!Idle, Ch!None, Ch!Script, Ch!NextRev,
       Ch!NotUploadedYet, Ch!Restored, Ch!Newer, Ch!Process!Newer, Ch!Current, Ch!Quiet,
       Ch!row, Ch!First, Ch!Approved, Ch!Process!Approved, Ch!NextApproved, Ch!Written,
       Ch!BallotFor, ChP!Rev, ChP!Process!Rev, ChP!Stage, ChP!Process!Stage, ChP!Idle,
       ChP!None, ChP!Script, ChP!NextRev, ChP!NotUploadedYet, ChP!Restored, ChP!Newer,
       ChP!Process!Newer, ChP!Current, ChP!Quiet, ChP!row, ChP!First, ChP!Approved,
       ChP!Process!Approved, ChP!NextApproved, ChP!Written, ChP!BallotFor

LEMMA CharterLoads ==
  ASSUME NEW r, NEW op, NEW rev, NEW to, NEW ballot, Ch!Load(r, op, rev, to, ballot)
  PROVE  ChP!Load(r, op, rev, to, ballot)
BY SameRevisions DEF Ch!Load, ChP!Load, Ch!row, ChP!row

LEMMA CharterChooses ==
  ASSUME NEW r, NEW s, NEW rev, Ch!Choose(r, s, rev)
  PROVE  ChP!Choose(r, s, rev)
BY SameRevisions, CharterLoads DEF Ch!Choose, ChP!Choose

LEMMA CharterStarts ==
  ASSUME NEW r \in Req, Ch!Start(r) PROVE ChP!Start(r)
<1>1. Ch!Submit(r) => ChP!Submit(r)
  BY SameRevisions, CharterLoads, CharterChooses DEF Ch!Submit, ChP!Submit
<1>2. Ch!ChangeState(r) => ChP!ChangeState(r)
  BY SameRevisions, CharterLoads, CharterChooses DEF Ch!ChangeState, ChP!ChangeState
<1>3. Ch!StartProcess(r) => ChP!StartProcess(r)
  BY SameRevisions, CharterLoads, CharterChooses DEF Ch!StartProcess, ChP!StartProcess
<1>4. Ch!Abandon(r) => ChP!Abandon(r)
  BY SameRevisions, CharterLoads, CharterChooses DEF Ch!Abandon, Ch!Chartering, ChP!Abandon, ChP!Chartering
<1>5. Ch!Approve(r) => ChP!Approve(r)
  BY SameRevisions, CharterLoads, CharterChooses DEF Ch!Approve, ChP!Approve
<1>6. Ch!EditRow(r) => ChP!EditRow(r)
  BY SameRevisions, CharterLoads, CharterChooses DEF Ch!EditRow, ChP!EditRow
<1>7. Ch!Propose(r) => ChP!Propose(r)
  BY SameRevisions, CharterLoads, CharterChooses DEF Ch!Propose, ChP!Propose
<1> QED BY <1>1, <1>2, <1>3, <1>4, <1>5, <1>6, <1>7 DEF Ch!Start, ChP!Start

LEMMA CharterStatement ==
  ASSUME NEW r, NEW what, Ch!Statement(r, what) PROVE ChP!Statement(r, what)
BY SameRevisions DEF Ch!Statement, ChP!Statement

LEMMA CharterSteps ==
  ASSUME NEW r \in Req, Ch!Step(r) PROVE ChP!Step(r)
<1>1. Ch!SaveHistory(r) => ChP!SaveHistory(r)
  BY SameRevisions, CharterStatement DEF Ch!SaveHistory, ChP!SaveHistory
<1>2. Ch!SetState(r) => ChP!SetState(r)
  BY SameRevisions, CharterStatement DEF Ch!SetState, ChP!SetState
<1>3. Ch!Save(r) => ChP!Save(r)
  BY SameRevisions, CharterStatement DEF Ch!Save, ChP!Save
<1>4. Ch!Close(r) => ChP!Close(r)
  BY SameRevisions, CharterStatement DEF Ch!Close, ChP!Close
<1>5. Ch!CreateBallot(r) => ChP!CreateBallot(r)
  BY SameRevisions, CharterStatement DEF Ch!CreateBallot, ChP!CreateBallot
<1>6. Ch!SetGroup(r) => ChP!SetGroup(r)
  BY SameRevisions, CharterStatement DEF Ch!SetGroup, ChP!SetGroup
<1>7. Ch!WriteText(r) => ChP!WriteText(r)
  BY SameRevisions, CharterStatement DEF Ch!WriteText, ChP!WriteText
<1>8. Ch!CopyText(r) => ChP!CopyText(r)
  BY SameRevisions, CharterStatement DEF Ch!CopyText, ChP!CopyText
<1>9. Ch!CopyFails(r) => ChP!CopyFails(r)
  BY SameRevisions, CharterStatement DEF Ch!CopyFails, Ch!row, ChP!CopyFails, ChP!row
<1>10. Ch!Announce(r) => ChP!Announce(r)
  BY SameRevisions, CharterStatement DEF Ch!Announce, ChP!Announce
<1>11. Ch!Renumber(r) => ChP!Renumber(r)
  BY SameRevisions, CharterStatement DEF Ch!Renumber, ChP!Renumber
<1> QED BY <1>1, <1>2, <1>3, <1>4, <1>5, <1>6, <1>7, <1>8, <1>9, <1>10, <1>11
       DEF Ch!Step, ChP!Step

LEMMA CharterMove ==
  ASSUME part = "charter", [MCNext]_allVars
  PROVE  part' = part /\ [ChP!NextOK \/ ChP!Abort]_ChP!vars
<1>1. CASE CharterMoves
  <2>s. Ch!Show => ChP!Show
    BY DEF Ch!Show, Ch!Quiet, Ch!Current, Ch!Rev, Ch!Process!Rev, ChP!Show, ChP!Quiet, ChP!Current,
           ChP!Rev, ChP!Process!Rev
  <2>1. CASE Ch!NextOK
    <3>1. ChP!NextOK
      BY <2>1, <2>s, CharterStarts, CharterSteps DEF Ch!NextOK, ChP!NextOK
    <3> QED BY <1>1, <3>1 DEF CharterMoves
  <2>2. CASE Ch!Abort
    <3>1. ChP!Abort
      BY <2>2, <2>s, SameRevisions DEF Ch!Abort, Ch!Dies, Ch!row, ChP!Abort, ChP!Dies, ChP!row
    <3> QED BY <1>1, <3>1 DEF CharterMoves
  <2> QED BY <1>1, <2>1, <2>2 DEF CharterMoves
<1>2. CASE UNCHANGED allVars
  BY <1>2 DEF allVars, charterRows, ChP!vars
<1> QED
  BY <1>1, <1>2 DEF MCNext, MilestonesMove, IanaMoves, QueueMoves, NominationsMove,
                    SessionsMove, MaterialsMove, MailMoves, ListsMove

LEMMA ListMove ==
  ASSUME part = "lists", [MCNext]_allVars
  PROVE  part' = part /\ [ListP!Next]_ListP!listVars
<1>1. CASE ListsMove
  <2>1. Co!Next
    BY <1>1 DEF ListsMove
  <2>2. ListP!Next
    BY <2>1 DEF Co!Next, Co!Start, Co!Step, Co!AddRule, Co!RemoveRule, Co!Look, Co!UpdateLists,
                Co!View, Co!Track, Co!Untrack, Co!Add, Co!FindIds, Co!Update, Co!Forget, Co!Resave,
                Co!Sweep, Co!Render, Co!Keep, Co!World, Co!Abort, Co!At, Co!Busy, Co!Goto,
                Co!Change, Co!Clear, Co!Documents, Co!NoPage, Co!NoRule, Co!Viewing, Co!Changing,
                ListP!Next, ListP!Start, ListP!Step, ListP!AddRule, ListP!RemoveRule, ListP!Look,
                ListP!UpdateLists, ListP!View, ListP!Track, ListP!Untrack, ListP!Add, ListP!FindIds,
                ListP!Update, ListP!Forget, ListP!Resave, ListP!Sweep, ListP!Render, ListP!Keep,
                ListP!World, ListP!Abort, ListP!At, ListP!Busy, ListP!Goto, ListP!Change,
                ListP!Clear, ListP!Documents, ListP!NoPage, ListP!NoRule, ListP!Viewing,
                ListP!Changing
  <2> QED BY <1>1, <2>2 DEF ListsMove
<1>2. CASE UNCHANGED allVars
  BY <1>2 DEF allVars, listRows, ListP!listVars
<1> QED
  BY <1>1, <1>2 DEF MCNext, CharterMoves, MilestonesMove, IanaMoves, QueueMoves, NominationsMove,
                    SessionsMove, MaterialsMove, MailMoves

LEMMA NominationMove ==
  ASSUME part = "nominations", [MCNext]_allVars
  PROVE  part' = part /\ [NomP!NextOK \/ NomP!Abort]_NomP!nomVars
<1>1. CASE NominationsMove
  <2>1. CASE No!Idle /\ No!Reaction
    <3>1. NomP!Reaction
      BY <2>1 DEF No!Reaction, No!Reply, No!SetAnswer, No!NotDuplicated, No!Answer,
                  NomP!Reaction, NomP!Reply, NomP!SetAnswer, NomP!NotDuplicated, NomP!Answer
    <3> QED BY <1>1, <3>1 DEF NominationsMove, NomP!NextOK
  <2>2. ASSUME NEW c \in Clerk, No!Start(c) PROVE NomP!Start(c)
    BY <2>2 DEF No!Start, No!Nominate, No!Primary, No!Passes, No!Resting, No!NoOne, No!Merge,
                No!Valid, No!NotDuplicated, No!OnList, No!nomRow,
                NomP!Start, NomP!Nominate, NomP!Primary, NomP!Passes, NomP!Resting, NomP!NoOne,
                NomP!Merge, NomP!Valid, NomP!NotDuplicated, NomP!OnList, NomP!nomRow
  <2>3. ASSUME NEW c \in Clerk, No!Step(c) PROVE NomP!Step(c)
    BY <2>3 DEF No!Step, No!Store, No!Take, No!MoveNominations, No!MergePosition, No!Hide,
                No!Finish, No!GoesTo, No!Joint, No!Resting, No!NoOne, No!nomRow,
                NomP!Step, NomP!Store, NomP!Take, NomP!MoveNominations, NomP!MergePosition,
                NomP!Hide, NomP!Finish, NomP!GoesTo, NomP!Joint, NomP!Resting, NomP!NoOne,
                NomP!nomRow
  <2>4. CASE No!Abort
    <3>1. NomP!Abort
      BY <2>4 DEF No!Abort, No!Killed, No!Resting, No!NoOne, No!nomRow,
                  NomP!Abort, NomP!Killed, NomP!Resting, NomP!NoOne, NomP!nomRow
    <3> QED BY <1>1, <3>1 DEF NominationsMove
  <2> QED BY <1>1, <2>1, <2>2, <2>3, <2>4 DEF NominationsMove, NomP!NextOK
<1>2. CASE UNCHANGED allVars
  BY <1>2 DEF allVars, nominationRows, NomP!nomVars, NomP!nomRow
<1> QED
  BY <1>1, <1>2 DEF MCNext, CharterMoves, MilestonesMove, IanaMoves, QueueMoves, SessionsMove,
                    MaterialsMove, MailMoves, ListsMove

\* The parts begin as their modules do.
LEMMA CharterBegins ==
  ASSUME MaxMajor \in Nat \ {0}, MaxMinor \in Nat PROVE MCInit => ChPart
<1>1. MCInit /\ part = "charter" => ChP!Init
  BY SameRevisions DEF MCInit, Ch!Init, ChP!Init
<1>2. ChP!Bounds
  BY DEF ChP!Bounds
<1> QED BY <1>1, <1>2, ChP!CharterInit DEF ChPart

LEMMA ListBegins == MCInit => ListPart
<1>1. MCInit /\ part = "lists" => ListP!Init
  BY DEF MCInit, Co!Init, Co!NoRule, Co!NoPage, Co!Idle, ListP!Init, ListP!NoRule, ListP!NoPage,
         ListP!Idle
<1> QED BY <1>1, ListP!ListInit DEF ListPart

LEMMA NominationsBegin == Nominee # {} /\ MCInit => NomPart
<1>1. MCInit /\ part = "nominations" => NomP!Init
  BY DEF MCInit, No!Init, No!Resting, No!NoOne, NomP!Init, NomP!Resting, NomP!NoOne
<1> QED BY <1>1, NomP!NomInit DEF NomPart

\* charter_with_milestones_txt: for any number of revisions and of overlapping
\* requests, the text of the revision a charter has was announced.
THEOREM CharterTextsAnnounced ==
  ASSUME MaxMajor \in Nat \ {0}, MaxMinor \in Nat
  PROVE  MCSpec => []TextIsAnnounced
<1>0. ChP!Bounds
  BY DEF ChP!Bounds
<1>1. MCInit => ChPart
  BY CharterBegins
<1>2. ChPart /\ [MCNext]_allVars => ChPart'
  BY <1>0, CharterMove, PartStays, ChP!CharterStep DEF ChPart
<1>3. ChPart => TextIsAnnounced
  BY <1>0, ChP!TextFollows DEF ChPart, ChP!TextIsAnnounced, TextIsAnnounced, Ch!TextIsAnnounced
<1> QED
  BY <1>1, <1>2, <1>3, PTL DEF MCSpec

\* CommunityList.cached: with any number of overlapping requests that may die
\* anywhere, the page that is kept shows the list.
THEOREM PagesAreCurrent == MCSpec => []PageIsCurrent
<1>1. ListPart /\ [MCNext]_allVars => ListPart'
  BY ListMove, PartStays, ListP!ListStep DEF ListPart
<1>2. ListPart => PageIsCurrent
  BY DEF ListPart, ListP!ListInv, ListP!OldIsCleared, ListP!Busy, ListP!Documents, PageIsCurrent,
         Co!PageIsCurrent, Co!Busy, Co!Changing, Co!Documents
<1> QED
  BY <1>1, <1>2, ListBegins, PTL DEF MCSpec

\* nomcom: with one clerk, for any number of nominees, whoever follows duplicates
\* arrives at a nominee on the list.
THEOREM DuplicatesAreFollowed ==
  ASSUME Nominee # {}, \A c, d \in Clerk : c = d
  PROVE  MCSpec => []DuplicatesEnd
<1>1. MCInit => NomPart
  BY NominationsBegin
<1>2. NomPart /\ [MCNext]_allVars => NomPart'
  BY NominationMove, PartStays, NomP!NomStep DEF NomPart
<1>3. NomPart => DuplicatesEnd
  BY DEF NomPart, NomP!NomInv, NomP!DuplicatesEnd, DuplicatesEnd, No!DuplicatesEnd
<1> QED
  BY <1>1, <1>2, <1>3, PTL DEF MCSpec

\* What a charter request does when none has died before: a step of the module
\* without deaths, and a death is remembered.
LEMMA CharterMoveOK ==
  ASSUME part = "charter", [MCNext]_allVars
  PROVE  (failed => failed') /\ (failed' \/ [ChP!NextOK]_ChP!vars)
<1>1. CASE CharterMoves
  <2>1. CASE Ch!NextOK /\ Works
    <3>1. Ch!Show => ChP!Show
      BY DEF Ch!Show, Ch!Quiet, Ch!Current, Ch!Rev, Ch!Process!Rev, ChP!Show, ChP!Quiet, ChP!Current,
             ChP!Rev, ChP!Process!Rev
    <3>2. ChP!NextOK
      BY <2>1, <3>1, CharterStarts, CharterSteps DEF Ch!NextOK, ChP!NextOK
    <3> QED BY <2>1, <3>2 DEF Works
  <2>2. CASE Breaks
    BY <2>2 DEF Breaks
  <2> QED BY <1>1, <2>1, <2>2 DEF CharterMoves
<1>2. CASE UNCHANGED allVars
  BY <1>2 DEF allVars, charterRows, ChP!vars
<1> QED
  BY <1>1, <1>2 DEF MCNext, MilestonesMove, IanaMoves, QueueMoves, NominationsMove,
                    SessionsMove, MaterialsMove, MailMoves, ListsMove

ChSerial == part = "charter" => failed \/ ChP!SerialInv

LEMMA CharterSerial ==
  ASSUME MaxMajor \in Nat \ {0}, MaxMinor \in Nat, \A a, c \in Req : a = c
  PROVE  /\ MCInit => ChSerial /\ (part = "charter" => ChP!Process!Init)
         /\ ChSerial /\ [MCNext]_allVars =>
              ChSerial' /\ (part = "charter" => failed' \/ [ChP!Process!Next]_shown)
<1>0. ChP!Serial /\ ChP!Bounds
  BY DEF ChP!Serial, ChP!Bounds
<1>1. MCInit /\ part = "charter" => ChP!Init
  BY SameRevisions DEF MCInit, Ch!Init, ChP!Init
<1>2. ASSUME ChSerial, [MCNext]_allVars
      PROVE  ChSerial' /\ (part = "charter" => failed' \/ [ChP!Process!Next]_shown)
  <2>1. CASE part = "charter" /\ ~failed'
    <3>1. ChP!SerialInv /\ [ChP!NextOK]_ChP!vars
      BY <1>2, <2>1, CharterMoveOK DEF ChSerial
    <3>2. ChP!SerialInv' /\ [ChP!Process!Next]_shown
      BY <1>0, <3>1, ChP!SerialStep
    <3> QED BY <3>2 DEF ChSerial
  <2> QED BY <1>2, <2>1, PartStays DEF ChSerial
<1>3. MCInit => ChSerial /\ (part = "charter" => ChP!Process!Init)
  BY <1>0, <1>1, ChP!SerialInit, ChP!ProcessBegins DEF ChSerial
<1> QED BY <1>2, <1>3

\* views_charter: for any number of revisions, with requests that do not overlap,
\* and until one of them dies: a number belongs to one text.
THEOREM CharterTextsAreFinal ==
  ASSUME MaxMajor \in Nat \ {0}, MaxMinor \in Nat, \A a, c \in Req : a = c
  PROVE  MCSpec => []TextsAreFinalUnlessFailed
<1>0. ChP!Serial
  BY DEF ChP!Serial, ChP!Bounds
<1>1. (MCInit => ChSerial) /\ (ChSerial /\ [MCNext]_allVars => ChSerial')
  BY CharterSerial
<1>2. ChSerial => TextsAreFinalUnlessFailed
  BY <1>0, ChP!TextsFinal, SameRevisions
     DEF ChSerial, TextsAreFinalUnlessFailed, ChP!TextsAreFinal, Ch!TextsAreFinal
<1> QED
  BY <1>1, <1>2, PTL DEF MCSpec

\* close_open_ballots: under the same conditions, no ballot hangs after the
\* chartering effort it was issued for.
THEOREM CharterLeavesNoBallot ==
  ASSUME MaxMajor \in Nat \ {0}, MaxMinor \in Nat, \A a, c \in Req : a = c
  PROVE  MCSpec => []NoHangingBallotUnlessFailed
<1>1. (MCInit => ChSerial) /\ (ChSerial /\ [MCNext]_allVars => ChSerial')
  BY CharterSerial
<1>2. ChSerial => NoHangingBallotUnlessFailed
  BY ChP!NothingHangs, SameRevisions
     DEF ChSerial, NoHangingBallotUnlessFailed, ChP!NoHangingBallot, Ch!NoHangingBallot
<1> QED
  BY <1>1, <1>2, PTL DEF MCSpec

\* get_charter_text: under the same conditions, the pages of the group show the
\* text approved last.
THEOREM CharterShownIsApproved ==
  ASSUME MaxMajor \in Nat \ {0}, MaxMinor \in Nat, \A a, c \in Req : a = c
  PROVE  MCSpec => []GroupTextIsApprovedUnlessFailed
<1>0. ChP!Serial
  BY DEF ChP!Serial, ChP!Bounds
<1>1. (MCInit => ChSerial) /\ (ChSerial /\ [MCNext]_allVars => ChSerial')
  BY CharterSerial
<1>2. ChSerial => GroupTextIsApprovedUnlessFailed
  <2>1. Ch!GroupText = ChP!GroupText
    BY DEF Ch!GroupText, ChP!GroupText, Ch!Newer, ChP!Newer, Ch!Process!Newer, ChP!Process!Newer
  <2>2. ChP!GroupTextIsApproved => Ch!GroupTextIsApproved
    BY <2>1, SameRevisions DEF ChP!GroupTextIsApproved, Ch!GroupTextIsApproved,
       Ch!Newer, ChP!Newer, Ch!Process!Newer, ChP!Process!Newer
  <2> QED BY <1>0, <2>2, ChP!GroupShowsApproved DEF ChSerial, GroupTextIsApprovedUnlessFailed
<1> QED
  BY <1>1, <1>2, PTL DEF MCSpec

\* CharterProcess: under the same conditions, each request is one step, or none,
\* of what the chartering pages promise.
THEOREM CharterRefines ==
  ASSUME MaxMajor \in Nat \ {0}, MaxMinor \in Nat, \A a, c \in Req : a = c
  PROVE  MCSpec => FollowsProcess
<1>1. ChP!Process!Init => Ch!Process!Init
  BY DEF ChP!Process!Init, Ch!Process!Init, ChP!Process!Approved, Ch!Process!Approved
<1>2. ChP!Process!Next => Ch!Process!Next
  <2>1. ChP!Process!Revise => Ch!Process!Revise
    BY DEF ChP!Process!Revise, Ch!Process!Revise, ChP!Process!Rev, Ch!Process!Rev,
           ChP!Process!Newer, Ch!Process!Newer
  <2>2. ChP!Process!Move => Ch!Process!Move
    BY DEF ChP!Process!Move, Ch!Process!Move, ChP!Process!Rev, Ch!Process!Rev,
           ChP!Process!Newer, Ch!Process!Newer, ChP!Process!Stage, Ch!Process!Stage,
           ChP!Process!Opens, Ch!Process!Opens
  <2>3. ChP!Process!Abandon => Ch!Process!Abandon
    BY DEF ChP!Process!Abandon, Ch!Process!Abandon, ChP!Process!Approved, Ch!Process!Approved
  <2>4. ChP!Process!Approve => Ch!Process!Approve
    BY DEF ChP!Process!Approve, Ch!Process!Approve, ChP!Process!Rev, Ch!Process!Rev,
           ChP!Process!Newer, Ch!Process!Newer, ChP!Process!Approved, Ch!Process!Approved
  <2>5. ChP!Process!Propose => Ch!Process!Propose
    BY DEF ChP!Process!Propose, Ch!Process!Propose
  <2> QED BY <2>1, <2>2, <2>3, <2>4, <2>5 DEF ChP!Process!Next, Ch!Process!Next
<1>3. MCInit => ChSerial /\ (part = "charter" => Ch!Process!Init)
  BY <1>1, CharterSerial
<1>4. ChSerial /\ [MCNext]_allVars =>
        ChSerial' /\ [part = "charter" => failed' \/ Ch!Process!Next]_shown
  BY <1>2, CharterSerial
<1> QED
  BY <1>3, <1>4, PTL DEF MCSpec, FollowsProcess

\* What a nominating committee's request does: a step of the module, and one
\* that does not die unless it is remembered.
LEMMA NominationMoveOK ==
  ASSUME part = "nominations", [MCNext]_allVars
  PROVE  \/ /\ (NomP!Idle /\ NomP!Reaction) \/ \E c \in Clerk : NomP!Start(c) \/ NomP!Step(c)
            /\ failed' = failed
         \/ NomP!Abort /\ failed' = TRUE
         \/ UNCHANGED <<NomP!nomVars, failed>>
<1>1. CASE NominationsMove
  <2>1. CASE No!Idle /\ No!Reaction /\ Works
    BY <2>1 DEF No!Reaction, No!Reply, No!SetAnswer, No!NotDuplicated, No!Answer, No!Idle, Works,
                NomP!Reaction, NomP!Reply, NomP!SetAnswer, NomP!NotDuplicated, NomP!Answer, NomP!Idle
  <2>2. ASSUME NEW c \in Clerk, No!Start(c) PROVE NomP!Start(c)
    BY <2>2 DEF No!Start, No!Nominate, No!Primary, No!Passes, No!Resting, No!NoOne, No!Merge,
                No!Valid, No!NotDuplicated, No!OnList, No!nomRow,
                NomP!Start, NomP!Nominate, NomP!Primary, NomP!Passes, NomP!Resting, NomP!NoOne,
                NomP!Merge, NomP!Valid, NomP!NotDuplicated, NomP!OnList, NomP!nomRow
  <2>3. ASSUME NEW c \in Clerk, No!Step(c) PROVE NomP!Step(c)
    BY <2>3 DEF No!Step, No!Store, No!Take, No!MoveNominations, No!MergePosition, No!Hide,
                No!Finish, No!GoesTo, No!Joint, No!Resting, No!NoOne, No!nomRow,
                NomP!Step, NomP!Store, NomP!Take, NomP!MoveNominations, NomP!MergePosition,
                NomP!Hide, NomP!Finish, NomP!GoesTo, NomP!Joint, NomP!Resting, NomP!NoOne,
                NomP!nomRow
  <2>4. CASE No!Abort /\ Breaks
    BY <2>4 DEF No!Abort, No!Killed, No!Resting, No!NoOne, No!nomRow, Breaks,
                NomP!Abort, NomP!Killed, NomP!Resting, NomP!NoOne, NomP!nomRow
  <2> QED BY <1>1, <2>1, <2>2, <2>3, <2>4 DEF NominationsMove, Works
<1>2. CASE UNCHANGED allVars
  BY <1>2 DEF allVars, nominationRows, NomP!nomVars, NomP!nomRow
<1> QED
  BY <1>1, <1>2 DEF MCNext, CharterMoves, MilestonesMove, IanaMoves, QueueMoves, SessionsMove,
                    MaterialsMove, MailMoves, ListsMove

NomKept == part = "nominations" => NomP!KeptInv /\ (failed \/ NomP!PlacedInv)

\* nomcom: with one clerk, for any number of nominees and positions, a merge hides
\* no acceptance, wherever it dies; and no nomination, unless a request died.
THEOREM NothingHidden ==
  ASSUME Nominee # {}, \A c, d \in Clerk : c = d
  PROVE  MCSpec => []NothingIsHidden
<1>0. NomP!OneClerk
  BY DEF NomP!OneClerk
<1>1. MCInit => NomKept
  <2>1. MCInit /\ part = "nominations" => NomP!Init
    BY DEF MCInit, No!Init, No!Resting, No!NoOne, NomP!Init, NomP!Resting, NomP!NoOne
  <2> QED BY <2>1, NomP!KeptInit DEF NomKept
<1>2. ASSUME NomKept, [MCNext]_allVars PROVE NomKept'
  <2>1. CASE part = "nominations"
    <3>1. NomP!KeptInv /\ (failed \/ NomP!PlacedInv)
      BY <1>2, <2>1 DEF NomKept
    <3>2. CASE /\ (NomP!Idle /\ NomP!Reaction) \/ \E c \in Clerk : NomP!Start(c) \/ NomP!Step(c)
               /\ failed' = failed
      BY <1>0, <3>1, <3>2, NomP!KeptStep DEF NomKept
    <3>3. CASE NomP!Abort /\ failed' = TRUE
      BY <1>0, <3>1, <3>3, NomP!DeathKeeps DEF NomKept
    <3>4. CASE UNCHANGED <<NomP!nomVars, failed>>
      <4>1. NomP!KeptInv'
        BY <3>1, <3>4 DEF NomP!KeptInv, NomP!NomInv, NomP!TypeOK, NomP!DuplicatesEnd, NomP!Merging,
           NomP!OnlyNominees, NomP!Members, NomP!AnswersKept, NomP!nomVars, NomP!nomRow
      <4>2. NomP!PlacedInv => NomP!PlacedInv'
        BY <3>4 DEF NomP!PlacedInv, NomP!Listed, NomP!Placed, NomP!NotDuplicated, NomP!nomVars,
           NomP!nomRow
      <4> QED BY <3>1, <3>4, <4>1, <4>2 DEF NomKept
    <3> QED BY <1>2, <2>1, <3>2, <3>3, <3>4, NominationMoveOK
  <2> QED BY <1>2, <2>1, PartStays DEF NomKept
<1>3. NomKept => NothingIsHidden
  BY NomP!KeptShows, NomP!PlacedShows
     DEF NomKept, NothingIsHidden, NomP!AcceptanceSurvives, No!AcceptanceSurvives,
         NomP!NominationsAreListed, No!NominationsAreListed, NomP!Idle, No!Idle,
         NomP!NotDuplicated, No!NotDuplicated
<1> QED
  BY <1>1, <1>2, <1>3, PTL DEF MCSpec

(***************************************************************************)
(* Ascending                                                               *)
(***************************************************************************)
LEMMA LeastNumber == ASSUME NEW S \in SUBSET Nat, S # {} PROVE \E n \in S : \A m \in S : n <= m
<1>1. PICK n \in S : \A m \in S : ~ (<<m, n>> \in OpToRel(<, Nat))
  BY NatLessThanWellFounded, WFMin
<1>2. \A m \in S : ~ (m < n)
  BY <1>1 DEF OpToRel
<1> QED BY <1>2

Rising(f, n) == \A j, k \in 1..n : j < k => f[j] < f[k]
Sortable(S)  == \E f \in [1..Cardinality(S) -> S] : Rising(f, Cardinality(S))

\* A finite set of numbers can be put in order: the least of a set that could not
\* be comes before the others, which can.
LEMMA Sorts == ASSUME NEW S \in SUBSET Nat, IsFiniteSet(S) PROVE Sortable(S)
<1> DEFINE Bad == {n \in Nat : \E T \in SUBSET S : Cardinality(T) = n /\ ~ Sortable(T)}
<1>1. ASSUME Bad # {} PROVE FALSE
  <2>1. PICK n \in Bad : \A m \in Bad : n <= m
    BY <1>1, LeastNumber
  <2>2. PICK T \in SUBSET S : Cardinality(T) = n /\ ~ Sortable(T)
    BY <2>1
  <2>3. IsFiniteSet(T) /\ n \in Nat /\ T \subseteq Nat
    BY <2>1, <2>2, FS_Subset
  <2>4. T # {}
    <3>1. SUFFICES ASSUME T = {} PROVE FALSE
      OBVIOUS
    <3>2. n = 0
      BY <2>2, <3>1, FS_EmptySet
    <3>3. [i \in 1..0 |-> 0] \in [1..0 -> T] /\ Rising([i \in 1..0 |-> 0], 0)
      BY DEF Rising
    <3> QED BY <2>2, <3>2, <3>3 DEF Sortable
  <2>5. PICK a \in T : \A b \in T : a <= b
    BY <2>4, LeastNumber
  <2>6. IsFiniteSet(T \ {a}) /\ Cardinality(T \ {a}) = n - 1 /\ n - 1 \in Nat
    <3>1. IsFiniteSet(T \ {a}) /\ Cardinality(T \ {a}) = n - 1
      BY <2>2, <2>3, FS_RemoveElement
    <3> QED BY <3>1, FS_CardinalityType
  <2>7. Sortable(T \ {a})
    <3>1. n - 1 \notin Bad
      BY <2>1, <2>3
    <3> QED BY <2>6, <3>1
  <2>8. PICK f \in [1..n - 1 -> T \ {a}] : Rising(f, n - 1)
    BY <2>6, <2>7 DEF Sortable
  <2> DEFINE g == [i \in 1..n |-> IF i = 1 THEN a ELSE f[i - 1]]
  <2>9. \A i \in 2..n : i - 1 \in 1..n - 1 /\ f[i - 1] \in T \ {a}
    BY <2>3, <2>8
  <2>10. g \in [1..n -> T]
    BY <2>3, <2>9
  <2>11. ASSUME NEW j \in 1..n, NEW k \in 1..n, j < k PROVE g[j] < g[k]
    <3>1. k \in 2..n /\ g[k] = f[k - 1]
      BY <2>3, <2>11
    <3>2. CASE j = 1
      <4>1. g[j] = a /\ f[k - 1] \in T \ {a}
        BY <2>9, <3>1, <3>2
      <4>2. a \in Nat /\ f[k - 1] \in Nat /\ a <= f[k - 1] /\ a # f[k - 1]
        BY <2>3, <2>5, <4>1
      <4> QED BY <3>1, <4>1, <4>2
    <3>3. CASE j # 1
      <4>1. j \in 2..n /\ g[j] = f[j - 1]
        BY <2>3, <3>3
      <4>2. j - 1 \in 1..n - 1 /\ k - 1 \in 1..n - 1 /\ j - 1 < k - 1
        BY <2>3, <2>9, <2>11, <3>1, <4>1
      <4>3. f[j - 1] < f[k - 1]
        BY <2>8, <4>2 DEF Rising
      <4> QED BY <3>1, <4>1, <4>3
    <3> QED BY <3>2, <3>3
  <2>12. Rising(g, n)
    BY <2>11 DEF Rising
  <2> HIDE DEF g
  <2>13. Sortable(T)
    BY <2>2, <2>10, <2>12 DEF Sortable
  <2> QED BY <2>2, <2>13
<1>2. Cardinality(S) \in Nat
  BY FS_CardinalityType
<1> QED BY <1>1, <1>2

\* What "if" leaves of n rows: numbers of them, each at most once, in their order.
LEMMA Kept ==
  ASSUME NEW n \in Nat, NEW S \in SUBSET (1..n)
  PROVE  LET k == Cardinality(S) IN
         /\ IsFiniteSet(S) /\ k \in 0..n
         /\ \E g \in [1..k -> S] : Rising(g, k)
         /\ \A f \in [1..k -> S] : Rising(f, k) => f \in Bijection(1..k, S)
<1> DEFINE k == Cardinality(S)
<1>1. IsFiniteSet(1..n) /\ Cardinality(1..n) = n
  BY FS_Interval
<1>2. IsFiniteSet(S) /\ k <= n
  BY <1>1, FS_Subset
<1>3. k \in Nat
  BY <1>2, FS_CardinalityType
<1>4. \E g \in [1..k -> S] : Rising(g, k)
  <2>1. S \in SUBSET Nat
    OBVIOUS
  <2> QED BY <1>2, <2>1, Sorts DEF Sortable
<1>5. ASSUME NEW f \in [1..k -> S], Rising(f, k) PROVE f \in Bijection(1..k, S)
  <2> HIDE DEF k
  <2>1. ASSUME NEW i \in 1..k, NEW j \in 1..k, f[i] = f[j] PROVE i = j
    <3>0. f[i] \in S
      BY <1>5
    <3>1. f[i] \in Nat /\ i \in Int /\ j \in Int
      <4>1. f[i] \in 1..n
        BY <3>0
      <4>2. i \in Int /\ j \in Int
        BY <1>3
      <4> QED BY <4>1, <4>2
    <3>2. ~ (i < j) /\ ~ (j < i)
      BY <1>5, <2>1, <3>1 DEF Rising
    <3> QED BY <3>1, <3>2
  <2>2. f \in Injection(1..k, S)
    <3>1. \A i, j \in 1..k : f[i] = f[j] => i = j
      BY <2>1
    <3> QED BY <1>5, <3>1 DEF Injection, IsInjective
  <2>3. Cardinality(1..k) = k
    BY <1>3, FS_Interval
  <2>4. f \in Surjection(1..k, S)
    BY <1>2, <2>2, <2>3, FS_Injection DEF k
  <2> QED BY <2>2, <2>4 DEF Bijection
<1> QED BY <1>2, <1>3, <1>4, <1>5

(***************************************************************************)
(* Sessions: rows and agenda, while requests write one after the other     *)
(***************************************************************************)
\* Of the rows that an unapproved session gets, none is meant to be the third.
SesWrite == {w \in Se!Write : w.do = "create" /\ w.status = "schedw" => w.sees <= 1}

\* In the agenda with a status that does not meet, and nothing excepts it
Bad(x)      == x.slots > 0 /\ x.status \in Se!Barred /\ ~ x.odd
Fixes(d, i) == d # << >> /\ Se!Repairs(Head(d), i)

Waiting(s) == {i \in Se!Id : s[i].status = "schedw"}
Few(s)     == Cardinality(Waiting(s)) <= 2

SesTypes ==
  /\ session \in [Se!Id -> Se!SessionRow] /\ form \in [User -> Se!Form]
  /\ desk \in [User -> Seq(SesWrite)] /\ raced \in BOOLEAN

SesInv ==
  /\ SesTypes
  /\ \A i \in Se!Id : Bad(session[i]) => \E u \in User : Fixes(desk[u], i)
  /\ raced \/ Few(session)

SesAssumption == MaxRows \in Nat

LEMMA SameCardinality == \A S : Se!Cardinality(S) = Cardinality(S)
BY Zenon DEF Se!Cardinality, Cardinality

LEMMA SomeRows ==
  ASSUME SesAssumption, NEW S \in SUBSET Se!Id
  PROVE  /\ IsFiniteSet(S) /\ Cardinality(S) \in Nat
         /\ \A T \in SUBSET S : Cardinality(T) \in Nat /\ Cardinality(T) <= Cardinality(S)
<1>1. IsFiniteSet(1..MaxRows)
  <2>1. 1 \in Int /\ MaxRows \in Int
    BY DEF SesAssumption
  <2> QED BY <2>1, FS_Interval, Zenon
<1>2. IsFiniteSet(S)
  BY <1>1, FS_Subset DEF Se!Id
<1> QED BY <1>2, FS_Subset, FS_CardinalityType

\* What a write says
LEMMA WriteIs ==
  ASSUME NEW w \in SesWrite
  PROVE  /\ w.do \in {"withdraw", "drop", "assign", "free", "take", "delete", "save", "rewrite"} => w.row \in Se!Id
         /\ w.do = "save" => w.status \in {"sched", "canceled", "appr"}
         /\ w.do = "rewrite" => w.status \in Se!Status
         /\ w.do = "create" => w.status \in {"schedw", "apprw", "notmeet"} /\ w.sees \in 0..2
                               /\ (w.status = "schedw" => w.sees <= 1)
BY DEF SesWrite, Se!Write

LEMMA WritesAre ==
  /\ \A do \in {"withdraw", "drop", "assign", "free", "take", "delete"}, i \in Se!Id : Se!On(do, i) \in SesWrite
  /\ \A i \in Se!Id, status \in {"sched", "canceled", "appr"} : Se!Save(i, status) \in SesWrite
  /\ \A i \in Se!Id : session[i].status \in Se!Status => Se!Rewrite(i) \in SesWrite
  /\ Se!Create("schedw", 0) \in SesWrite /\ Se!Create("schedw", 1) \in SesWrite
  /\ Se!Create("apprw", 0) \in SesWrite /\ Se!Create("notmeet", 0) \in SesWrite
  /\ \A states \in SUBSET Se!Status : Se!Purge(states) \in SesWrite
  /\ [do |-> "ask"] \in SesWrite /\ [do |-> "forget"] \in SesWrite
<1>1. \A do \in {"withdraw", "drop", "assign", "free", "take", "delete"}, i \in Se!Id : Se!On(do, i) \in SesWrite
  BY DEF Se!On, SesWrite, Se!Write
<1>2. \A i \in Se!Id, status \in {"sched", "canceled", "appr"} : Se!Save(i, status) \in SesWrite
  BY DEF Se!Save, SesWrite, Se!Write
<1>3. \A i \in Se!Id : session[i].status \in Se!Status => Se!Rewrite(i) \in SesWrite
  BY DEF Se!Rewrite, SesWrite, Se!Write
<1>4. /\ Se!Create("schedw", 0) \in SesWrite /\ Se!Create("schedw", 1) \in SesWrite
      /\ Se!Create("apprw", 0) \in SesWrite /\ Se!Create("notmeet", 0) \in SesWrite
  BY DEF Se!Create, SesWrite, Se!Write
<1>5. \A states \in SUBSET Se!Status : Se!Purge(states) \in SesWrite
  BY DEF Se!Purge, SesWrite, Se!Write
<1>6. [do |-> "ask"] \in SesWrite /\ [do |-> "forget"] \in SesWrite
  BY DEF SesWrite, Se!Write
<1> QED BY <1>1, <1>2, <1>3, <1>4, <1>5, <1>6

\* Requests write one after the other
LEMMA Sequences ==
  /\ << >> \in Seq(SesWrite)
  /\ \A w \in SesWrite : <<w>> \in Seq(SesWrite)
  /\ \A s, t \in Seq(SesWrite) : s \o t \in Seq(SesWrite)
<1>1. \A s, t \in Seq(SesWrite) : s \o t \in Seq(SesWrite)
  BY ConcatProperties
<1> QED BY <1>1

\* One request goes on, the others stay where they are.
LEMMA OthersFix ==
  ASSUME SesInv, NEW u \in User, NEW d \in Seq(SesWrite), desk' = [desk EXCEPT ![u] = d],
         session' \in [Se!Id -> Se!SessionRow], form' \in [User -> Se!Form], raced' \in BOOLEAN,
         \A i \in Se!Id : Bad(session'[i]) => Fixes(d, i) \/ (Bad(session[i]) /\ ~ Fixes(desk[u], i)),
         raced' \/ Few(session')
  PROVE  SesInv'
<1>1. desk' \in [User -> Seq(SesWrite)] /\ desk'[u] = d /\ \A v \in User \ {u} : desk'[v] = desk[v]
  BY DEF SesInv, SesTypes
<1>2. ASSUME NEW i \in Se!Id, Bad(session'[i]) PROVE \E v \in User : Fixes(desk'[v], i)
  <2>1. CASE Fixes(d, i)
    BY <1>1, <2>1
  <2>2. CASE Bad(session[i]) /\ ~ Fixes(desk[u], i)
    <3>1. PICK v \in User : Fixes(desk[v], i)
      BY <2>2 DEF SesInv
    <3> QED BY <1>1, <2>2, <3>1
  <2> QED BY <1>2, <2>1, <2>2
<1>3. (Few(session))' <=> Few(session')
  BY DEF Few, Waiting
<1>4. \A i \in Se!Id : (Bad(session[i]))' <=> Bad(session'[i])
  BY DEF Bad
<1>5. \A i \in Se!Id, v \in User : (Fixes(desk[v], i))' <=> Fixes(desk'[v], i)
  BY DEF Fixes
<1> QED BY <1>1, <1>2, <1>3, <1>4, <1>5 DEF SesInv, SesTypes

LEMMA GoesOn ==
  ASSUME SesInv, NEW u \in User, desk[u] # << >>, NEW ws \in Seq(SesWrite), Se!Then(u, ws),
         session' \in [Se!Id -> Se!SessionRow], form' \in [User -> Se!Form], raced' \in BOOLEAN,
         \A i \in Se!Id : Bad(session'[i]) =>
           \/ \E x \in SesWrite : ws = <<x>> /\ Se!Repairs(x, i)
           \/ Bad(session[i]) /\ ~ Se!Repairs(Head(desk[u]), i),
         raced' \/ Few(session')
  PROVE  SesInv'
<1>1. PICK q \in Seq(SesWrite) : q = desk[u]
  BY DEF SesInv, SesTypes
<1>2. PICK t \in Seq(SesWrite) : t = Tail(q)
  <2>1. q # << >>
    BY <1>1
  <2>2. Tail(q) \in Seq(SesWrite)
    BY <2>1, HeadTailProperties
  <2> QED BY <2>2
<1>3. PICK d \in Seq(SesWrite) : d = ws \o t
  BY <1>2, ConcatProperties
<1>4. desk' = [desk EXCEPT ![u] = d]
  BY <1>1, <1>2, <1>3 DEF Se!Then
<1>5. ASSUME NEW x \in SesWrite, ws = <<x>> PROVE d # << >> /\ Head(d) = x
  <2>1. Len(ws) = 1 /\ ws[1] = x /\ Len(t) \in Nat
    BY <1>2, <1>5
  <2>2. Len(d) = Len(ws) + Len(t) /\ d[1] = ws[1]
    <3>1. /\ ws \o t \in Seq(SesWrite) /\ Len(ws \o t) = Len(ws) + Len(t)
          /\ \A k \in 1..Len(ws) + Len(t) : (ws \o t)[k] = IF k <= Len(ws) THEN ws[k] ELSE t[k - Len(ws)]
      BY <1>2, ConcatProperties, Zenon
    <3>2. 1 \in 1..Len(ws) + Len(t) /\ 1 <= Len(ws)
      BY <2>1
    <3> QED BY <1>3, <3>1, <3>2
  <2> QED BY <1>3, <2>1, <2>2
<1>6. \A i \in Se!Id : Bad(session'[i]) => Fixes(d, i) \/ (Bad(session[i]) /\ ~ Fixes(desk[u], i))
  BY <1>5 DEF Fixes
<1> QED BY <1>4, <1>6, OthersFix

\* What a write of row i makes of the rows
Updated(i, status, slots, ex) ==
  /\ session' \in [Se!Id -> Se!SessionRow]
  /\ session'[i].status = status /\ session'[i].slots = slots
  /\ session'[i].odd <=> (session[i].odd \/ ex) /\ slots > 0 /\ status \in Se!Barred
  /\ \A j \in Se!Id \ {i} : session'[j] = session[j]

LEMMA UpdateIs ==
  ASSUME session \in [Se!Id -> Se!SessionRow], NEW i \in Se!Id, NEW status \in Se!Status \cup {"none", "gone"},
         NEW slots \in 0..2, NEW ex \in BOOLEAN, Se!Update(i, status, slots, ex)
  PROVE  Updated(i, status, slots, ex)
<1>1. PICK b \in BOOLEAN : b <=> (session[i].odd \/ ex) /\ slots > 0 /\ status \in Se!Barred
  OBVIOUS
<1>2. session' = [session EXCEPT ![i] = [status |-> status, slots |-> slots, odd |-> b]]
  <2>1. b = ((session[i].odd \/ ex) /\ slots > 0 /\ status \in Se!Barred)
    BY <1>1
  <2> QED BY <2>1, Zenon DEF Se!Update
<1> QED BY <1>1, <1>2 DEF Se!SessionRow, Updated

LEMMA RecountIs ==
  ASSUME SesAssumption, SesInv, NEW ex \in BOOLEAN, Se!Recount(ex),
         ~ raced /\ ~ ex => Few(session')
  PROVE  raced' \in BOOLEAN /\ (raced' \/ Few(session'))
<1>1. Se!Cardinality(Se!With({"schedw"}))' = Cardinality(Waiting(session'))
  BY SameCardinality DEF Se!With, Waiting
<1>2. raced' = ((raced \/ ex) /\ Cardinality(Waiting(session')) > 2)
  BY <1>1 DEF Se!Recount
<1>3. PICK n \in Nat : n = Cardinality(Waiting(session'))
  BY SomeRows DEF Waiting
<1>4. (n > 2 \/ n <= 2) /\ ~ (n > 2 /\ n <= 2)
  BY <1>3
<1>5. CASE (raced \/ ex) /\ n > 2
  BY <1>2, <1>3, <1>5, Zenon
<1>6. CASE ~ ((raced \/ ex) /\ n > 2)
  <2>1. raced' = FALSE
    BY <1>2, <1>3, <1>6, Zenon
  <2>2. raced \/ ex \/ Few(session')
    OBVIOUS
  <2>3. Few(session')
    BY <1>3, <1>4, <1>6, <2>2 DEF Few
  <2> QED BY <2>1, <2>3
<1> QED BY <1>5, <1>6

LEMMA FewStay ==
  ASSUME SesAssumption, Few(session),
         \A i \in Se!Id : session'[i].status = "schedw" => session[i].status = "schedw"
  PROVE  Few(session')
<1>1. Waiting(session') \in SUBSET Waiting(session) /\ Waiting(session) \in SUBSET Se!Id
  BY DEF Waiting
<1>2. /\ Cardinality(Waiting(session)) \in Nat /\ Cardinality(Waiting(session')) \in Nat
      /\ Cardinality(Waiting(session')) <= Cardinality(Waiting(session))
  BY <1>1, SomeRows
<1> QED BY <1>2 DEF Few

\* A write of one row
LEMMA RowUpdated ==
  ASSUME SesAssumption, SesInv, NEW u \in User, desk[u] # << >>, NEW w, w = Head(desk[u]),
         NEW i \in Se!Id, NEW status \in Se!Status \cup {"none", "gone"}, NEW slots \in 0..2, NEW ex \in BOOLEAN,
         Se!Update(i, status, slots, ex), NEW ws \in Seq(SesWrite), Se!Then(u, ws), UNCHANGED form,
         \A j \in Se!Id : Se!Repairs(w, j) => j = i /\ (slots = 0 \/ status \notin Se!Barred),
         \/ slots = 0 \/ status \notin Se!Barred \/ ex
         \/ \E x \in SesWrite : ws = <<x>> /\ Se!Repairs(x, i)
         \/ session[i].slots > 0 /\ session[i].status = status,
         \/ Se!Recount(ex) /\ (status = "schedw" => ex \/ session[i].status = "schedw")
         \/ UNCHANGED raced /\ session[i].status = status
  PROVE  SesInv'
<1>0. session \in [Se!Id -> Se!SessionRow] /\ form \in [User -> Se!Form] /\ raced \in BOOLEAN /\ (raced \/ Few(session))
  BY DEF SesInv, SesTypes
<1>1. /\ session' \in [Se!Id -> Se!SessionRow]
      /\ session'[i].status = status /\ session'[i].slots = slots
      /\ session'[i].odd <=> (session[i].odd \/ ex) /\ slots > 0 /\ status \in Se!Barred
      /\ \A j \in Se!Id \ {i} : session'[j] = session[j]
  <2>1. Updated(i, status, slots, ex)
    BY <1>0, UpdateIs
  <2> QED BY <2>1 DEF Updated
<1>2. ASSUME NEW j \in Se!Id, Bad(session'[j])
      PROVE  \/ \E x \in SesWrite : ws = <<x>> /\ Se!Repairs(x, j)
             \/ Bad(session[j]) /\ ~ Se!Repairs(Head(desk[u]), j)
  <2>1. CASE j # i
    <3>1. session'[j] = session[j] /\ ~ Se!Repairs(w, j)
      BY <1>1, <2>1
    <3> QED BY <1>2, <3>1
  <2>2. CASE j = i
    <3>1. slots > 0 /\ status \in Se!Barred /\ ~ session[i].odd /\ ~ ex
      BY <1>1, <1>2, <2>2 DEF Bad
    <3>2. ~ Se!Repairs(w, i)
      BY <3>1
    <3> QED BY <2>2, <3>1, <3>2 DEF Bad
  <2> QED BY <2>1, <2>2
<1>3. raced' \in BOOLEAN /\ (raced' \/ Few(session'))
  <2>1. CASE Se!Recount(ex) /\ (status = "schedw" => ex \/ session[i].status = "schedw")
    <3>1. ASSUME ~ raced, ~ ex PROVE Few(session')
      <4>1. \A j \in Se!Id : session'[j].status = "schedw" => session[j].status = "schedw"
        BY <1>1, <2>1, <3>1
      <4> QED BY <1>0, <3>1, <4>1, FewStay
    <3> QED BY <2>1, <3>1, RecountIs
  <2>2. CASE UNCHANGED raced /\ session[i].status = status
    <3>1. \A j \in Se!Id : session'[j].status = "schedw" => session[j].status = "schedw"
      BY <1>1, <2>2
    <3> QED BY <1>0, <2>2, <3>1, FewStay
  <2> QED BY <2>1, <2>2
<1> QED BY <1>0, <1>1, <1>2, <1>3, GoesOn

LEMMA RowFields ==
  ASSUME SesInv, NEW i \in Se!Id
  PROVE  /\ session[i].status \in Se!Status \cup {"none", "gone"}
         /\ session[i].slots \in 0..2 /\ session[i].odd \in BOOLEAN
BY DEF SesInv, SesTypes, Se!SessionRow

LEMMA HeadIs ==
  ASSUME SesInv, NEW u \in User, desk[u] # << >>
  PROVE  Head(desk[u]) \in SesWrite /\ Tail(desk[u]) \in Seq(SesWrite)
BY HeadTailProperties DEF SesInv, SesTypes

LEMMA WithdrawKeeps ==
  ASSUME SesAssumption, SesInv, NEW u \in User, desk[u] # << >>, NEW w, w = Head(desk[u]), Se!Withdraw(u, w)
  PROVE  SesInv'
<1>1. w \in SesWrite /\ w.do = "withdraw" /\ w.row \in Se!Id
  BY HeadIs, WriteIs DEF Se!Withdraw
<1>a. PICK i \in Se!Id : i = w.row
  BY <1>1
<1>b. PICK x : x = Se!On("drop", i)
  OBVIOUS
<1>2. x \in SesWrite /\ <<x>> \in Seq(SesWrite) /\ Se!Repairs(x, i)
  BY <1>b, WritesAre DEF Se!Repairs, Se!On
<1>3. /\ Se!Update(i, "deleted", session[i].slots, FALSE) /\ Se!Recount(FALSE)
      /\ Se!Then(u, <<x>>) /\ UNCHANGED form
  BY <1>a, <1>b DEF Se!Withdraw
<1>4. \A j \in Se!Id : ~ Se!Repairs(w, j)
  BY <1>1 DEF Se!Repairs
<1>5. session[i].slots \in 0..2 /\ "deleted" \in Se!Status \cup {"none", "gone"}
  BY RowFields DEF Se!Status
<1> QED BY <1>2, <1>3, <1>4, <1>5, RowUpdated

LEMMA DropKeeps ==
  ASSUME SesAssumption, SesInv, NEW u \in User, desk[u] # << >>, NEW w, w = Head(desk[u]), Se!Drop(u, w)
  PROVE  SesInv'
<1>1. w \in SesWrite /\ w.do = "drop" /\ w.row \in Se!Id
  BY HeadIs, WriteIs DEF Se!Drop
<1>a. PICK i \in Se!Id : i = w.row
  BY <1>1
<1>b. PICK ws \in Seq(SesWrite) : ws = << >>
  BY Sequences
<1>3. Se!Update(i, session[i].status, 0, FALSE) /\ Se!Then(u, ws) /\ UNCHANGED <<form, raced>>
  BY <1>a, <1>b DEF Se!Drop
<1>4. \A j \in Se!Id : Se!Repairs(w, j) => j = i
  BY <1>a DEF Se!Repairs
<1>5. session[i].status \in Se!Status \cup {"none", "gone"} /\ 0 \in 0..2
  BY RowFields
<1> QED BY <1>3, <1>4, <1>5, RowUpdated

LEMMA AssignKeeps ==
  ASSUME SesAssumption, SesInv, NEW u \in User, desk[u] # << >>, NEW w, w = Head(desk[u]), Se!Assign(u, w)
  PROVE  SesInv'
<1>1. w \in SesWrite /\ w.do = "assign" /\ w.row \in Se!Id
  BY HeadIs, WriteIs DEF Se!Assign
<1>a. PICK i \in Se!Id : i = w.row
  BY <1>1
<1>b. PICK x : x = Se!Save(i, "sched")
  OBVIOUS
<1>2. x \in SesWrite /\ <<x>> \in Seq(SesWrite) /\ Se!Repairs(x, i)
  <2>1. x \in SesWrite
    BY <1>b, WritesAre
  <2>2. Se!Repairs(x, i)
    BY <1>b DEF Se!Repairs, Se!Save
  <2> QED BY <2>1, <2>2, Sequences
<1>3. /\ Se!Update(i, session[i].status, session[i].slots + 1, FALSE)
      /\ Se!Then(u, <<x>>) /\ UNCHANGED <<form, raced>> /\ session[i].slots < 2
  BY <1>a, <1>b DEF Se!Assign
<1>4. \A j \in Se!Id : ~ Se!Repairs(w, j)
  BY <1>1 DEF Se!Repairs
<1>5. session[i].status \in Se!Status \cup {"none", "gone"} /\ session[i].slots + 1 \in 0..2
  BY <1>3, RowFields
<1> QED BY <1>2, <1>3, <1>4, <1>5, RowUpdated

LEMMA FreeKeeps ==
  ASSUME SesAssumption, SesInv, NEW u \in User, desk[u] # << >>, NEW w, w = Head(desk[u]), Se!Free(u, w)
  PROVE  SesInv'
<1>1. w \in SesWrite /\ w.do = "free" /\ w.row \in Se!Id
  BY HeadIs, WriteIs DEF Se!Free
<1>a. PICK i \in Se!Id : i = w.row
  BY <1>1
<1>b. PICK ws \in Seq(SesWrite) : ws = << >>
  BY Sequences
<1>c. PICK k : k = IF session[i].slots > 0 THEN session[i].slots - 1 ELSE 0
  OBVIOUS
<1>3. Se!Update(i, session[i].status, k, FALSE) /\ Se!Then(u, ws) /\ UNCHANGED <<form, raced>>
  BY <1>a, <1>b, <1>c DEF Se!Free
<1>4. \A j \in Se!Id : ~ Se!Repairs(w, j)
  BY <1>1 DEF Se!Repairs
<1>5. /\ session[i].status \in Se!Status \cup {"none", "gone"} /\ k \in 0..2
      /\ k = 0 \/ session[i].slots > 0
  BY <1>c, RowFields
<1> QED BY <1>3, <1>4, <1>5, RowUpdated

LEMMA TakeKeeps ==
  ASSUME SesAssumption, SesInv, NEW u \in User, desk[u] # << >>, NEW w, w = Head(desk[u]), Se!Take(u, w)
  PROVE  SesInv'
<1>1. w \in SesWrite /\ w.do = "take" /\ w.row \in Se!Id
  BY HeadIs, WriteIs DEF Se!Take
<1>a. PICK i \in Se!Id : i = w.row
  BY <1>1
<1>b. PICK x : x = Se!Save(i, "canceled")
  OBVIOUS
<1>2. x \in SesWrite /\ <<x>> \in Seq(SesWrite)
  BY <1>b, WritesAre, Sequences
<1>3. /\ Se!Update(i, session[i].status, session[i].slots - 1, FALSE) /\ session[i].slots > 0
      /\ Se!Then(u, <<x>>) /\ UNCHANGED <<form, raced>>
  BY <1>a, <1>b DEF Se!Take
<1>4. \A j \in Se!Id : ~ Se!Repairs(w, j)
  BY <1>1 DEF Se!Repairs
<1>5. session[i].status \in Se!Status \cup {"none", "gone"} /\ session[i].slots - 1 \in 0..2
  BY <1>3, RowFields
<1> QED BY <1>2, <1>3, <1>4, <1>5, RowUpdated

LEMMA SaveStatusKeeps ==
  ASSUME SesAssumption, SesInv, NEW u \in User, desk[u] # << >>, NEW w, w = Head(desk[u]), Se!SaveStatus(u, w)
  PROVE  SesInv'
<1>1. w \in SesWrite /\ w.do = "save" /\ w.row \in Se!Id /\ w.status \in {"sched", "canceled", "appr"}
  BY HeadIs, WriteIs DEF Se!SaveStatus
<1>a. PICK i \in Se!Id : i = w.row
  BY <1>1
<1>b. PICK ws \in Seq(SesWrite) : ws = << >>
  BY Sequences
<1>3. /\ Se!Update(i, w.status, session[i].slots, FALSE) /\ Se!Recount(FALSE)
      /\ Se!Then(u, ws) /\ UNCHANGED form
  BY <1>a, <1>b DEF Se!SaveStatus
<1>4. \A j \in Se!Id : Se!Repairs(w, j) => j = i
  BY <1>a DEF Se!Repairs
<1>5. session[i].slots \in 0..2 /\ w.status \in Se!Status \cup {"none", "gone"}
      /\ w.status \notin Se!Barred /\ w.status # "schedw"
  BY <1>1, RowFields DEF Se!Status, Se!Barred
<1> QED BY <1>3, <1>4, <1>5, RowUpdated

LEMMA WriteBackKeeps ==
  ASSUME SesAssumption, SesInv, NEW u \in User, desk[u] # << >>, NEW w, w = Head(desk[u]), Se!WriteBack(u, w)
  PROVE  SesInv'
<1>1. w \in SesWrite /\ w.do = "rewrite" /\ w.row \in Se!Id /\ w.status \in Se!Status
  BY HeadIs, WriteIs DEF Se!WriteBack
<1>a. PICK i \in Se!Id : i = w.row
  BY <1>1
<1>b. PICK ws \in Seq(SesWrite) : ws = << >>
  BY Sequences
<1>c. PICK stale \in BOOLEAN : stale = (session[i].status # w.status)
  OBVIOUS
<1>3. /\ Se!Update(i, w.status, session[i].slots, stale) /\ Se!Recount(stale)
      /\ Se!Then(u, ws) /\ UNCHANGED form
  BY <1>a, <1>b, <1>c DEF Se!WriteBack
<1>4. \A j \in Se!Id : ~ Se!Repairs(w, j)
  BY <1>1 DEF Se!Repairs
<1>5. session[i].slots \in 0..2 /\ w.status \in Se!Status \cup {"none", "gone"}
  BY <1>1, RowFields
<1>6. /\ session[i].slots = 0 \/ stale \/ (session[i].slots > 0 /\ session[i].status = w.status)
      /\ w.status = "schedw" => stale \/ session[i].status = "schedw"
  <2>1. stale <=> session[i].status # w.status
    BY <1>c, Zenon
  <2>2. session[i].slots = 0 \/ session[i].slots > 0
    BY <1>5
  <2>3. CASE stale
    BY <2>3
  <2>4. CASE ~ stale
    <3>1. session[i].status = w.status
      BY <2>1, <2>4
    <3> QED BY <2>2, <3>1
  <2> QED BY <2>3, <2>4
<1> QED BY <1>3, <1>4, <1>5, <1>6, RowUpdated

\* A new row is the third that waits only if there were more than it was to see.
LEMMA NewRowKeeps ==
  ASSUME SesAssumption, SesInv, NEW u \in User, desk[u] # << >>, NEW w, w = Head(desk[u]), Se!NewRow(u, w)
  PROVE  SesInv'
<1>0. session \in [Se!Id -> Se!SessionRow] /\ form \in [User -> Se!Form] /\ raced \in BOOLEAN /\ (raced \/ Few(session))
  BY DEF SesInv, SesTypes
<1>1. /\ w \in SesWrite /\ w.do = "create" /\ w.status \in {"schedw", "apprw", "notmeet"}
      /\ w.sees \in 0..2 /\ (w.status = "schedw" => w.sees <= 1)
  BY HeadIs, WriteIs DEF Se!NewRow
<1>a. PICK st \in {"schedw", "apprw", "notmeet"} : st = w.status
  BY <1>1
<1>b. PICK ws \in Seq(SesWrite) : ws = << >>
  BY Sequences
<1>c. PICK ex \in BOOLEAN : ex = (st = "schedw" /\ Se!Cardinality(Se!Live) > w.sees)
  OBVIOUS
<1>d. PICK r : r = Se!Fresh(st)
  OBVIOUS
<1>2. PICK i \in Se!Id : session[i].status = "none" /\ session' = [session EXCEPT ![i] = r]
  BY <1>a, <1>d DEF Se!NewRow
<1>3. r \in Se!SessionRow /\ r.status = st /\ ~ Bad(r)
  BY <1>d DEF Se!Fresh, Se!SessionRow, Se!Status, Bad
<1>4. session' \in [Se!Id -> Se!SessionRow] /\ session'[i] = r /\ \A j \in Se!Id \ {i} : session'[j] = session[j]
  BY <1>0, <1>2, <1>3
<1>5. Se!Recount(ex) /\ Se!Then(u, ws) /\ UNCHANGED form
  BY <1>a, <1>b, <1>c DEF Se!NewRow
<1>6. \A j \in Se!Id : Bad(session'[j]) => Bad(session[j]) /\ ~ Se!Repairs(w, j)
  BY <1>1, <1>3, <1>4 DEF Se!Repairs
<1>7. ASSUME ~ raced, ~ ex PROVE Few(session')
  <2>1. CASE st # "schedw"
    <3>1. \A j \in Se!Id : session'[j].status = "schedw" => session[j].status = "schedw"
      BY <1>3, <1>4, <2>1
    <3> QED BY <1>0, <1>7, <3>1, FewStay
  <2>2. CASE st = "schedw"
    <3>1. Se!Live \in SUBSET Se!Id /\ Waiting(session) \in SUBSET Se!Live
      BY <1>0 DEF Se!Live, Se!With, Waiting, Se!Status
    <3>2. /\ Cardinality(Se!Live) \in Nat /\ Cardinality(Waiting(session)) \in Nat
          /\ Cardinality(Waiting(session)) <= Cardinality(Se!Live) /\ IsFiniteSet(Waiting(session))
      <4>1. Waiting(session) \in SUBSET Se!Id
        BY DEF Waiting
      <4> QED BY <3>1, <4>1, SomeRows
    <3>3. ~ (Cardinality(Se!Live) > w.sees) /\ w.sees <= 1 /\ w.sees \in 0..2
      BY <1>1, <1>7, <1>a, <1>c, <2>2, SameCardinality
    <3>4. Waiting(session') = Waiting(session) \cup {i} /\ i \notin Waiting(session)
      BY <1>2, <1>3, <1>4, <2>2 DEF Waiting
    <3>5. Cardinality(Waiting(session')) = Cardinality(Waiting(session)) + 1
      BY <3>2, <3>4, FS_AddElement
    <3> QED BY <3>2, <3>3, <3>5 DEF Few
  <2> QED BY <2>1, <2>2
<1>8. raced' \in BOOLEAN /\ (raced' \/ Few(session'))
  BY <1>5, <1>7, RecountIs
<1> QED BY <1>0, <1>4, <1>5, <1>6, <1>8, GoesOn

LEMMA DeleteKeeps ==
  ASSUME SesAssumption, SesInv, NEW u \in User, desk[u] # << >>, NEW w, w = Head(desk[u]), Se!Delete(u, w)
  PROVE  SesInv'
<1>0. session \in [Se!Id -> Se!SessionRow] /\ form \in [User -> Se!Form] /\ raced \in BOOLEAN /\ (raced \/ Few(session))
  BY DEF SesInv, SesTypes
<1>1. w.do \in {"delete", "purge"}
  BY DEF Se!Delete
<1>b. PICK ws \in Seq(SesWrite) : ws = << >>
  BY Sequences
<1>d. PICK r : r = Se!Fresh("gone")
  OBVIOUS
<1>e. PICK ended : session' = [i \in Se!Id |-> IF i \in ended THEN r ELSE session[i]]
  BY <1>d DEF Se!Delete
<1>3. r \in Se!SessionRow /\ r.status = "gone" /\ ~ Bad(r)
  BY <1>d DEF Se!Fresh, Se!SessionRow, Se!Status, Bad
<1>4. session' \in [Se!Id -> Se!SessionRow] /\ \A j \in Se!Id : session'[j] = r \/ session'[j] = session[j]
  BY <1>0, <1>3, <1>e
<1>5. Se!Recount(FALSE) /\ Se!Then(u, ws) /\ UNCHANGED form
  BY <1>b DEF Se!Delete
<1>6. \A j \in Se!Id : Bad(session'[j]) => Bad(session[j]) /\ ~ Se!Repairs(w, j)
  BY <1>1, <1>3, <1>4 DEF Se!Repairs
<1>7. ~ raced => Few(session')
  <2>1. \A j \in Se!Id : session'[j].status = "schedw" => session[j].status = "schedw"
    BY <1>3, <1>4
  <2> QED BY <1>0, <2>1, FewStay
<1>8. raced' \in BOOLEAN /\ (raced' \/ Few(session'))
  BY <1>5, <1>7, RecountIs
<1> QED BY <1>0, <1>4, <1>5, <1>6, <1>8, GoesOn

LEMMA AskOrForgetKeeps ==
  ASSUME SesAssumption, SesInv, NEW u \in User, desk[u] # << >>, NEW w, w = Head(desk[u]),
         Se!Ask(u, w) \/ Se!Forget(u, w)
  PROVE  SesInv'
<1>0. /\ session \in [Se!Id -> Se!SessionRow] /\ form \in [User -> Se!Form] /\ raced \in BOOLEAN
      /\ raced \/ Few(session)
      /\ UNCHANGED <<session, raced>> /\ w.do \in {"ask", "forget"}
  BY DEF SesInv, SesTypes, Se!Ask, Se!Forget
<1>1. form' \in [User -> Se!Form]
  <2>1. {} \in Se!Form
    BY DEF Se!Form
  <2> QED BY <1>0, <2>1 DEF Se!Ask, Se!Forget
<1>2. PICK d \in Seq(SesWrite) : desk' = [desk EXCEPT ![u] = d]
  <2>1. << >> \in Seq(SesWrite) /\ Tail(desk[u]) \in Seq(SesWrite)
    BY HeadIs
  <2>2. CASE Se!Ask(u, w)
    BY <2>1, <2>2 DEF Se!Ask
  <2>3. CASE Se!Forget(u, w)
    <3>1. PICK t \in Seq(SesWrite) : t = Tail(desk[u])
      BY <2>1
    <3>2. << >> \o t = t
      BY <3>1
    <3> QED BY <2>3, <3>1, <3>2 DEF Se!Forget, Se!Then
  <2> QED BY <2>2, <2>3
<1>3. \A i \in Se!Id : ~ Se!Repairs(w, i)
  BY <1>0 DEF Se!Repairs
<1>4. \A i \in Se!Id : Bad(session'[i]) => Bad(session[i]) /\ ~ Fixes(desk[u], i)
  BY <1>0, <1>3 DEF Fixes
<1>5. raced' \/ Few(session')
  BY <1>0
<1> QED BY <1>0, <1>1, <1>2, <1>4, <1>5, OthersFix

LEMMA DieKeeps ==
  ASSUME SesAssumption, SesInv, NEW u \in User, Se!Die(u)
  PROVE  SesInv'
<1>0. /\ session \in [Se!Id -> Se!SessionRow] /\ form \in [User -> Se!Form] /\ raced \in BOOLEAN
      /\ raced \/ Few(session)
      /\ UNCHANGED <<form, raced>> /\ desk[u] # << >> /\ desk' = [desk EXCEPT ![u] = << >>]
  BY DEF SesInv, SesTypes, Se!Die
<1>1. ASSUME NEW i \in Se!Id
      PROVE  /\ session'[i] \in Se!SessionRow /\ session'[i].status = session[i].status
             /\ Bad(session'[i]) => Bad(session[i]) /\ ~ Fixes(desk[u], i)
  <2>1. PICK x \in Se!SessionRow : x = session[i]
    BY <1>0
  <2>2. x.odd \in BOOLEAN
    BY DEF Se!SessionRow
  <2>3. PICK b \in BOOLEAN : b = (x.odd \/ (x.slots > 0 /\ x.status \in Se!Barred))
    BY <2>2
  <2>4. PICK y : y = [x EXCEPT !.odd = b]
    OBVIOUS
  <2>5. session'[i] = IF Se!Repairs(Head(desk[u]), i) THEN y ELSE x
    <3>1. session'[i] = IF Se!Repairs(Head(desk[u]), i)
                        THEN [x EXCEPT !.odd = x.odd \/ (x.slots > 0 /\ x.status \in Se!Barred)] ELSE x
      BY <2>1 DEF Se!Die
    <3> QED BY <2>3, <2>4, <3>1
  <2>6. y \in Se!SessionRow /\ y.status = x.status /\ ~ Bad(y)
    BY <2>3, <2>4 DEF Se!SessionRow, Bad
  <2> QED BY <1>0, <2>1, <2>5, <2>6 DEF Fixes
<1>2. session' \in [Se!Id -> Se!SessionRow]
  <2>1. session' = [i \in Se!Id |-> session'[i]]
    BY DEF Se!Die
  <2> QED BY <1>1, <2>1
<1>3. Few(session') <=> Few(session)
  BY <1>1 DEF Few, Waiting
<1>4. << >> \in Seq(SesWrite)
  BY Sequences
<1> QED BY <1>0, <1>1, <1>2, <1>3, <1>4, OthersFix

LEMMA PlaceKeeps ==
  ASSUME SesAssumption, SesInv, NEW i \in Se!Id, Se!Place(i)
  PROVE  SesInv'
<1>0. /\ session \in [Se!Id -> Se!SessionRow] /\ (raced \/ Few(session)) /\ SesTypes
      /\ UNCHANGED <<form, desk, raced>> /\ session[i].slots < 2
      /\ Se!Update(i, session[i].status, session[i].slots + 1, TRUE)
  BY DEF SesInv, SesTypes, Se!Place
<1>1. session[i].status \in Se!Status \cup {"none", "gone"} /\ session[i].slots + 1 \in 0..2
  BY <1>0, RowFields
<1>2. /\ session' \in [Se!Id -> Se!SessionRow]
      /\ session'[i].status = session[i].status /\ ~ Bad(session'[i])
      /\ \A j \in Se!Id \ {i} : session'[j] = session[j]
  BY <1>0, <1>1, UpdateIs DEF Bad, Updated
<1>3. Few(session) => Few(session')
  BY <1>2, FewStay
<1>4. (Few(session))' <=> Few(session')
  BY DEF Few, Waiting
<1>5. \A j \in Se!Id : (Bad(session[j]))' <=> Bad(session'[j])
  BY DEF Bad
<1>6. \A j \in Se!Id, v \in User : (Fixes(desk[v], j))' <=> Fixes(desk[v], j)
  BY <1>0 DEF Fixes
<1>7. \A j \in Se!Id : Bad(session'[j]) => Bad(session[j])
  BY <1>2
<1> QED BY <1>0, <1>2, <1>3, <1>4, <1>5, <1>6, <1>7 DEF SesInv, SesTypes

(***************************************************************************)
(* Sessions: what a request will write                                     *)
(***************************************************************************)
LEMMA BeginKeeps ==
  ASSUME SesInv, NEW u \in User, NEW ws \in Seq(SesWrite), Se!Begin(u, ws) PROVE SesInv'
<1>1. /\ desk[u] = << >> /\ desk' = [desk EXCEPT ![u] = ws] /\ UNCHANGED <<session, form, raced>>
  BY DEF Se!Begin
<1>2. /\ session' \in [Se!Id -> Se!SessionRow] /\ form' \in [User -> Se!Form] /\ raced' \in BOOLEAN
      /\ raced' \/ Few(session')
  BY <1>1 DEF SesInv, SesTypes
<1>3. \A i \in Se!Id : Bad(session'[i]) => Bad(session[i]) /\ ~ Fixes(desk[u], i)
  BY <1>1 DEF Fixes
<1> QED BY <1>1, <1>2, <1>3, OthersFix

\* The rows of a group in their order
LEMMA RowsAre ==
  ASSUME SesAssumption, SesTypes
  PROVE  LET row == Se!Ascending(Se!Rows) IN
         /\ Len(row) \in Nat
         /\ \A k \in 1..Len(row) : row[k] \in Se!Id /\ session[row[k]].status \in Se!Status
<1> DEFINE S == Se!Rows
           N == Cardinality(S)
           F == Se!Ascending(S)
<1>1. S \in SUBSET (1..MaxRows) /\ (\A i \in S : i \in Se!Id /\ session[i].status \in Se!Status)
  BY DEF Se!Rows, Se!With, Se!Id
<1> HIDE DEF S
<1>2. N \in Nat /\ \E g \in [1..N -> S] : Rising(g, N)
  BY <1>1, Kept DEF SesAssumption
<1>3. F \in [1..N -> S]
  <2>1. \E g \in [1..N -> S] : \A j, k \in DOMAIN g : j < k => g[j] < g[k]
    BY <1>2 DEF Rising
  <2> QED BY <2>1, SameCardinality, Zenon DEF Se!Ascending
<1> HIDE DEF F, N
<1>4. F \in Seq(S) /\ Len(F) = N
  BY <1>2, <1>3
<1> QED BY <1>1, <1>2, <1>3, <1>4 DEF F, S

LEMMA EachRow ==
  ASSUME SesAssumption, SesTypes, NEW do \in {"withdraw", "take"}
  PROVE  LET row == Se!Ascending(Se!Rows) IN [k \in 1..Len(row) |-> Se!On(do, row[k])] \in Seq(SesWrite)
<1> DEFINE row == Se!Ascending(Se!Rows)
           ws  == [k \in 1..Len(row) |-> Se!On(do, row[k])]
<1>1. PICK n \in Nat : n = Len(row)
  BY RowsAre
<1>2. \A k \in 1..n : Se!On(do, row[k]) \in SesWrite
  BY <1>1, RowsAre, WritesAre
<1>3. ws = [k \in 1..n |-> Se!On(do, row[k])]
  BY <1>1
<1> HIDE DEF ws
<1>4. ws \in [1..n -> SesWrite]
  BY <1>2, <1>3
<1>5. ws \in Seq(SesWrite)
  BY <1>1, <1>4
<1> QED BY <1>5 DEF ws

LEMMA ConfirmBegins ==
  ASSUME SesAssumption, SesInv, NEW u \in User, Se!Confirm(u) PROVE SesInv'
<1> DEFINE f == form[u]
           a == Se!Purge({"canceled", "notmeet"})
           b == Se!Create("schedw", 0)
           c == IF 2 \in f THEN <<Se!Create("schedw", 1)>> ELSE << >>
           d == Se!Third(f)
           e == <<Se!Purge({"notmeet"}), [do |-> "forget"]>>
<1>1. a \in SesWrite /\ b \in SesWrite
  <2>1. {"canceled", "notmeet"} \in SUBSET Se!Status
    BY DEF Se!Status
  <2> QED BY <2>1, WritesAre
<1>2. <<a, b>> \in Seq(SesWrite)
  BY <1>1
<1>3. c \in Seq(SesWrite)
  BY WritesAre, Sequences
<1>4. d \in Seq(SesWrite)
  BY WritesAre, Sequences DEF Se!Third
<1>5. e \in Seq(SesWrite)
  <2>1. {"notmeet"} \in SUBSET Se!Status
    BY DEF Se!Status
  <2>2. Se!Purge({"notmeet"}) \in SesWrite /\ [do |-> "forget"] \in SesWrite
    BY <2>1, WritesAre
  <2> QED BY <2>2
<1>6. Se!Begin(u, <<a, b>> \o c \o d \o e)
  BY DEF Se!Confirm
<1> HIDE DEF a, b, c, d, e
<1>7. PICK ws : ws = <<a, b>> \o c \o d \o e
  OBVIOUS
<1>8. ws \in Seq(SesWrite)
  <2>1. PICK p \in Seq(SesWrite) : p = <<a, b>> \o c
    BY <1>2, <1>3, Sequences
  <2>2. PICK q \in Seq(SesWrite) : q = p \o d
    BY <1>4, Sequences
  <2> QED BY <1>5, <1>7, <2>1, <2>2, Sequences
<1> QED BY <1>6, <1>7, <1>8, BeginKeeps

LEMMA EditBegins ==
  ASSUME SesAssumption, SesInv, NEW u \in User, Se!Edit(u) PROVE SesInv'
<1>0. SesTypes
  BY DEF SesInv
<1> DEFINE row == Se!Ascending(Se!Rows)
           Old(k) == {<< >>, <<Se!Rewrite(row[k])>>, <<Se!On("delete", row[k])>>}
<1>1. PICK n \in Nat : n = Len(row)
  BY <1>0, RowsAre
<1>2. ASSUME NEW k \in 1..n PROVE \A t \in Old(k) : t \in Seq(SesWrite)
  <2>1. row[k] \in Se!Id /\ session[row[k]].status \in Se!Status
    BY <1>0, <1>1, RowsAre
  <2>2. Se!Rewrite(row[k]) \in SesWrite /\ Se!On("delete", row[k]) \in SesWrite
    BY <2>1, WritesAre
  <2> QED BY <2>2, Sequences
<1>3. n > 0 /\ \E first \in {<< >>, <<Se!Rewrite(row[1])>>},
                  second \in IF n < 2 THEN {<< >>, <<Se!Create("schedw", n)>>} ELSE Old(2),
                  third \in IF n < 3 THEN {<< >>, <<Se!Create("apprw", 0)>>} ELSE Old(3) :
                    Se!Begin(u, first \o second \o third)
  BY <1>1 DEF Se!Edit
<1> HIDE DEF row
<1>4. PICK first \in {<< >>, <<Se!Rewrite(row[1])>>},
           second \in IF n < 2 THEN {<< >>, <<Se!Create("schedw", n)>>} ELSE Old(2),
           third \in IF n < 3 THEN {<< >>, <<Se!Create("apprw", 0)>>} ELSE Old(3) :
             Se!Begin(u, first \o second \o third)
  BY <1>3
<1>5. first \in Seq(SesWrite)
  <2>1. 1 \in 1..n /\ <<Se!Rewrite(row[1])>> \in Old(1)
    BY <1>3
  <2>2. <<Se!Rewrite(row[1])>> \in Seq(SesWrite)
    BY <1>2, <2>1
  <2> QED BY <1>4, <2>2, Sequences
<1>6. second \in Seq(SesWrite)
  <2>1. CASE n < 2
    <3>1. n = 1
      BY <1>3, <2>1
    <3> QED BY <1>4, <2>1, <3>1, WritesAre, Sequences
  <2>2. CASE ~ (n < 2)
    <3>1. 2 \in 1..n
      BY <2>2
    <3> QED BY <1>2, <1>4, <2>2, <3>1
  <2> QED BY <2>1, <2>2
<1>7. third \in Seq(SesWrite)
  <2>1. CASE n < 3
    BY <1>4, <2>1, WritesAre, Sequences
  <2>2. CASE ~ (n < 3)
    <3>1. 3 \in 1..n
      BY <2>2
    <3> QED BY <1>2, <1>4, <2>2, <3>1
  <2> QED BY <2>1, <2>2
<1>8. PICK ws \in Seq(SesWrite) : ws = first \o second \o third
  <2>1. PICK p \in Seq(SesWrite) : p = first \o second
    BY <1>5, <1>6, Sequences
  <2> QED BY <1>7, <2>1, Sequences
<1> QED BY <1>4, <1>8, BeginKeeps

LEMMA ScheduleBegins ==
  ASSUME SesAssumption, SesInv, NEW u \in User, NEW i \in Se!Id, Se!Schedule(u, i) PROVE SesInv'
<1>1. session[i].status \in Se!Status
  BY DEF Se!Schedule, Se!Rows, Se!With
<1>2. PICK free \in {<< >>, <<Se!On("free", i)>>},
           move \in {<< >>, (IF session[i].slots > 0 THEN <<Se!On("drop", i)>> ELSE << >>)
                               \o <<Se!On("assign", i), Se!Save(i, "sched")>>},
           note \in {<< >>, <<Se!Rewrite(i)>>},
           combine \in {<< >>, <<Se!On("assign", i)>>} :
             Se!Begin(u, free \o move \o note \o combine)
  BY DEF Se!Schedule
<1>3. /\ Se!On("free", i) \in SesWrite /\ Se!On("drop", i) \in SesWrite /\ Se!On("assign", i) \in SesWrite
      /\ Se!Save(i, "sched") \in SesWrite /\ Se!Rewrite(i) \in SesWrite
  BY <1>1, WritesAre
<1>4. /\ free \in Seq(SesWrite) /\ note \in Seq(SesWrite) /\ combine \in Seq(SesWrite)
      /\ <<Se!On("assign", i), Se!Save(i, "sched")>> \in Seq(SesWrite)
  <2>1. /\ <<Se!On("free", i)>> \in Seq(SesWrite) /\ <<Se!Rewrite(i)>> \in Seq(SesWrite)
        /\ <<Se!On("assign", i)>> \in Seq(SesWrite)
    BY <1>3, Sequences
  <2>2. <<Se!On("assign", i), Se!Save(i, "sched")>> \in Seq(SesWrite)
    BY <1>3
  <2> QED BY <1>2, <2>1, <2>2, Sequences
<1>5. move \in Seq(SesWrite)
  <2>1. PICK p : p = IF session[i].slots > 0 THEN <<Se!On("drop", i)>> ELSE << >>
    OBVIOUS
  <2>2. p \in Seq(SesWrite)
    BY <1>3, <2>1
  <2>3. p \o <<Se!On("assign", i), Se!Save(i, "sched")>> \in Seq(SesWrite)
    BY <1>4, <2>2, Sequences
  <2> QED BY <1>2, <2>1, <2>3, Sequences
<1>6. PICK ws \in Seq(SesWrite) : ws = free \o move \o note \o combine
  <2>1. PICK p \in Seq(SesWrite) : p = free \o move
    BY <1>4, <1>5, Sequences
  <2>2. PICK q \in Seq(SesWrite) : q = p \o note
    BY <1>4, <2>1, Sequences
  <2> QED BY <1>4, <2>1, <2>2, Sequences
<1> QED BY <1>2, <1>6, BeginKeeps

LEMMA OneWriteBegins ==
  ASSUME SesAssumption, SesInv, NEW u \in User, NEW i \in Se!Id, Se!Approve(u) \/ Se!Notify(u, i) PROVE SesInv'
<1>1. PICK j \in Se!Id, st \in {"sched", "appr"} : Se!Begin(u, <<Se!Save(j, st)>>)
  BY DEF Se!Approve, Se!Notify, Se!With
<1>2. <<Se!Save(j, st)>> \in Seq(SesWrite)
  BY WritesAre, Sequences
<1> QED BY <1>1, <1>2, BeginKeeps

LEMMA NoSessionBegins ==
  ASSUME SesAssumption, SesInv, NEW u \in User, Se!NoSession(u) PROVE SesInv'
<1>1. PICK a, b, c : a = Se!Purge({"canceled"}) /\ b = [do |-> "ask"] /\ c = Se!Create("notmeet", 0)
  OBVIOUS
<1>2. a \in SesWrite /\ b \in SesWrite /\ c \in SesWrite
  <2>1. {"canceled"} \in SUBSET Se!Status
    BY DEF Se!Status
  <2> QED BY <1>1, <2>1, WritesAre
<1>3. <<a, b, c>> \in Seq(SesWrite)
  BY <1>2
<1>4. Se!Begin(u, <<a, b, c>>)
  BY <1>1 DEF Se!NoSession
<1> QED BY <1>3, <1>4, BeginKeeps

LEMMA EachRowBegins ==
  ASSUME SesAssumption, SesInv, NEW u \in User, Se!Cancel(u) \/ Se!Remove(u) PROVE SesInv'
<1>1. PICK do \in {"withdraw", "take"} :
        Se!Begin(u, [k \in 1..Len(Se!Ascending(Se!Rows)) |-> Se!On(do, Se!Ascending(Se!Rows)[k])])
  BY DEF Se!Cancel, Se!Remove
<1>2. [k \in 1..Len(Se!Ascending(Se!Rows)) |-> Se!On(do, Se!Ascending(Se!Rows)[k])] \in Seq(SesWrite)
  BY EachRow DEF SesInv
<1> QED BY <1>1, <1>2, BeginKeeps

LEMMA FormKeeps ==
  ASSUME SesInv, NEW u \in User, Se!New(u) \/ Se!Discard(u) PROVE SesInv'
<1>1. UNCHANGED <<session, desk, raced>> /\ form' \in [User -> Se!Form]
  BY DEF SesInv, SesTypes, Se!New, Se!Discard, Se!Form
<1> QED BY <1>1 DEF SesInv, SesTypes, Few, Waiting, Bad, Fixes

LEMMA RequestKeeps ==
  ASSUME SesAssumption, SesInv, NEW u \in User, Se!Request(u) PROVE SesInv'
<1>1. ASSUME Se!Approve(u) PROVE SesInv'
  <2>1. \E i \in Se!Id : TRUE
    BY <1>1 DEF Se!Approve, Se!With
  <2> QED BY <1>1, <2>1, OneWriteBegins
<1> QED BY <1>1, FormKeeps, ConfirmBegins, EditBegins, EachRowBegins, NoSessionBegins, ScheduleBegins,
           OneWriteBegins DEF Se!Request

LEMMA StepKeeps ==
  ASSUME SesAssumption, SesInv, NEW u \in User, Se!Step(u) PROVE SesInv'
<1>1. PICK w : /\ w = Head(desk[u]) /\ desk[u] # << >>
               /\ \/ Se!Withdraw(u, w) \/ Se!Drop(u, w) \/ Se!Assign(u, w) \/ Se!Free(u, w) \/ Se!Take(u, w)
                  \/ Se!SaveStatus(u, w) \/ Se!WriteBack(u, w) \/ Se!NewRow(u, w) \/ Se!Delete(u, w)
                  \/ Se!Ask(u, w) \/ Se!Forget(u, w)
  BY DEF Se!Step
<1> QED BY <1>1, WithdrawKeeps, DropKeeps, AssignKeeps, FreeKeeps, TakeKeeps, SaveStatusKeeps,
           WriteBackKeeps, NewRowKeeps, DeleteKeeps, AskOrForgetKeeps

LEMMA SesStart == ASSUME SesAssumption, Se!Init PROVE SesInv
<1>1. PICK r : r = Se!Fresh("none")
  OBVIOUS
<1>2. r \in Se!SessionRow /\ ~ Bad(r) /\ r.status = "none"
  BY <1>1 DEF Se!Fresh, Se!SessionRow, Bad
<1>3. session = [i \in Se!Id |-> r]
  BY <1>1 DEF Se!Init
<1>4. Waiting(session) = {}
  BY <1>2, <1>3 DEF Waiting
<1>5. Cardinality(Waiting(session)) = 0
  BY <1>4, FS_EmptySet
<1>6. SesTypes
  <2>1. {} \in Se!Form /\ << >> \in Seq(SesWrite)
    BY Sequences DEF Se!Form
  <2> QED BY <1>2, <1>3, <2>1 DEF Se!Init, SesTypes
<1> QED BY <1>2, <1>3, <1>5, <1>6 DEF SesInv, Few

SessionsInv == part = "sessions" => SesInv

LEMMA SessionsStart == ASSUME SesAssumption PROVE MCInit => SessionsInv
BY SesStart DEF MCInit, SessionsInv, Part

LEMMA SessionsStep == ASSUME SesAssumption, SessionsInv, [MCNext]_allVars PROVE SessionsInv'
<1>1. part' = part
  BY PartStays
<1>2. ASSUME part = "sessions" PROVE SesInv'
  <2>0. SesInv
    BY <1>2 DEF SessionsInv
  <2>1. CASE SessionsMove
    BY <2>0, <2>1, RequestKeeps, StepKeeps, DieKeeps, PlaceKeeps DEF SessionsMove
  <2>2. CASE UNCHANGED <<session, form, desk, raced>>
    BY <2>0, <2>2 DEF SesInv, SesTypes, Few, Waiting, Bad, Fixes
  <2>3. SessionsMove \/ UNCHANGED <<session, form, desk, raced>>
    BY <1>2 DEF MCNext, allVars, sessionRows, CharterMoves, MilestonesMove, IanaMoves,
       QueueMoves, NominationsMove, MaterialsMove, MailMoves, ListsMove
  <2> QED BY <2>1, <2>2, <2>3
<1> QED BY <1>1, <1>2 DEF SessionsInv

\* Whatever the request tool, the scheduling pages and the agenda editor write, in
\* any order and wherever a request dies: a row of a group that is in the agenda has
\* a status of those that meet, unless some request is just about to put the two in
\* order, died just there, or one of the exceptions named with the property made it so.
THEOREM AgendaCanMeet == ASSUME MaxRows \in Nat PROVE MCSpec => []OnAgendaCanMeet
<1>1. SessionsInv => OnAgendaCanMeet
  BY DEF SessionsInv, SesInv, Bad, Fixes, OnAgendaCanMeet, Se!OnAgendaCanMeet
<1> QED BY <1>1, SessionsStart, SessionsStep, PTL DEF MCSpec, SesAssumption

\* No group comes to more than two sessions that wait to be scheduled and that no
\* AD has approved, whatever is asked for again after it was withdrawn, dropped or
\* edited and wherever a request dies, unless a form was confirmed although there
\* were sessions by then, an edit added one to more than it had counted, or a status
\* that had changed meanwhile was written back.
THEOREM ThirdIsApproved == ASSUME MaxRows \in Nat PROVE MCSpec => []TwoWithoutApproval
<1>1. SessionsInv => TwoWithoutApproval
  <2> SUFFICES ASSUME SessionsInv, part = "sessions", ~ raced PROVE Se!Cardinality(Se!With({"schedw"})) <= 2
    BY DEF TwoWithoutApproval, Se!TwoWithoutApproval
  <2>1. Cardinality(Waiting(session)) <= 2
    BY DEF SessionsInv, SesInv, Few
  <2>2. Waiting(session) = Se!With({"schedw"})
    BY DEF Waiting, Se!With
  <2> QED BY <2>1, <2>2, SameCardinality
<1> QED BY <1>1, SessionsStart, SessionsStep, PTL DEF MCSpec, SesAssumption

LEMMA SameSize == \A S : Mt!Cardinality(S) = Cardinality(S)
BY Zenon DEF Mt!Cardinality, Cardinality

\* The greatest of some numbers
LEMMA HighestIs ==
  ASSUME NEW S \in SUBSET Nat, S # {}, NEW b \in Nat, \A x \in S : x <= b
  PROVE  Mt!Highest(S) \in S /\ \A l \in S : l <= Mt!Highest(S)
<1> DEFINE Above == {k \in Nat : \A x \in S : x <= k}
<1>1. Above \in SUBSET Nat /\ Above # {}
  OBVIOUS
<1>2. PICK m \in Above : \A k \in Above : m <= k
  BY <1>1, LeastNumber
<1>3. m \in S
  <2>1. SUFFICES ASSUME m \notin S PROVE FALSE
    OBVIOUS
  <2>2. \A x \in S : x \in Nat /\ x <= m /\ x # m
    BY <1>2, <2>1
  <2>3. m \in Nat /\ \A x \in S : x <= m - 1
    BY <1>2, <2>2
  <2>4. m - 1 \in Nat
    <3>1. PICK x \in S : TRUE
      OBVIOUS
    <3>2. x \in Nat /\ x <= m - 1
      BY <2>2, <2>3, <3>1
    <3> QED BY <2>3, <3>2
  <2>5. m - 1 \in Above
    BY <2>3, <2>4
  <2> QED BY <1>2, <2>3, <2>5
<1>4. \E k \in S : \A l \in S : l <= k
  BY <1>2, <1>3
<1> QED BY <1>4, Zenon DEF Mt!Highest

(***************************************************************************)
(* Materials: what is read before a request writes                         *)
(***************************************************************************)
NextOf(o) == LET made == {n \in Mt!Slide : o[n] > 0} IN IF made = {} THEN 0 ELSE Mt!Highest(made) + 1
Orders(o) == o \in [Mt!Slide -> Nat]

LEMMA NextOfIs ==
  ASSUME MaxSlides \in Nat, NEW o, Orders(o)
  PROVE  /\ NextOf(o) \in 0..MaxSlides
         /\ \A m \in Mt!Slide : o[m] > 0 => m < NextOf(o)
         /\ NextOf(o) # 0 => NextOf(o) - 1 \in Mt!Slide /\ o[NextOf(o) - 1] > 0
<1> DEFINE made == {n \in Mt!Slide : o[n] > 0}
<1>1. CASE made = {}
  BY <1>1 DEF NextOf
<1>2. CASE made # {}
  <2>1. made \in SUBSET Nat /\ \A x \in made : x <= MaxSlides
    BY DEF Mt!Slide
  <2>2. Mt!Highest(made) \in made /\ \A l \in made : l <= Mt!Highest(made)
    BY <1>2, <2>1, HighestIs
  <2>3. PICK h \in made : h = Mt!Highest(made)
    BY <2>2
  <2>4. NextOf(o) = h + 1
    BY <1>2, <2>3 DEF NextOf
  <2>5. h \in Mt!Slide /\ o[h] > 0 /\ h \in 0..MaxSlides - 1
    BY <2>3 DEF Mt!Slide
  <2>6. \A m \in Mt!Slide : o[m] > 0 => m <= h /\ m \in Nat
    BY <2>2, <2>3 DEF Mt!Slide
  <2>7. NextOf(o) - 1 = h /\ NextOf(o) \in 0..MaxSlides /\ \A m \in Nat : m <= h => m < NextOf(o)
    BY <2>4, <2>5
  <2> QED BY <2>5, <2>6, <2>7
<1> QED BY <1>1, <1>2

LEMMA NextGrows ==
  ASSUME MaxSlides \in Nat, NEW o, Orders(o), NEW p, Orders(p),
         \A n \in Mt!Slide : o[n] > 0 => p[n] > 0
  PROVE  NextOf(o) <= NextOf(p)
<1>1. CASE NextOf(o) = 0
  BY <1>1, NextOfIs
<1>2. CASE NextOf(o) # 0
  <2>1. NextOf(o) - 1 \in Mt!Slide /\ p[NextOf(o) - 1] > 0
    BY <1>2, NextOfIs
  <2>2. NextOf(o) - 1 < NextOf(p)
    BY <2>1, NextOfIs
  <2>3. NextOf(o) \in Nat /\ NextOf(p) \in Nat
    BY NextOfIs
  <2> QED BY <2>2, <2>3
<1> QED BY <1>1, <1>2

LEMMA NextStays ==
  ASSUME NEW o, NEW p, \A n \in Mt!Slide : o[n] > 0 <=> p[n] > 0
  PROVE  NextOf(o) = NextOf(p)
<1>1. {n \in Mt!Slide : o[n] > 0} = {n \in Mt!Slide : p[n] > 0}
  OBVIOUS
<1> QED BY <1>1 DEF NextOf

\* What is left to save of the orders, and whether two slides can then have one order
Saves     == [slide : Mt!Slide, order : Nat \ {0}]
Gets(t, o, n, v) == \/ \E i \in 1..Len(t) : t[i].slide = n /\ t[i].order = v
                    \/ (\A i \in 1..Len(t) : t[i].slide # n) /\ v = o[n]
Apart(t, o, L)   == \A n, k \in L : n # k => \A v : ~ (Gets(t, o, n, v) /\ Gets(t, o, k, v))

LEMMA ApartAtLast ==
  ASSUME NEW o, NEW L PROVE Apart(<< >>, o, L) <=> \A n, k \in L : n # k => o[n] # o[k]
<1>1. Len(<< >>) = 0 /\ \A i \in 1..0 : FALSE
  OBVIOUS
<1>2. \A n, v : Gets(<< >>, o, n, v) <=> v = o[n]
  BY <1>1 DEF Gets
<1> QED BY <1>2 DEF Apart

\* The next save changes nothing in that.
LEMMA SaveKeepsApart ==
  ASSUME NEW o, Orders(o), NEW t \in Seq(Saves), t # << >>, NEW L \in SUBSET Mt!Slide, Apart(t, o, L)
  PROVE  Apart(Tail(t), [o EXCEPT ![Head(t).slide] = Head(t).order], L)
<1>1. /\ Head(t) \in Saves /\ Head(t) = t[1] /\ Len(t) \in Nat \ {0}
      /\ Tail(t) \in Seq(Saves) /\ Len(Tail(t)) = Len(t) - 1
      /\ \A i \in 1..Len(Tail(t)) : Tail(t)[i] = t[i + 1]
  BY HeadTailProperties, LenProperties
<1>x. PICK x \in Saves : x = t[1] /\ x = Head(t)
  BY <1>1
<1>r. PICK r \in Seq(Saves) : r = Tail(t)
  BY <1>1
<1>l. PICK l \in Nat \ {0} : l = Len(t)
  BY <1>1
<1>m. PICK m \in Nat : m = l - 1 /\ l = m + 1
  OBVIOUS
<1>2. x = t[1] /\ x = Head(t) /\ r = Tail(t) /\ m = Len(r) /\ Len(t) = m + 1
  BY <1>1, <1>x, <1>r, <1>l, <1>m
<1>3. \A i \in 1..m : r[i] = t[i + 1]
  BY <1>1, <1>2
<1>4. PICK p : p = [o EXCEPT ![x.slide] = x.order]
  OBVIOUS
<1>5. p \in [Mt!Slide -> Nat] /\ \A n \in Mt!Slide : p[n] = IF n = x.slide THEN x.order ELSE o[n]
  BY <1>4 DEF Orders, Saves
<1>6. ASSUME NEW n \in L, NEW v, Gets(r, p, n, v) PROVE Gets(t, o, n, v)
  <2>1. CASE \E i \in 1..m : r[i].slide = n /\ r[i].order = v
    <3>1. PICK i \in 1..m : r[i].slide = n /\ r[i].order = v
      BY <2>1
    <3>2. i + 1 \in 1..Len(t) /\ t[i + 1].slide = n /\ t[i + 1].order = v
      BY <1>2, <1>3, <3>1
    <3> QED BY <3>2 DEF Gets
  <2>2. CASE (\A i \in 1..m : r[i].slide # n) /\ v = p[n]
    <3>1. CASE n = x.slide
      <4>1. 1 \in 1..Len(t) /\ t[1].slide = n /\ t[1].order = v
        BY <1>2, <1>5, <2>2, <3>1
      <4> QED BY <4>1 DEF Gets
    <3>2. CASE n # x.slide
      <4>1. \A i \in 1..Len(t) : i = 1 \/ (i - 1 \in 1..m /\ r[i - 1] = t[i])
        BY <1>2, <1>3
      <4>2. \A i \in 1..Len(t) : t[i].slide # n
        BY <1>2, <2>2, <3>2, <4>1
      <4> QED BY <1>5, <2>2, <3>2, <4>2 DEF Gets
    <3> QED BY <3>1, <3>2
  <2> QED BY <1>2, <1>6, <2>1, <2>2 DEF Gets
<1>7. Apart(r, p, L)
  BY <1>6 DEF Apart
<1> QED BY <1>2, <1>4, <1>7

(***************************************************************************)
(* What is true of the rows and of each request, whatever overlaps or dies *)
(***************************************************************************)
MtPC    == {"idle", "save", "file", "state", "relate", "hide", "orders"}
Stored  == {"file", "state", "relate"}
Request == [pc : MtPC, slide : Mt!Slide, todo : Seq(Saves)]

RequestOK(x, o) ==
  /\ x \in Request
  /\ x.pc = "save" => Len(x.todo) = 1 /\ x.todo[1].slide = x.slide /\ x.todo[1].order <= x.slide + 2
  /\ x.pc \in Stored => o[x.slide] > 0
  /\ x.pc = "orders" =>
       x.todo # << >> /\ \A i \in 1..Len(x.todo) : o[x.todo[i].slide] > 0 /\ x.todo[i].order <= NextOf(o) + 1

OrdersOK(o, r) ==
  /\ Orders(o) /\ r \subseteq Mt!Slide
  /\ \A n \in r : o[n] > 0
  /\ \A n \in Mt!Slide : o[n] <= NextOf(o) + 1

MtBase ==
  /\ OrdersOK(order, related)
  /\ chair = [c \in Chair |-> chair[c]] /\ \A c \in Chair : RequestOK(chair[c], order)
  /\ state \in [Mt!Slide -> {"none", "active", "deleted"}] /\ file \subseteq Mt!Slide
  /\ uploads \in [Mt!Slide -> Nat] /\ harm \subseteq {"orders", "numbers", "files"}

MtAssumption == MaxSlides \in Nat \ {0}

LEMMA MtNext == Mt!NextNumber = NextOf(order) /\ Mt!NextNumber' = NextOf(order')
BY DEF Mt!NextNumber, NextOf

\* A request stays right while the orders change, unless an order is taken away.
LEMMA RequestStays ==
  ASSUME MtAssumption, NEW o, Orders(o), NEW p, Orders(p), \A n \in Mt!Slide : o[n] > 0 => p[n] > 0,
         NEW x, RequestOK(x, o)
  PROVE  RequestOK(x, p)
<1>1. NextOf(o) <= NextOf(p) /\ NextOf(o) \in Nat /\ NextOf(p) \in Nat
  BY NextGrows, NextOfIs DEF MtAssumption
<1>2. ASSUME x.pc = "orders", NEW i \in 1..Len(x.todo) PROVE p[x.todo[i].slide] > 0 /\ x.todo[i].order <= NextOf(p) + 1
  <2>1. x.todo[i] \in Saves
    BY ElementOfSeq DEF RequestOK, Request
  <2>2. x.todo[i].slide \in Mt!Slide /\ x.todo[i].order \in Nat
    BY <2>1 DEF Saves
  <2>3. o[x.todo[i].slide] > 0 /\ x.todo[i].order <= NextOf(o) + 1
    BY <1>2 DEF RequestOK
  <2> QED BY <1>1, <2>2, <2>3
<1>3. x.pc \in Stored => p[x.slide] > 0
  BY DEF RequestOK, Request
<1> QED BY <1>2, <1>3 DEF RequestOK

\* One row of a chair changes, orders are given, not taken away.
LEMMA BaseKept ==
  ASSUME MtAssumption, MtBase, NEW c \in Chair, NEW y, chair' = [chair EXCEPT ![c] = y],
         OrdersOK(order', related'), \A n \in Mt!Slide : order[n] > 0 => order'[n] > 0,
         RequestOK(y, order'),
         state' \in [Mt!Slide -> {"none", "active", "deleted"}], file' \subseteq Mt!Slide,
         uploads' \in [Mt!Slide -> Nat], harm' \subseteq {"orders", "numbers", "files"}
  PROVE  MtBase'
<1>1. \A d \in Chair : chair'[d] = IF d = c THEN y ELSE chair[d]
  BY DEF MtBase
<1>2. chair' = [d \in Chair |-> chair'[d]]
  BY DEF MtBase
<1>3. \A d \in Chair : RequestOK(chair[d], order')
  BY RequestStays DEF MtBase, OrdersOK
<1>4. \A d \in Chair : RequestOK(chair'[d], order')
  BY <1>1, <1>3
<1>5. OrdersOK(order, related)' <=> OrdersOK(order', related')
  BY DEF OrdersOK, Orders
<1>6. \A d \in Chair : RequestOK(chair[d], order)' <=> RequestOK(chair'[d], order')
  BY DEF RequestOK, Request
<1> QED BY <1>2, <1>4, <1>5, <1>6 DEF MtBase

LEMMA RestingOK == ASSUME MtAssumption, NEW o PROVE RequestOK(Mt!Resting, o)
<1>1. << >> \in Seq(Saves) /\ 0 \in Mt!Slide
  BY DEF MtAssumption, Mt!Slide
<1> QED BY <1>1 DEF RequestOK, Request, Mt!Resting, MtPC, Stored

\* What a request is when it starts or goes on
HasEntered(c, p, n, t) ==
  /\ chair[c].pc = "idle"
  /\ \E y \in Request : y.pc = p /\ y.slide = n /\ y.todo = t /\ chair' = [chair EXCEPT ![c] = y]
  /\ harm' \subseteq {"orders", "numbers", "files"} /\ harm \subseteq harm'
  /\ "files" \in harm' => "files" \in harm
  /\ "numbers" \in harm' /\ "numbers" \notin harm => "orders" \in harm'
  /\ "orders" \notin harm' /\ p # "hide" => \A d \in Chair \ {c} : chair[d].pc \in {"idle", "hide"}
  /\ "numbers" \notin harm' /\ p = "save" =>
       \A d \in Chair \ {c} : ~ (chair[d].pc = "save" /\ chair[d].slide = n)

LEMMA Entered ==
  ASSUME MtBase, NEW c \in Chair, NEW p \in MtPC, NEW n \in Mt!Slide, NEW t \in Seq(Saves), Mt!Enter(c, p, n, t)
  PROVE  HasEntered(c, p, n, t)
<1> DEFINE y == [pc |-> p, slide |-> n, todo |-> t]
<1>1. y \in Request /\ y.pc = p /\ y.slide = n /\ y.todo = t /\ chair' = [chair EXCEPT ![c] = y] /\ chair[c].pc = "idle"
  BY DEF Mt!Enter, Request
<1>2. harm' = harm \cup {h \in {"orders"} : p # "hide" /\ \E d \in Mt!Others(c) : chair[d].pc # "hide"}
                   \cup {h \in {"numbers"} : p = "save" /\ \E d \in Mt!Others(c) : chair[d].pc = "save"
                                                                                /\ chair[d].slide = n}
  BY DEF Mt!Enter
<1>3. Mt!Others(c) = {d \in Chair \ {c} : chair[d].pc # "idle"}
  BY DEF Mt!Others
<1>4. harm \subseteq {"orders", "numbers", "files"}
  BY DEF MtBase
<1>5. /\ harm' \subseteq {"orders", "numbers", "files"} /\ harm \subseteq harm'
      /\ "files" \in harm' => "files" \in harm
  BY <1>2, <1>4
<1>6. "orders" \notin harm' /\ p # "hide" => \A d \in Chair \ {c} : chair[d].pc \in {"idle", "hide"}
  BY <1>2, <1>3
<1>7. "numbers" \notin harm' /\ p = "save" =>
        \A d \in Chair \ {c} : ~ (chair[d].pc = "save" /\ chair[d].slide = n)
  BY <1>2, <1>3
<1>8. "numbers" \in harm' /\ "numbers" \notin harm => "orders" \in harm'
  BY <1>2
<1> QED BY <1>1, <1>5, <1>6, <1>7, <1>8 DEF HasEntered

LEMMA GoneOn ==
  ASSUME MtBase, NEW c \in Chair, NEW p \in MtPC, Mt!Goto(c, p)
  PROVE  IF p = "idle" THEN chair' = [chair EXCEPT ![c] = Mt!Resting]
         ELSE \E y \in Request : y.pc = p /\ y.slide = chair[c].slide /\ y.todo = << >>
                                 /\ chair' = [chair EXCEPT ![c] = y]
<1>1. CASE p = "idle"
  BY <1>1 DEF Mt!Goto
<1>2. CASE p # "idle"
  <2>1. PICK x \in Request : x = chair[c]
    BY DEF MtBase, RequestOK
  <2> DEFINE y == [pc |-> p, slide |-> x.slide, todo |-> << >>]
  <2>2. chair' = [chair EXCEPT ![c] = [x EXCEPT !.pc = p, !.todo = << >>]]
    BY <1>2, <2>1 DEF Mt!Goto, MtBase
  <2>3. [x EXCEPT !.pc = p] = [pc |-> p, slide |-> x.slide, todo |-> x.todo]
    BY DEF Request
  <2>4. PICK z : z = [x EXCEPT !.pc = p] /\ z = [pc |-> p, slide |-> x.slide, todo |-> x.todo]
    BY <2>3
  <2>5. [z EXCEPT !.todo = << >>] = y
    <3>1. [[pc |-> p, slide |-> x.slide, todo |-> x.todo] EXCEPT !.todo = << >>] = y
      <4>1. PICK n, t : n = x.slide /\ t = x.todo
        OBVIOUS
      <4>2. [[pc |-> p, slide |-> n, todo |-> t] EXCEPT !.todo = << >>] = [pc |-> p, slide |-> n, todo |-> << >>]
        OBVIOUS
      <4> QED BY <4>1, <4>2, Zenon
    <3> QED BY <2>4, <3>1, Zenon
  <2>6. << >> \in Seq(Saves)
    OBVIOUS
  <2>7. y \in Request /\ y.pc = p /\ y.slide = chair[c].slide /\ y.todo = << >>
    BY <2>1, <2>6 DEF Request
  <2> QED BY <1>2, <2>2, <2>4, <2>5, <2>7
<1> QED BY <1>1, <1>2

LEMMA NextOrdersAre ==
  ASSUME MtAssumption, OrdersOK(order, related), NEW o \in Mt!NextOrders
  PROVE  o \in Nat \ {0} /\ o <= NextOf(order) + 2 /\ \A n \in related : order[n] < o
<1>1. NextOf(order) \in Nat
  BY NextOfIs DEF MtAssumption, OrdersOK
<1>2. CASE related = {}
  BY <1>1, <1>2 DEF Mt!NextOrders
<1>3. CASE related # {}
  <2>0. PICK S : S = {order[n] : n \in related}
    OBVIOUS
  <2>1. S \in SUBSET Nat /\ S # {} /\ \A x \in S : x <= NextOf(order) + 1
    BY <1>3, <2>0 DEF OrdersOK, Orders
  <2>2. Mt!Highest(S) \in S /\ \A l \in S : l <= Mt!Highest(S)
    <3>1. NextOf(order) + 1 \in Nat
      BY <1>1
    <3> QED BY <2>1, <3>1, HighestIs
  <2>3. PICK h \in Nat : h = Mt!Highest(S) /\ h <= NextOf(order) + 1
    BY <2>1, <2>2
  <2>4. o = h + 1
    BY <1>3, <2>0, <2>3 DEF Mt!NextOrders
  <2>5. \A n \in related : order[n] \in S
    BY <2>0
  <2>6. \A n \in related : order[n] \in Nat /\ order[n] <= h
    BY <2>1, <2>2, <2>3, <2>5
  <2> QED BY <1>1, <2>3, <2>4, <2>6
<1> QED BY <1>2, <1>3

LEMMA UploadIs ==
  ASSUME MtAssumption, MtBase, NEW c \in Chair, Mt!Upload(c)
  PROVE  /\ NextOf(order) \in Mt!Slide
         /\ \E o \in Nat \ {0} : /\ o <= NextOf(order) + 2 /\ \A n \in related : order[n] < o
                                 /\ <<[slide |-> NextOf(order), order |-> o]>> \in Seq(Saves)
                                 /\ Mt!Enter(c, "save", NextOf(order), <<[slide |-> NextOf(order), order |-> o]>>)
         /\ UNCHANGED <<order, state, file, related, uploads>>
<1>1. OrdersOK(order, related)
  BY DEF MtBase
<1>2. NextOf(order) \in Mt!Slide
  BY MtNext DEF Mt!Upload
<1>3. PICK o \in Mt!NextOrders : Mt!Enter(c, "save", NextOf(order), <<[slide |-> NextOf(order), order |-> o]>>)
  BY MtNext DEF Mt!Upload
<1>4. o \in Nat \ {0} /\ o <= NextOf(order) + 2 /\ \A n \in related : order[n] < o
  BY <1>1, NextOrdersAre
<1>5. PICK x \in Saves : x = [slide |-> NextOf(order), order |-> o]
  BY <1>2, <1>4 DEF Saves
<1>6. <<x>> \in Seq(Saves)
  OBVIOUS
<1> QED BY <1>2, <1>3, <1>4, <1>5, <1>6 DEF Mt!Upload

\* The slides that are shown, in their order
LEMMA ListingIs ==
  ASSUME MtAssumption, OrdersOK(order, related), NEW s \in Mt!Listings
  PROVE  LET N == Cardinality(Mt!Live) IN
         /\ N \in Nat /\ N <= NextOf(order) /\ IsFiniteSet(Mt!Live)
         /\ s \in [1..N -> Mt!Live] /\ \A i, j \in 1..N : s[i] = s[j] => i = j
<1> DEFINE N == Cardinality(Mt!Live)
<1>0. PICK h \in Nat : h = NextOf(order)
  BY NextOfIs DEF MtAssumption, OrdersOK
<1>1. Mt!Live \subseteq 0..h - 1
  <2> SUFFICES ASSUME NEW n \in Mt!Live PROVE n \in 0..h - 1
    OBVIOUS
  <2>1. n \in Mt!Slide /\ order[n] > 0
    BY DEF Mt!Live, OrdersOK
  <2>2. n < h
    BY <1>0, <2>1, NextOfIs DEF OrdersOK, MtAssumption
  <2> QED BY <2>1, <2>2 DEF Mt!Slide
<1>2. IsFiniteSet(0..h - 1) /\ Cardinality(0..h - 1) = h
  <2>1. 0 \in Int /\ h - 1 \in Int
    OBVIOUS
  <2>2. /\ IsFiniteSet(0..h - 1)
        /\ Cardinality(0..h - 1) = IF 0 > h - 1 THEN 0 ELSE h - 1 - 0 + 1
    BY <2>1, FS_Interval, Zenon
  <2> QED BY <2>2
<1>3. IsFiniteSet(Mt!Live) /\ N <= h
  BY <1>1, <1>2, FS_Subset
<1>4. N \in Nat
  BY <1>3, FS_CardinalityType
<1>5. /\ s \in [1..N -> Mt!Live]
      /\ \A i, j \in DOMAIN s : i < j => s[i] # s[j] /\ order[s[i]] <= order[s[j]]
  BY SameSize DEF Mt!Listings
<1>6. ASSUME NEW i \in 1..N, NEW j \in 1..N, s[i] = s[j] PROVE i = j
  BY <1>4, <1>5, <1>6
<1> HIDE DEF N
<1> QED BY <1>0, <1>3, <1>4, <1>5, <1>6 DEF N

\* Parts of sequences, put together
LEMMA Cut ==
  ASSUME NEW L, NEW x \in Seq(L), NEW a \in Nat \ {0}, NEW b \in Nat, a <= b + 1, b <= Len(x),
         NEW z, z = SubSeq(x, a, b)
  PROVE  z \in Seq(L) /\ Len(z) = b - a + 1 /\ \A k \in 1..b - a + 1 : z[k] = x[a + k - 1]
<1>1. Len(x) \in Nat
  BY LenProperties
<1>2. a \in 1..Len(x) + 1 /\ b \in (a - 1)..Len(x)
  BY <1>1
<1> QED BY <1>2, SubSeqProperties

LEMMA Joined ==
  ASSUME NEW L, NEW x \in Seq(L), NEW y \in Seq(L), NEW z, z = x \o y
  PROVE  /\ z \in Seq(L) /\ Len(z) = Len(x) + Len(y) /\ Len(x) \in Nat /\ Len(y) \in Nat
         /\ \A k \in 1..Len(x) + Len(y) :
              \/ k <= Len(x) /\ z[k] = x[k]
              \/ k > Len(x) /\ k - Len(x) \in 1..Len(y) /\ z[k] = y[k - Len(x)]
<1>1. Len(x) \in Nat /\ Len(y) \in Nat
  BY LenProperties
<1>2. /\ z \in Seq(L) /\ Len(z) = Len(x) + Len(y)
      /\ \A k \in 1..Len(x) + Len(y) : z[k] = IF k <= Len(x) THEN x[k] ELSE y[k - Len(x)]
  BY ConcatProperties
<1>3. ASSUME NEW k \in 1..Len(x) + Len(y)
      PROVE  \/ k <= Len(x) /\ z[k] = x[k]
             \/ k > Len(x) /\ k - Len(x) \in 1..Len(y) /\ z[k] = y[k - Len(x)]
  <2>1. z[k] = IF k <= Len(x) THEN x[k] ELSE y[k - Len(x)]
    BY <1>2
  <2>2. PICK l \in Nat, m \in Nat : l = Len(x) /\ m = Len(y)
    BY <1>1
  <2>3. k \in 1..l + m
    BY <2>2
  <2>4. k <= l \/ (k > l /\ k - l \in 1..m)
    BY <2>3
  <2> QED BY <2>1, <2>2, <2>4
<1> QED BY <1>1, <1>2, <1>3

\* The place in s of what comes k-th when element i of s is put at a place
Shift(i, place, k) ==
  IF k = place THEN i
  ELSE LET j == IF k < place THEN k ELSE k - 1 IN IF j < i THEN j ELSE j + 1

LEMMA ShiftMoves ==
  ASSUME NEW N \in Nat, NEW i \in 1..N, NEW place \in 1..N
  PROVE  /\ \A k \in 1..N : Shift(i, place, k) \in 1..N
         /\ \A j, k \in 1..N : Shift(i, place, j) = Shift(i, place, k) => j = k
BY DEF Shift

TakeOut(s, i)      == SubSeq(s, 1, i - 1) \o SubSeq(s, i + 1, Len(s))
PutIn(r, x, place) == SubSeq(r, 1, place - 1) \o <<x>> \o SubSeq(r, place, Len(r))

OneOut(L, N, s, i, rest) ==
  /\ rest \in Seq(L) /\ Len(rest) = N - 1
  /\ \A k \in 1..N - 1 : rest[k] = IF k < i THEN s[k] ELSE s[k + 1]
Elsewhere(L, N, s, i, place, list) ==
  list \in Seq(L) /\ Len(list) = N /\ \A k \in 1..N : list[k] = s[Shift(i, place, k)]

LEMMA TakeOutIs ==
  ASSUME NEW L, NEW N \in Nat, NEW s \in [1..N -> L], NEW i \in 1..N
  PROVE  OneOut(L, N, s, i, TakeOut(s, i))
<1> DEFINE rest == TakeOut(s, i)
<1>1. s \in Seq(L) /\ Len(s) = N
  OBVIOUS
<1>2. PICK x : x = SubSeq(s, 1, i - 1)
  OBVIOUS
<1>3. PICK y : y = SubSeq(s, i + 1, Len(s))
  OBVIOUS
<1>4. /\ x \in Seq(L) /\ Len(x) = i - 1 /\ \A k \in 1..i - 1 : x[k] = s[k]
  <2>1. 1 \in Nat \ {0} /\ i - 1 \in Nat /\ 1 <= i - 1 + 1 /\ i - 1 <= Len(s)
    BY <1>1
  <2>2. x \in Seq(L) /\ Len(x) = i - 1 - 1 + 1 /\ \A k \in 1..i - 1 - 1 + 1 : x[k] = s[1 + k - 1]
    BY <1>1, <1>2, <2>1, Cut
  <2> QED BY <2>2
<1>5. /\ y \in Seq(L) /\ Len(y) = N - i /\ \A k \in 1..N - i : y[k] = s[i + k]
  <2>1. i + 1 \in Nat \ {0} /\ N \in Nat /\ i + 1 <= N + 1 /\ N <= Len(s)
    BY <1>1
  <2>2. y \in Seq(L) /\ Len(y) = N - (i + 1) + 1 /\ \A k \in 1..N - (i + 1) + 1 : y[k] = s[i + 1 + k - 1]
    BY <1>1, <1>3, <2>1, Cut
  <2>3. Len(y) = N - i /\ \A k \in 1..N - i : k \in 1..N - (i + 1) + 1 /\ i + 1 + k - 1 = i + k
    BY <2>2
  <2>4. \A k \in 1..N - i : y[k] = s[i + k]
    BY <2>2, <2>3
  <2> QED BY <2>2, <2>3, <2>4
<1>6. /\ rest \in Seq(L) /\ Len(rest) = N - 1
      /\ \A k \in 1..N - 1 : rest[k] = IF k < i THEN s[k] ELSE s[k + 1]
  <2>0. rest = x \o y
    BY <1>2, <1>3 DEF TakeOut
  <2>1. /\ rest \in Seq(L) /\ Len(rest) = Len(x) + Len(y)
        /\ \A k \in 1..Len(x) + Len(y) :
             \/ k <= Len(x) /\ rest[k] = x[k]
             \/ k > Len(x) /\ k - Len(x) \in 1..Len(y) /\ rest[k] = y[k - Len(x)]
    <3>1. x \in Seq(L) /\ y \in Seq(L)
      BY <1>4, <1>5
    <3> QED BY <2>0, <3>1, Joined
  <2>2. Len(x) + Len(y) = N - 1
    BY <1>4, <1>5
  <2>3. ASSUME NEW k \in 1..N - 1 PROVE rest[k] = IF k < i THEN s[k] ELSE s[k + 1]
    <3>1. \/ k <= i - 1 /\ rest[k] = x[k]
          \/ k > i - 1 /\ k - (i - 1) \in 1..N - i /\ rest[k] = y[k - (i - 1)]
      BY <1>4, <1>5, <2>1, <2>2
    <3>2. k <= i - 1 => x[k] = s[k]
      BY <1>4
    <3>3. k > i - 1 /\ k - (i - 1) \in 1..N - i => y[k - (i - 1)] = s[k + 1]
      <4>1. i + (k - (i - 1)) = k + 1
        OBVIOUS
      <4> QED BY <1>5, <4>1
    <3> QED BY <3>1, <3>2, <3>3
  <2> QED BY <2>1, <2>2, <2>3
<1> QED BY <1>6 DEF OneOut

LEMMA Rearranged ==
  ASSUME NEW L, NEW N \in Nat, NEW s \in [1..N -> L], NEW i \in 1..N, NEW place \in 1..N,
         NEW rest, OneOut(L, N, s, i, rest)
  PROVE  Elsewhere(L, N, s, i, place, PutIn(rest, s[i], place))
<1> DEFINE list == PutIn(rest, s[i], place)
<1>0. /\ rest \in Seq(L) /\ Len(rest) = N - 1
      /\ \A k \in 1..N - 1 : rest[k] = IF k < i THEN s[k] ELSE s[k + 1]
  BY DEF OneOut
<1>7. PICK u : u = SubSeq(rest, 1, place - 1)
  OBVIOUS
<1>8. PICK v : v = SubSeq(rest, place, Len(rest))
  OBVIOUS
<1>9. /\ u \in Seq(L) /\ Len(u) = place - 1 /\ \A k \in 1..place - 1 : u[k] = rest[k]
  <2>1. 1 \in Nat \ {0} /\ place - 1 \in Nat /\ 1 <= place - 1 + 1 /\ place - 1 <= Len(rest)
    BY <1>0
  <2>2. u \in Seq(L) /\ Len(u) = place - 1 - 1 + 1 /\ \A k \in 1..place - 1 - 1 + 1 : u[k] = rest[1 + k - 1]
    BY <1>0, <1>7, <2>1, Cut
  <2> QED BY <2>2
<1>10. /\ v \in Seq(L) /\ Len(v) = N - place /\ \A k \in 1..N - place : v[k] = rest[place + k - 1]
  <2>1. place \in Nat \ {0} /\ N - 1 \in Nat /\ place <= N - 1 + 1 /\ N - 1 <= Len(rest)
    BY <1>0
  <2>2. v \in Seq(L) /\ Len(v) = N - 1 - place + 1 /\ \A k \in 1..N - 1 - place + 1 : v[k] = rest[place + k - 1]
    BY <1>0, <1>8, <2>1, Cut
  <2>3. N - 1 - place + 1 = N - place
    OBVIOUS
  <2> QED BY <2>2, <2>3
<1>11. PICK one \in Seq(L) : one = <<s[i]>> /\ Len(one) = 1 /\ one[1] = s[i]
  <2>1. s[i] \in L
    OBVIOUS
  <2>2. <<s[i]>> \in Seq(L) /\ Len(<<s[i]>>) = 1 /\ <<s[i]>>[1] = s[i]
    BY <2>1
  <2> QED BY <2>2
<1>12. PICK w : w = u \o one
  OBVIOUS
<1>13. /\ w \in Seq(L) /\ Len(w) = place
       /\ \A k \in 1..place : w[k] = IF k < place THEN rest[k] ELSE s[i]
  <2>1. /\ w \in Seq(L) /\ Len(w) = Len(u) + Len(one)
        /\ \A k \in 1..Len(u) + Len(one) :
             \/ k <= Len(u) /\ w[k] = u[k]
             \/ k > Len(u) /\ k - Len(u) \in 1..Len(one) /\ w[k] = one[k - Len(u)]
    BY <1>9, <1>11, <1>12, Joined
  <2>2. Len(u) + Len(one) = place
    BY <1>9, <1>11
  <2>3. ASSUME NEW k \in 1..place PROVE w[k] = IF k < place THEN rest[k] ELSE s[i]
    <3>1. \/ k <= place - 1 /\ w[k] = u[k]
          \/ k > place - 1 /\ k - (place - 1) \in 1..1 /\ w[k] = one[k - (place - 1)]
      BY <1>9, <1>11, <2>1, <2>2
    <3>2. k > place - 1 => k = place /\ k - (place - 1) = 1
      OBVIOUS
    <3> QED BY <1>9, <1>11, <3>1, <3>2
  <2> QED BY <2>1, <2>2, <2>3
<1>14. /\ list \in Seq(L) /\ Len(list) = N
       /\ \A k \in 1..N : list[k] = IF k <= place THEN w[k] ELSE rest[k - 1]
  <2>0. list = w \o v
    BY <1>7, <1>8, <1>11, <1>12 DEF PutIn
  <2>1. /\ list \in Seq(L) /\ Len(list) = Len(w) + Len(v)
        /\ \A k \in 1..Len(w) + Len(v) :
             \/ k <= Len(w) /\ list[k] = w[k]
             \/ k > Len(w) /\ k - Len(w) \in 1..Len(v) /\ list[k] = v[k - Len(w)]
    <3>1. w \in Seq(L) /\ v \in Seq(L)
      BY <1>10, <1>13
    <3> QED BY <2>0, <3>1, Joined
  <2>2. Len(w) + Len(v) = N
    BY <1>10, <1>13
  <2>3. ASSUME NEW k \in 1..N PROVE list[k] = IF k <= place THEN w[k] ELSE rest[k - 1]
    <3>1. \/ k <= place /\ list[k] = w[k]
          \/ k > place /\ k - place \in 1..N - place /\ list[k] = v[k - place]
      BY <1>10, <1>13, <2>1, <2>2
    <3>2. place + (k - place) - 1 = k - 1
      OBVIOUS
    <3> QED BY <1>10, <3>1, <3>2
  <2> QED BY <2>1, <2>2, <2>3
<1>15. ASSUME NEW k \in 1..N PROVE list[k] = s[Shift(i, place, k)]
  <2>1. CASE k = place
    BY <1>13, <1>14, <2>1 DEF Shift
  <2>2. CASE k < place
    <3>1. list[k] = rest[k] /\ k \in 1..N - 1
      BY <1>13, <1>14, <2>2
    <3>2. Shift(i, place, k) = IF k < i THEN k ELSE k + 1
      BY <2>2 DEF Shift
    <3> QED BY <1>0, <3>1, <3>2
  <2>3. CASE k > place
    <3>1. list[k] = rest[k - 1] /\ k - 1 \in 1..N - 1
      BY <1>14, <2>3
    <3>2. Shift(i, place, k) = IF k - 1 < i THEN k - 1 ELSE k - 1 + 1
      BY <2>3 DEF Shift
    <3> QED BY <1>0, <3>1, <3>2
  <2> QED BY <2>1, <2>2, <2>3
<1> QED BY <1>14, <1>15 DEF Elsewhere

(***************************************************************************)
(* Materials: what moving a slide will save                                *)
(***************************************************************************)
LEMMA SaveIs ==
  ASSUME NEW a \in Mt!Slide, NEW v \in Nat \ {0}
  PROVE  \E x \in Saves : x = [slide |-> a, order |-> v] /\ x.slide = a /\ x.order = v
<1> DEFINE x == [slide |-> a, order |-> v]
<1>1. x \in Saves /\ x.slide = a /\ x.order = v
  BY DEF Saves
<1> HIDE DEF x
<1> QED BY <1>1, Zenon DEF x

LEMMA OneSave ==
  ASSUME NEW x \in Saves
  PROVE  /\ <<x>> \in Seq(Saves) /\ Len(<<x>>) = 1 /\ <<x>>[1] = x /\ <<x>> # << >>
         /\ \A o, n, v : Gets(<<x>>, o, n, v) => (n = x.slide /\ v = x.order) \/ (n # x.slide /\ v = o[n])
<1>1. <<x>> \in Seq(Saves) /\ Len(<<x>>) = 1 /\ <<x>>[1] = x /\ <<x>> # << >>
  OBVIOUS
<1>2. PICK t : t = <<x>>
  OBVIOUS
<1>3. Len(t) = 1 /\ t[1] = x /\ (\A i \in 1..Len(t) : i = 1) /\ 1 \in 1..Len(t)
  BY <1>1, <1>2
<1>4. \A o, n, v : Gets(t, o, n, v) => (n = x.slide /\ v = x.order) \/ (n # x.slide /\ v = o[n])
  BY <1>3 DEF Gets
<1> QED BY <1>1, <1>2, <1>4, Zenon

\* A row is saved as it is.
LEMMA ReplaceApart ==
  ASSUME NEW o, NEW L, NEW x \in Saves, x.order = o[x.slide], Apart(<< >>, o, L)
  PROVE  Apart(<<x>>, o, L)
<1>1. \A n, v : Gets(<<x>>, o, n, v) => v = o[n]
  BY OneSave
<1>2. \A n, k \in L : n # k => o[n] # o[k]
  BY ApartAtLast
<1> QED BY <1>1, <1>2 DEF Apart

\* Two rows exchange their orders.
LEMMA MoveApart ==
  ASSUME NEW o, NEW L, NEW x \in Saves, NEW y \in Saves, x.slide \in L, y.slide \in L,
         x.slide # y.slide, x.order = o[y.slide], y.order = o[x.slide], NEW t, t = <<x, y>>
  PROVE  /\ t \in Seq(Saves) /\ t # << >>
         /\ \A i \in 1..Len(t) : t[i] \in {x, y}
         /\ Apart(<< >>, o, L) => Apart(t, o, L)
<1>1. t \in Seq(Saves) /\ Len(t) = 2 /\ t # << >> /\ t[1] = x /\ t[2] = y
  OBVIOUS
<1>2. (\A i \in 1..Len(t) : i = 1 \/ i = 2) /\ 1 \in 1..Len(t) /\ 2 \in 1..Len(t)
  BY <1>1
<1>3. \A n, v : Gets(t, o, n, v) =>
        \/ n = x.slide /\ v = o[y.slide]
        \/ n = y.slide /\ v = o[x.slide]
        \/ n # x.slide /\ n # y.slide /\ v = o[n]
  BY <1>1, <1>2 DEF Gets
<1>4. ASSUME Apart(<< >>, o, L) PROVE Apart(t, o, L)
  <2>1. \A n, k \in L : n # k => o[n] # o[k]
    BY <1>4, ApartAtLast
  <2> QED BY <1>3, <2>1 DEF Apart
<1> QED BY <1>1, <1>2, <1>4

\* The numbers that Ascending gives
LEMMA AscendingIs ==
  ASSUME NEW n \in Nat, NEW S \in SUBSET (1..n)
  PROVE  \E k \in Nat : /\ Mt!Ascending(S) \in [1..k -> S] /\ (k = 0 <=> S = {})
                        /\ \A i, j \in 1..k : Mt!Ascending(S)[i] = Mt!Ascending(S)[j] => i = j
                        /\ \A x \in S : \E i \in 1..k : Mt!Ascending(S)[i] = x
<1> DEFINE k == Cardinality(S)
           F == Mt!Ascending(S)
<1>1. /\ IsFiniteSet(S) /\ k \in 0..n
      /\ \E g \in [1..k -> S] : Rising(g, k)
      /\ \A f \in [1..k -> S] : Rising(f, k) => f \in Bijection(1..k, S)
  BY Kept
<1>2. F \in [1..k -> S] /\ Rising(F, k)
  <2>1. \E g \in [1..k -> S] : \A i, j \in DOMAIN g : i < j => g[i] < g[j]
    BY <1>1 DEF Rising
  <2>2. F \in [1..k -> S] /\ \A i, j \in DOMAIN F : i < j => F[i] < F[j]
    BY <2>1, SameSize, Zenon DEF Mt!Ascending
  <2> QED BY <2>2 DEF Rising
<1>3. F \in Bijection(1..k, S)
  BY <1>1, <1>2
<1>4. k = 0 <=> S = {}
  BY <1>1, FS_EmptySet
<1> HIDE DEF k, F
<1>5. \A i, j \in 1..k : F[i] = F[j] => i = j
  BY <1>2, <1>3 DEF Bijection, Injection, IsInjective
<1>6. \A x \in S : \E i \in 1..k : F[i] = x
  BY <1>3 DEF Bijection, Surjection
<1>7. k \in Nat
  BY <1>1
<1> QED BY <1>2, <1>4, <1>5, <1>6, <1>7 DEF F

\* The slides of a list get their places as orders, those that have them already
\* are left alone: no two get the same.
Displaced(o, list, N) == {k \in 1..N : o[list[k]] # k}
Placing(list, f) == [j \in DOMAIN f |-> [slide |-> list[f[j]], order |-> f[j]]]

LEMMA PlacingIs ==
  ASSUME NEW N \in Nat, NEW list \in [1..N -> Mt!Slide], NEW m \in Nat, NEW f \in [1..m -> 1..N]
  PROVE  /\ Placing(list, f) \in Seq(Saves) /\ Len(Placing(list, f)) = m
         /\ \A j \in 1..m : Placing(list, f)[j].slide = list[f[j]] /\ Placing(list, f)[j].order = f[j]
<1>1. PICK t : t = Placing(list, f)
  OBVIOUS
<1>2. ASSUME NEW j \in 1..m
      PROVE  t[j] \in Saves /\ t[j].slide = list[f[j]] /\ t[j].order = f[j]
  <2>1. list[f[j]] \in Mt!Slide /\ f[j] \in Nat \ {0}
    OBVIOUS
  <2>2. PICK x \in Saves : x = [slide |-> list[f[j]], order |-> f[j]] /\ x.slide = list[f[j]] /\ x.order = f[j]
    BY <2>1, SaveIs
  <2>3. t[j] = [slide |-> list[f[j]], order |-> f[j]]
    BY <1>1 DEF Placing
  <2> QED BY <2>2, <2>3
<1>3. DOMAIN t = 1..m /\ t = [j \in 1..m |-> t[j]]
  BY <1>1 DEF Placing
<1>4. t \in [1..m -> Saves]
  BY <1>2, <1>3
<1>5. t \in Seq(Saves) /\ Len(t) = m
  BY <1>4
<1> QED BY <1>1, <1>2, <1>5

LEMMA PlacesApart ==
  ASSUME NEW o, NEW L \in SUBSET Mt!Slide, NEW N \in Nat, NEW list \in [1..N -> L],
         \A i, j \in 1..N : list[i] = list[j] => i = j, \A n \in L : \E i \in 1..N : list[i] = n,
         NEW t, t = Placing(list, Mt!Ascending(Displaced(o, list, N)))
  PROVE  /\ t \in Seq(Saves) /\ Apart(t, o, L)
         /\ \A i \in 1..Len(t) : t[i].slide \in L /\ t[i].order <= N
<1>1. PICK S \in SUBSET (1..N) : S = Displaced(o, list, N)
  BY DEF Displaced
<1>2. PICK m \in Nat : /\ Mt!Ascending(S) \in [1..m -> S] /\ (m = 0 <=> S = {})
                       /\ \A i, j \in 1..m : Mt!Ascending(S)[i] = Mt!Ascending(S)[j] => i = j
                       /\ \A x \in S : \E i \in 1..m : Mt!Ascending(S)[i] = x
  BY AscendingIs, Zenon
<1>3. PICK f \in [1..m -> S] : f = Mt!Ascending(S) /\ \A x \in S : \E i \in 1..m : f[i] = x
  BY <1>2
<1>4. f \in [1..m -> 1..N] /\ list \in [1..N -> Mt!Slide]
  BY <1>1
<1>5. t = Placing(list, f)
  BY <1>1, <1>3
<1>6. /\ t \in Seq(Saves) /\ Len(t) = m
      /\ \A j \in 1..m : t[j].slide = list[f[j]] /\ t[j].order = f[j]
  BY <1>4, <1>5, PlacingIs
<1>7. ASSUME NEW i \in 1..N, NEW v, Gets(t, o, list[i], v) PROVE v = i
  <2>1. CASE \E j \in 1..m : t[j].slide = list[i] /\ t[j].order = v
    <3>1. PICK j \in 1..m : t[j].slide = list[i] /\ t[j].order = v
      BY <2>1
    <3>2. list[f[j]] = list[i] /\ f[j] = v /\ f[j] \in 1..N
      BY <1>4, <1>6, <3>1
    <3> QED BY <3>2
  <2>2. CASE (\A j \in 1..m : t[j].slide # list[i]) /\ v = o[list[i]]
    <3>1. i \notin S
      BY <1>3, <1>6, <2>2
    <3> QED BY <1>1, <2>2, <3>1 DEF Displaced
  <2> QED BY <1>6, <1>7, <2>1, <2>2 DEF Gets
<1>8. Apart(t, o, L)
  <2> SUFFICES ASSUME NEW n \in L, NEW k \in L, n # k, NEW v, Gets(t, o, n, v), Gets(t, o, k, v) PROVE FALSE
    BY DEF Apart
  <2>1. PICK i \in 1..N, j \in 1..N : list[i] = n /\ list[j] = k
    OBVIOUS
  <2> QED BY <1>7, <2>1
<1>9. ASSUME NEW i \in 1..Len(t) PROVE t[i].slide \in L /\ t[i].order <= N
  <2>1. i \in 1..m /\ f[i] \in 1..N
    BY <1>4, <1>6
  <2> QED BY <1>6, <2>1
<1> QED BY <1>6, <1>8, <1>9

\* What replacing, moving and reordering have in common
Orderly(t) ==
  /\ t \in Seq(Saves) /\ t # << >>
  /\ \A i \in 1..Len(t) : order[t[i].slide] > 0 /\ t[i].order <= NextOf(order) + 1
  /\ Apart(<< >>, order, Mt!Live) => Apart(t, order, Mt!Live)
WillSave(c) == \E n \in Mt!Slide : \E t : Orderly(t) /\ Mt!Enter(c, "orders", n, t)

LEMMA ReplaceIs ==
  ASSUME MtAssumption, OrdersOK(order, related), NEW c \in Chair, NEW n \in Mt!Slide, Mt!Replace(c, n)
  PROVE  WillSave(c) /\ n \in related /\ file' = file \cup {n} /\ UNCHANGED <<order, state, related, uploads>>
<1>1. n \in related /\ order[n] \in Nat \ {0} /\ order[n] <= NextOf(order) + 1
  BY DEF Mt!Replace, OrdersOK, Orders
<1>2. PICK x \in Saves : x = [slide |-> n, order |-> order[n]] /\ x.slide = n /\ x.order = order[n]
  BY <1>1, SaveIs
<1>3. <<x>> \in Seq(Saves) /\ Len(<<x>>) = 1 /\ <<x>>[1] = x /\ <<x>> # << >>
  BY OneSave
<1>4. Apart(<< >>, order, Mt!Live) => Apart(<<x>>, order, Mt!Live)
  BY <1>2, ReplaceApart
<1>5. PICK t : t = <<x>>
  OBVIOUS
<1>6. Orderly(t)
  <2>1. \A i \in 1..Len(t) : t[i] = x
    BY <1>3, <1>5
  <2> QED BY <1>1, <1>2, <1>3, <1>4, <1>5, <2>1 DEF Orderly
<1>7. Mt!Enter(c, "orders", n, t)
  BY <1>2, <1>5 DEF Mt!Replace
<1> QED BY <1>1, <1>6, <1>7 DEF WillSave, Mt!Replace

LEMMA MoveIs ==
  ASSUME MtAssumption, OrdersOK(order, related), NEW c \in Chair, Mt!Move(c)
  PROVE  WillSave(c) /\ UNCHANGED <<order, state, file, related, uploads>>
<1>1. PICK s \in Mt!Listings : \E i, j \in DOMAIN s :
         /\ j \in {i - 1, i + 1}
         /\ Mt!Enter(c, "orders", s[i], <<[slide |-> s[i], order |-> order[s[j]]],
                                          [slide |-> s[j], order |-> order[s[i]]]>>)
  BY DEF Mt!Move
<1>2. PICK N \in Nat : /\ s \in [1..N -> Mt!Live] /\ \A i, j \in 1..N : s[i] = s[j] => i = j
  BY ListingIs
<1>3. PICK i \in 1..N, j \in 1..N :
         /\ j \in {i - 1, i + 1}
         /\ Mt!Enter(c, "orders", s[i], <<[slide |-> s[i], order |-> order[s[j]]],
                                          [slide |-> s[j], order |-> order[s[i]]]>>)
  BY <1>1, <1>2
<1>4. i # j
  BY <1>3
<1>5. PICK a \in Mt!Live, b \in Mt!Live : a = s[i] /\ b = s[j] /\ a # b
  BY <1>2, <1>4
<1>6. \A n \in Mt!Live : n \in Mt!Slide /\ order[n] \in Nat \ {0} /\ order[n] <= NextOf(order) + 1
  BY DEF Mt!Live, OrdersOK, Orders
<1>7. PICK x \in Saves : x = [slide |-> a, order |-> order[b]] /\ x.slide = a /\ x.order = order[b]
  BY <1>6, SaveIs
<1>8. PICK y \in Saves : y = [slide |-> b, order |-> order[a]] /\ y.slide = b /\ y.order = order[a]
  BY <1>6, SaveIs
<1>9. PICK t : t = <<x, y>>
  OBVIOUS
<1>10. /\ t \in Seq(Saves) /\ t # << >> /\ \A k \in 1..Len(t) : t[k] \in {x, y}
       /\ Apart(<< >>, order, Mt!Live) => Apart(t, order, Mt!Live)
  BY <1>5, <1>7, <1>8, <1>9, MoveApart
<1>11. \A z \in {x, y} : order[z.slide] > 0 /\ z.order <= NextOf(order) + 1
  BY <1>6, <1>7, <1>8
<1>12. Orderly(t)
  BY <1>10, <1>11 DEF Orderly
<1>13. Mt!Enter(c, "orders", a, t) /\ a \in Mt!Slide
  BY <1>3, <1>5, <1>6, <1>7, <1>8, <1>9
<1> QED BY <1>12, <1>13 DEF WillSave, Mt!Move

\* A list of all there is that names nothing twice leaves nothing out.
LEMMA ListsAll ==
  ASSUME NEW L, IsFiniteSet(L), NEW N \in Nat, N = Cardinality(L), NEW list \in [1..N -> L],
         \A i, j \in 1..N : list[i] = list[j] => i = j
  PROVE  \A n \in L : \E i \in 1..N : list[i] = n
<1>1. list \in Injection(1..N, L)
  BY DEF Injection, IsInjective
<1>2. Cardinality(1..N) = N
  <2>1. 1 \in Int /\ N \in Int
    OBVIOUS
  <2>2. Cardinality(1..N) = IF 1 > N THEN 0 ELSE N - 1 + 1
    BY <2>1, FS_Interval, Zenon
  <2> QED BY <2>2
<1>3. list \in Surjection(1..N, L)
  BY <1>1, <1>2, FS_Injection, Zenon
<1> QED BY <1>3 DEF Surjection

\* Element i of s is put at a place and all that is displaced will be saved.
Puts(c, s, i, place) ==
  LET list == PutIn(TakeOut(s, i), s[i], place)
      todo == Placing(list, Mt!Ascending({k \in DOMAIN list : order[list[k]] # k}))
  IN todo # << >> /\ Mt!Enter(c, "orders", s[i], todo)

LEMMA ReorderIs ==
  ASSUME MtAssumption, OrdersOK(order, related), NEW c \in Chair, Mt!Reorder(c)
  PROVE  WillSave(c) /\ UNCHANGED <<order, state, file, related, uploads>>
<1>1. PICK s \in Mt!Listings : \E i, place \in DOMAIN s : Puts(c, s, i, place)
  BY Zenon DEF Mt!Reorder, Puts, PutIn, TakeOut, Placing
<1>2. PICK N \in Nat : /\ N = Cardinality(Mt!Live) /\ N <= NextOf(order) /\ IsFiniteSet(Mt!Live)
                       /\ s \in [1..N -> Mt!Live] /\ \A i, j \in 1..N : s[i] = s[j] => i = j
  BY ListingIs
<1>l. PICK L : L = Mt!Live
  OBVIOUS
<1>s. s \in [1..N -> L]
  BY <1>2, <1>l
<1>3. PICK i \in 1..N, place \in 1..N : Puts(c, s, i, place)
  BY <1>1, <1>s
<1>4. PICK rest : rest = TakeOut(s, i)
  OBVIOUS
<1>5. PICK list : list = PutIn(rest, s[i], place)
  OBVIOUS
<1>6. OneOut(L, N, s, i, rest)
  BY <1>s, <1>4, TakeOutIs
<1>7. list \in Seq(Mt!Live) /\ Len(list) = N /\ \A k \in 1..N : list[k] = s[Shift(i, place, k)]
  <2>1. Elsewhere(L, N, s, i, place, list)
    BY <1>s, <1>5, <1>6, Rearranged
  <2> QED BY <1>l, <2>1 DEF Elsewhere
<1>8. DOMAIN list = 1..N /\ list \in [1..N -> Mt!Live]
  BY <1>7
<1>9. \A j, k \in 1..N : list[j] = list[k] => j = k
  <2>1. /\ \A k \in 1..N : Shift(i, place, k) \in 1..N
        /\ \A j, k \in 1..N : Shift(i, place, j) = Shift(i, place, k) => j = k
    BY ShiftMoves
  <2> QED BY <1>2, <1>7, <2>1, Zenon
<1>10. \A n \in Mt!Live : \E k \in 1..N : list[k] = n
  <2>1. IsFiniteSet(L) /\ N = Cardinality(L) /\ list \in [1..N -> L]
    BY <1>2, <1>l, <1>8
  <2>2. \A n \in L : \E k \in 1..N : list[k] = n
    BY <1>9, <2>1, ListsAll
  <2> QED BY <1>l, <2>2
<1>11. PICK t : t = Placing(list, Mt!Ascending(Displaced(order, list, N)))
  OBVIOUS
<1>12. t # << >> /\ Mt!Enter(c, "orders", s[i], t)
  <2>1. {k \in DOMAIN list : order[list[k]] # k} = Displaced(order, list, N)
    BY <1>8 DEF Displaced
  <2> QED BY <1>3, <1>4, <1>5, <1>11, <2>1 DEF Puts
<1>13. Mt!Live \in SUBSET Mt!Slide /\ \A n \in Mt!Live : order[n] > 0
  BY DEF Mt!Live, OrdersOK
<1>14. /\ t \in Seq(Saves) /\ Apart(t, order, Mt!Live)
       /\ \A k \in 1..Len(t) : t[k].slide \in Mt!Live /\ t[k].order <= N
  BY <1>8, <1>9, <1>10, <1>11, <1>13, PlacesApart
<1>15. Orderly(t)
  <2>1. PICK h \in Nat : h = NextOf(order)
    BY NextOfIs DEF MtAssumption, OrdersOK
  <2>2. \A v \in Nat : v <= N => v <= h + 1
    BY <1>2, <2>1
  <2>3. \A k \in 1..Len(t) : t[k].order \in Nat
    <3>1. \A k \in 1..Len(t) : t[k] \in Saves
      BY <1>14, ElementOfSeq
    <3> QED BY <3>1 DEF Saves
  <2>4. \A k \in 1..Len(t) : order[t[k].slide] > 0 /\ t[k].order <= NextOf(order) + 1
    BY <1>13, <1>14, <2>1, <2>2, <2>3
  <2> QED BY <1>12, <1>14, <2>4 DEF Orderly
<1>16. s[i] \in Mt!Slide
  BY <1>2, <1>13
<1> QED BY <1>12, <1>15, <1>16 DEF WillSave, Mt!Reorder

\* A row is given an order: a first one, near its number, or another one.
LEMMA OrderGiven ==
  ASSUME MtAssumption, OrdersOK(order, related), NEW n \in Mt!Slide, NEW v \in Nat \ {0},
         order' = [order EXCEPT ![n] = v], v <= n + 2 \/ (order[n] > 0 /\ v <= NextOf(order) + 1),
         related' = related
  PROVE  /\ OrdersOK(order', related') /\ order'[n] = v
         /\ \A m \in Mt!Slide : order[m] > 0 => order'[m] > 0
         /\ \A m \in Mt!Slide : m # n => order'[m] = order[m]
<1>1. PICK p : p = order'
  OBVIOUS
<1>2. Orders(order) /\ Orders(p) /\ n \in Nat
  BY <1>1 DEF OrdersOK, Orders, Mt!Slide
<1>3. p[n] = v /\ \A m \in Mt!Slide : m # n => p[m] = order[m]
  BY <1>1 DEF OrdersOK, Orders
<1>4. \A m \in Mt!Slide : order[m] > 0 => p[m] > 0
  BY <1>3
<1>5. NextOf(order) \in Nat /\ NextOf(p) \in Nat /\ NextOf(order) <= NextOf(p) /\ n < NextOf(p)
  BY <1>2, <1>3, <1>4, NextGrows, NextOfIs DEF MtAssumption
<1>6. ASSUME NEW m \in Mt!Slide PROVE p[m] <= NextOf(p) + 1
  <2>1. CASE m = n
    BY <1>2, <1>3, <1>5, <2>1
  <2>2. CASE m # n
    <3>1. p[m] = order[m] /\ order[m] \in Nat /\ order[m] <= NextOf(order) + 1
      BY <1>3, <2>2 DEF OrdersOK, Orders
    <3> QED BY <1>5, <3>1
  <2> QED BY <2>1, <2>2
<1>7. OrdersOK(p, related)
  BY <1>2, <1>4, <1>6 DEF OrdersOK
<1> QED BY <1>1, <1>3, <1>4, <1>7

\* What goes from request to row
LEMMA SaveIsGiven ==
  ASSUME MtAssumption, MtBase, NEW c \in Chair, Mt!Save(c)
  PROVE  \E s \in Mt!Slide, v \in Nat \ {0}, y \in Request :
           /\ chair[c].pc = "save" /\ s = chair[c].slide /\ v = chair[c].todo[1].order /\ v <= s + 2
           /\ y.pc = "file" /\ y.slide = s /\ y.todo = << >> /\ chair' = [chair EXCEPT ![c] = y]
           /\ order' = [order EXCEPT ![s] = v] /\ UNCHANGED <<state, file, related, uploads, harm>>
<1>1. PICK x \in Request : x = chair[c] /\ x.pc = "save"
  BY DEF MtBase, RequestOK, Mt!Save, Mt!At
<1>2. Len(x.todo) = 1 /\ x.todo[1].slide = x.slide /\ x.todo[1].order <= x.slide + 2
  BY <1>1 DEF MtBase, RequestOK
<1>3. x.todo \in Seq(Saves) /\ x.slide \in Mt!Slide
  BY <1>1 DEF Request
<1>4. x.todo[1] \in Saves /\ Head(x.todo) = x.todo[1]
  BY <1>2, <1>3, ElementOfSeq
<1>5. x.todo[1].order \in Nat \ {0}
  BY <1>4 DEF Saves
<1>6. PICK y \in Request : y.pc = "file" /\ y.slide = chair[c].slide /\ y.todo = << >>
                           /\ chair' = [chair EXCEPT ![c] = y]
  <2>1. Mt!Goto(c, "file") /\ "file" \in MtPC /\ "file" # "idle"
    BY DEF Mt!Save, MtPC
  <2> QED BY <2>1, GoneOn
<1>7. order' = [order EXCEPT ![x.slide] = x.todo[1].order]
  BY <1>1, <1>2, <1>4 DEF Mt!Save
<1> QED BY <1>1, <1>2, <1>3, <1>5, <1>6, <1>7 DEF Mt!Save

LEMMA SaveOrderIsGiven ==
  ASSUME MtAssumption, MtBase, NEW c \in Chair, Mt!SaveOrder(c)
  PROVE  \E s \in Mt!Slide, v \in Nat \ {0}, t \in Seq(Saves), y \in Request :
           /\ chair[c].pc = "orders" /\ chair[c].todo \in Seq(Saves) /\ chair[c].todo # << >>
           /\ s = Head(chair[c].todo).slide /\ v = Head(chair[c].todo).order
           /\ order[s] > 0 /\ v <= NextOf(order) + 1 /\ t = Tail(chair[c].todo)
           /\ \A i \in 1..Len(t) : order[t[i].slide] > 0 /\ t[i].order <= NextOf(order) + 1
           /\ IF t = << >> THEN y = Mt!Resting ELSE y.pc = "orders" /\ y.todo = t
           /\ chair' = [chair EXCEPT ![c] = y]
           /\ order' = [order EXCEPT ![s] = v] /\ UNCHANGED <<state, file, related, uploads, harm>>
<1>1. PICK x \in Request : x = chair[c] /\ x.pc = "orders"
  BY DEF MtBase, RequestOK, Mt!SaveOrder, Mt!At
<1>2. x.todo # << >> /\ \A i \in 1..Len(x.todo) : order[x.todo[i].slide] > 0 /\ x.todo[i].order <= NextOf(order) + 1
  BY <1>1 DEF MtBase, RequestOK
<1>3. PICK u \in Seq(Saves) : u = x.todo /\ u # << >>
  BY <1>2 DEF Request
<1>4. /\ Head(u) \in Saves /\ Head(u) = u[1] /\ Len(u) \in Nat \ {0}
      /\ Tail(u) \in Seq(Saves) /\ Len(Tail(u)) = Len(u) - 1
      /\ \A i \in 1..Len(Tail(u)) : Tail(u)[i] = u[i + 1]
  BY <1>3, HeadTailProperties, LenProperties
<1>5. PICK z \in Saves, t \in Seq(Saves) : z = Head(u) /\ t = Tail(u)
  BY <1>4
<1>6. PICK l \in Nat \ {0} : l = Len(u)
  BY <1>4
<1>7. \A i \in 1..l : order[u[i].slide] > 0 /\ u[i].order <= NextOf(order) + 1
  BY <1>2, <1>3, <1>6
<1>8. z = u[1] /\ Len(t) = l - 1 /\ \A i \in 1..l - 1 : t[i] = u[i + 1]
  BY <1>4, <1>5, <1>6
<1>9. 1 \in 1..l /\ \A i \in 1..l - 1 : i + 1 \in 1..l
  OBVIOUS
<1>10. order[z.slide] > 0 /\ z.order <= NextOf(order) + 1
  BY <1>7, <1>8, <1>9
<1>11. \A i \in 1..Len(t) : order[t[i].slide] > 0 /\ t[i].order <= NextOf(order) + 1
  BY <1>7, <1>8, <1>9
<1>12. z.slide \in Mt!Slide /\ z.order \in Nat \ {0}
  BY DEF Saves
<1>13. PICK y \in Request : /\ IF t = << >> THEN y = Mt!Resting ELSE y.pc = "orders" /\ y.todo = t
                            /\ chair' = [chair EXCEPT ![c] = y]
  <2>1. CASE t = << >>
    <3>1. Mt!Resting \in Request
      BY RestingOK DEF RequestOK
    <3>2. chair' = [chair EXCEPT ![c] = Mt!Resting]
      BY <1>1, <1>3, <1>5, <2>1 DEF Mt!SaveOrder
    <3> QED BY <2>1, <3>1, <3>2
  <2>2. CASE t # << >>
    <3>1. [x EXCEPT !.todo = t] \in Request /\ [x EXCEPT !.todo = t].pc = "orders" /\ [x EXCEPT !.todo = t].todo = t
      BY <1>1 DEF Request
    <3>2. chair' = [chair EXCEPT ![c] = [x EXCEPT !.todo = t]]
      BY <1>1, <1>3, <1>5, <2>2 DEF Mt!SaveOrder, MtBase
    <3> QED BY <2>2, <3>1, <3>2
  <2> QED BY <2>1, <2>2
<1>14. order' = [order EXCEPT ![z.slide] = z.order] /\ UNCHANGED <<state, file, related, uploads, harm>>
  BY <1>1, <1>3, <1>5 DEF Mt!SaveOrder
<1> QED BY <1>1, <1>3, <1>5, <1>10, <1>11, <1>12, <1>13, <1>14

LEMMA MtBaseStart ==
  ASSUME MtAssumption, MtBase, NEW c \in Chair, Mt!Start(c) PROVE MtBase'
<1>0. OrdersOK(order, related)
  BY DEF MtBase
<1>1. CASE Mt!Upload(c)
  <2>1. PICK s \in Mt!Slide, o \in Nat \ {0}, t \in Seq(Saves) :
          /\ s = NextOf(order) /\ o <= s + 2 /\ t = <<[slide |-> s, order |-> o]>> /\ Mt!Enter(c, "save", s, t)
          /\ UNCHANGED <<order, state, file, related, uploads>>
    BY <1>1, UploadIs
  <2>2. PICK y \in Request : y.pc = "save" /\ y.slide = s /\ y.todo = t /\ chair' = [chair EXCEPT ![c] = y]
                             /\ harm' \subseteq {"orders", "numbers", "files"}
    <3>1. "save" \in MtPC
      BY DEF MtPC
    <3>2. HasEntered(c, "save", s, t)
      BY <2>1, <3>1, Entered
    <3> QED BY <3>2 DEF HasEntered
  <2>3. Len(t) = 1 /\ t[1].slide = s /\ t[1].order = o
    BY <2>1
  <2>4. RequestOK(y, order')
    BY <2>1, <2>2, <2>3 DEF RequestOK, Stored
  <2> QED BY <1>0, <2>1, <2>2, <2>4, BaseKept DEF MtBase
<1>2. CASE \E n \in Mt!Slide : Mt!Delete(c, n)
  <2>1. PICK n \in Mt!Slide : Mt!Delete(c, n)
    BY <1>2
  <2>2. PICK y \in Request : y.pc = "hide" /\ chair' = [chair EXCEPT ![c] = y]
                             /\ harm' \subseteq {"orders", "numbers", "files"}
    <3>1. "hide" \in MtPC /\ << >> \in Seq(Saves)
      BY DEF MtPC
    <3>2. Mt!Enter(c, "hide", n, << >>)
      BY <2>1 DEF Mt!Delete
    <3>3. HasEntered(c, "hide", n, << >>)
      BY <3>1, <3>2, Entered
    <3> QED BY <3>3 DEF HasEntered
  <2>3. RequestOK(y, order')
    BY <2>2 DEF RequestOK, Stored
  <2> QED BY <1>0, <2>1, <2>2, <2>3, BaseKept DEF MtBase, Mt!Delete
<1>3. CASE Mt!Move(c) \/ Mt!Reorder(c) \/ \E n \in Mt!Slide : Mt!Replace(c, n)
  <2>1. /\ WillSave(c) /\ UNCHANGED <<order, state, related, uploads>> /\ file' \subseteq Mt!Slide
    BY <1>0, <1>3, MoveIs, ReorderIs, ReplaceIs DEF MtBase
  <2>2. PICK n \in Mt!Slide, t \in Seq(Saves) : Orderly(t) /\ Mt!Enter(c, "orders", n, t)
    BY <2>1 DEF WillSave, Orderly
  <2>3. PICK y \in Request : y.pc = "orders" /\ y.todo = t /\ chair' = [chair EXCEPT ![c] = y]
                             /\ harm' \subseteq {"orders", "numbers", "files"}
    <3>1. "orders" \in MtPC
      BY DEF MtPC
    <3>2. HasEntered(c, "orders", n, t)
      BY <2>2, <3>1, Entered
    <3> QED BY <3>2 DEF HasEntered
  <2>4. RequestOK(y, order)
    BY <2>2, <2>3 DEF RequestOK, Stored, Orderly
  <2> QED BY <1>0, <2>1, <2>3, <2>4, BaseKept DEF MtBase
<1> QED BY <1>1, <1>2, <1>3 DEF Mt!Start

LEMMA MtBaseStep ==
  ASSUME MtAssumption, MtBase, NEW c \in Chair, Mt!Step(c) \/ Mt!Abort(c) PROVE MtBase'
<1>0. OrdersOK(order, related) /\ \A d \in Chair : RequestOK(chair[d], order)
  BY DEF MtBase
<1>1. CASE Mt!Save(c)
  <2>1. PICK s \in Mt!Slide, v \in Nat \ {0}, y \in Request :
           /\ v <= s + 2 /\ y.pc = "file" /\ y.slide = s /\ chair' = [chair EXCEPT ![c] = y]
           /\ order' = [order EXCEPT ![s] = v] /\ UNCHANGED <<state, file, related, uploads, harm>>
    BY <1>1, SaveIsGiven
  <2>2. /\ OrdersOK(order', related') /\ order'[s] = v
        /\ \A m \in Mt!Slide : order[m] > 0 => order'[m] > 0
    BY <1>0, <2>1, OrderGiven
  <2>3. RequestOK(y, order')
    BY <2>1, <2>2 DEF RequestOK, Stored
  <2> QED BY <2>1, <2>2, <2>3, BaseKept DEF MtBase
<1>2. CASE Mt!SaveOrder(c)
  <2>1. PICK s \in Mt!Slide, v \in Nat \ {0}, t \in Seq(Saves), y \in Request :
           /\ order[s] > 0 /\ v <= NextOf(order) + 1
           /\ \A i \in 1..Len(t) : order[t[i].slide] > 0 /\ t[i].order <= NextOf(order) + 1
           /\ IF t = << >> THEN y = Mt!Resting ELSE y.pc = "orders" /\ y.todo = t
           /\ chair' = [chair EXCEPT ![c] = y]
           /\ order' = [order EXCEPT ![s] = v] /\ UNCHANGED <<state, file, related, uploads, harm>>
    BY <1>2, SaveOrderIsGiven
  <2>2. /\ OrdersOK(order', related') /\ \A m \in Mt!Slide : order[m] > 0 => order'[m] > 0
    BY <1>0, <2>1, OrderGiven
  <2>3. RequestOK(y, order)
    <3>1. CASE t = << >>
      BY <2>1, <3>1, RestingOK
    <3>2. CASE t # << >>
      BY <2>1, <3>2 DEF RequestOK, Stored
    <3> QED BY <3>1, <3>2
  <2>4. RequestOK(y, order')
    BY <1>0, <2>2, <2>3, RequestStays DEF OrdersOK
  <2> QED BY <2>1, <2>2, <2>4, BaseKept DEF MtBase
<1>3. CASE Mt!WriteFile(c) \/ Mt!Activate(c)
  <2>1. PICK p \in {"state", "relate"} : Mt!Goto(c, p) /\ chair[c].pc \in Stored
    BY <1>3 DEF Mt!WriteFile, Mt!Activate, Mt!At, Stored
  <2>2. PICK y \in Request : y.pc = p /\ y.slide = chair[c].slide /\ chair' = [chair EXCEPT ![c] = y]
    <3>1. p \in MtPC /\ p # "idle"
      BY DEF MtPC
    <3> QED BY <2>1, <3>1, GoneOn
  <2>3. order' = order /\ related' = related /\ harm' = harm
    BY <1>3 DEF Mt!WriteFile, Mt!Activate
  <2>4. order[chair[c].slide] > 0 /\ chair[c].slide \in Mt!Slide
    BY <1>0, <2>1 DEF RequestOK, Request
  <2>5. RequestOK(y, order')
    BY <2>2, <2>3, <2>4 DEF RequestOK
  <2>6. /\ state' \in [Mt!Slide -> {"none", "active", "deleted"}] /\ file' \subseteq Mt!Slide
        /\ uploads' \in [Mt!Slide -> Nat]
    BY <1>3, <2>4 DEF MtBase, Mt!WriteFile, Mt!Activate
  <2> QED BY <1>0, <2>2, <2>3, <2>5, <2>6, BaseKept DEF MtBase
<1>4. CASE Mt!Relate(c) \/ Mt!Hide(c) \/ Mt!Abort(c)
  <2>1. chair' = [chair EXCEPT ![c] = Mt!Resting]
    <3>1. "idle" \in MtPC
      BY DEF MtPC
    <3> QED BY <1>4, <3>1, GoneOn DEF Mt!Relate, Mt!Hide, Mt!Abort
  <2>2. order' = order /\ uploads' = uploads /\ file' = file
    BY <1>4 DEF Mt!Relate, Mt!Hide, Mt!Abort
  <2>3. chair[c].slide \in Mt!Slide /\ (chair[c].pc \in Stored => order[chair[c].slide] > 0)
    BY <1>0 DEF RequestOK, Request
  <2>4. state' \in [Mt!Slide -> {"none", "active", "deleted"}]
    BY <1>4, <2>3 DEF MtBase, Mt!Relate, Mt!Hide, Mt!Abort
  <2>5. OrdersOK(order', related')
    BY <1>0, <1>4, <2>2, <2>3 DEF OrdersOK, Mt!Relate, Mt!Hide, Mt!Abort, Mt!At, Stored
  <2>6. harm' \subseteq {"orders", "numbers", "files"}
    BY <1>4 DEF MtBase, Mt!Relate, Mt!Hide, Mt!Abort
  <2> QED BY <2>1, <2>2, <2>4, <2>5, <2>6, RestingOK, BaseKept DEF MtBase
<1> QED BY <1>1, <1>2, <1>3, <1>4 DEF Mt!Step

(***************************************************************************)
(* Materials: numbers, names and files                                     *)
(***************************************************************************)
Busy == Stored \cup {"save"}

\* Until two uploads took one number: it is the next one before the row is saved,
\* and its own afterwards.
Fresh(x, o, f, u, r) ==
  /\ x.pc = "save" => x.slide = NextOf(o)
  /\ x.pc \in Stored => x.slide \notin r
  /\ x.pc = "file" => u[x.slide] = 0
  /\ x.pc \in {"state", "relate"} => x.slide \in f

NamesKept(o, u) == \A n \in Mt!Slide : u[n] <= 1 /\ (o[n] = 0 => u[n] = 0)
NoTwoNames      == \A c, d \in Chair : c # d /\ chair[c].pc \in Busy /\ chair[d].pc \in Busy
                                         => chair[c].slide # chair[d].slide
Deleting(n)     == \E c \in Chair : chair[c].pc = "hide" /\ chair[c].slide = n

MtNumbers ==
  "numbers" \notin harm =>
    /\ \A c \in Chair : Fresh(chair[c], order, file, uploads, related)
    /\ NoTwoNames /\ NamesKept(order, uploads)
    /\ "files" \notin harm => \A n \in Mt!Live \ file : Deleting(n)

\* One request changes; the others keep what they had.
LEMMA NumbersKept ==
  ASSUME MtBase, MtNumbers, NEW c \in Chair, NEW y, chair' = [chair EXCEPT ![c] = y],
         "numbers" \notin harm' => "numbers" \notin harm,
         "numbers" \notin harm' =>
           /\ Fresh(y, order', file', uploads', related')
           /\ \A d \in Chair \ {c} : Fresh(chair[d], order', file', uploads', related')
           /\ y.pc \in Busy => \A d \in Chair \ {c} : chair[d].pc \in Busy => y.slide # chair[d].slide
           /\ NamesKept(order', uploads')
           /\ "files" \notin harm' => \A n \in Mt!Live' \ file' : Deleting(n)'
  PROVE  MtNumbers'
<1> SUFFICES ASSUME "numbers" \notin harm' PROVE MtNumbers'
  BY DEF MtNumbers
<1>1. \A d \in Chair : chair'[d] = IF d = c THEN y ELSE chair[d]
  BY DEF MtBase
<1>2. \A d \in Chair : Fresh(chair'[d], order', file', uploads', related')
  BY <1>1
<1>3. \A d \in Chair : Fresh(chair[d], order, file, uploads, related)' <=> Fresh(chair'[d], order', file', uploads', related')
  BY DEF Fresh, NextOf
<1>4. NoTwoNames'
  BY <1>1 DEF MtNumbers, NoTwoNames
<1>5. NamesKept(order, uploads)' <=> NamesKept(order', uploads')
  BY DEF NamesKept
<1> QED BY <1>2, <1>3, <1>4, <1>5 DEF MtNumbers

\* Those who delete go on unless it is they who changed.
LEMMA DeletingStays ==
  ASSUME MtBase, NEW c \in Chair, NEW y, chair' = [chair EXCEPT ![c] = y], NEW n, Deleting(n),
         chair[c].pc # "hide" \/ chair[c].slide # n
  PROVE  Deleting(n)'
BY DEF MtBase, Deleting

LEMMA NumbersStart ==
  ASSUME MtAssumption, MtBase, MtNumbers, NEW c \in Chair, Mt!Start(c) PROVE MtNumbers'
<1>0. OrdersOK(order, related)
  BY DEF MtBase
<1>1. CASE Mt!Upload(c)
  <2>1. PICK s \in Mt!Slide, o \in Nat \ {0}, t \in Seq(Saves) :
          /\ s = NextOf(order) /\ Mt!Enter(c, "save", s, t)
          /\ UNCHANGED <<order, state, file, related, uploads>>
    BY <1>1, UploadIs
  <2>2. HasEntered(c, "save", s, t)
    BY <2>1, Entered DEF MtPC
  <2>3. PICK y \in Request : y.pc = "save" /\ y.slide = s /\ chair' = [chair EXCEPT ![c] = y]
    BY <2>2 DEF HasEntered
  <2>4. /\ harm \subseteq harm' /\ ("files" \in harm' => "files" \in harm) /\ chair[c].pc = "idle"
        /\ "numbers" \notin harm' => \A d \in Chair \ {c} : ~ (chair[d].pc = "save" /\ chair[d].slide = s)
    BY <2>2 DEF HasEntered
  <2>5. ASSUME "numbers" \notin harm', NEW d \in Chair \ {c}, chair[d].pc \in Busy PROVE y.slide # chair[d].slide
    <3>1. CASE chair[d].pc = "save"
      BY <2>3, <2>4, <2>5, <3>1
    <3>2. CASE chair[d].pc \in Stored
      <4>1. order[chair[d].slide] > 0 /\ chair[d].slide \in Mt!Slide
        BY <3>2 DEF MtBase, RequestOK, Request
      <4>2. chair[d].slide < NextOf(order) /\ chair[d].slide \in Nat /\ NextOf(order) \in Nat
        BY <1>0, <4>1, NextOfIs DEF MtAssumption, OrdersOK, Mt!Slide
      <4> QED BY <2>1, <2>3, <4>2
    <3> QED BY <2>5, <3>1, <3>2 DEF Busy
  <2>6. Fresh(y, order', file', uploads', related')
    BY <2>1, <2>3 DEF Fresh, Stored
  <2>7. \A n : Deleting(n) => Deleting(n)'
    BY <2>3, <2>4, DeletingStays
  <2>8. Mt!Live' = Mt!Live
    BY <2>1 DEF Mt!Live
  <2> QED BY <2>1, <2>3, <2>4, <2>5, <2>6, <2>7, <2>8, NumbersKept DEF MtNumbers
<1>2. CASE \E n \in Mt!Slide : Mt!Delete(c, n)
  <2>1. PICK n \in Mt!Slide : n \in related /\ file' = file \ {n} /\ Mt!Enter(c, "hide", n, << >>)
                              /\ UNCHANGED <<order, state, related, uploads>>
    BY <1>2 DEF Mt!Delete
  <2>2. HasEntered(c, "hide", n, << >>)
    <3>1. << >> \in Seq(Saves) /\ "hide" \in MtPC
      BY DEF MtPC
    <3> QED BY <2>1, <3>1, Entered
  <2>3. PICK y \in Request : y.pc = "hide" /\ y.slide = n /\ chair' = [chair EXCEPT ![c] = y]
    BY <2>2 DEF HasEntered
  <2>4. /\ harm \subseteq harm' /\ ("files" \in harm' => "files" \in harm) /\ chair[c].pc = "idle"
    BY <2>2 DEF HasEntered
  <2>5. ASSUME NEW d \in Chair, Fresh(chair[d], order, file, uploads, related)
        PROVE  Fresh(chair[d], order', file', uploads', related')
    BY <2>1, <2>5 DEF Fresh, Stored
  <2>6. Fresh(y, order', file', uploads', related') /\ y.pc \notin Busy
    BY <2>3 DEF Fresh, Stored, Busy
  <2>7. \A m : Deleting(m) => Deleting(m)'
    BY <2>3, <2>4, DeletingStays
  <2>8. Deleting(n)'
    BY <2>3 DEF Deleting, MtBase
  <2>9. Mt!Live' = Mt!Live
    BY <2>1 DEF Mt!Live
  <2> QED BY <2>1, <2>3, <2>4, <2>5, <2>6, <2>7, <2>8, <2>9, NumbersKept DEF MtNumbers
<1>3. CASE Mt!Move(c) \/ Mt!Reorder(c) \/ \E n \in Mt!Slide : Mt!Replace(c, n)
  <2>1. /\ WillSave(c) /\ UNCHANGED <<order, state, related, uploads>> /\ file \subseteq file'
    BY <1>0, <1>3, MoveIs, ReorderIs, ReplaceIs
  <2>2. PICK n \in Mt!Slide, t \in Seq(Saves) : Orderly(t) /\ Mt!Enter(c, "orders", n, t)
    BY <2>1 DEF WillSave, Orderly
  <2>3. HasEntered(c, "orders", n, t)
    BY <2>2, Entered DEF MtPC
  <2>4. PICK y \in Request : y.pc = "orders" /\ chair' = [chair EXCEPT ![c] = y]
    BY <2>3 DEF HasEntered
  <2>5. /\ harm \subseteq harm' /\ ("files" \in harm' => "files" \in harm) /\ chair[c].pc = "idle"
    BY <2>3 DEF HasEntered
  <2>6. ASSUME NEW d \in Chair, Fresh(chair[d], order, file, uploads, related)
        PROVE  Fresh(chair[d], order', file', uploads', related')
    BY <2>1, <2>6 DEF Fresh, Stored
  <2>7. Fresh(y, order', file', uploads', related') /\ y.pc \notin Busy
    BY <2>4 DEF Fresh, Stored, Busy
  <2>8. \A m : Deleting(m) => Deleting(m)'
    BY <2>4, <2>5, DeletingStays
  <2>9. Mt!Live' = Mt!Live
    BY <2>1 DEF Mt!Live
  <2> QED BY <2>1, <2>4, <2>5, <2>6, <2>7, <2>8, <2>9, NumbersKept DEF MtNumbers
<1> QED BY <1>1, <1>2, <1>3 DEF Mt!Start

LEMMA NumbersStep ==
  ASSUME MtAssumption, MtBase, MtNumbers, NEW c \in Chair, Mt!Step(c) \/ Mt!Abort(c) PROVE MtNumbers'
<1>0. OrdersOK(order, related) /\ \A d \in Chair : RequestOK(chair[d], order)
  BY DEF MtBase
<1>1. CASE Mt!Save(c)
  <2>1. PICK s \in Mt!Slide, v \in Nat \ {0}, y \in Request :
           /\ chair[c].pc = "save" /\ s = chair[c].slide /\ v <= s + 2
           /\ y.pc = "file" /\ y.slide = s /\ chair' = [chair EXCEPT ![c] = y]
           /\ order' = [order EXCEPT ![s] = v] /\ UNCHANGED <<state, file, related, uploads, harm>>
    BY <1>1, SaveIsGiven
  <2>2. /\ order'[s] = v /\ \A m \in Mt!Slide : m # s => order'[m] = order[m]
    BY <1>0, <2>1, OrderGiven
  <2>3. \A n : Deleting(n) => Deleting(n)'
    BY <2>1, DeletingStays
  <2> SUFFICES ASSUME "numbers" \notin harm PROVE MtNumbers'
    BY <2>1 DEF MtNumbers
  <2>4. s = NextOf(order) /\ order[s] = 0 /\ s \notin related
    <3>1. s = NextOf(order)
      BY <2>1 DEF MtNumbers, Fresh
    <3>2. s \in Nat /\ (order[s] > 0 => s < NextOf(order)) /\ order[s] \in Nat
      BY <1>0, NextOfIs DEF OrdersOK, Orders, MtAssumption, Mt!Slide
    <3>3. order[s] = 0
      BY <3>1, <3>2
    <3> QED BY <1>0, <3>1, <3>3 DEF OrdersOK
  <2>5. NamesKept(order, uploads) /\ uploads[s] = 0
    BY <2>4 DEF MtNumbers, NamesKept
  <2>6. NamesKept(order', uploads')
    BY <2>1, <2>2, <2>5 DEF NamesKept
  <2>7. Fresh(y, order', file', uploads', related')
    BY <2>1, <2>4, <2>5 DEF Fresh, Stored
  <2>8. ASSUME NEW d \in Chair \ {c}
        PROVE  Fresh(chair[d], order', file', uploads', related') /\ (chair[d].pc \in Busy => y.slide # chair[d].slide)
    <3>1. chair[d].pc \in Busy => s # chair[d].slide
      BY <2>1 DEF MtNumbers, NoTwoNames, Busy
    <3>2. Fresh(chair[d], order, file, uploads, related)
      BY DEF MtNumbers
    <3>3. chair[d].pc # "save"
      BY <2>4, <3>1, <3>2 DEF Fresh, Busy
    <3> QED BY <2>1, <3>1, <3>2, <3>3 DEF Fresh
  <2>9. Mt!Live' = Mt!Live
    BY <2>1 DEF Mt!Live
  <2> QED BY <2>1, <2>3, <2>6, <2>7, <2>8, <2>9, NumbersKept DEF MtNumbers
<1>2. CASE Mt!SaveOrder(c)
  <2>1. PICK s \in Mt!Slide, v \in Nat \ {0}, y \in Request :
           /\ chair[c].pc = "orders" /\ y.pc \in {"idle", "orders"} /\ chair' = [chair EXCEPT ![c] = y]
           /\ order[s] > 0 /\ v <= NextOf(order) + 1
           /\ order' = [order EXCEPT ![s] = v] /\ UNCHANGED <<state, file, related, uploads, harm>>
    BY <1>2, SaveOrderIsGiven DEF Mt!Resting
  <2>2. /\ order'[s] = v /\ \A m \in Mt!Slide : m # s => order'[m] = order[m]
    BY <1>0, <2>1, OrderGiven
  <2>3. \A n : Deleting(n) => Deleting(n)'
    BY <2>1, DeletingStays
  <2>4. NextOf(order') = NextOf(order)
    <3>1. PICK p : p = order'
      OBVIOUS
    <3>2. \A m \in Mt!Slide : order[m] > 0 <=> p[m] > 0
      BY <2>1, <2>2, <3>1
    <3> QED BY <3>1, <3>2, NextStays
  <2>5. NamesKept(order, uploads) => NamesKept(order', uploads')
    BY <2>1, <2>2 DEF NamesKept
  <2>6. Fresh(y, order', file', uploads', related') /\ y.pc \notin Busy
    BY <2>1 DEF Fresh, Stored, Busy
  <2>7. ASSUME NEW d \in Chair, Fresh(chair[d], order, file, uploads, related)
        PROVE  Fresh(chair[d], order', file', uploads', related')
    BY <2>1, <2>4, <2>7 DEF Fresh
  <2>8. Mt!Live' = Mt!Live
    BY <2>1 DEF Mt!Live
  <2> QED BY <2>1, <2>3, <2>5, <2>6, <2>7, <2>8, NumbersKept DEF MtNumbers
<1>3. CASE Mt!WriteFile(c)
  <2>1. PICK y \in Request : y.pc = "state" /\ y.slide = chair[c].slide /\ chair' = [chair EXCEPT ![c] = y]
    <3>1. "state" \in MtPC /\ "state" # "idle" /\ Mt!Goto(c, "state")
      BY <1>3 DEF MtPC, Mt!WriteFile
    <3> QED BY <3>1, GoneOn
  <2>2. PICK s \in Mt!Slide : s = chair[c].slide /\ order[s] > 0 /\ chair[c].pc = "file"
    BY <1>0, <1>3 DEF RequestOK, Request, Mt!WriteFile, Mt!At, Stored
  <2>3. /\ file' = file \cup {s} /\ uploads' = [uploads EXCEPT ![s] = uploads[s] + 1]
        /\ UNCHANGED <<order, state, related, harm>>
    BY <1>3, <2>2 DEF Mt!WriteFile
  <2>4. \A n : Deleting(n) => Deleting(n)'
    BY <2>1, <2>2, DeletingStays
  <2> SUFFICES ASSUME "numbers" \notin harm PROVE MtNumbers'
    BY <2>3 DEF MtNumbers
  <2>5. /\ Fresh(chair[c], order, file, uploads, related) /\ NamesKept(order, uploads)
        /\ \A d \in Chair : Fresh(chair[d], order, file, uploads, related)
    BY DEF MtNumbers
  <2>6. uploads[s] = 0 /\ s \notin related
    BY <2>2, <2>5 DEF Fresh, Stored
  <2>7. uploads'[s] = 1 /\ \A n \in Mt!Slide : n # s => uploads'[n] = uploads[n]
    BY <2>3, <2>6 DEF MtBase
  <2>8. NamesKept(order', uploads')
    BY <2>2, <2>3, <2>5, <2>7 DEF NamesKept
  <2>9. Fresh(y, order', file', uploads', related')
    BY <2>1, <2>2, <2>3, <2>6 DEF Fresh, Stored
  <2>10. ASSUME NEW d \in Chair \ {c}
         PROVE  Fresh(chair[d], order', file', uploads', related') /\ (chair[d].pc \in Busy => y.slide # chair[d].slide)
    <3>1. chair[d].pc \in Busy => s # chair[d].slide
      BY <2>2 DEF MtNumbers, NoTwoNames, Busy, Stored
    <3>2. chair[d].slide \in Mt!Slide
      BY <1>0 DEF RequestOK, Request
    <3>3. chair[d].pc = "file" => uploads'[chair[d].slide] = uploads[chair[d].slide]
      BY <2>7, <3>1, <3>2 DEF Busy, Stored
    <3> QED BY <2>1, <2>2, <2>3, <2>5, <3>1, <3>3 DEF Fresh
  <2>11. Mt!Live' = Mt!Live
    BY <2>3 DEF Mt!Live
  <2> QED BY <2>1, <2>3, <2>4, <2>8, <2>9, <2>10, <2>11, NumbersKept DEF MtNumbers
<1>4. CASE Mt!Activate(c)
  <2>1. PICK y \in Request : y.pc = "relate" /\ y.slide = chair[c].slide /\ chair' = [chair EXCEPT ![c] = y]
    <3>1. "relate" \in MtPC /\ "relate" # "idle" /\ Mt!Goto(c, "relate")
      BY <1>4 DEF MtPC, Mt!Activate
    <3> QED BY <3>1, GoneOn
  <2>2. chair[c].pc = "state" /\ UNCHANGED <<order, file, related, uploads, harm>>
        /\ state' = [state EXCEPT ![chair[c].slide] = "active"]
    BY <1>4 DEF Mt!Activate, Mt!At
  <2>3. \A n : Deleting(n) => Deleting(n)'
    BY <2>1, <2>2, DeletingStays
  <2> SUFFICES ASSUME "numbers" \notin harm PROVE MtNumbers'
    BY <2>2 DEF MtNumbers
  <2>4. \A d \in Chair : Fresh(chair[d], order, file, uploads, related)
    BY DEF MtNumbers
  <2>5. chair[c].slide \notin related /\ chair[c].slide \in file
    BY <2>2, <2>4 DEF Fresh, Stored
  <2>6. Mt!Live' = Mt!Live
    BY <2>2, <2>5 DEF Mt!Live, MtBase
  <2>7. \A d \in Chair \ {c} : chair[d].pc \in Busy => y.slide # chair[d].slide
    BY <2>1, <2>2 DEF MtNumbers, NoTwoNames, Busy, Stored
  <2>8. Fresh(y, order', file', uploads', related')
    BY <2>1, <2>2, <2>5 DEF Fresh, Stored
  <2>9. \A d \in Chair : Fresh(chair[d], order', file', uploads', related')
    BY <2>2, <2>4
  <2> QED BY <2>1, <2>2, <2>3, <2>6, <2>7, <2>8, <2>9, NumbersKept DEF MtNumbers
<1>5. CASE Mt!Relate(c) \/ Mt!Hide(c) \/ Mt!Abort(c)
  <2>1. chair' = [chair EXCEPT ![c] = Mt!Resting] /\ Mt!Resting.pc = "idle"
    <3>1. "idle" \in MtPC
      BY DEF MtPC
    <3> QED BY <1>5, <3>1, GoneOn DEF Mt!Relate, Mt!Hide, Mt!Abort, Mt!Resting
  <2>2. order' = order /\ uploads' = uploads /\ file' = file /\ harm \subseteq harm'
        /\ ("numbers" \in harm' => "numbers" \in harm)
    BY <1>5 DEF Mt!Relate, Mt!Hide, Mt!Abort
  <2>3. Fresh(Mt!Resting, order', file', uploads', related') /\ Mt!Resting.pc \notin Busy
    BY <2>1 DEF Fresh, Stored, Busy
  <2> SUFFICES ASSUME "numbers" \notin harm, "numbers" \notin harm' PROVE MtNumbers'
    BY <2>2 DEF MtNumbers
  <2>4. \A d \in Chair : Fresh(chair[d], order, file, uploads, related)
    BY DEF MtNumbers
  <2>5. ASSUME NEW d \in Chair \ {c} PROVE Fresh(chair[d], order', file', uploads', related')
    <3>1. CASE related' = related
      BY <2>2, <2>4, <3>1
    <3>2. CASE Mt!Relate(c)
      <4>1. related' = related \cup {chair[c].slide} /\ chair[c].pc = "relate"
        BY <3>2 DEF Mt!Relate, Mt!At
      <4>2. chair[d].pc \in Stored => chair[d].slide # chair[c].slide
        BY <4>1 DEF MtNumbers, NoTwoNames, Busy, Stored
      <4> QED BY <2>2, <2>4, <4>1, <4>2 DEF Fresh
    <3> QED BY <1>5, <3>1, <3>2 DEF Mt!Hide, Mt!Abort
  <2>6. ASSUME "files" \notin harm', NEW n \in Mt!Live' \ file' PROVE Deleting(n)'
    <3>0. "files" \notin harm
      BY <2>2, <2>6
    <3>1. CASE Mt!Relate(c)
      <4>1. related' = related \cup {chair[c].slide} /\ chair[c].pc = "relate" /\ state' = state
        BY <3>1 DEF Mt!Relate, Mt!At
      <4>2. chair[c].slide \in file
        BY <2>4, <4>1 DEF Fresh
      <4>3. n \in Mt!Live \ file
        BY <2>2, <2>6, <4>1, <4>2 DEF Mt!Live
      <4>4. Deleting(n)
        BY <3>0, <4>3 DEF MtNumbers
      <4> QED BY <2>1, <4>1, <4>4, DeletingStays
    <3>2. CASE Mt!Hide(c)
      <4>1. /\ related' = related /\ chair[c].pc = "hide" /\ state' = [state EXCEPT ![chair[c].slide] = "deleted"]
            /\ chair[c].slide \in Mt!Slide
        BY <1>0, <3>2 DEF Mt!Hide, Mt!At, RequestOK, Request
      <4>2. n # chair[c].slide /\ n \in Mt!Live \ file
        BY <2>2, <2>6, <4>1 DEF Mt!Live, MtBase
      <4>3. Deleting(n)
        BY <3>0, <4>2 DEF MtNumbers
      <4> QED BY <2>1, <4>2, <4>3, DeletingStays
    <3>3. CASE Mt!Abort(c)
      <4>1. chair[c].pc # "hide" /\ state' = state /\ related' = related
        BY <2>6, <3>3 DEF Mt!Abort, Mt!At
      <4>2. n \in Mt!Live \ file
        BY <2>2, <2>6, <4>1 DEF Mt!Live
      <4>3. Deleting(n)
        BY <3>0, <4>2 DEF MtNumbers
      <4> QED BY <2>1, <4>1, <4>3, DeletingStays
    <3> QED BY <1>5, <3>1, <3>2, <3>3
  <2>7. NamesKept(order', uploads')
    BY <2>2 DEF MtNumbers
  <2> QED BY <2>1, <2>2, <2>3, <2>5, <2>6, <2>7, NumbersKept
<1> QED BY <1>1, <1>2, <1>3, <1>4, <1>5 DEF Mt!Step

(***************************************************************************)
(* Materials: orders                                                       *)
(***************************************************************************)
Away == {"idle", "hide"}

\* Until requests that write orders overlap or one of them dies: a new slide comes
\* after all that are related, and what is still to save keeps the orders apart.
Ordered(x, o, r, L) ==
  /\ x.pc = "orders" => Apart(x.todo, o, L)
  /\ x.pc = "save" => \A n \in r : o[n] < x.todo[1].order
  /\ x.pc \in Stored => \A n \in r : o[n] < o[x.slide]

OnlyOne == \A c, d \in Chair : c # d => chair[c].pc \in Away \/ chair[d].pc \in Away

MtOrders ==
  /\ "numbers" \in harm => "orders" \in harm
  /\ "orders" \notin harm =>
       /\ OnlyOne /\ \A c \in Chair : Ordered(chair[c], order, related, Mt!Live)
       /\ (\A c \in Chair : chair[c].pc # "orders") => Apart(<< >>, order, Mt!Live)

LEMMA ApartOfLess ==
  ASSUME NEW t, NEW o, NEW L, NEW K \in SUBSET L, Apart(t, o, L) PROVE Apart(t, o, K)
BY DEF Apart

\* A request changes; when it writes orders, no other one does.
LEMMA OrdersKept ==
  ASSUME MtBase, MtOrders, NEW c \in Chair, NEW y, chair' = [chair EXCEPT ![c] = y],
         harm \subseteq harm', "numbers" \in harm' /\ "numbers" \notin harm => "orders" \in harm',
         "orders" \notin harm' =>
           /\ y.pc \notin Away => \A d \in Chair \ {c} : chair[d].pc \in Away
           /\ Ordered(y, order', related', Mt!Live')
           /\ y.pc \in Away => \A d \in Chair \ {c} : Ordered(chair[d], order', related', Mt!Live')
           /\ (y.pc # "orders" /\ \A d \in Chair \ {c} : chair[d].pc # "orders") => Apart(<< >>, order', Mt!Live')
  PROVE  MtOrders'
<1>1. \A d \in Chair : chair'[d] = IF d = c THEN y ELSE chair[d]
  BY DEF MtBase
<1>2. "numbers" \in harm' => "orders" \in harm'
  BY DEF MtOrders
<1> SUFFICES ASSUME "orders" \notin harm' PROVE MtOrders'
  BY <1>2 DEF MtOrders
<1>3. OnlyOne'
  BY <1>1 DEF MtOrders, OnlyOne
<1>4. \A d \in Chair : Ordered(chair'[d], order', related', Mt!Live')
  <2>1. \A d \in Chair \ {c} : chair[d].pc \in Away => Ordered(chair[d], order', related', Mt!Live')
    BY DEF Ordered, Away, Stored
  <2> QED BY <1>1, <2>1
<1>5. \A d \in Chair : Ordered(chair[d], order, related, Mt!Live)' <=> Ordered(chair'[d], order', related', Mt!Live')
  BY DEF Ordered, Apart, Gets
<1>6. (\A d \in Chair : chair'[d].pc # "orders") => Apart(<< >>, order', Mt!Live')
  BY <1>1
<1>7. Apart(<< >>, order, Mt!Live)' <=> Apart(<< >>, order', Mt!Live')
  BY DEF Apart, Gets
<1> QED BY <1>2, <1>3, <1>4, <1>5, <1>6, <1>7 DEF MtOrders

LEMMA OrdersStart ==
  ASSUME MtAssumption, MtBase, MtOrders, NEW c \in Chair, Mt!Start(c) PROVE MtOrders'
<1>0. OrdersOK(order, related)
  BY DEF MtBase
<1>1. CASE Mt!Upload(c)
  <2>1. PICK s \in Mt!Slide, o \in Nat \ {0}, t \in Seq(Saves) :
          /\ (\A n \in related : order[n] < o) /\ t = <<[slide |-> s, order |-> o]>> /\ Mt!Enter(c, "save", s, t)
          /\ UNCHANGED <<order, state, file, related, uploads>>
    BY <1>1, UploadIs
  <2>2. HasEntered(c, "save", s, t)
    BY <2>1, Entered DEF MtPC
  <2>3. PICK y \in Request : y.pc = "save" /\ y.todo = t /\ chair' = [chair EXCEPT ![c] = y]
    BY <2>2 DEF HasEntered
  <2>4. /\ harm \subseteq harm' /\ ("numbers" \in harm' /\ "numbers" \notin harm => "orders" \in harm')
        /\ chair[c].pc = "idle" /\ ("orders" \notin harm' => \A d \in Chair \ {c} : chair[d].pc \in Away)
    BY <2>2 DEF HasEntered, Away
  <2>5. t[1].order = o
    BY <2>1
  <2>6. Ordered(y, order', related', Mt!Live')
    BY <2>1, <2>3, <2>5 DEF Ordered, Stored
  <2>7. Mt!Live' = Mt!Live /\ order' = order
    BY <2>1 DEF Mt!Live
  <2>8. "orders" \notin harm' => Apart(<< >>, order', Mt!Live')
    BY <2>4, <2>7 DEF MtOrders, Away
  <2> QED BY <2>3, <2>4, <2>6, <2>8, OrdersKept DEF Away
<1>2. CASE \E n \in Mt!Slide : Mt!Delete(c, n)
  <2>1. PICK n \in Mt!Slide : Mt!Enter(c, "hide", n, << >>) /\ UNCHANGED <<order, state, related, uploads>>
    BY <1>2 DEF Mt!Delete
  <2>2. HasEntered(c, "hide", n, << >>)
    <3>1. << >> \in Seq(Saves) /\ "hide" \in MtPC
      BY DEF MtPC
    <3> QED BY <2>1, <3>1, Entered
  <2>3. PICK y \in Request : y.pc = "hide" /\ chair' = [chair EXCEPT ![c] = y]
    BY <2>2 DEF HasEntered
  <2>4. /\ harm \subseteq harm' /\ ("numbers" \in harm' /\ "numbers" \notin harm => "orders" \in harm')
        /\ chair[c].pc = "idle"
    BY <2>2 DEF HasEntered
  <2>5. Mt!Live' = Mt!Live /\ order' = order /\ related' = related
    BY <2>1 DEF Mt!Live
  <2>6. Ordered(y, order', related', Mt!Live') /\ y.pc \in Away
    BY <2>3 DEF Ordered, Stored, Away
  <2> QED BY <2>3, <2>4, <2>5, <2>6, OrdersKept DEF MtOrders
<1>3. CASE Mt!Move(c) \/ Mt!Reorder(c) \/ \E n \in Mt!Slide : Mt!Replace(c, n)
  <2>1. /\ WillSave(c) /\ UNCHANGED <<order, state, related, uploads>>
    BY <1>0, <1>3, MoveIs, ReorderIs, ReplaceIs
  <2>2. PICK n \in Mt!Slide, t \in Seq(Saves) : Orderly(t) /\ Mt!Enter(c, "orders", n, t)
    BY <2>1 DEF WillSave, Orderly
  <2>3. HasEntered(c, "orders", n, t)
    BY <2>2, Entered DEF MtPC
  <2>4. PICK y \in Request : y.pc = "orders" /\ y.todo = t /\ chair' = [chair EXCEPT ![c] = y]
    BY <2>3 DEF HasEntered
  <2>5. /\ harm \subseteq harm' /\ ("numbers" \in harm' /\ "numbers" \notin harm => "orders" \in harm')
        /\ chair[c].pc = "idle" /\ ("orders" \notin harm' => \A d \in Chair \ {c} : chair[d].pc \in Away)
    BY <2>3 DEF HasEntered, Away
  <2>6. Mt!Live' = Mt!Live /\ order' = order /\ related' = related
    BY <2>1 DEF Mt!Live
  <2>7. ASSUME "orders" \notin harm' PROVE Apart(t, order, Mt!Live)
    BY <2>2, <2>5, <2>7 DEF MtOrders, Away, Orderly
  <2>8. "orders" \notin harm' => Ordered(y, order', related', Mt!Live')
    BY <2>4, <2>6, <2>7 DEF Ordered, Stored
  <2> QED BY <2>4, <2>5, <2>8, OrdersKept DEF Away
<1> QED BY <1>1, <1>2, <1>3 DEF Mt!Start

LEMMA OrdersStep ==
  ASSUME MtAssumption, MtBase, MtNumbers, MtOrders, NEW c \in Chair, Mt!Step(c) \/ Mt!Abort(c) PROVE MtOrders'
<1>0. OrdersOK(order, related) /\ \A d \in Chair : RequestOK(chair[d], order)
  BY DEF MtBase
<1>1. CASE Mt!Save(c)
  <2>1. PICK s \in Mt!Slide, v \in Nat \ {0}, y \in Request :
           /\ chair[c].pc = "save" /\ s = chair[c].slide /\ v = chair[c].todo[1].order /\ v <= s + 2
           /\ y.pc = "file" /\ y.slide = s /\ chair' = [chair EXCEPT ![c] = y]
           /\ order' = [order EXCEPT ![s] = v] /\ UNCHANGED <<state, file, related, uploads, harm>>
    BY <1>1, SaveIsGiven
  <2>2. /\ order'[s] = v /\ \A m \in Mt!Slide : m # s => order'[m] = order[m]
    BY <1>0, <2>1, OrderGiven
  <2> SUFFICES ASSUME "orders" \notin harm PROVE MtOrders'
    BY <2>1 DEF MtOrders
  <2>3. s \notin related
    <3>1. s = NextOf(order)
      BY <2>1 DEF MtOrders, MtNumbers, Fresh
    <3>2. s \in Nat /\ (order[s] > 0 => s < NextOf(order))
      BY <1>0, NextOfIs DEF OrdersOK, MtAssumption, Mt!Slide
    <3> QED BY <1>0, <3>1, <3>2 DEF OrdersOK
  <2>4. /\ Ordered(chair[c], order, related, Mt!Live) /\ Apart(<< >>, order, Mt!Live)
        /\ \A d \in Chair \ {c} : chair[d].pc \in Away
    BY <2>1 DEF MtOrders, OnlyOne, Away
  <2>5. \A n \in related : n \in Mt!Slide /\ order'[n] = order[n] /\ order[n] < v
    BY <1>0, <2>1, <2>2, <2>3, <2>4 DEF Ordered, OrdersOK
  <2>6. Ordered(y, order', related', Mt!Live')
    BY <2>1, <2>2, <2>5 DEF Ordered, Stored
  <2>7. Mt!Live' = Mt!Live /\ Mt!Live \subseteq related
    BY <2>1 DEF Mt!Live
  <2>8. Apart(<< >>, order', Mt!Live')
    <3>1. \A n, k \in Mt!Live : n # k => order[n] # order[k]
      BY <2>4, ApartAtLast
    <3>2. \A n, k \in Mt!Live' : n # k => order'[n] # order'[k]
      BY <2>5, <2>7, <3>1
    <3> QED BY <3>2, ApartAtLast
  <2>9. y.pc \notin Away
    BY <2>1 DEF Away
  <2> QED BY <2>1, <2>4, <2>6, <2>8, <2>9, OrdersKept
<1>2. CASE Mt!SaveOrder(c)
  <2>1. PICK s \in Mt!Slide, v \in Nat \ {0}, t \in Seq(Saves), y \in Request :
           /\ chair[c].pc = "orders" /\ chair[c].todo \in Seq(Saves) /\ chair[c].todo # << >>
           /\ s = Head(chair[c].todo).slide /\ v = Head(chair[c].todo).order /\ t = Tail(chair[c].todo)
           /\ IF t = << >> THEN y = Mt!Resting ELSE y.pc = "orders" /\ y.todo = t
           /\ chair' = [chair EXCEPT ![c] = y]
           /\ order' = [order EXCEPT ![s] = v] /\ UNCHANGED <<state, file, related, uploads, harm>>
    BY <1>2, SaveOrderIsGiven
  <2> SUFFICES ASSUME "orders" \notin harm PROVE MtOrders'
    BY <2>1 DEF MtOrders
  <2>2. /\ Apart(chair[c].todo, order, Mt!Live)
        /\ \A d \in Chair \ {c} : chair[d].pc \in Away
    BY <2>1 DEF MtOrders, OnlyOne, Away, Ordered
  <2>3. Mt!Live' = Mt!Live /\ Mt!Live \in SUBSET Mt!Slide
    BY <1>0, <2>1 DEF Mt!Live, OrdersOK
  <2>4. Apart(t, order', Mt!Live')
    <3>1. PICK u \in Seq(Saves) : u = chair[c].todo /\ u # << >>
      BY <2>1
    <3>2. Apart(Tail(u), [order EXCEPT ![Head(u).slide] = Head(u).order], Mt!Live)
      BY <1>0, <2>2, <2>3, <3>1, SaveKeepsApart DEF OrdersOK
    <3> QED BY <2>1, <2>3, <3>1, <3>2
  <2>5. CASE t = << >>
    <3>0. Mt!Resting.pc = "idle" /\ y = Mt!Resting
      BY <2>1, <2>5 DEF Mt!Resting
    <3>1. y.pc = "idle" /\ Apart(<< >>, order', Mt!Live')
      BY <2>4, <2>5, <3>0
    <3>2. \A d \in Chair \ {c} : Ordered(chair[d], order', related', Mt!Live')
      BY <2>2 DEF Ordered, Away, Stored
    <3>3. Ordered(y, order', related', Mt!Live')
      BY <3>1 DEF Ordered, Stored
    <3> QED BY <2>1, <3>1, <3>2, <3>3, OrdersKept DEF Away
  <2>6. CASE t # << >>
    <3>1. y.pc = "orders" /\ Ordered(y, order', related', Mt!Live')
      BY <2>1, <2>4, <2>6 DEF Ordered, Stored
    <3> QED BY <2>1, <2>2, <3>1, OrdersKept DEF Away
  <2> QED BY <2>5, <2>6
<1>3. CASE Mt!WriteFile(c) \/ Mt!Activate(c)
  <2>1. PICK p \in {"state", "relate"} : Mt!Goto(c, p) /\ chair[c].pc \in Stored
    BY <1>3 DEF Mt!WriteFile, Mt!Activate, Mt!At, Stored
  <2>2. PICK y \in Request : y.pc = p /\ y.slide = chair[c].slide /\ chair' = [chair EXCEPT ![c] = y]
    <3>1. p \in MtPC /\ p # "idle"
      BY DEF MtPC
    <3> QED BY <2>1, <3>1, GoneOn
  <2>3. order' = order /\ related' = related /\ harm' = harm
    BY <1>3 DEF Mt!WriteFile, Mt!Activate
  <2> SUFFICES ASSUME "orders" \notin harm PROVE MtOrders'
    BY <2>3 DEF MtOrders
  <2>4. /\ \A n \in related : order[n] < order[chair[c].slide]
        /\ \A d \in Chair \ {c} : chair[d].pc \in Away
        /\ Apart(<< >>, order, Mt!Live)
    BY <2>1 DEF MtOrders, OnlyOne, Away, Ordered, Stored
  <2>5. chair[c].slide \notin related
    <3>1. order[chair[c].slide] \in Nat
      BY <1>0 DEF OrdersOK, Orders, RequestOK, Request
    <3> QED BY <2>4, <3>1
  <2>6. Mt!Live' = Mt!Live
    <3>1. \A n \in related : n \in Mt!Slide /\ n # chair[c].slide
      BY <1>0, <2>5 DEF OrdersOK
    <3>2. \A n \in related : state'[n] = state[n]
      BY <1>3, <3>1 DEF MtBase, Mt!WriteFile, Mt!Activate
    <3> QED BY <2>3, <3>2 DEF Mt!Live
  <2>7. Ordered(y, order', related', Mt!Live')
    BY <2>2, <2>3, <2>4 DEF Ordered, Stored
  <2>8. y.pc \notin Away
    BY <2>2 DEF Away
  <2> QED BY <2>2, <2>3, <2>4, <2>6, <2>7, <2>8, OrdersKept
<1>4. CASE Mt!Relate(c) \/ Mt!Hide(c) \/ Mt!Abort(c)
  <2>1. chair' = [chair EXCEPT ![c] = Mt!Resting] /\ Mt!Resting.pc = "idle" /\ "idle" \in Away
    <3>1. "idle" \in MtPC
      BY DEF MtPC
    <3> QED BY <1>4, <3>1, GoneOn DEF Mt!Relate, Mt!Hide, Mt!Abort, Mt!Resting, Away
  <2>2. order' = order /\ harm \subseteq harm' /\ ("numbers" \in harm' => "numbers" \in harm)
    BY <1>4 DEF Mt!Relate, Mt!Hide, Mt!Abort
  <2>3. \A o, r, L : Ordered(Mt!Resting, o, r, L)
    BY <2>1 DEF Ordered, Stored
  <2> SUFFICES ASSUME "orders" \notin harm, "orders" \notin harm' PROVE MtOrders'
    BY <2>1, <2>2, <2>3, OrdersKept
  <2>4. CASE Mt!Relate(c)
    <3>1. related' = related \cup {chair[c].slide} /\ chair[c].pc = "relate" /\ state' = state
      BY <2>4 DEF Mt!Relate, Mt!At
    <3>2. /\ \A n \in related : order[n] < order[chair[c].slide]
          /\ \A d \in Chair \ {c} : chair[d].pc \in Away
          /\ Apart(<< >>, order, Mt!Live)
      BY <3>1 DEF MtOrders, OnlyOne, Away, Ordered, Stored
    <3>3. \A n, k \in Mt!Live : n # k => order[n] # order[k]
      BY <3>2, ApartAtLast
    <3>4. \A n \in Mt!Live' : n = chair[c].slide \/ n \in Mt!Live
      BY <3>1 DEF Mt!Live
    <3>5. \A n \in Mt!Live : order[n] \in Nat /\ order[chair[c].slide] \in Nat /\ order[n] < order[chair[c].slide]
      BY <1>0, <3>2 DEF Mt!Live, OrdersOK, Orders, RequestOK, Request
    <3>6. \A n, k \in Mt!Live' : n # k => order[n] # order[k]
      BY <3>3, <3>4, <3>5
    <3>7. Apart(<< >>, order', Mt!Live')
      BY <2>2, <3>6, ApartAtLast
    <3>8. \A d \in Chair \ {c} : Ordered(chair[d], order', related', Mt!Live')
      BY <3>2 DEF Ordered, Away, Stored
    <3> QED BY <2>1, <2>2, <2>3, <3>7, <3>8, OrdersKept
  <2>5. CASE Mt!Hide(c) \/ (Mt!Abort(c) /\ chair[c].pc # "orders")
    <3>1. related' = related /\ Mt!Live' \in SUBSET Mt!Live /\ chair[c].pc # "orders"
      <4>1. related' = related /\ chair[c].pc # "orders"
        BY <2>5 DEF Mt!Hide, Mt!Abort, Mt!At
      <4>2. \A n \in related : state'[n] = state[n] \/ state'[n] = "deleted"
        <5>1. \A n \in related : n \in Mt!Slide
          BY <1>0 DEF OrdersOK
        <5>2. \/ state' = state
              \/ state' = [state EXCEPT ![chair[c].slide] = "deleted"]
          BY <2>5 DEF Mt!Hide, Mt!Abort
        <5>3. \A n \in Mt!Slide : state' = [state EXCEPT ![chair[c].slide] = "deleted"] =>
                                   state'[n] = state[n] \/ state'[n] = "deleted"
          BY DEF MtBase
        <5> QED BY <5>1, <5>2, <5>3
      <4>3. Mt!Live' \subseteq Mt!Live
        BY <4>1, <4>2 DEF Mt!Live
      <4> QED BY <4>1, <4>3
    <3>2. \A d \in Chair \ {c} : Ordered(chair[d], order', related', Mt!Live')
      <4>1. \A d \in Chair : Ordered(chair[d], order, related, Mt!Live)
        BY DEF MtOrders
      <4> QED BY <2>2, <3>1, <4>1, ApartOfLess DEF Ordered
    <3>3. (\A d \in Chair \ {c} : chair[d].pc # "orders") => Apart(<< >>, order', Mt!Live')
      BY <2>2, <3>1, ApartOfLess DEF MtOrders
    <3> QED BY <2>1, <2>2, <2>3, <3>2, <3>3, OrdersKept
  <2>6. CASE Mt!Abort(c) /\ chair[c].pc = "orders"
    BY <2>6 DEF Mt!Abort, Mt!At
  <2> QED BY <1>4, <2>4, <2>5, <2>6
<1> QED BY <1>1, <1>2, <1>3, <1>4 DEF Mt!Step

(***************************************************************************)
(* Materials, as a part                                                    *)
(***************************************************************************)
MaterialsInv == part = "materials" => MtBase /\ MtNumbers /\ MtOrders

LEMMA MaterialsStart == ASSUME MtAssumption PROVE MCInit => MaterialsInv
<1> SUFFICES ASSUME Mt!Init PROVE MtBase /\ MtNumbers /\ MtOrders
  BY DEF MCInit, MaterialsInv
<1>1. PICK o : o = order
  OBVIOUS
<1>2. Orders(o) /\ (\A n \in Mt!Slide : o[n] = 0) /\ related = {} /\ harm = {} /\ file = {}
  BY <1>1 DEF Mt!Init, Orders
<1>3. NextOf(o) \in Nat
  BY <1>2, NextOfIs DEF MtAssumption
<1>4. OrdersOK(order, related)
  BY <1>1, <1>2, <1>3 DEF OrdersOK
<1>5. chair = [c \in Chair |-> Mt!Resting] /\ Mt!Resting.pc = "idle"
  BY DEF Mt!Init, Mt!Resting
<1>6. chair = [c \in Chair |-> chair[c]] /\ \A c \in Chair : chair[c] = Mt!Resting
  BY <1>5
<1>7. state = [n \in Mt!Slide |-> "none"] /\ uploads = [n \in Mt!Slide |-> 0]
  BY DEF Mt!Init
<1>8. MtBase
  BY <1>2, <1>4, <1>6, <1>7, RestingOK DEF MtBase
<1>9. Mt!Live = {}
  BY <1>2 DEF Mt!Live
<1>10. MtNumbers
  BY <1>5, <1>6, <1>7, <1>9 DEF MtNumbers, Fresh, NoTwoNames, NamesKept, Busy, Stored
<1>11. MtOrders
  BY <1>2, <1>5, <1>6, <1>9 DEF MtOrders, OnlyOne, Ordered, Apart, Away, Stored
<1> QED BY <1>8, <1>10, <1>11

LEMMA MaterialsStep == ASSUME MtAssumption, MaterialsInv, [MCNext]_allVars PROVE MaterialsInv'
<1>1. part' = part
  BY PartStays
<1>2. CASE part = "materials"
  <2>1. MtBase /\ MtNumbers /\ MtOrders
    BY <1>2 DEF MaterialsInv
  <2>2. (\E c \in Chair : Mt!Start(c) \/ Mt!Step(c) \/ Mt!Abort(c)) \/ UNCHANGED Mt!materialVars
    BY <1>2 DEF MCNext, allVars, materialRows, Mt!materialVars, CharterMoves, MilestonesMove, IanaMoves,
       QueueMoves, NominationsMove, SessionsMove, MaterialsMove, MailMoves, ListsMove, Mt!Start
  <2>3. CASE \E c \in Chair : Mt!Start(c) \/ Mt!Step(c) \/ Mt!Abort(c)
    <3>1. PICK c \in Chair : Mt!Start(c) \/ Mt!Step(c) \/ Mt!Abort(c)
      BY <2>3
    <3>2. MtBase'
      BY <2>1, <3>1, MtBaseStart, MtBaseStep
    <3>3. MtNumbers'
      BY <2>1, <3>1, NumbersStart, NumbersStep
    <3>4. MtOrders'
      BY <2>1, <3>1, OrdersStart, OrdersStep
    <3> QED BY <3>2, <3>3, <3>4 DEF MaterialsInv
  <2>4. CASE UNCHANGED Mt!materialVars
    <3>1. UNCHANGED <<order, state, file, related, chair, uploads, harm>>
      BY <2>4 DEF Mt!materialVars
    <3>2. Mt!Live' = Mt!Live
      BY <3>1 DEF Mt!Live
    <3>3. MtBase'
      BY <2>1, <3>1 DEF MtBase, OrdersOK, Orders, RequestOK, NextOf
    <3>4. MtNumbers'
      BY <2>1, <3>1, <3>2 DEF MtNumbers, Fresh, NextOf, NoTwoNames, NamesKept, Deleting
    <3>5. MtOrders'
      BY <2>1, <3>1, <3>2 DEF MtOrders, OnlyOne, Ordered, Apart, Gets
    <3> QED BY <3>3, <3>4, <3>5 DEF MaterialsInv
  <2> QED BY <2>2, <2>3, <2>4
<1>3. CASE part # "materials"
  BY <1>1, <1>3 DEF MaterialsInv
<1> QED BY <1>2, <1>3

\* However many slides are uploaded, replaced, deleted, moved and put in order, and
\* wherever an upload or a deletion dies: once nobody is at work, no two slides that
\* are shown have one order, unless requests that write orders overlapped or died.
THEOREM SlidesAreOrdered == ASSUME MtAssumption PROVE MCSpec => []StrictlyOrdered
<1>1. MaterialsInv => StrictlyOrdered
  <2> SUFFICES ASSUME MaterialsInv, part = "materials", \A c \in Chair : Mt!At(c, "idle"), "orders" \notin harm
               PROVE  \A n, k \in Mt!Live : n # k => order[n] # order[k]
    BY DEF StrictlyOrdered, Mt!StrictlyOrdered
  <2>1. Apart(<< >>, order, Mt!Live)
    BY DEF MaterialsInv, MtOrders, Mt!At
  <2> QED BY <2>1, ApartAtLast
<1> QED BY <1>1, MaterialsStart, MaterialsStep, PTL DEF MCSpec

\* Uploads that overlap anything and die anywhere: a slide that is shown has its
\* file unless it is being deleted, and no upload writes over another one's file,
\* until two uploads take one number at the same time.
THEOREM SlidesKeepFiles == ASSUME MtAssumption PROVE MCSpec => []SlidesAreKept
<1>1. MaterialsInv => SlidesAreKept
  BY DEF MaterialsInv, MtNumbers, NamesKept, Deleting, SlidesAreKept, Mt!ShownHasFile, Mt!NamesAreUnique, Mt!At
<1> QED BY <1>1, MaterialsStart, MaterialsStep, PTL DEF MCSpec

(***************************************************************************)
(* Milestones: the plan of a charter on its way to being in force          *)
(***************************************************************************)
OneEditor  == \A d, e \in Editor : d = e
RowsFinite == Row \in SUBSET Nat /\ IsFiniteSet(Row)

LEMMA SameCount == \A S : Ms!Cardinality(S) = Cardinality(S)
BY Zenon DEF Ms!Cardinality, Cardinality

LEMMA LeastIs == ASSUME RowsFinite, NEW S \in SUBSET Row, S # {} PROVE Ms!Least(S) \in S
<1>1. \E i \in S : \A j \in S : i <= j
  BY LeastNumber DEF RowsFinite
<1> QED BY <1>1, Zenon DEF Ms!Least

\* With the rows as they were loaded (c) and as they will be (W): milestones of the
\* charter and rows of the group that say t, and what became of them
Plan(c, t)          == {i \in Row : c[i].state = "charter" /\ c[i].text = t}
Had(c, t)           == {i \in Row : c[i].state \in Ms!Current /\ c[i].text = t}
KeptRows(W, c, O, t) == {i \in Had(c, t) \ O : W[i].state = "active"}
Dropped(W, c, L, t) == {i \in Plan(c, t) \ L : W[i].state = "deleted"}
Moved(W, c, L, t)   == {i \in Plan(c, t) \ L : W[i].state = "active"}

\* Rows that approve has dealt with, when L and O are left to deal with
Dealt(c, L, O, i) == (c[i].state = "charter" /\ i \notin L) \/ (c[i].state \in Ms!Current /\ i \notin O)

\* For each text, as many rows were kept as milestones of the charter were dropped
\* for them, and none was moved while a row that said the same was there to keep.
PlanOK(W, c, L, O) ==
  /\ \A i \in L : i \in Row /\ c[i].state = "charter"
  /\ \A i \in O : i \in Row /\ c[i].state \in Ms!Current
  /\ \A i \in Row : W[i].text = c[i].text
  /\ \A i \in Row : Dealt(c, L, O, i) => W[i].state \in {"active", "deleted"}
  /\ \A i \in Row : ~ Dealt(c, L, O, i) => W[i] = c[i]
  /\ L # {} => \A i \in Row \ O : c[i].state \in Ms!Current => W[i].state = "active"
  /\ \A t \in Text : /\ Cardinality(KeptRows(W, c, O, t)) = Cardinality(Dropped(W, c, L, t))
                     /\ Moved(W, c, L, t) # {} => KeptRows(W, c, O, t) = Had(c, t)

LEMMA RowsCount == ASSUME RowsFinite, NEW S \in SUBSET Row PROVE IsFiniteSet(S) /\ Cardinality(S) \in Nat
BY FS_Subset, FS_CardinalityType DEF RowsFinite

LEMMA PlanStarts ==
  ASSUME RowsFinite, NEW c \in Ms!Rows
  PROVE  PlanOK(c, c, Ms!In(c, {"charter"}), Ms!In(c, Ms!Current))
<1>1. PICK L \in SUBSET Row, O \in SUBSET Row : L = Ms!In(c, {"charter"}) /\ O = Ms!In(c, Ms!Current)
  BY DEF Ms!In
<1>2. /\ \A i \in L : i \in Row /\ c[i].state = "charter"
      /\ \A i \in O : i \in Row /\ c[i].state \in Ms!Current
      /\ \A i \in Row : ~ Dealt(c, L, O, i)
      /\ \A i \in Row \ O : c[i].state \notin Ms!Current
  BY <1>1 DEF Ms!In, Dealt
<1>3. \A t \in Text : KeptRows(c, c, O, t) = {} /\ Dropped(c, c, L, t) = {} /\ Moved(c, c, L, t) = {}
  BY <1>1 DEF KeptRows, Dropped, Moved, Plan, Had, Ms!In
<1>4. PlanOK(c, c, L, O)
  BY <1>2, <1>3 DEF PlanOK
<1> QED BY <1>1, <1>4

\* No row of the group says what milestone m says: m is moved.
LEMMA PlanMoves ==
  ASSUME RowsFinite, NEW W \in Ms!Rows, NEW c \in Ms!Rows, NEW L, NEW O, PlanOK(W, c, L, O), NEW m \in L,
         \A o \in O : c[o].text # c[m].text,
         NEW V \in Ms!Rows, V[m].state = "active", V[m].text = c[m].text, \A i \in Row \ {m} : V[i] = W[i]
  PROVE  PlanOK(V, c, L \ {m}, O)
<1>1. m \in Row /\ c[m].state = "charter" /\ c[m].state \notin Ms!Current
  BY DEF PlanOK, Ms!Current
<1>2. \A i \in Row : Dealt(c, L \ {m}, O, i) <=> Dealt(c, L, O, i) \/ i = m
  BY <1>1 DEF Dealt
<1>3. ASSUME NEW t \in Text
      PROVE  /\ KeptRows(V, c, O, t) = KeptRows(W, c, O, t) /\ Dropped(V, c, L \ {m}, t) = Dropped(W, c, L, t)
             /\ Moved(V, c, L \ {m}, t) # {} => KeptRows(W, c, O, t) = Had(c, t)
  <2>1. KeptRows(V, c, O, t) = KeptRows(W, c, O, t)
    BY <1>1 DEF KeptRows, Had
  <2>2. Dropped(V, c, L \ {m}, t) = Dropped(W, c, L, t)
    BY <1>1 DEF Dropped, Plan
  <2>3. CASE t = c[m].text
    <3>1. /\ \A i \in Row \ O : c[i].state \in Ms!Current => W[i].state = "active"
          /\ \A i \in O : i \in Row
      BY DEF PlanOK
    <3>2. KeptRows(W, c, O, t) = Had(c, t)
      BY <2>3, <3>1 DEF KeptRows, Had
    <3> QED BY <2>1, <2>2, <3>2
  <2>4. CASE t # c[m].text
    <3>1. Moved(V, c, L \ {m}, t) = Moved(W, c, L, t)
      BY <1>1, <2>4 DEF Moved, Plan
    <3> QED BY <2>1, <2>2, <3>1 DEF PlanOK
  <2> QED BY <2>1, <2>2, <2>3, <2>4
<1> QED BY <1>1, <1>2, <1>3 DEF PlanOK

\* Row o says what milestone m says: o is kept, m is dropped.
LEMMA PlanKeeps ==
  ASSUME RowsFinite, NEW W \in Ms!Rows, NEW c \in Ms!Rows, NEW L, NEW O, PlanOK(W, c, L, O), NEW m \in L,
         NEW o \in O, c[o].text = c[m].text,
         NEW V \in Ms!Rows, V[m].state = "deleted", V[m].text = c[m].text, V[o].state = "active", V[o].text = c[o].text,
         \A i \in Row \ {m, o} : V[i] = W[i]
  PROVE  PlanOK(V, c, L \ {m}, O \ {o})
<1>1. /\ m \in Row /\ c[m].state = "charter" /\ c[m].state \notin Ms!Current
      /\ o \in Row /\ c[o].state \in Ms!Current /\ c[o].state # "charter" /\ o # m
  BY DEF PlanOK, Ms!Current
<1>2. \A i \in Row : Dealt(c, L \ {m}, O \ {o}, i) <=> Dealt(c, L, O, i) \/ i = m \/ i = o
  BY <1>1 DEF Dealt
<1>3. ASSUME NEW t \in Text
      PROVE  /\ Cardinality(KeptRows(V, c, O \ {o}, t)) = Cardinality(Dropped(V, c, L \ {m}, t))
             /\ Moved(V, c, L \ {m}, t) # {} => KeptRows(V, c, O \ {o}, t) = Had(c, t)
  <2>1. Moved(V, c, L \ {m}, t) = Moved(W, c, L, t)
    BY <1>1 DEF Moved, Plan
  <2>2. CASE t = c[m].text
    <3>1. /\ KeptRows(V, c, O \ {o}, t) = KeptRows(W, c, O, t) \cup {o} /\ o \notin KeptRows(W, c, O, t)
          /\ o \in Had(c, t) /\ KeptRows(W, c, O, t) \subseteq Row
      BY <1>1, <2>2 DEF KeptRows, Had
    <3>2. /\ Dropped(V, c, L \ {m}, t) = Dropped(W, c, L, t) \cup {m} /\ m \notin Dropped(W, c, L, t)
          /\ Dropped(W, c, L, t) \subseteq Row
      BY <1>1, <2>2 DEF Dropped, Plan
    <3>3. /\ Cardinality(KeptRows(V, c, O \ {o}, t)) = Cardinality(KeptRows(W, c, O, t)) + 1
          /\ Cardinality(Dropped(V, c, L \ {m}, t)) = Cardinality(Dropped(W, c, L, t)) + 1
      BY <3>1, <3>2, RowsCount, FS_AddElement
    <3> QED BY <2>1, <3>1, <3>3 DEF PlanOK
  <2>3. CASE t # c[m].text
    <3>1. KeptRows(V, c, O \ {o}, t) = KeptRows(W, c, O, t)
      BY <1>1, <2>3 DEF KeptRows, Had
    <3>2. Dropped(V, c, L \ {m}, t) = Dropped(W, c, L, t)
      BY <1>1, <2>3 DEF Dropped, Plan
    <3> QED BY <2>1, <3>1, <3>2 DEF PlanOK
  <2> QED BY <2>2, <2>3
<1>4. \A i \in Row : V[i].text = c[i].text
  BY <1>1 DEF PlanOK
<1>5. \A i \in Row : Dealt(c, L \ {m}, O \ {o}, i) => V[i].state \in {"active", "deleted"}
  BY <1>1, <1>2 DEF PlanOK
<1>6. \A i \in Row : ~ Dealt(c, L \ {m}, O \ {o}, i) => V[i] = c[i]
  BY <1>1, <1>2 DEF PlanOK
<1>7. L \ {m} # {} => \A i \in Row \ (O \ {o}) : c[i].state \in Ms!Current => V[i].state = "active"
  BY <1>1 DEF PlanOK
<1>8. /\ \A i \in L \ {m} : i \in Row /\ c[i].state = "charter"
      /\ \A i \in O \ {o} : i \in Row /\ c[i].state \in Ms!Current
  BY DEF PlanOK
<1> QED BY <1>3, <1>4, <1>5, <1>6, <1>7, <1>8 DEF PlanOK

\* The charter is dealt with; a row that was not kept goes.
LEMMA PlanRetires ==
  ASSUME RowsFinite, NEW W \in Ms!Rows, NEW c \in Ms!Rows, NEW O, PlanOK(W, c, {}, O), NEW o \in O,
         NEW V \in Ms!Rows, V[o].state = "deleted", V[o].text = c[o].text, \A i \in Row \ {o} : V[i] = W[i]
  PROVE  PlanOK(V, c, {}, O \ {o})
<1>1. o \in Row /\ c[o].state \in Ms!Current /\ c[o].state # "charter"
  BY DEF PlanOK, Ms!Current
<1>2. \A i \in Row : Dealt(c, {}, O \ {o}, i) <=> Dealt(c, {}, O, i) \/ i = o
  BY <1>1 DEF Dealt
<1>3. ASSUME NEW t \in Text
      PROVE  /\ KeptRows(V, c, O \ {o}, t) = KeptRows(W, c, O, t)
             /\ Dropped(V, c, {}, t) = Dropped(W, c, {}, t) /\ Moved(V, c, {}, t) = Moved(W, c, {}, t)
  <2>1. KeptRows(V, c, O \ {o}, t) = KeptRows(W, c, O, t)
    BY <1>1 DEF KeptRows, Had
  <2>2. Dropped(V, c, {}, t) = Dropped(W, c, {}, t) /\ Moved(V, c, {}, t) = Moved(W, c, {}, t)
    BY <1>1 DEF Dropped, Moved, Plan
  <2> QED BY <2>1, <2>2
<1> QED BY <1>1, <1>2, <1>3 DEF PlanOK

\* One request at work: its local variables x, the rows r, the history h.
EdWork == [row : Row, to : Ms!Content]
EdRec  == [op : Ms!Op, pc : Ms!PC, copy : Ms!Rows, left : SUBSET Row, old : SUBSET Row, agenda : Seq(EdWork)]

Fields(y, op, pc, copy, left, old, agenda) ==
  /\ y \in EdRec /\ y.op = op /\ y.pc = pc /\ y.copy = copy
  /\ y.left = left /\ y.old = old /\ y.agenda = agenda

\* Rows it has still to deal with; a row it is to write is none of them.
Due(x)        == x.left \cup (IF x.op = "approve" THEN x.old ELSE {})
Sure(x, r, p) == x.copy[p.row] = r[p.row] /\ p.row \notin Due(x)

Ready(x, r, h) ==
  \/ \E p \in EdWork : /\ x.agenda = <<p>> /\ Sure(x, r, p)
                       /\ x.pc = "save" => p.row \in h
  \/ \E p, q \in EdWork : /\ x.agenda = <<p, q>> /\ p.row # q.row /\ Sure(x, r, p) /\ Sure(x, r, q)
                          /\ x.pc = "save" => p.row \in h

Creates(x, r) ==
  /\ x.op \in {"add", "reset"} /\ x.left = {}
  /\ \E p \in EdWork : x.agenda = <<p>> /\ r[p.row].state = "none"

EdOK(x, r, h) ==
  /\ \A i \in Due(x) : x.copy[i] = r[i]
  /\ x.pc \in {"history", "save"} => Ready(x, r, h)
  /\ x.pc = "create" => Creates(x, r)
  /\ x.pc \in {"next", "announce", "idle"} => x.agenda = << >>
  /\ x.pc # "idle" => x.op # "none"
  /\ x.pc = "next" => x.op \in {"reset", "approve"}
  /\ x.pc = "announce" => x.op = "approve" /\ x.left = {} /\ x.old = {}

\* The agenda a makes the rows r into the rows W.
PutsRow(r, p, W) == W[p.row] = p.to /\ \A i \in Row \ {p.row} : W[i] = r[i]
Leads(a, r, W) ==
  \/ a = << >> /\ W = r
  \/ \E p \in EdWork :
       /\ a = <<p>> /\ PutsRow(r, p, W) /\ p.to.text = r[p.row].text
       /\ p.to.state = "deleted" \/ (p.to.state = "active" /\ r[p.row].state = "charter")
  \/ \E p, q \in EdWork :
       /\ a = <<p, q>> /\ p.row # q.row
       /\ W[p.row] = p.to /\ W[q.row] = q.to /\ \A i \in Row \ {p.row, q.row} : W[i] = r[i]
       /\ p.to.state = "active" /\ q.to.state = "deleted" /\ r[q.row].state = "charter"
       /\ p.to.text = r[p.row].text /\ q.to.text = r[q.row].text /\ p.to.text = q.to.text

ApOK(x, r) ==
  x.op = "approve" => \E W \in Ms!Rows : Leads(x.agenda, r, W) /\ PlanOK(W, x.copy, x.left, x.old)

MsOK(x, r, h) == EdOK(x, r, h) /\ ApOK(x, r)

MsBase == editor \in [Editor -> EdRec] /\ milestone \in Ms!Rows /\ inHistory \in SUBSET Row
MsInv  == MsBase /\ \A e \in Editor : MsOK(editor[e], milestone, inHistory)

Becomes(e, y) == editor' = [editor EXCEPT ![e] = y]

LEMMA EditorKept ==
  ASSUME OneEditor, MsBase, NEW e \in Editor, NEW y \in EdRec, Becomes(e, y),
         MsOK(y, milestone', inHistory'), milestone' \in Ms!Rows, inHistory' \in SUBSET Row
  PROVE  MsInv'
<1>1. editor' \in [Editor -> EdRec] /\ editor'[e] = y
  BY DEF MsBase, Becomes
<1>2. \A d \in Editor : d = e
  BY DEF OneEditor
<1>3. MsBase'
  BY <1>1 DEF MsBase
<1>4. \A d \in Editor : MsOK(editor[d], milestone, inHistory)'
  BY <1>1, <1>2 DEF MsOK, EdOK, ApOK, Due, Sure, Ready, Creates, Leads
<1> QED BY <1>3, <1>4 DEF MsInv

\* Sequences of one and two entries
LEMMA OneEntry ==
  ASSUME NEW S, NEW p \in S
  PROVE  <<p>> \in Seq(S) /\ <<p>> # << >> /\ Head(<<p>>) = p /\ Tail(<<p>>) = << >> /\ << >> \o <<p>> = <<p>>
OBVIOUS

LEMMA TwoEntries ==
  ASSUME NEW S, NEW p \in S, NEW q \in S
  PROVE  <<p, q>> \in Seq(S) /\ <<p, q>> # << >> /\ Head(<<p, q>>) = p /\ Tail(<<p, q>>) = <<q>>
         /\ <<p>> \o <<q>> = <<p, q>>
<1>1. <<p, q>> \in Seq(S) /\ <<p, q>> # << >>
  OBVIOUS
<1>2. Head(<<p, q>>) = p
  OBVIOUS
<1>3. Tail(<<p, q>>) = <<q>>
  OBVIOUS
<1>4. <<p>> \o <<q>> = <<p, q>>
  <2>1. <<p>> \in Seq(S) /\ <<q>> \in Seq(S) /\ Len(<<p>>) = 1 /\ Len(<<q>>) = 1 /\ <<p>>[1] = p /\ <<q>>[1] = q
    OBVIOUS
  <2>2. PICK t : t = <<p>> \o <<q>>
    OBVIOUS
  <2>3. /\ t \in Seq(S) /\ Len(t) = Len(<<p>>) + Len(<<q>>)
        /\ \A i \in 1 .. Len(<<p>>) + Len(<<q>>) : t[i] = IF i <= Len(<<p>>) THEN <<p>>[i] ELSE <<q>>[i - Len(<<p>>)]
    BY <2>1, <2>2, ConcatProperties
  <2>4. Len(t) = 2 /\ t[1] = p /\ t[2] = q
    BY <2>1, <2>3
  <2>5. Len(<<p, q>>) = 2 /\ <<p, q>>[1] = p /\ <<p, q>>[2] = q
    OBVIOUS
  <2>6. t = <<p, q>>
    BY <1>1, <2>3, <2>4, <2>5, SeqEqual
  <2> QED BY <2>2, <2>6
<1> QED BY <1>1, <1>2, <1>3, <1>4

LEMMA NotBoth ==
  ASSUME NEW S, NEW p \in S, NEW q \in S, NEW o \in S
  PROVE  <<p, q>> # <<o>> /\ (<<p>> = <<o>> => p = o)
OBVIOUS

LEMMA NotBoth2 ==
  ASSUME NEW S, NEW p \in S, NEW q \in S, NEW o \in S, NEW m \in S, <<p, q>> = <<o, m>>
  PROVE  p = o /\ q = m
OBVIOUS

LEMMA NotEmpty == \A p, q : <<p>> # << >> /\ <<p, q>> # << >>
OBVIOUS

LEMMA EmptyIs == ASSUME NEW S PROVE << >> \in Seq(S)
OBVIOUS

\* What a request loads, and what it turns to
LEMMA LoadIs ==
  ASSUME MsBase, NEW e \in Editor, NEW op \in Ms!Op, NEW pc \in Ms!PC, NEW left \in SUBSET Row,
         NEW old \in SUBSET Row, NEW agenda \in Seq(EdWork), Ms!Load(e, op, pc, left, old, agenda)
  PROVE  /\ \E y \in EdRec : Fields(y, op, pc, milestone, left, old, agenda) /\ Becomes(e, y)
         /\ milestone' = milestone /\ inHistory' = inHistory
<1> DEFINE y == [op |-> op, pc |-> pc, copy |-> milestone, left |-> left, old |-> old, agenda |-> agenda]
<1>1. y \in EdRec
  BY DEF MsBase, EdRec
<1>2. Fields(y, op, pc, milestone, left, old, agenda)
  BY <1>1 DEF Fields
<1>3. Becomes(e, y) /\ milestone' = milestone /\ inHistory' = inHistory
  BY DEF Ms!Load, Becomes
<1> HIDE DEF y
<1> QED BY <1>1, <1>2, <1>3

LEMMA FieldsAre ==
  ASSUME NEW x \in EdRec
  PROVE  Fields(x, x.op, x.pc, x.copy, x.left, x.old, x.agenda) /\ x.op \in Ms!Op /\ x.pc \in Ms!PC
         /\ x.copy \in Ms!Rows /\ x.left \in SUBSET Row /\ x.old \in SUBSET Row /\ x.agenda \in Seq(EdWork)
BY DEF Fields, EdRec

LEMMA ChangeFour ==
  ASSUME NEW x \in EdRec, NEW left \in SUBSET Row, NEW old \in SUBSET Row, NEW agenda \in Seq(EdWork), NEW pc \in Ms!PC
  PROVE  Fields([x EXCEPT !.left = left, !.old = old, !.agenda = agenda, !.pc = pc],
                x.op, pc, x.copy, left, old, agenda)
BY DEF Fields, EdRec

LEMMA ChangeTwo ==
  ASSUME NEW x \in EdRec, NEW agenda \in Seq(EdWork), NEW pc \in Ms!PC
  PROVE  Fields([x EXCEPT !.pc = pc, !.agenda = agenda], x.op, pc, x.copy, x.left, x.old, agenda)
BY DEF Fields, EdRec

LEMMA ChangeOne ==
  ASSUME NEW x \in EdRec, NEW pc \in Ms!PC
  PROVE  Fields([x EXCEPT !.pc = pc], x.op, pc, x.copy, x.left, x.old, x.agenda)
BY DEF Fields, EdRec

LEMMA TurnsIs ==
  ASSUME MsBase, NEW e \in Editor, NEW pc \in Ms!PC, NEW left \in SUBSET Row,
         NEW old \in SUBSET Row, NEW agenda \in Seq(EdWork), Ms!TurnsTo(e, left, old, agenda, pc)
  PROVE  /\ \E y \in EdRec : Fields(y, editor[e].op, pc, editor[e].copy, left, old, agenda) /\ Becomes(e, y)
         /\ milestone' = milestone /\ inHistory' = inHistory
<1>1. PICK x \in EdRec : x = editor[e]
  BY DEF MsBase
<1>2. PICK y : y = [x EXCEPT !.left = left, !.old = old, !.agenda = agenda, !.pc = pc]
  OBVIOUS
<1>3. Fields(y, x.op, pc, x.copy, left, old, agenda)
  BY <1>2, ChangeFour
<1>4. editor' = [editor EXCEPT ![e] = [editor[e] EXCEPT !.left = left, !.old = old, !.agenda = agenda, !.pc = pc]]
  BY DEF Ms!TurnsTo, MsBase
<1>5. Becomes(e, y)
  BY <1>1, <1>2, <1>4, Zenon DEF Becomes
<1>6. milestone' = milestone /\ inHistory' = inHistory
  BY DEF Ms!TurnsTo
<1>7. y \in EdRec
  BY <1>3 DEF Fields
<1> QED BY <1>1, <1>3, <1>5, <1>6, <1>7

Advances(e) ==
  /\ \E y \in EdRec : Becomes(e, y) /\ MsOK(y, milestone', inHistory')
  /\ milestone' \in Ms!Rows /\ inHistory' \in SUBSET Row
  /\ Ms!Recorded

\* A step that writes no row
LEMMA Decides ==
  ASSUME MsBase, NEW e \in Editor, milestone' = milestone, inHistory' = inHistory,
         \E y \in EdRec : Becomes(e, y) /\ MsOK(y, milestone, inHistory)
  PROVE  Advances(e)
<1>1. \E y \in EdRec : Becomes(e, y) /\ MsOK(y, milestone', inHistory')
  OBVIOUS
<1> QED BY <1>1 DEF Advances, MsBase, Ms!Recorded

LEMMA LoadedOneOK ==
  ASSUME NEW r \in Ms!Rows, NEW h \in SUBSET Row, NEW p \in EdWork, NEW y \in EdRec,
         \/ Fields(y, "edit", "history", r, {}, {}, <<p>>)
         \/ Fields(y, "add", "create", r, {}, {}, <<p>>) /\ r[p.row].state = "none"
  PROVE  MsOK(y, r, h)
<1>1. Due(y) = {} /\ y.agenda = <<p>> /\ y.copy = r /\ y.op # "approve"
  BY DEF Due, Fields
<1>2. Sure(y, r, p)
  BY <1>1 DEF Sure
<1>3. Ready(y, r, h) \/ y.pc = "create"
  BY <1>1, <1>2 DEF Ready, Fields
<1>4. y.pc = "create" => Creates(y, r)
  BY <1>1 DEF Creates, Fields
<1> QED BY <1>1, <1>3, <1>4 DEF MsOK, EdOK, ApOK, Fields

LEMMA EditIs ==
  ASSUME MsBase, NEW e \in Editor, Ms!Edit(e)
  PROVE  Advances(e)
<1>1. PICK i \in Row, c \in Ms!Content : Ms!Load(e, "edit", "history", {}, {}, <<[row |-> i, to |-> c]>>)
  BY DEF Ms!Edit, Ms!Listed, Ms!In, Ms!Changed
<1>2. PICK p \in EdWork : p = [row |-> i, to |-> c]
  BY DEF EdWork
<1>3. PICK a \in Seq(EdWork) : a = <<p>>
  BY <1>2, OneEntry
<1>4. Ms!Load(e, "edit", "history", {}, {}, a)
  BY <1>1, <1>2, <1>3
<1>5. /\ \E y \in EdRec : Fields(y, "edit", "history", milestone, {}, {}, a) /\ Becomes(e, y)
      /\ milestone' = milestone /\ inHistory' = inHistory
  BY <1>4, LoadIs DEF Ms!Op, Ms!PC
<1>6. PICK y \in EdRec : Fields(y, "edit", "history", milestone, {}, {}, <<p>>) /\ Becomes(e, y)
  BY <1>3, <1>5
<1>7. MsOK(y, milestone, inHistory)
  BY <1>6, LoadedOneOK DEF MsBase
<1> QED BY <1>5, <1>6, <1>7, Decides

LEMMA AddIs ==
  ASSUME RowsFinite, MsBase, NEW e \in Editor, Ms!Add(e)
  PROVE  Advances(e)
<1>1. PICK s \in {"review", "active", "charter"}, t \in Text :
        /\ Ms!Free # {}
        /\ Ms!Load(e, "add", "create", {}, {}, <<[row |-> Ms!Least(Ms!Free), to |-> [state |-> s, text |-> t]]>>)
  BY DEF Ms!Add
<1>2. PICK n \in Row : n = Ms!Least(Ms!Free) /\ milestone[n].state = "none"
  <2>1. Ms!Free \in SUBSET Row /\ \A n \in Ms!Free : milestone[n].state = "none"
    BY DEF Ms!Free, Ms!In
  <2>2. Ms!Least(Ms!Free) \in Ms!Free
    BY <1>1, <2>1, LeastIs
  <2> QED BY <2>1, <2>2
<1>3. PICK p \in EdWork : p = [row |-> n, to |-> [state |-> s, text |-> t]]
  BY DEF EdWork, Ms!Content, Ms!RowState
<1>4. PICK a \in Seq(EdWork) : a = <<p>>
  BY <1>2, OneEntry
<1>5. Ms!Load(e, "add", "create", {}, {}, a)
  BY <1>1, <1>2, <1>3, <1>4
<1>6. /\ \E y \in EdRec : Fields(y, "add", "create", milestone, {}, {}, a) /\ Becomes(e, y)
      /\ milestone' = milestone /\ inHistory' = inHistory
  BY <1>5, LoadIs DEF Ms!Op, Ms!PC
<1>7. PICK y \in EdRec : Fields(y, "add", "create", milestone, {}, {}, <<p>>) /\ Becomes(e, y)
  BY <1>4, <1>6
<1>8. milestone[p.row].state = "none"
  BY <1>2, <1>3
<1>9. MsOK(y, milestone, inHistory)
  BY <1>7, <1>8, LoadedOneOK DEF MsBase
<1> QED BY <1>6, <1>7, <1>9, Decides

LEMMA ResetIs ==
  ASSUME MsBase, NEW e \in Editor, Ms!Reset(e)
  PROVE  Advances(e)
<1>1. PICK picked \in SUBSET Row, left \in SUBSET Row : Ms!Load(e, "reset", "next", left, picked, << >>)
  BY DEF Ms!Reset, Ms!In
<1>2. /\ \E y \in EdRec : Fields(y, "reset", "next", milestone, left, picked, << >>) /\ Becomes(e, y)
      /\ milestone' = milestone /\ inHistory' = inHistory
  BY <1>1, LoadIs, EmptyIs DEF Ms!Op, Ms!PC
<1>3. PICK y \in EdRec : Fields(y, "reset", "next", milestone, left, picked, << >>) /\ Becomes(e, y)
  BY <1>2
<1>4. MsOK(y, milestone, inHistory)
  BY <1>3 DEF MsOK, EdOK, ApOK, Fields, Due
<1> QED BY <1>2, <1>3, <1>4, Decides

LEMMA ApproveIs ==
  ASSUME RowsFinite, MsBase, NEW e \in Editor, Ms!Approve(e)
  PROVE  Advances(e)
<1>1. PICK left \in SUBSET Row, old \in SUBSET Row :
        left = Ms!In(milestone, {"charter"}) /\ old = Ms!In(milestone, Ms!Current)
  BY DEF Ms!In
<1>2. Ms!Load(e, "approve", "next", left, old, << >>)
  BY <1>1 DEF Ms!Approve
<1>3. /\ \E y \in EdRec : Fields(y, "approve", "next", milestone, left, old, << >>) /\ Becomes(e, y)
      /\ milestone' = milestone /\ inHistory' = inHistory
  BY <1>2, LoadIs, EmptyIs DEF Ms!Op, Ms!PC
<1>4. PICK y \in EdRec : Fields(y, "approve", "next", milestone, left, old, << >>) /\ Becomes(e, y)
  BY <1>3
<1>5. EdOK(y, milestone, inHistory)
  BY <1>4 DEF EdOK, Fields, Due
<1>6. PlanOK(milestone, milestone, left, old)
  BY <1>1, PlanStarts DEF MsBase
<1>7. ApOK(y, milestone)
  BY <1>4, <1>6 DEF ApOK, Fields, Leads, MsBase
<1> QED BY <1>3, <1>4, <1>5, <1>7, Decides DEF MsOK

LEMMA RestIs ==
  ASSUME Text # {}, NEW r, NEW h
  PROVE  Ms!Resting \in EdRec /\ MsOK(Ms!Resting, r, h)
<1>1. Ms!NoText \in Text
  BY Zenon DEF Ms!NoText
<1>2. Ms!NoRows \in Ms!Rows
  BY <1>1 DEF Ms!NoRows, Ms!Rows, Ms!Content, Ms!RowState
<1>3. PICK c \in Ms!Rows : c = Ms!NoRows
  BY <1>2
<1>4. Ms!Resting = [op |-> "none", pc |-> "idle", copy |-> c, left |-> {}, old |-> {}, agenda |-> << >>]
  BY <1>3 DEF Ms!Resting
<1>5. Ms!Resting \in EdRec
  BY <1>4, EmptyIs DEF EdRec, Ms!Op, Ms!PC
<1>6. PICK y \in EdRec : y = Ms!Resting
  BY <1>5
<1>7. Fields(y, "none", "idle", c, {}, {}, << >>)
  BY <1>4, <1>6 DEF Fields
<1>8. MsOK(y, r, h)
  BY <1>7 DEF MsOK, EdOK, ApOK, Fields, Due
<1> QED BY <1>6, <1>8

LEMMA Rests ==
  ASSUME Text # {}, MsBase, NEW e \in Editor, editor' = [editor EXCEPT ![e] = Ms!Resting],
         milestone' = milestone, inHistory' = inHistory
  PROVE  Advances(e)
<1>1. Becomes(e, Ms!Resting)
  BY DEF Becomes
<1> QED BY <1>1, RestIs, Decides

\* A request that turns to one row it had to deal with, or to two
LEMMA TurnsToOne ==
  ASSUME NEW r \in Ms!Rows, NEW h \in SUBSET Row, NEW x \in EdRec, MsOK(x, r, h), x.pc = "next",
         NEW left \in SUBSET Row, NEW old \in SUBSET Row, NEW p \in EdWork, NEW y \in EdRec,
         Fields(y, x.op, "history", x.copy, left, old, <<p>>),
         left \subseteq x.left, old \subseteq x.old, p.row \in Due(x), p.row \notin Due(y)
  PROVE  EdOK(y, r, h)
<1>1. \A i \in Due(x) : x.copy[i] = r[i]
  BY DEF MsOK, EdOK
<1>2. Due(y) \subseteq Due(x) /\ y.copy = x.copy /\ y.agenda = <<p>> /\ y.pc = "history" /\ y.op = x.op
  BY DEF Fields, Due
<1>3. Sure(y, r, p)
  BY <1>1, <1>2 DEF Sure
<1>4. Ready(y, r, h)
  BY <1>2, <1>3 DEF Ready
<1>5. y.op # "none"
  BY <1>2 DEF MsOK, EdOK
<1> QED BY <1>1, <1>2, <1>4, <1>5 DEF EdOK

LEMMA TurnsToTwo ==
  ASSUME NEW r \in Ms!Rows, NEW h \in SUBSET Row, NEW x \in EdRec, MsOK(x, r, h), x.pc = "next",
         NEW left \in SUBSET Row, NEW old \in SUBSET Row, NEW p \in EdWork, NEW q \in EdWork, NEW y \in EdRec,
         Fields(y, x.op, "history", x.copy, left, old, <<p, q>>),
         left \subseteq x.left, old \subseteq x.old, p.row \in Due(x), p.row \notin Due(y),
         q.row \in Due(x), q.row \notin Due(y), p.row # q.row
  PROVE  EdOK(y, r, h)
<1>1. \A i \in Due(x) : x.copy[i] = r[i]
  BY DEF MsOK, EdOK
<1>2. Due(y) \subseteq Due(x) /\ y.copy = x.copy /\ y.agenda = <<p, q>> /\ y.pc = "history" /\ y.op = x.op
  BY DEF Fields, Due
<1>3. Sure(y, r, p) /\ Sure(y, r, q)
  BY <1>1, <1>2 DEF Sure
<1>4. Ready(y, r, h)
  BY <1>2, <1>3 DEF Ready
<1>5. y.op # "none"
  BY <1>2 DEF MsOK, EdOK
<1> QED BY <1>1, <1>2, <1>4, <1>5 DEF EdOK

LEMMA DiscardIs ==
  ASSUME RowsFinite, MsInv, NEW e \in Editor, Ms!Discard(e)
  PROVE  Advances(e)
<1>1. PICK x \in EdRec : x = editor[e]
  BY DEF MsInv, MsBase
<1>2. MsOK(x, milestone, inHistory) /\ MsBase /\ x.op = "reset" /\ x.pc = "next" /\ x.left # {}
  BY <1>1 DEF MsInv, Ms!Discard
<1>3. x.left \in SUBSET Row /\ x.old \in SUBSET Row /\ x.copy \in Ms!Rows
  BY FieldsAre
<1>4. PICK m \in x.left : m = Ms!Least(x.left)
  BY <1>2, <1>3, LeastIs
<1>5. x.copy[m].text \in Text
  BY <1>3, <1>4 DEF Ms!Rows, Ms!Content
<1>6. PICK p \in EdWork : p = [row |-> m, to |-> [state |-> "deleted", text |-> x.copy[m].text]]
  BY <1>3, <1>4, <1>5 DEF EdWork, Ms!Content, Ms!RowState
<1>7. PICK a \in Seq(EdWork) : a = <<p>>
  BY OneEntry
<1>8. Ms!Put(e, m, "deleted") = p
  BY <1>1, <1>6 DEF Ms!Put
<1>9. Ms!TurnsTo(e, x.left \ {m}, x.old, a, "history")
  BY <1>1, <1>4, <1>7, <1>8 DEF Ms!Discard
<1>10. /\ \E y \in EdRec : Fields(y, editor[e].op, "history", editor[e].copy, x.left \ {m}, x.old, a) /\ Becomes(e, y)
       /\ milestone' = milestone /\ inHistory' = inHistory
  <2>1. PICK left \in SUBSET Row, old \in SUBSET Row : left = x.left \ {m} /\ old = x.old
    BY <1>3
  <2>2. Ms!TurnsTo(e, left, old, a, "history")
    BY <1>9, <2>1
  <2>3. "history" \in Ms!PC
    BY DEF Ms!PC
  <2>4. /\ \E y \in EdRec : Fields(y, editor[e].op, "history", editor[e].copy, left, old, a) /\ Becomes(e, y)
        /\ milestone' = milestone /\ inHistory' = inHistory
    BY <1>2, <2>2, <2>3, TurnsIs
  <2> QED BY <2>1, <2>4
<1>11. PICK y \in EdRec : Fields(y, x.op, "history", x.copy, x.left \ {m}, x.old, <<p>>) /\ Becomes(e, y)
  BY <1>1, <1>7, <1>10
<1>12. p.row \in Due(x) /\ p.row \notin Due(y)
  BY <1>2, <1>4, <1>6, <1>11 DEF Due, Fields
<1>13. EdOK(y, milestone, inHistory)
  BY <1>2, <1>3, <1>11, <1>12, TurnsToOne DEF MsBase
<1>14. ApOK(y, milestone)
  BY <1>2, <1>11 DEF ApOK, Fields
<1> QED BY <1>2, <1>10, <1>11, <1>13, <1>14, Decides DEF MsOK

LEMMA CopyIs ==
  ASSUME RowsFinite, Text # {}, MsInv, NEW e \in Editor, Ms!Copy(e)
  PROVE  Advances(e)
<1>1. PICK x \in EdRec : x = editor[e]
  BY DEF MsInv, MsBase
<1>2. MsOK(x, milestone, inHistory) /\ MsBase /\ x.op = "reset" /\ x.pc = "next" /\ x.left = {}
  BY <1>1 DEF MsInv, Ms!Copy
<1>3. x.left \in SUBSET Row /\ x.old \in SUBSET Row /\ x.copy \in Ms!Rows /\ milestone \in Ms!Rows
  BY <1>2, FieldsAre DEF MsBase
<1>4. PICK picked \in SUBSET Row : picked = x.old \cap Ms!In(milestone, {"active"})
  BY <1>3
<1>5. CASE picked = {}
  <2>1. editor' = [editor EXCEPT ![e] = Ms!Resting] /\ milestone' = milestone /\ inHistory' = inHistory
    BY <1>1, <1>4, <1>5 DEF Ms!Copy
  <2> QED BY <1>2, <2>1, Rests
<1>6. CASE picked # {}
  <2>1. PICK m \in Row : m = Ms!Least(picked)
    BY <1>6, LeastIs
  <2>2. /\ Ms!Free # {}
        /\ Ms!TurnsTo(e, {}, picked \ {m},
             <<[row |-> Ms!Least(Ms!Free), to |-> [state |-> "charter", text |-> milestone[m].text]]>>, "create")
    BY <1>1, <1>4, <1>6, <2>1 DEF Ms!Copy
  <2>3. PICK n \in Row : n = Ms!Least(Ms!Free) /\ milestone[n].state = "none"
    <3>1. Ms!Free \in SUBSET Row /\ \A n \in Ms!Free : milestone[n].state = "none"
      BY DEF Ms!Free, Ms!In
    <3>2. Ms!Least(Ms!Free) \in Ms!Free
      BY <2>2, <3>1, LeastIs
    <3> QED BY <3>1, <3>2
  <2>4. milestone[m].text \in Text
    BY <1>3, <2>1 DEF Ms!Rows, Ms!Content
  <2>5. PICK p \in EdWork : p = [row |-> n, to |-> [state |-> "charter", text |-> milestone[m].text]]
    BY <2>4 DEF EdWork, Ms!Content, Ms!RowState
  <2>6. PICK a \in Seq(EdWork) : a = <<p>>
    BY OneEntry
  <2>7. PICK left \in SUBSET Row, old \in SUBSET Row : left = {} /\ old = picked \ {m}
    OBVIOUS
  <2>8. Ms!TurnsTo(e, left, old, a, "create")
    BY <2>2, <2>3, <2>5, <2>6, <2>7
  <2>9. "create" \in Ms!PC
    BY DEF Ms!PC
  <2>10. /\ \E y \in EdRec : Fields(y, editor[e].op, "create", editor[e].copy, left, old, a) /\ Becomes(e, y)
         /\ milestone' = milestone /\ inHistory' = inHistory
    BY <1>2, <2>8, <2>9, TurnsIs
  <2>11. PICK y \in EdRec : Fields(y, "reset", "create", x.copy, {}, old, <<p>>) /\ Becomes(e, y)
    BY <1>1, <1>2, <2>6, <2>7, <2>10
  <2>12. Due(y) = {} /\ Creates(y, milestone)
    BY <2>3, <2>5, <2>11 DEF Due, Creates, Fields
  <2>13. MsOK(y, milestone, inHistory)
    BY <2>11, <2>12 DEF MsOK, EdOK, ApOK, Fields
  <2> QED BY <1>2, <2>10, <2>11, <2>13, Decides
<1> QED BY <1>5, <1>6

\* An approval at the top of its loops: its rows are those it has made so far.
LEMMA ApproveAt ==
  ASSUME NEW r \in Ms!Rows, NEW h \in SUBSET Row, NEW x \in EdRec, MsOK(x, r, h),
         x.op = "approve", x.pc = "next"
  PROVE  /\ PlanOK(r, x.copy, x.left, x.old) /\ x.left \in SUBSET Row /\ x.old \in SUBSET Row
         /\ \A i \in x.left \cup x.old : x.copy[i] = r[i] /\ i \in Row
         /\ \A i \in x.left : x.copy[i].state = "charter" /\ i \notin x.old
<1>1. x.agenda = << >> /\ \A i \in Due(x) : x.copy[i] = r[i]
  BY DEF MsOK, EdOK
<1>2. PICK W \in Ms!Rows : Leads(x.agenda, r, W) /\ PlanOK(W, x.copy, x.left, x.old)
  BY DEF MsOK, ApOK
<1>3. W = r
  BY <1>1, <1>2, NotEmpty DEF Leads
<1>4. PlanOK(r, x.copy, x.left, x.old)
  BY <1>2, <1>3
<1>5. \A i \in x.left : x.copy[i].state = "charter" /\ i \notin x.old
  BY <1>4 DEF PlanOK, Ms!Current
<1> QED BY <1>1, <1>4, <1>5, FieldsAre DEF Due

LEMMA CanPut ==
  ASSUME NEW r \in Ms!Rows, NEW p \in EdWork
  PROVE  \E V \in Ms!Rows : PutsRow(r, p, V)
<1>1. [r EXCEPT ![p.row] = p.to] \in Ms!Rows
  BY DEF EdWork, Ms!Rows
<1>2. PutsRow(r, p, [r EXCEPT ![p.row] = p.to])
  BY DEF PutsRow, EdWork, Ms!Rows
<1> QED BY <1>1, <1>2

LEMMA RetireIs ==
  ASSUME RowsFinite, MsInv, NEW e \in Editor, Ms!Retire(e)
  PROVE  Advances(e)
<1>1. PICK x \in EdRec : x = editor[e]
  BY DEF MsInv, MsBase
<1>2. /\ MsOK(x, milestone, inHistory) /\ MsBase
      /\ x.op = "approve" /\ x.pc = "next" /\ x.left = {} /\ x.old # {}
  BY <1>1 DEF MsInv, Ms!Retire
<1>3. PICK r \in Ms!Rows : r = milestone
  BY <1>2 DEF MsBase
<1>4. /\ PlanOK(r, x.copy, {}, x.old) /\ x.old \in SUBSET Row /\ x.copy \in Ms!Rows
      /\ \A i \in x.old : x.copy[i] = r[i] /\ i \in Row
  BY <1>2, <1>3, ApproveAt, FieldsAre DEF MsBase
<1>5. PICK m \in x.old : m = Ms!Least(x.old)
  BY <1>2, <1>4, LeastIs
<1>6. PICK p \in EdWork : p = [row |-> m, to |-> [state |-> "deleted", text |-> x.copy[m].text]]
  BY <1>4, <1>5 DEF EdWork, Ms!Content, Ms!RowState, Ms!Rows
<1>7. PICK a \in Seq(EdWork) : a = <<p>>
  BY OneEntry
<1>8. Ms!Put(e, m, "deleted") = p
  BY <1>1, <1>6 DEF Ms!Put
<1>9. PICK left \in SUBSET Row, old \in SUBSET Row : left = {} /\ old = x.old \ {m}
  BY <1>4
<1>10. Ms!TurnsTo(e, left, old, a, "history")
  BY <1>1, <1>5, <1>7, <1>8, <1>9 DEF Ms!Retire
<1>11. "history" \in Ms!PC
  BY DEF Ms!PC
<1>12. /\ \E y \in EdRec : Fields(y, editor[e].op, "history", editor[e].copy, left, old, a) /\ Becomes(e, y)
       /\ milestone' = milestone /\ inHistory' = inHistory
  BY <1>2, <1>10, <1>11, TurnsIs
<1>13. PICK y \in EdRec : Fields(y, x.op, "history", x.copy, left, old, <<p>>) /\ Becomes(e, y)
  BY <1>1, <1>7, <1>12
<1>14. p.row \in Due(x) /\ p.row \notin Due(y)
  BY <1>2, <1>5, <1>6, <1>9, <1>13 DEF Due, Fields
<1>15. EdOK(y, milestone, inHistory)
  BY <1>2, <1>9, <1>13, <1>14, TurnsToOne DEF MsBase
<1>16. PICK V \in Ms!Rows : PutsRow(r, p, V)
  BY CanPut
<1>17. /\ V[m].state = "deleted" /\ V[m].text = x.copy[m].text /\ \A i \in Row \ {m} : V[i] = r[i]
       /\ p.to.text = r[p.row].text /\ p.to.state = "deleted"
  BY <1>4, <1>5, <1>6, <1>16 DEF PutsRow
<1>18. PlanOK(V, x.copy, {}, x.old \ {m})
  BY <1>4, <1>5, <1>17, PlanRetires
<1>19. Leads(<<p>>, r, V)
  BY <1>16, <1>17 DEF Leads
<1>20. ApOK(y, r)
  BY <1>9, <1>13, <1>18, <1>19 DEF ApOK, Fields
<1> QED BY <1>2, <1>3, <1>12, <1>13, <1>15, <1>20, Decides DEF MsOK

LEMMA ConcludeIs ==
  ASSUME MsInv, NEW e \in Editor, Ms!Conclude(e)
  PROVE  Advances(e)
<1>1. PICK x \in EdRec : x = editor[e]
  BY DEF MsInv, MsBase
<1>2. /\ MsOK(x, milestone, inHistory) /\ MsBase
      /\ x.op = "approve" /\ x.pc = "next" /\ x.left = {} /\ x.old = {}
  BY <1>1 DEF MsInv, Ms!Conclude
<1>3. PlanOK(milestone, x.copy, {}, {})
  BY <1>2, ApproveAt DEF MsBase
<1>4. Ms!TurnsTo(e, {}, {}, << >>, "announce")
  BY DEF Ms!Conclude
<1>5. "announce" \in Ms!PC
  BY DEF Ms!PC
<1>6. /\ \E y \in EdRec : Fields(y, editor[e].op, "announce", editor[e].copy, {}, {}, << >>) /\ Becomes(e, y)
      /\ milestone' = milestone /\ inHistory' = inHistory
  BY <1>2, <1>4, <1>5, TurnsIs, EmptyIs
<1>7. PICK y \in EdRec : Fields(y, "approve", "announce", x.copy, {}, {}, << >>) /\ Becomes(e, y)
  BY <1>1, <1>2, <1>6
<1>8. EdOK(y, milestone, inHistory)
  BY <1>7 DEF EdOK, Fields, Due
<1>9. ApOK(y, milestone)
  BY <1>2, <1>3, <1>7 DEF ApOK, Fields, Leads, MsBase
<1> QED BY <1>2, <1>6, <1>7, <1>8, <1>9, Decides DEF MsOK

\* The three things approve does with a milestone of the charter
MoveIn(e, x, m) ==
  Ms!TurnsTo(e, x.left \ {m}, x.old, <<Ms!Put(e, m, "active")>>, "history")
KeepIt(e, x, m, o) ==
  Ms!TurnsTo(e, x.left \ {m}, x.old \ {o}, <<Ms!Put(e, m, "deleted")>>, "history")
KeepBoth(e, x, m, o) ==
  Ms!TurnsTo(e, x.left \ {m}, x.old \ {o}, <<Ms!Put(e, o, "active"), Ms!Put(e, m, "deleted")>>, "history")

LEMMA PutIs ==
  ASSUME MsBase, NEW e \in Editor, NEW x \in EdRec, x = editor[e], NEW i \in Row, NEW s \in Ms!RowState
  PROVE  \E p \in EdWork : p = Ms!Put(e, i, s) /\ p.row = i /\ p.to.state = s /\ p.to.text = x.copy[i].text
<1>1. PICK t \in Text : t = x.copy[i].text
  BY FieldsAre DEF Ms!Rows, Ms!Content
<1>2. PICK p : p = [row |-> i, to |-> [state |-> s, text |-> t]]
  OBVIOUS
<1>3. p \in EdWork /\ p.row = i /\ p.to.state = s /\ p.to.text = t
  BY <1>2 DEF EdWork, Ms!Content
<1>4. p = Ms!Put(e, i, s)
  BY <1>1, <1>2 DEF Ms!Put
<1> QED BY <1>1, <1>3, <1>4

LEMMA TakeOverIs ==
  ASSUME RowsFinite, MsBase, NEW e \in Editor, NEW x \in EdRec, x = editor[e], Ms!TakeOver(e)
  PROVE  /\ x.op = "approve" /\ x.pc = "next"
         /\ \E m \in x.left : \/ (\A o \in x.old : x.copy[o].text # x.copy[m].text) /\ MoveIn(e, x, m)
                              \/ \E o \in x.old : /\ x.copy[o].text = x.copy[m].text
                                                  /\ \/ x.copy[o].state = "active" /\ KeepIt(e, x, m, o)
                                                     \/ KeepBoth(e, x, m, o)
<1>1. x.left \in SUBSET Row /\ x.old \in SUBSET Row /\ x.copy \in Ms!Rows
  BY FieldsAre
<1>2. x.op = "approve" /\ x.pc = "next" /\ x.left # {}
  BY DEF Ms!TakeOver
<1>3. PICK m \in x.left : m = Ms!Least(x.left)
  BY <1>1, <1>2, LeastIs
<1>4. PICK S \in SUBSET x.old : S = Ms!Same(e, m) /\ S = {o \in x.old : x.copy[o].text = x.copy[m].text}
  BY DEF Ms!Same
<1>5. PICK o : o = Ms!Least(S)
  OBVIOUS
<1>6. IF S = {}
      THEN Ms!TurnsTo(e, x.left \ {m}, x.old, <<Ms!Put(e, m, "active")>>, "history")
      ELSE Ms!TurnsTo(e, x.left \ {m}, x.old \ {o},
                      (IF x.copy[o].state = "active" THEN << >> ELSE <<Ms!Put(e, o, "active")>>)
                         \o <<Ms!Put(e, m, "deleted")>>, "history")
  BY <1>3, <1>4, <1>5, Zenon DEF Ms!TakeOver
<1>7. CASE S = {}
  BY <1>2, <1>4, <1>6, <1>7 DEF MoveIn
<1>8. CASE S # {}
  <2>1. o \in x.old /\ x.copy[o].text = x.copy[m].text /\ o \in Row /\ m \in Row
    BY <1>1, <1>4, <1>5, <1>8, LeastIs
  <2>2. PICK p \in EdWork : p = Ms!Put(e, o, "active")
    BY <2>1, PutIs DEF Ms!RowState
  <2>3. PICK q \in EdWork : q = Ms!Put(e, m, "deleted")
    BY <2>1, PutIs DEF Ms!RowState
  <2>4. PICK none, one, a : /\ none = << >> \o <<q>> /\ one = <<p>> \o <<q>>
                            /\ a = (IF x.copy[o].state = "active" THEN << >> ELSE <<p>>) \o <<q>>
    OBVIOUS
  <2>5. none = <<q>> /\ one = <<p, q>>
    BY <2>4, OneEntry, TwoEntries
  <2>6. a = IF x.copy[o].state = "active" THEN <<q>> ELSE <<p, q>>
    BY <2>4, <2>5
  <2>7. Ms!TurnsTo(e, x.left \ {m}, x.old \ {o}, a, "history")
    BY <1>6, <1>8, <2>2, <2>3, <2>4
  <2>8. \/ x.copy[o].state = "active" /\ KeepIt(e, x, m, o)
        \/ KeepBoth(e, x, m, o)
    BY <2>2, <2>3, <2>6, <2>7 DEF KeepIt, KeepBoth
  <2> QED BY <1>2, <2>1, <2>8
<1> QED BY <1>7, <1>8

LEMMA MoveInIs ==
  ASSUME RowsFinite, MsInv, NEW e \in Editor, NEW x \in EdRec, x = editor[e],
         x.op = "approve", x.pc = "next", NEW m \in x.left,
         \A o \in x.old : x.copy[o].text # x.copy[m].text, MoveIn(e, x, m)
  PROVE  Advances(e)
<1>1. MsOK(x, milestone, inHistory) /\ MsBase
  BY DEF MsInv
<1>2. PICK r \in Ms!Rows : r = milestone
  BY <1>1 DEF MsBase
<1>3. /\ PlanOK(r, x.copy, x.left, x.old) /\ x.copy \in Ms!Rows
      /\ x.left \in SUBSET Row /\ x.old \in SUBSET Row
      /\ x.copy[m] = r[m] /\ x.copy[m].state = "charter" /\ m \in Row /\ m \notin x.old
  <2>1. MsOK(x, r, inHistory) /\ inHistory \in SUBSET Row
    BY <1>1, <1>2 DEF MsBase
  <2>2. x.copy \in Ms!Rows
    BY FieldsAre
  <2>3. /\ PlanOK(r, x.copy, x.left, x.old) /\ x.left \in SUBSET Row /\ x.old \in SUBSET Row
        /\ \A i \in x.left \cup x.old : x.copy[i] = r[i] /\ i \in Row
        /\ \A i \in x.left : x.copy[i].state = "charter" /\ i \notin x.old
    BY <2>1, ApproveAt
  <2> QED BY <2>2, <2>3
<1>4. PICK p \in EdWork : p = Ms!Put(e, m, "active") /\ p.row = m /\ p.to.state = "active" /\ p.to.text = x.copy[m].text
  BY <1>1, <1>3, PutIs DEF Ms!RowState
<1>5. PICK a \in Seq(EdWork) : a = <<p>>
  BY OneEntry
<1>6. PICK left \in SUBSET Row, old \in SUBSET Row : left = x.left \ {m} /\ old = x.old
  BY <1>3
<1>7. Ms!TurnsTo(e, left, old, a, "history")
  BY <1>4, <1>5, <1>6 DEF MoveIn
<1>8. "history" \in Ms!PC
  BY DEF Ms!PC
<1>9. /\ \E y \in EdRec : Fields(y, editor[e].op, "history", editor[e].copy, left, old, a) /\ Becomes(e, y)
      /\ milestone' = milestone /\ inHistory' = inHistory
  BY <1>1, <1>7, <1>8, TurnsIs
<1>10. PICK y \in EdRec : Fields(y, x.op, "history", x.copy, left, old, <<p>>) /\ Becomes(e, y)
  BY <1>5, <1>9
<1>11. p.row \in Due(x) /\ p.row \notin Due(y)
  BY <1>3, <1>4, <1>6, <1>10 DEF Due, Fields
<1>12. EdOK(y, milestone, inHistory)
  <2>1. left \subseteq x.left /\ old \subseteq x.old
    BY <1>6
  <2>2. inHistory \in SUBSET Row /\ MsOK(x, r, inHistory)
    BY <1>1, <1>2 DEF MsBase
  <2>3. EdOK(y, r, inHistory)
    BY <1>10, <1>11, <2>1, <2>2, TurnsToOne
  <2> QED BY <1>2, <2>3
<1>13. PICK V \in Ms!Rows : PutsRow(r, p, V)
  BY CanPut
<1>14. /\ V[m].state = "active" /\ V[m].text = x.copy[m].text /\ \A i \in Row \ {m} : V[i] = r[i]
       /\ p.to.text = r[p.row].text /\ p.to.state = "active" /\ r[p.row].state = "charter"
  BY <1>3, <1>4, <1>13 DEF PutsRow
<1>15. PlanOK(V, x.copy, x.left \ {m}, x.old)
  BY <1>3, <1>14, PlanMoves
<1>16. Leads(<<p>>, r, V)
  BY <1>13, <1>14 DEF Leads
<1>17. ApOK(y, r)
  BY <1>6, <1>10, <1>15, <1>16 DEF ApOK, Fields
<1> QED BY <1>1, <1>2, <1>9, <1>10, <1>12, <1>17, Decides DEF MsOK

LEMMA KeepItIs ==
  ASSUME RowsFinite, MsInv, NEW e \in Editor, NEW x \in EdRec, x = editor[e],
         x.op = "approve", x.pc = "next", NEW m \in x.left, NEW o \in x.old,
         x.copy[o].text = x.copy[m].text, x.copy[o].state = "active", KeepIt(e, x, m, o)
  PROVE  Advances(e)
<1>1. MsOK(x, milestone, inHistory) /\ MsBase
  BY DEF MsInv
<1>2. PICK r \in Ms!Rows : r = milestone
  BY <1>1 DEF MsBase
<1>3. /\ PlanOK(r, x.copy, x.left, x.old) /\ x.copy \in Ms!Rows
      /\ x.left \in SUBSET Row /\ x.old \in SUBSET Row
      /\ x.copy[m] = r[m] /\ x.copy[m].state = "charter" /\ m \in Row /\ m \notin x.old
      /\ x.copy[o] = r[o] /\ o \in Row
  <2>1. MsOK(x, r, inHistory) /\ inHistory \in SUBSET Row
    BY <1>1, <1>2 DEF MsBase
  <2>2. x.copy \in Ms!Rows
    BY FieldsAre
  <2>3. /\ PlanOK(r, x.copy, x.left, x.old) /\ x.left \in SUBSET Row /\ x.old \in SUBSET Row
        /\ \A i \in x.left \cup x.old : x.copy[i] = r[i] /\ i \in Row
        /\ \A i \in x.left : x.copy[i].state = "charter" /\ i \notin x.old
    BY <2>1, ApproveAt
  <2> QED BY <2>2, <2>3
<1>4. PICK p \in EdWork : p = Ms!Put(e, m, "deleted") /\ p.row = m /\ p.to.state = "deleted" /\ p.to.text = x.copy[m].text
  BY <1>1, <1>3, PutIs DEF Ms!RowState
<1>5. PICK a \in Seq(EdWork) : a = <<p>>
  BY OneEntry
<1>6. PICK left \in SUBSET Row, old \in SUBSET Row : left = x.left \ {m} /\ old = x.old \ {o}
  BY <1>3
<1>7. Ms!TurnsTo(e, left, old, a, "history")
  BY <1>4, <1>5, <1>6 DEF KeepIt
<1>8. "history" \in Ms!PC
  BY DEF Ms!PC
<1>9. /\ \E y \in EdRec : Fields(y, editor[e].op, "history", editor[e].copy, left, old, a) /\ Becomes(e, y)
      /\ milestone' = milestone /\ inHistory' = inHistory
  BY <1>1, <1>7, <1>8, TurnsIs
<1>10. PICK y \in EdRec : Fields(y, x.op, "history", x.copy, left, old, <<p>>) /\ Becomes(e, y)
  BY <1>5, <1>9
<1>11. p.row \in Due(x) /\ p.row \notin Due(y)
  BY <1>3, <1>4, <1>6, <1>10 DEF Due, Fields
<1>12. EdOK(y, milestone, inHistory)
  <2>1. left \subseteq x.left /\ old \subseteq x.old
    BY <1>6
  <2>2. inHistory \in SUBSET Row /\ MsOK(x, r, inHistory)
    BY <1>1, <1>2 DEF MsBase
  <2>3. EdOK(y, r, inHistory)
    BY <1>10, <1>11, <2>1, <2>2, TurnsToOne
  <2> QED BY <1>2, <2>3
<1>13. PICK V \in Ms!Rows : PutsRow(r, p, V)
  BY CanPut
<1>14. /\ V[m].state = "deleted" /\ V[m].text = x.copy[m].text /\ \A i \in Row \ {m, o} : V[i] = r[i]
       /\ V[o].state = "active" /\ V[o].text = x.copy[o].text
       /\ p.to.text = r[p.row].text /\ p.to.state = "deleted"
  BY <1>3, <1>4, <1>13 DEF PutsRow
<1>15. PlanOK(V, x.copy, x.left \ {m}, x.old \ {o})
  BY <1>3, <1>14, PlanKeeps
<1>16. Leads(<<p>>, r, V)
  BY <1>13, <1>14 DEF Leads
<1>17. ApOK(y, r)
  BY <1>6, <1>10, <1>15, <1>16 DEF ApOK, Fields
<1> QED BY <1>1, <1>2, <1>9, <1>10, <1>12, <1>17, Decides DEF MsOK

LEMMA KeepBothIs ==
  ASSUME RowsFinite, MsInv, NEW e \in Editor, NEW x \in EdRec, x = editor[e],
         x.op = "approve", x.pc = "next", NEW m \in x.left, NEW o \in x.old,
         x.copy[o].text = x.copy[m].text, KeepBoth(e, x, m, o)
  PROVE  Advances(e)
<1>1. MsOK(x, milestone, inHistory) /\ MsBase
  BY DEF MsInv
<1>2. PICK r \in Ms!Rows : r = milestone
  BY <1>1 DEF MsBase
<1>3. /\ PlanOK(r, x.copy, x.left, x.old) /\ x.copy \in Ms!Rows
      /\ x.left \in SUBSET Row /\ x.old \in SUBSET Row
      /\ x.copy[m] = r[m] /\ x.copy[m].state = "charter" /\ m \in Row /\ m \notin x.old
      /\ x.copy[o] = r[o] /\ o \in Row /\ o \notin x.left
  <2>1. MsOK(x, r, inHistory) /\ inHistory \in SUBSET Row
    BY <1>1, <1>2 DEF MsBase
  <2>2. x.copy \in Ms!Rows
    BY FieldsAre
  <2>3. /\ PlanOK(r, x.copy, x.left, x.old) /\ x.left \in SUBSET Row /\ x.old \in SUBSET Row
        /\ \A i \in x.left \cup x.old : x.copy[i] = r[i] /\ i \in Row
        /\ \A i \in x.left : x.copy[i].state = "charter" /\ i \notin x.old
    BY <2>1, ApproveAt
  <2> QED BY <2>2, <2>3
<1>4. PICK p \in EdWork : p = Ms!Put(e, o, "active") /\ p.row = o /\ p.to.state = "active" /\ p.to.text = x.copy[o].text
  BY <1>1, <1>3, PutIs DEF Ms!RowState
<1>5. PICK q \in EdWork : q = Ms!Put(e, m, "deleted") /\ q.row = m /\ q.to.state = "deleted" /\ q.to.text = x.copy[m].text
  BY <1>1, <1>3, PutIs DEF Ms!RowState
<1>6. PICK a \in Seq(EdWork) : a = <<p, q>>
  BY TwoEntries
<1>7. PICK left \in SUBSET Row, old \in SUBSET Row : left = x.left \ {m} /\ old = x.old \ {o}
  BY <1>3
<1>8. Ms!TurnsTo(e, left, old, a, "history")
  BY <1>4, <1>5, <1>6, <1>7 DEF KeepBoth
<1>9. "history" \in Ms!PC
  BY DEF Ms!PC
<1>10. /\ \E y \in EdRec : Fields(y, editor[e].op, "history", editor[e].copy, left, old, a) /\ Becomes(e, y)
       /\ milestone' = milestone /\ inHistory' = inHistory
  BY <1>1, <1>8, <1>9, TurnsIs
<1>11. PICK y \in EdRec : Fields(y, x.op, "history", x.copy, left, old, <<p, q>>) /\ Becomes(e, y)
  BY <1>6, <1>10
<1>12. /\ p.row \in Due(x) /\ p.row \notin Due(y)
       /\ q.row \in Due(x) /\ q.row \notin Due(y) /\ p.row # q.row
  <2>1. Due(x) = x.left \cup x.old
    BY DEF Due
  <2>2. Due(y) = left \cup old
    BY <1>11 DEF Due, Fields
  <2>3. m # o
    BY <1>3
  <2> QED BY <1>3, <1>4, <1>5, <1>7, <2>1, <2>2, <2>3
<1>13. EdOK(y, milestone, inHistory)
  <2>1. left \subseteq x.left /\ old \subseteq x.old
    BY <1>7
  <2>2. inHistory \in SUBSET Row /\ MsOK(x, r, inHistory)
    BY <1>1, <1>2 DEF MsBase
  <2>3. EdOK(y, r, inHistory)
    BY <1>11, <1>12, <2>1, <2>2, TurnsToTwo
  <2> QED BY <1>2, <2>3
<1>14. PICK U \in Ms!Rows : PutsRow(r, p, U)
  BY CanPut
<1>15. PICK V \in Ms!Rows : PutsRow(U, q, V)
  BY CanPut
<1>16. /\ V[m].state = "deleted" /\ V[m].text = x.copy[m].text /\ \A i \in Row \ {m, o} : V[i] = r[i]
       /\ V[o].state = "active" /\ V[o].text = x.copy[o].text
  BY <1>3, <1>4, <1>5, <1>12, <1>14, <1>15 DEF PutsRow
<1>17. PlanOK(V, x.copy, x.left \ {m}, x.old \ {o})
  BY <1>3, <1>16, PlanKeeps
<1>18. /\ V[p.row] = p.to /\ V[q.row] = q.to /\ \A i \in Row \ {p.row, q.row} : V[i] = r[i]
       /\ p.to.state = "active" /\ q.to.state = "deleted" /\ r[q.row].state = "charter"
       /\ p.to.text = r[p.row].text /\ q.to.text = r[q.row].text /\ p.to.text = q.to.text
  BY <1>3, <1>4, <1>5, <1>12, <1>14, <1>15 DEF PutsRow
<1>19. Leads(<<p, q>>, r, V)
  BY <1>12, <1>18 DEF Leads
<1>20. ApOK(y, r)
  BY <1>7, <1>11, <1>17, <1>19 DEF ApOK, Fields
<1> QED BY <1>1, <1>2, <1>10, <1>11, <1>13, <1>20, Decides DEF MsOK

LEMMA TakesOver ==
  ASSUME RowsFinite, MsInv, NEW e \in Editor, Ms!TakeOver(e)
  PROVE  Advances(e)
<1>1. PICK x \in EdRec : x = editor[e]
  BY DEF MsInv, MsBase
<1>2. MsBase
  BY DEF MsInv
<1>3. /\ x.op = "approve" /\ x.pc = "next"
      /\ \E m \in x.left : \/ (\A o \in x.old : x.copy[o].text # x.copy[m].text) /\ MoveIn(e, x, m)
                           \/ \E o \in x.old : /\ x.copy[o].text = x.copy[m].text
                                               /\ \/ x.copy[o].state = "active" /\ KeepIt(e, x, m, o)
                                                  \/ KeepBoth(e, x, m, o)
  BY <1>1, <1>2, TakeOverIs
<1>4. PICK m \in x.left : \/ (\A o \in x.old : x.copy[o].text # x.copy[m].text) /\ MoveIn(e, x, m)
                          \/ \E o \in x.old : /\ x.copy[o].text = x.copy[m].text
                                              /\ \/ x.copy[o].state = "active" /\ KeepIt(e, x, m, o)
                                                 \/ KeepBoth(e, x, m, o)
  BY <1>3
<1>5. CASE (\A o \in x.old : x.copy[o].text # x.copy[m].text) /\ MoveIn(e, x, m)
  BY <1>1, <1>3, <1>5, MoveInIs
<1>6. ASSUME NEW o \in x.old, x.copy[o].text = x.copy[m].text, x.copy[o].state = "active", KeepIt(e, x, m, o)
      PROVE  Advances(e)
  BY <1>1, <1>3, <1>6, KeepItIs
<1>7. ASSUME NEW o \in x.old, x.copy[o].text = x.copy[m].text, KeepBoth(e, x, m, o)
      PROVE  Advances(e)
  BY <1>1, <1>3, <1>7, KeepBothIs
<1> QED BY <1>4, <1>5, <1>6, <1>7

\* The history of the row that is written next
LEMMA HistoryOK ==
  ASSUME NEW r \in Ms!Rows, NEW h \in SUBSET Row, NEW g \in SUBSET Row, NEW x \in EdRec, MsOK(x, r, h),
         x.pc = "history", NEW y \in EdRec,
         Fields(y, x.op, "save", x.copy, x.left, x.old, x.agenda),
         x.copy[Head(x.agenda).row] = r[Head(x.agenda).row] => Head(x.agenda).row \in g
  PROVE  MsOK(y, r, g)
<1>1. Ready(x, r, h) /\ x.op # "none" /\ \A i \in Due(x) : x.copy[i] = r[i]
  BY DEF MsOK, EdOK
<1>2. /\ Due(y) = Due(x) /\ y.copy = x.copy /\ y.agenda = x.agenda /\ y.pc = "save" /\ y.op = x.op
      /\ y.left = x.left /\ y.old = x.old
  BY DEF Fields, Due
<1>3. Ready(y, r, g)
  <2>1. ASSUME NEW p \in EdWork, x.agenda = <<p>>, Sure(x, r, p) PROVE Ready(y, r, g)
    <3>1. Sure(y, r, p) /\ y.agenda = <<p>>
      BY <1>2, <2>1 DEF Sure
    <3>2. Head(x.agenda) = p
      BY <2>1, OneEntry
    <3>3. p.row \in g
      BY <2>1, <3>2 DEF Sure
    <3> QED BY <3>1, <3>3 DEF Ready
  <2>2. ASSUME NEW p \in EdWork, NEW q \in EdWork, x.agenda = <<p, q>>, p.row # q.row, Sure(x, r, p), Sure(x, r, q)
        PROVE  Ready(y, r, g)
    <3>1. Sure(y, r, p) /\ Sure(y, r, q) /\ y.agenda = <<p, q>>
      BY <1>2, <2>2 DEF Sure
    <3>2. Head(x.agenda) = p
      BY <2>2, TwoEntries
    <3>3. p.row \in g
      BY <2>2, <3>2 DEF Sure
    <3> QED BY <2>2, <3>1, <3>3 DEF Ready
  <2> QED BY <1>1, <2>1, <2>2 DEF Ready
<1>4. EdOK(y, r, g)
  BY <1>1, <1>2, <1>3 DEF EdOK
<1>5. ApOK(y, r)
  BY <1>2 DEF MsOK, ApOK
<1> QED BY <1>4, <1>5 DEF MsOK

LEMMA AgendaIs ==
  ASSUME NEW r \in Ms!Rows, NEW h \in SUBSET Row, NEW x \in EdRec, MsOK(x, r, h), x.pc \in {"history", "save", "create"}
  PROVE  Head(x.agenda) \in EdWork
<1>1. ASSUME NEW p \in EdWork, x.agenda = <<p>> PROVE Head(x.agenda) \in EdWork
  BY <1>1, OneEntry
<1>2. ASSUME NEW p \in EdWork, NEW q \in EdWork, x.agenda = <<p, q>> PROVE Head(x.agenda) \in EdWork
  BY <1>2, TwoEntries
<1> QED BY <1>1, <1>2 DEF MsOK, EdOK, Ready, Creates

LEMMA SaveHistoryIs ==
  ASSUME MsInv, NEW e \in Editor, Ms!SaveHistory(e)
  PROVE  Advances(e)
<1>1. PICK x \in EdRec : x = editor[e]
  BY DEF MsInv, MsBase
<1>2. /\ MsOK(x, milestone, inHistory) /\ MsBase /\ x.pc = "history"
      /\ milestone \in Ms!Rows /\ inHistory \in SUBSET Row
  BY <1>1 DEF MsInv, MsBase, Ms!SaveHistory
<1>3. PICK w \in EdWork : w = Head(x.agenda)
  BY <1>2, AgendaIs
<1>4. w.row \in Row
  BY DEF EdWork
<1>5. inHistory' = IF x.copy[w.row] = milestone[w.row] THEN inHistory \cup {w.row} ELSE inHistory
  BY <1>1, <1>3 DEF Ms!SaveHistory
<1>6. milestone' = milestone /\ inHistory' \in SUBSET Row
  BY <1>2, <1>4, <1>5 DEF Ms!SaveHistory
<1>7. editor' = [editor EXCEPT ![e] = [editor[e] EXCEPT !.pc = "save"]]
  BY DEF Ms!SaveHistory, MsInv, MsBase
<1>8. PICK y : y = [x EXCEPT !.pc = "save"]
  OBVIOUS
<1>9. "save" \in Ms!PC
  BY DEF Ms!PC
<1>10. Fields(y, x.op, "save", x.copy, x.left, x.old, x.agenda) /\ y \in EdRec
  BY <1>8, <1>9, ChangeOne DEF Fields
<1>11. Becomes(e, y)
  BY <1>1, <1>7, <1>8, Zenon DEF Becomes
<1>12. PICK g \in SUBSET Row : g = inHistory'
  BY <1>6
<1>13. x.copy[Head(x.agenda).row] = milestone[Head(x.agenda).row] => Head(x.agenda).row \in g
  BY <1>3, <1>5, <1>12
<1>14. MsOK(y, milestone, g)
  BY <1>2, <1>10, <1>13, HistoryOK
<1>15. MsOK(y, milestone', inHistory')
  BY <1>6, <1>12, <1>14
<1>16. Ms!Recorded
  BY <1>6 DEF Ms!Recorded
<1> QED BY <1>2, <1>6, <1>10, <1>11, <1>15, <1>16 DEF Advances

\* A row that is written: s has it, and the history no longer does.
RowIsWritten(r, h, w, s, g) == PutsRow(r, w, s) /\ g = h \ {w.row}

LEMMA EndsOK ==
  ASSUME NEW r \in Ms!Rows, NEW h \in SUBSET Row, NEW s \in Ms!Rows, NEW g \in SUBSET Row, NEW x \in EdRec,
         MsOK(x, r, h), x.pc \in {"save", "create"}, x.op \in {"reset", "approve"}, NEW p \in EdWork, x.agenda = <<p>>,
         RowIsWritten(r, h, p, s, g), NEW y \in EdRec, Fields(y, x.op, "next", x.copy, x.left, x.old, << >>)
  PROVE  MsOK(y, s, g)
<1>1. \A i \in Due(x) : x.copy[i] = r[i] /\ i \in Row
  <2>1. x.left \in SUBSET Row /\ x.old \in SUBSET Row
    BY FieldsAre
  <2> QED BY <2>1 DEF MsOK, EdOK, Due
<1>2. /\ Due(y) = Due(x) /\ y.copy = x.copy /\ y.agenda = << >> /\ y.pc = "next" /\ y.op = x.op
      /\ y.left = x.left /\ y.old = x.old
  BY DEF Fields, Due
<1>3. CASE x.pc = "save"
  <2>1. Ready(x, r, h)
    BY <1>3 DEF MsOK, EdOK
  <2>2. Sure(x, r, p)
    <3>1. ASSUME NEW o \in EdWork, x.agenda = <<o>> PROVE o = p
      BY <3>1, NotBoth
    <3>2. ASSUME NEW o \in EdWork, NEW q \in EdWork, x.agenda = <<o, q>> PROVE FALSE
      <4>1. <<o, q>> # <<p>>
        BY NotBoth, Zenon
      <4>2. <<o, q>> = <<p>>
        BY <3>2, Zenon
      <4> QED BY <4>1, <4>2, Zenon
    <3> QED BY <2>1, <3>1, <3>2 DEF Ready
  <2>3. \A i \in Due(y) : y.copy[i] = s[i]
    BY <1>1, <1>2, <2>2 DEF Sure, RowIsWritten, PutsRow
  <2>4. EdOK(y, s, g)
    BY <1>2, <2>3 DEF EdOK
  <2>5. ASSUME x.op = "approve" PROVE \E W \in Ms!Rows : Leads(<< >>, s, W) /\ PlanOK(W, x.copy, x.left, x.old)
    <3>1. PICK W \in Ms!Rows : Leads(<<p>>, r, W) /\ PlanOK(W, x.copy, x.left, x.old)
      BY <2>5 DEF MsOK, ApOK
    <3>2. PutsRow(r, p, W)
      <4>1. ASSUME NEW o \in EdWork, <<p>> = <<o>>, PutsRow(r, o, W) PROVE PutsRow(r, p, W)
        <5>1. o = p
          BY <4>1, NotBoth
        <5> QED BY <4>1, <5>1
      <4>2. ASSUME NEW o \in EdWork, NEW q \in EdWork, <<p>> = <<o, q>> PROVE FALSE
        <5>1. <<p>> # <<o, q>>
          BY NotBoth, Zenon
        <5>2. <<p>> = <<o, q>>
          BY <4>2, Zenon
        <5> QED BY <5>1, <5>2, Zenon
      <4>3. <<p>> # << >>
        BY NotEmpty
      <4> QED BY <3>1, <4>1, <4>2, <4>3 DEF Leads
    <3>3. W = s
      BY <3>2 DEF RowIsWritten, PutsRow, Ms!Rows
    <3> QED BY <3>1, <3>3 DEF Leads
  <2> QED BY <1>2, <2>4, <2>5 DEF MsOK, ApOK
<1>4. CASE x.pc = "create"
  <2>1. x.op = "reset" /\ x.left = {}
    BY <1>4 DEF MsOK, EdOK, Creates
  <2>2. Due(y) = {}
    BY <1>2, <2>1 DEF Due
  <2>3. EdOK(y, s, g)
    BY <1>2, <2>2 DEF EdOK
  <2> QED BY <1>2, <2>1, <2>3 DEF MsOK, ApOK
<1> QED BY <1>3, <1>4

LEMMA NextEntryOK ==
  ASSUME NEW r \in Ms!Rows, NEW h \in SUBSET Row, NEW s \in Ms!Rows, NEW g \in SUBSET Row, NEW x \in EdRec,
         MsOK(x, r, h), x.pc = "save", NEW p \in EdWork, NEW q \in EdWork, x.agenda = <<p, q>>,
         RowIsWritten(r, h, p, s, g), NEW y \in EdRec, Fields(y, x.op, "history", x.copy, x.left, x.old, <<q>>)
  PROVE  MsOK(y, s, g)
<1>1. \A i \in Due(x) : x.copy[i] = r[i] /\ i \in Row
  <2>1. x.left \in SUBSET Row /\ x.old \in SUBSET Row
    BY FieldsAre
  <2> QED BY <2>1 DEF MsOK, EdOK, Due
<1>2. /\ Due(y) = Due(x) /\ y.copy = x.copy /\ y.agenda = <<q>> /\ y.pc = "history" /\ y.op = x.op
      /\ y.left = x.left /\ y.old = x.old /\ x.op # "none"
  BY DEF Fields, Due, MsOK, EdOK
<1>3. Ready(x, r, h)
  BY DEF MsOK, EdOK
<1>4. Sure(x, r, p) /\ Sure(x, r, q) /\ p.row # q.row
  <2>1. ASSUME NEW o \in EdWork, x.agenda = <<o>> PROVE FALSE
    <3>1. <<p, q>> # <<o>>
      BY NotBoth, Zenon
    <3>2. <<p, q>> = <<o>>
      BY <2>1, Zenon
    <3> QED BY <3>1, <3>2, Zenon
  <2>2. ASSUME NEW o \in EdWork, NEW m \in EdWork, x.agenda = <<o, m>> PROVE o = p /\ m = q
    <3>1. <<o, m>> = <<p, q>>
      BY <2>2
    <3> QED BY <3>1, NotBoth2
  <2> QED BY <1>3, <2>1, <2>2 DEF Ready
<1>5. p.row \in Row /\ q.row \in Row
  BY DEF EdWork
<1>6. /\ \A i \in Due(y) : y.copy[i] = s[i]
      /\ Sure(y, s, q)
  BY <1>1, <1>2, <1>4, <1>5 DEF Sure, RowIsWritten, PutsRow
<1>7. Ready(y, s, g)
  BY <1>2, <1>6 DEF Ready
<1>8. EdOK(y, s, g)
  BY <1>2, <1>6, <1>7 DEF EdOK
<1>9. ASSUME x.op = "approve" PROVE \E W \in Ms!Rows : Leads(<<q>>, s, W) /\ PlanOK(W, x.copy, x.left, x.old)
  <2>1. PICK W \in Ms!Rows : Leads(<<p, q>>, r, W) /\ PlanOK(W, x.copy, x.left, x.old)
    BY <1>9 DEF MsOK, ApOK
  <2>2. /\ W[p.row] = p.to /\ W[q.row] = q.to /\ \A i \in Row \ {p.row, q.row} : W[i] = r[i]
        /\ q.to.state = "deleted" /\ q.to.text = r[q.row].text
    <3>1. ASSUME NEW o \in EdWork, <<p, q>> = <<o>> PROVE FALSE
      <4>1. <<p, q>> # <<o>>
        BY NotBoth, Zenon
      <4>2. <<p, q>> = <<o>>
        BY <3>1, Zenon
      <4> QED BY <4>1, <4>2, Zenon
    <3>2. ASSUME NEW o \in EdWork, NEW m \in EdWork, <<p, q>> = <<o, m>> PROVE o = p /\ m = q
      <4>1. <<o, m>> = <<p, q>>
        BY <3>2
      <4> QED BY <4>1, NotBoth2
    <3>3. <<p, q>> # << >>
      BY NotEmpty
    <3> QED BY <2>1, <3>1, <3>2, <3>3 DEF Leads
  <2>3. PutsRow(s, q, W) /\ q.to.text = s[q.row].text
    BY <1>4, <1>5, <2>2 DEF RowIsWritten, PutsRow
  <2>4. Leads(<<q>>, s, W)
    BY <2>2, <2>3 DEF Leads
  <2> QED BY <2>1, <2>4
<1>10. ApOK(y, s)
  BY <1>2, <1>9 DEF ApOK
<1> QED BY <1>8, <1>10 DEF MsOK

LEMMA SaveRowIs ==
  ASSUME Text # {}, MsInv, NEW e \in Editor, Ms!SaveRow(e)
  PROVE  Advances(e)
<1>1. PICK x \in EdRec : x = editor[e]
  BY DEF MsInv, MsBase
<1>2. PICK r \in Ms!Rows, h \in SUBSET Row : r = milestone /\ h = inHistory
  BY DEF MsInv, MsBase
<1>3. MsOK(x, r, h) /\ MsBase /\ x.pc \in {"save", "create"}
  BY <1>1, <1>2 DEF MsInv, Ms!SaveRow
<1>4. PICK p \in EdWork : p = Head(x.agenda)
  BY <1>3, AgendaIs
<1>5. p.row \in Row /\ p.to \in Ms!Content
  BY DEF EdWork
<1>6. milestone' = [r EXCEPT ![p.row] = p.to] /\ inHistory' = h \ {p.row}
  BY <1>1, <1>2, <1>4 DEF Ms!SaveRow
<1>7. PICK s \in Ms!Rows, g \in SUBSET Row : s = milestone' /\ g = inHistory'
  <2>1. milestone' \in Ms!Rows
    BY <1>5, <1>6 DEF Ms!Rows
  <2> QED BY <1>6, <2>1
<1>8. RowIsWritten(r, h, p, s, g)
  BY <1>5, <1>6, <1>7 DEF RowIsWritten, PutsRow, Ms!Rows
<1>9. editor' = [editor EXCEPT ![e] = Ms!Onward(e)]
  BY DEF Ms!SaveRow
<1>10. Ms!Onward(e) = IF Tail(x.agenda) # << >> THEN [x EXCEPT !.pc = "history", !.agenda = Tail(x.agenda)]
                      ELSE IF x.op \in {"edit", "add"} THEN Ms!Resting
                      ELSE [x EXCEPT !.pc = "next", !.agenda = << >>]
  BY <1>1, Zenon DEF Ms!Onward
<1>11. "history" \in Ms!PC /\ "next" \in Ms!PC /\ << >> \in Seq(EdWork)
  BY EmptyIs DEF Ms!PC
<1>12. \A i \in Row : s[i] # r[i] => r[i].state = "none" \/ i \in h
  <2>1. r[p.row].state = "none" \/ p.row \in h
    <3>1. CASE x.pc = "create"
      <4>1. ASSUME NEW o \in EdWork, x.agenda = <<o>> PROVE o = p
        BY <1>4, <4>1, OneEntry
      <4> QED BY <1>3, <3>1, <4>1 DEF MsOK, EdOK, Creates
    <3>2. CASE x.pc = "save"
      <4>1. ASSUME NEW o \in EdWork, x.agenda = <<o>> PROVE o = p
        BY <1>4, <4>1, OneEntry
      <4>2. ASSUME NEW o \in EdWork, NEW q \in EdWork, x.agenda = <<o, q>> PROVE o = p
        BY <1>4, <4>2, TwoEntries
      <4> QED BY <1>3, <3>2, <4>1, <4>2 DEF MsOK, EdOK, Ready
    <3> QED BY <1>3, <3>1, <3>2
  <2> QED BY <1>8, <2>1 DEF RowIsWritten, PutsRow
<1>13. Ms!Recorded
  BY <1>2, <1>7, <1>12 DEF Ms!Recorded
<1>14. ASSUME x.agenda = <<p>> PROVE \E y \in EdRec : y = Ms!Onward(e) /\ MsOK(y, s, g)
  <2>1. Tail(x.agenda) = << >>
    BY <1>14, OneEntry
  <2>2. CASE x.op \in {"edit", "add"}
    BY <1>10, <2>1, <2>2, RestIs
  <2>3. CASE x.op \notin {"edit", "add"}
    <3>1. PICK y : y = [x EXCEPT !.pc = "next", !.agenda = << >>]
      OBVIOUS
    <3>2. y = Ms!Onward(e)
      BY <1>10, <2>1, <2>3, <3>1
    <3>3. Fields(y, x.op, "next", x.copy, x.left, x.old, << >>) /\ y \in EdRec
      <4>1. Fields(y, x.op, "next", x.copy, x.left, x.old, << >>)
        BY <1>11, <3>1, ChangeTwo
      <4> QED BY <4>1 DEF Fields
    <3>4. x.op \in {"reset", "approve"}
      <4>1. x.op # "none" /\ x.op \in Ms!Op
        BY <1>3, FieldsAre DEF MsOK, EdOK
      <4> QED BY <2>3, <4>1 DEF Ms!Op
    <3>5. MsOK(y, s, g)
      BY <1>3, <1>8, <1>14, <3>3, <3>4, EndsOK
    <3> QED BY <3>2, <3>3, <3>5
  <2> QED BY <2>2, <2>3
<1>15. ASSUME x.pc = "save", NEW q \in EdWork, x.agenda = <<p, q>>
       PROVE  \E y \in EdRec : y = Ms!Onward(e) /\ MsOK(y, s, g)
  <2>1. Tail(x.agenda) = <<q>> /\ <<q>> # << >> /\ <<q>> \in Seq(EdWork)
    BY <1>15, OneEntry, TwoEntries
  <2>2. PICK a \in Seq(EdWork) : a = <<q>> /\ a = Tail(x.agenda) /\ a # << >>
    BY <2>1
  <2>3. PICK y : y = [x EXCEPT !.pc = "history", !.agenda = a]
    OBVIOUS
  <2>4. y = Ms!Onward(e)
    BY <1>10, <2>2, <2>3
  <2>5. Fields(y, x.op, "history", x.copy, x.left, x.old, a) /\ y \in EdRec
    <3>1. Fields(y, x.op, "history", x.copy, x.left, x.old, a)
      BY <1>11, <2>3, ChangeTwo
    <3> QED BY <3>1 DEF Fields
  <2>6. Fields(y, x.op, "history", x.copy, x.left, x.old, <<q>>)
    BY <2>2, <2>5
  <2>7. MsOK(y, s, g)
    BY <1>3, <1>8, <1>15, <2>5, <2>6, NextEntryOK
  <2> QED BY <2>4, <2>5, <2>7
<1>16. \E y \in EdRec : y = Ms!Onward(e) /\ MsOK(y, s, g)
  <2>1. \/ x.agenda = <<p>>
        \/ x.pc = "save" /\ \E q \in EdWork : x.agenda = <<p, q>>
    <3>1. ASSUME NEW o \in EdWork, x.agenda = <<o>> PROVE x.agenda = <<p>>
      <4>1. o = p
        BY <1>4, <3>1, OneEntry
      <4> QED BY <3>1, <4>1
    <3>2. ASSUME NEW o \in EdWork, NEW q \in EdWork, x.agenda = <<o, q>> PROVE x.agenda = <<p, q>>
      <4>1. o = p
        BY <1>4, <3>2, TwoEntries
      <4> QED BY <3>2, <4>1
    <3> QED BY <1>3, <3>1, <3>2 DEF MsOK, EdOK, Ready, Creates
  <2> QED BY <1>14, <1>15, <2>1
<1>17. PICK y \in EdRec : y = Ms!Onward(e) /\ MsOK(y, s, g)
  BY <1>16
<1>18. Becomes(e, y)
  BY <1>9, <1>17 DEF Becomes
<1> QED BY <1>7, <1>13, <1>17, <1>18 DEF Advances

LEMMA MsStep ==
  ASSUME OneEditor, RowsFinite, Text # {}, MsInv, Ms!NextOK \/ Ms!Abort
  PROVE  MsInv' /\ Ms!Recorded
<1>1. MsBase
  BY DEF MsInv
<1>2. ASSUME NEW e \in Editor, Ms!Start(e) PROVE Advances(e)
  BY <1>1, <1>2, EditIs, AddIs, ResetIs, ApproveIs DEF Ms!Start
<1>3. ASSUME NEW e \in Editor, Ms!Announce(e) PROVE Advances(e)
  BY <1>1, <1>3, Rests DEF Ms!Announce
<1>4. ASSUME NEW e \in Editor, Ms!Dies(e) PROVE Advances(e)
  BY <1>1, <1>4, Rests DEF Ms!Dies
<1>5. ASSUME NEW e \in Editor, Ms!Step(e) PROVE Advances(e)
  BY <1>3, <1>5, TakesOver, RetireIs, ConcludeIs, DiscardIs, CopyIs, SaveHistoryIs, SaveRowIs DEF Ms!Step
<1>6. PICK e \in Editor : Advances(e)
  BY <1>2, <1>4, <1>5 DEF Ms!NextOK, Ms!Abort
<1>7. PICK y \in EdRec : Becomes(e, y) /\ MsOK(y, milestone', inHistory')
  BY <1>6 DEF Advances
<1>8. milestone' \in Ms!Rows /\ inHistory' \in SUBSET Row /\ Ms!Recorded
  BY <1>6 DEF Advances
<1> QED BY <1>1, <1>7, <1>8, EditorKept

LEMMA MsStart == ASSUME Text # {}, Ms!Init PROVE MsInv
<1>1. Ms!NoText \in Text
  BY Zenon DEF Ms!NoText
<1>2. Ms!NoRows \in Ms!Rows
  BY <1>1 DEF Ms!NoRows, Ms!Rows, Ms!Content, Ms!RowState
<1>3. milestone \in Ms!Rows /\ inHistory = {}
  BY <1>2 DEF Ms!Init
<1>4. PICK y \in EdRec : y = Ms!Resting /\ MsOK(y, milestone, inHistory)
  BY RestIs
<1>5. editor = [e \in Editor |-> y]
  BY <1>4 DEF Ms!Init
<1> QED BY <1>3, <1>4, <1>5 DEF MsInv, MsBase

(***************************************************************************)
(* What the invariant says of the plan                                     *)
(***************************************************************************)
CountIn(r, S, t) == {i \in Row : r[i].state \in S /\ r[i].text = t}

LEMMA CountIs == \A r, S, t : Ms!Count(r, S, t) = Cardinality(CountIn(r, S, t))
<1>1. ASSUME NEW r, NEW S, NEW t PROVE Ms!Count(r, S, t) = Cardinality(CountIn(r, S, t))
  <2>1. {i \in Ms!In(r, S) : r[i].text = t} = CountIn(r, S, t)
    BY DEF Ms!In, CountIn
  <2> QED BY <2>1, SameCount, Zenon DEF Ms!Count
<1> QED BY <1>1

LEMMA UnionCount ==
  ASSUME RowsFinite, NEW S \in SUBSET Row, NEW T \in SUBSET Row, S \cap T = {}
  PROVE  Cardinality(S \cup T) = Cardinality(S) + Cardinality(T)
<1>1. IsFiniteSet(S) /\ IsFiniteSet(T)
  BY RowsCount
<1>2. Cardinality(S \cup T) = Cardinality(S) + Cardinality(T) - Cardinality(S \cap T)
  BY <1>1, FS_Union
<1>3. Cardinality(S \cap T) = 0
  BY FS_EmptySet
<1> QED BY <1>2, <1>3, RowsCount

LEMMA SubsetCount ==
  ASSUME RowsFinite, NEW T \in SUBSET Row, NEW S \in SUBSET T
  PROVE  Cardinality(S) <= Cardinality(T)
<1>1. IsFiniteSet(T)
  BY RowsCount
<1> QED BY <1>1, FS_Subset

Alive == {"charter", "active"}

LEMMA PlanCovered ==
  ASSUME RowsFinite, NEW W \in Ms!Rows, NEW c \in Ms!Rows, NEW L, NEW O, PlanOK(W, c, L, O), NEW t \in Text
  PROVE  Cardinality(Plan(c, t)) <= Cardinality(CountIn(W, Alive, t))
<1>1. PICK P \in SUBSET Row, D \in SUBSET Row, K \in SUBSET Row, S \in SUBSET Row :
        P = Plan(c, t) /\ D = Dropped(W, c, L, t) /\ K = KeptRows(W, c, O, t) /\ S = CountIn(W, Alive, t)
  BY DEF Plan, Dropped, KeptRows, Had, CountIn
<1>2. Cardinality(K) = Cardinality(D)
  BY <1>1 DEF PlanOK
<1>3. D \subseteq P /\ P \cap K = {}
  BY <1>1 DEF Plan, Dropped, KeptRows, Had, Ms!Current
<1>4. K \subseteq S
  <2>1. \A i \in K : i \in Row /\ c[i].text = t /\ W[i].state = "active"
    BY <1>1 DEF KeptRows, Had
  <2>2. \A i \in K : W[i].text = t
    BY <2>1 DEF PlanOK
  <2> QED BY <1>1, <2>1, <2>2 DEF CountIn, Alive
<1>5. P \ D \subseteq S
  <2>1. ASSUME NEW i \in P, i \notin D PROVE i \in S
    <3>1. i \in Row /\ c[i].state = "charter" /\ c[i].text = t
      BY <1>1 DEF Plan
    <3>2. W[i].text = t
      BY <3>1 DEF PlanOK
    <3>3. CASE i \in L
      <4>1. ~ Dealt(c, L, O, i)
        BY <3>1, <3>3 DEF Dealt, Ms!Current
      <4>2. W[i] = c[i]
        BY <3>1, <4>1 DEF PlanOK
      <4> QED BY <1>1, <3>1, <4>2 DEF CountIn, Alive
    <3>4. CASE i \notin L
      <4>1. Dealt(c, L, O, i)
        BY <3>1, <3>4 DEF Dealt
      <4>2. W[i].state \in {"active", "deleted"}
        BY <3>1, <4>1 DEF PlanOK
      <4>3. W[i].state # "deleted"
        BY <1>1, <2>1, <3>4 DEF Dropped
      <4> QED BY <1>1, <3>1, <3>2, <4>2, <4>3 DEF CountIn, Alive
    <3> QED BY <3>3, <3>4
  <2> QED BY <2>1
<1>6. Cardinality((P \ D) \cup D) = Cardinality(P \ D) + Cardinality(D) /\ (P \ D) \cup D = P
  BY <1>3, UnionCount
<1>7. Cardinality((P \ D) \cup K) = Cardinality(P \ D) + Cardinality(K)
  BY <1>3, UnionCount
<1>8. Cardinality((P \ D) \cup K) <= Cardinality(S)
  BY <1>4, <1>5, SubsetCount
<1>9. Cardinality(P) <= Cardinality(S)
  BY <1>2, <1>6, <1>7, <1>8
<1> QED BY <1>1, <1>9

LEMMA LeadCovers ==
  ASSUME RowsFinite, NEW r \in Ms!Rows, NEW W \in Ms!Rows, NEW a, Leads(a, r, W), NEW t \in Text
  PROVE  Cardinality(CountIn(W, Alive, t)) <= Cardinality(CountIn(r, Alive, t))
<1>1. PICK S \in SUBSET Row, T \in SUBSET Row : S = CountIn(W, Alive, t) /\ T = CountIn(r, Alive, t)
  BY DEF CountIn
<1>2. CASE W = r
  BY <1>1, <1>2, SubsetCount
<1>3. ASSUME NEW p \in EdWork, PutsRow(r, p, W), p.to.text = r[p.row].text,
             p.to.state = "deleted" \/ (p.to.state = "active" /\ r[p.row].state = "charter")
      PROVE  Cardinality(S) <= Cardinality(T)
  <2>1. p.row \in Row
    BY DEF EdWork
  <2>2. S \subseteq T
    BY <1>1, <1>3, <2>1 DEF PutsRow, CountIn, Alive
  <2> QED BY <2>2, SubsetCount
<1>4. ASSUME NEW p \in EdWork, NEW q \in EdWork, p.row # q.row,
             W[p.row] = p.to, W[q.row] = q.to, \A i \in Row \ {p.row, q.row} : W[i] = r[i],
             p.to.state = "active", q.to.state = "deleted", r[q.row].state = "charter",
             p.to.text = r[p.row].text, q.to.text = r[q.row].text, p.to.text = q.to.text
      PROVE  Cardinality(S) <= Cardinality(T)
  <2>1. p.row \in Row /\ q.row \in Row
    BY DEF EdWork
  <2>2. PICK i \in Row, j \in Row : i = p.row /\ j = q.row /\ i # j
    BY <1>4, <2>1
  <2>3. S \ {i} \subseteq T /\ j \notin S
    BY <1>1, <1>4, <2>2 DEF CountIn, Alive
  <2>4. CASE i \in S
    <3>1. j \in T
      BY <1>1, <1>4, <2>2, <2>4 DEF CountIn, Alive
    <3>2. Cardinality((S \ {i}) \cup {i}) = Cardinality(S \ {i}) + Cardinality({i}) /\ (S \ {i}) \cup {i} = S
      BY <2>4, UnionCount
    <3>3. Cardinality((S \ {i}) \cup {j}) = Cardinality(S \ {i}) + Cardinality({j})
      BY <2>3, UnionCount
    <3>4. Cardinality({i}) = 1 /\ Cardinality({j}) = 1
      BY FS_Singleton
    <3>5. Cardinality((S \ {i}) \cup {j}) <= Cardinality(T)
      BY <2>3, <3>1, SubsetCount
    <3> QED BY <3>2, <3>3, <3>4, <3>5
  <2>5. CASE i \notin S
    BY <2>3, <2>5, SubsetCount
  <2> QED BY <2>4, <2>5
<1>5. Cardinality(S) <= Cardinality(T)
  BY <1>1, <1>2, <1>3, <1>4 DEF Leads
<1> QED BY <1>1, <1>5

LEMMA Survives == ASSUME RowsFinite, MsInv PROVE Ms!PlanSurvives
<1>1. ASSUME NEW e \in Editor, editor[e].op = "approve", NEW t \in Text
      PROVE  Ms!Count(milestone, {"charter", "active"}, t) >= Ms!Count(editor[e].copy, {"charter"}, t)
  <2>1. PICK x \in EdRec, r \in Ms!Rows : x = editor[e] /\ r = milestone
    BY DEF MsInv, MsBase
  <2>2. ApOK(x, r) /\ x.copy \in Ms!Rows
    BY <2>1, FieldsAre DEF MsInv, MsOK
  <2>3. PICK W \in Ms!Rows : Leads(x.agenda, r, W) /\ PlanOK(W, x.copy, x.left, x.old)
    BY <1>1, <2>1, <2>2 DEF ApOK
  <2>4. Cardinality(Plan(x.copy, t)) <= Cardinality(CountIn(W, Alive, t))
    BY <2>2, <2>3, PlanCovered
  <2>5. Cardinality(CountIn(W, Alive, t)) <= Cardinality(CountIn(r, Alive, t))
    BY <2>3, LeadCovers
  <2>6. CountIn(x.copy, {"charter"}, t) = Plan(x.copy, t)
    BY DEF CountIn, Plan
  <2>7. PICK A \in SUBSET Row, B \in SUBSET Row, C \in SUBSET Row :
          A = Plan(x.copy, t) /\ B = CountIn(W, Alive, t) /\ C = CountIn(r, Alive, t)
    BY DEF CountIn, Plan
  <2>8. Cardinality(A) \in Nat /\ Cardinality(B) \in Nat /\ Cardinality(C) \in Nat
    BY RowsCount
  <2>9. Cardinality(C) >= Cardinality(A)
    BY <2>4, <2>5, <2>7, <2>8
  <2>10. Ms!Count(milestone, {"charter", "active"}, t) = Cardinality(C)
    BY <2>1, <2>7, CountIs DEF Alive
  <2>11. Ms!Count(editor[e].copy, {"charter"}, t) = Cardinality(A)
    BY <2>1, <2>6, <2>7, CountIs
  <2> QED BY <2>9, <2>10, <2>11
<1> QED BY <1>1 DEF Ms!PlanSurvives

LEMMA PlanDone ==
  ASSUME RowsFinite, NEW r \in Ms!Rows, NEW c \in Ms!Rows, PlanOK(r, c, {}, {})
  PROVE  /\ Ms!In(r, {"charter", "review"}) = {}
         /\ \A t \in Text :
              /\ Cardinality(CountIn(r, {"active"}, t)) = Cardinality(Plan(c, t))
              /\ Cardinality(KeptRows(r, c, {}, t)) = Ms!Lower(Cardinality(Plan(c, t)), Cardinality(Had(c, t)))
              /\ {i \in Ms!In(r, {"active"}) : c[i].state \in Ms!Current /\ r[i].text = t} = KeptRows(r, c, {}, t)
<1>1. \A i \in Row : Dealt(c, {}, {}, i) <=> c[i].state \in {"charter", "active", "review"}
  BY DEF Dealt, Ms!Current
<1>2. \A i \in Row : \/ c[i].state \in {"charter", "active", "review"} /\ r[i].state \in {"active", "deleted"}
                     \/ c[i].state \notin {"charter", "active", "review"} /\ r[i] = c[i]
  BY <1>1 DEF PlanOK
<1>3. \A i \in Row : r[i].text = c[i].text
  BY DEF PlanOK
<1>4. Ms!In(r, {"charter", "review"}) = {}
  BY <1>2 DEF Ms!In
<1>5. ASSUME NEW t \in Text
      PROVE  /\ Cardinality(CountIn(r, {"active"}, t)) = Cardinality(Plan(c, t))
             /\ Cardinality(KeptRows(r, c, {}, t)) = Ms!Lower(Cardinality(Plan(c, t)), Cardinality(Had(c, t)))
             /\ {i \in Ms!In(r, {"active"}) : c[i].state \in Ms!Current /\ r[i].text = t} = KeptRows(r, c, {}, t)
  <2>1. PICK P \in SUBSET Row, D \in SUBSET Row, M \in SUBSET Row, H \in SUBSET Row, K \in SUBSET Row, S \in SUBSET Row :
          /\ P = Plan(c, t) /\ D = Dropped(r, c, {}, t) /\ M = Moved(r, c, {}, t)
          /\ H = Had(c, t) /\ K = KeptRows(r, c, {}, t) /\ S = CountIn(r, {"active"}, t)
    BY DEF Plan, Dropped, Moved, Had, KeptRows, CountIn
  <2>2. Cardinality(K) = Cardinality(D) /\ (M # {} => K = H)
    BY <2>1 DEF PlanOK
  <2>3. M \cup D = P /\ M \cap D = {}
    BY <1>2, <2>1 DEF Plan, Dropped, Moved
  <2>4. M \cup K = S /\ M \cap K = {}
    BY <1>2, <1>3, <2>1 DEF Plan, Moved, Had, KeptRows, CountIn, Ms!Current
  <2>5. K \subseteq H
    BY <2>1 DEF KeptRows
  <2>6. {i \in Ms!In(r, {"active"}) : c[i].state \in Ms!Current /\ r[i].text = t} = K
    BY <1>3, <2>1 DEF Ms!In, Had, KeptRows
  <2>7. Cardinality(P) = Cardinality(M) + Cardinality(D) /\ Cardinality(S) = Cardinality(M) + Cardinality(K)
    BY <2>3, <2>4, UnionCount
  <2>8. Cardinality(K) <= Cardinality(H)
    BY <2>5, SubsetCount
  <2>9. Cardinality(M) \in Nat /\ Cardinality(D) \in Nat /\ Cardinality(K) \in Nat /\ Cardinality(H) \in Nat
    BY RowsCount
  <2>10. Cardinality(S) = Cardinality(P)
    BY <2>2, <2>7
  <2>11. Cardinality(K) = Ms!Lower(Cardinality(P), Cardinality(H))
    <3>1. CASE M = {}
      <4>1. Cardinality(M) = 0
        BY <3>1, FS_EmptySet
      <4> QED BY <2>2, <2>7, <2>8, <2>9, <4>1 DEF Ms!Lower
    <3>2. CASE M # {}
      <4>1. K = H
        BY <2>2, <3>2
      <4> QED BY <2>2, <2>7, <2>9, <4>1 DEF Ms!Lower
    <3> QED BY <3>1, <3>2
  <2> QED BY <2>1, <2>6, <2>10, <2>11
<1> QED BY <1>4, <1>5

LEMMA InForce == ASSUME RowsFinite, MsInv PROVE Ms!PlanInForce
<1>1. ASSUME NEW e \in Editor, editor[e].pc = "announce"
      PROVE  /\ Ms!In(milestone, {"charter", "review"}) = {}
             /\ \A t \in Text :
                  /\ Ms!Count(milestone, {"active"}, t) = Ms!Count(editor[e].copy, {"charter"}, t)
                  /\ Cardinality({i \in Ms!In(milestone, {"active"}) : /\ editor[e].copy[i].state \in Ms!Current
                                                                       /\ milestone[i].text = t})
                       = Ms!Lower(Ms!Count(editor[e].copy, {"charter"}, t), Ms!Count(editor[e].copy, Ms!Current, t))
  <2>1. PICK x \in EdRec, r \in Ms!Rows : x = editor[e] /\ r = milestone
    BY DEF MsInv, MsBase
  <2>2. ApOK(x, r) /\ x.copy \in Ms!Rows /\ x.op = "approve" /\ x.left = {} /\ x.old = {} /\ x.agenda = << >>
    BY <1>1, <2>1, FieldsAre DEF MsInv, MsOK, EdOK
  <2>3. PICK W \in Ms!Rows : Leads(<< >>, r, W) /\ PlanOK(W, x.copy, {}, {})
    BY <2>2 DEF ApOK
  <2>4. W = r
    BY <2>3, NotEmpty DEF Leads
  <2>5. PICK c \in Ms!Rows : c = x.copy /\ PlanOK(r, c, {}, {})
    BY <2>2, <2>3, <2>4
  <2>6. /\ Ms!In(r, {"charter", "review"}) = {}
        /\ \A t \in Text :
              /\ Cardinality(CountIn(r, {"active"}, t)) = Cardinality(Plan(c, t))
              /\ Cardinality(KeptRows(r, c, {}, t)) = Ms!Lower(Cardinality(Plan(c, t)), Cardinality(Had(c, t)))
              /\ {i \in Ms!In(r, {"active"}) : c[i].state \in Ms!Current /\ r[i].text = t} = KeptRows(r, c, {}, t)
    BY <2>5, PlanDone
  <2>7. ASSUME NEW t \in Text
        PROVE  /\ Ms!Count(r, {"active"}, t) = Ms!Count(c, {"charter"}, t)
               /\ Cardinality({i \in Ms!In(r, {"active"}) : c[i].state \in Ms!Current /\ r[i].text = t})
                    = Ms!Lower(Ms!Count(c, {"charter"}, t), Ms!Count(c, Ms!Current, t))
    <3>1. CountIn(c, {"charter"}, t) = Plan(c, t) /\ CountIn(c, Ms!Current, t) = Had(c, t)
      BY DEF CountIn, Plan, Had
    <3>2. /\ Ms!Count(c, {"charter"}, t) = Cardinality(Plan(c, t)) /\ Ms!Count(c, Ms!Current, t) = Cardinality(Had(c, t))
          /\ Ms!Count(r, {"active"}, t) = Cardinality(CountIn(r, {"active"}, t))
      BY <3>1, CountIs
    <3> QED BY <2>6, <3>2
  <2> QED BY <2>1, <2>5, <2>6, <2>7
<1> QED BY <1>1, SameCount DEF Ms!PlanInForce

MsPart == part = "milestones" => MsInv

LEMMA MilestonesStart == Text # {} /\ MCInit => MsPart
BY MsStart DEF MCInit, MsPart

LEMMA MilestonesStep ==
  ASSUME OneEditor, RowsFinite, Text # {}, MsPart, [MCNext]_allVars
  PROVE  MsPart' /\ [part = "milestones" => Ms!Recorded]_milestone
<1>1. CASE part = "milestones"
  <2>1. MsInv
    BY <1>1 DEF MsPart
  <2>2. CASE MilestonesMove
    <3>1. MsInv' /\ Ms!Recorded
      BY <2>1, <2>2, MsStep DEF MilestonesMove
    <3> QED BY <3>1 DEF MsPart
  <2>3. CASE UNCHANGED allVars
    <3>1. UNCHANGED milestoneRows
      BY <2>3 DEF allVars
    <3>2. MsInv' /\ milestone' = milestone
      BY <2>1, <3>1 DEF milestoneRows, MsInv, MsBase, MsOK, EdOK, ApOK, Due, Sure, Ready, Creates, Leads
    <3> QED BY <3>2 DEF MsPart
  <2> QED
    BY <1>1, <2>2, <2>3 DEF MCNext, CharterMoves, IanaMoves, QueueMoves, NominationsMove,
       SessionsMove, MaterialsMove, MailMoves, ListsMove
<1>2. CASE part # "milestones"
  BY <1>2, PartStays DEF MsPart
<1> QED BY <1>1, <1>2

\* doc/views_charter and group/milestones: for any number of milestones and of
\* texts, with requests that do not overlap and that may die anywhere: no milestone
\* of the charter is lost, and what an approval announces is in force.
THEOREM CharterPlanIsKept ==
  ASSUME \A d, e \in Editor : d = e, Row \in SUBSET Nat, IsFiniteSet(Row), Text # {}
  PROVE  MCSpec => []PlanIsKept
<1>0. OneEditor /\ RowsFinite
  BY DEF OneEditor, RowsFinite
<1>1. MCInit => MsPart
  BY MilestonesStart
<1>2. MsPart /\ [MCNext]_allVars => MsPart'
  BY <1>0, MilestonesStep
<1>3. MsPart => PlanIsKept
  BY <1>0, Survives, InForce DEF MsPart, PlanIsKept
<1> QED
  BY <1>1, <1>2, <1>3, PTL DEF MCSpec

\* save_milestone_in_history: under the same conditions, no row changes before
\* what it held is in its history.
THEOREM RowsAreRecorded ==
  ASSUME \A d, e \in Editor : d = e, Row \in SUBSET Nat, IsFiniteSet(Row), Text # {}
  PROVE  MCSpec => HistoryFirst
<1>0. OneEditor /\ RowsFinite
  BY DEF OneEditor, RowsFinite
<1>1. MCInit => MsPart
  BY MilestonesStart
<1>2. MsPart /\ [MCNext]_allVars => MsPart' /\ [part = "milestones" => Ms!Recorded]_milestone
  BY <1>0, MilestonesStep
<1> QED
  BY <1>1, <1>2, PTL DEF MCSpec, HistoryFirst

(***************************************************************************)
(* The types of all parts                                                  *)
(***************************************************************************)
\* Drafts that the run u may add an event to
Awaits(u) ==
  IF updater[u].pc \in {"draft", "set", "event"} THEN updater[u].todo
  ELSE IF updater[u].pc = "tags" THEN updater[u].todo \ {Rf!At(u)} ELSE {}

RfcShort ==
  /\ \A d \in Draft : Len(events[d]) <= MaxEvents + 1
  /\ \A u \in Updater : /\ updater[u].at <= MaxEvents + 1
                        /\ \A d \in Awaits(u) : Len(events[d]) <= MaxEvents

LEMMA RunGoesOn ==
  ASSUME OneUpdater, RfcTypes, RfcShort, events' = events, NEW u \in Updater, NEW pc \in Rf!PC,
         NEW S \in SUBSET Draft, Goes(u, pc, S),
         pc \in {"draft", "set", "event"} => S \subseteq Awaits(u),
         pc = "tags" => S = updater[u].todo /\ S \ {Rf!At(u)} \subseteq Awaits(u)
  PROVE  RfcShort'
<1>1. /\ updater'[u].pc = pc /\ updater'[u].at = updater[u].at /\ updater'[u].todo = S
      /\ S = updater[u].todo => Rf!At(u)' = Rf!At(u)
  BY RfcGoes
<1>2. Awaits(u)' \subseteq Awaits(u)
  BY <1>1 DEF Awaits
<1> QED BY <1>1, <1>2 DEF RfcShort, OneUpdater

LEMMA RunEnds ==
  ASSUME OneUpdater, MaxEvents \in Nat, RfcTypes, RfcShort, events' = events, NEW u \in Updater,
         updater' = [updater EXCEPT ![u] = Rf!Resting]
  PROVE  RfcShort'
<1>1. updater'[u].pc = "idle" /\ updater'[u].at = 0
  BY DEF RfcTypes, Rf!Resting
<1>2. Awaits(u)' = {}
  BY <1>1 DEF Awaits
<1> QED BY <1>1, <1>2 DEF RfcShort, OneUpdater

LEMMA RfcShortStarts == ASSUME MaxEvents \in Nat, Rf!Init PROVE RfcShort
<1>1. \A d \in Draft : events[d] = << >>
  BY DEF Rf!Init
<1>2. \A u \in Updater : updater[u].at = 0 /\ updater[u].pc = "idle"
  BY DEF Rf!Init, Rf!Resting
<1>3. Len(<< >>) = 0
  BY EmptySeq
<1> QED BY <1>1, <1>2, <1>3 DEF RfcShort, Awaits

LEMMA RfcShortStep ==
  ASSUME OneUpdater, MaxEvents \in Nat, RfcInv, RfcShort, NEW u \in Updater,
         Rf!Start(u) \/ Rf!Step(u) \/ Rf!Killed(u)
  PROVE  RfcShort'
<1>t. RfcTypes /\ RunOK(u) /\ (\A v \in Updater : v = u) /\ updater[u].todo \in SUBSET Draft
  BY DEF RfcInv, RfcTypes, OneUpdater
<1>p. {"idle", "draft", "set", "event", "tags", "left", "unset", "done", "delete"} \subseteq Rf!PC
  BY DEF Rf!PC
<1>1. CASE Rf!Fetch(u)
  <2>1. /\ \A d \in Draft : Len(events[d]) <= MaxEvents
        /\ updater' = [updater EXCEPT ![u] = [pc |-> "draft", got |-> entry, todo |-> Rf!Listed(entry), at |-> 0]]
        /\ events' = events
    BY <1>1 DEF Rf!Fetch, Rf!queueRow
  <2>2. updater'[u].pc = "draft" /\ updater'[u].at = 0 /\ updater'[u].todo \subseteq Draft
    BY <1>t, <2>1 DEF RfcTypes, Rf!Listed
  <2>3. Awaits(u)' \subseteq Draft
    BY <2>2 DEF Awaits
  <2> QED BY <1>t, <2>1, <2>2, <2>3 DEF RfcShort
<1>2. ASSUME NEW d \in Draft, NEW i \in 1..Len(events[d]), Rf!Undo(u, d, i) PROVE RfcShort'
  <2>1. events' = events /\ updater' = [updater EXCEPT ![u] = [Rf!Resting EXCEPT !.pc = "delete", !.todo = {d}, !.at = i]]
    BY <1>2 DEF Rf!Undo
  <2>2. updater'[u].pc = "delete" /\ updater'[u].at = i
    BY <1>t, <2>1 DEF RfcTypes, Rf!Resting
  <2>3. i <= MaxEvents + 1
    <3>1. PICK s \in Seq(Rf!Mapped) : s = events[d] /\ Len(s) <= MaxEvents + 1
      BY <1>t DEF RfcTypes, RfcShort
    <3>2. Len(s) \in Nat /\ i \in 1..Len(s)
      BY <1>2, <3>1, LenProperties
    <3> QED BY <3>1, <3>2
  <2>4. Awaits(u)' = {}
    BY <2>2 DEF Awaits
  <2> QED BY <1>t, <2>1, <2>2, <2>3, <2>4 DEF RfcShort
<1>3. CASE Rf!TakeUp(u)
  <2>1. events' = events /\ updater[u].pc = "draft" /\ Awaits(u) = updater[u].todo
    BY <1>3 DEF Rf!TakeUp, Awaits
  <2>2. \/ Rf!Passed(u, "draft") \/ Rf!GoesTo(u, "tags") \/ Rf!GoesTo(u, "set")
    BY <1>3 DEF Rf!TakeUp
  <2>3. PICK pc \in {"draft", "tags", "set"}, S \in SUBSET updater[u].todo :
          Goes(u, pc, S) /\ (pc = "tags" => S = updater[u].todo)
    BY <2>2 DEF Goes
  <2> QED BY <1>p, <1>t, <2>1, <2>3, RunGoesOn
<1>4. CASE Rf!SetState(u)
  <2>1. events' = events /\ Awaits(u) = updater[u].todo /\ Goes(u, "event", updater[u].todo)
    BY <1>4 DEF Rf!SetState, Awaits, Goes
  <2> QED BY <1>p, <1>t, <2>1, RunGoesOn
<1>5. CASE Rf!AddEvent(u)
  <2>1. PICK d \in Draft, s \in Seq(Rf!Mapped) : d = Rf!At(u) /\ s = events[d] /\ d \in updater[u].todo
    <3>1. Rf!At(u) \in updater[u].todo /\ Rf!At(u) \in Draft
      BY <1>5, <1>t, RfcAt DEF RunOK, Rf!AddEvent
    <3> QED BY <1>t, <3>1 DEF RfcTypes
  <2>2. Rf!New(u).state \in Rf!Mapped
    BY <1>5, <1>t DEF RunOK, Rf!AddEvent
  <2>3. events' = [events EXCEPT ![d] = Append(s, Rf!New(u).state)]
    BY <1>5, <2>1 DEF Rf!AddEvent
  <2>4. PICK n : n = Append(s, Rf!New(u).state)
    OBVIOUS
  <2>5. Len(n) = Len(s) + 1 /\ Len(s) \in Nat
    BY <2>2, <2>4, AppendProperties, LenProperties
  <2>6. events'[d] = n /\ \A e \in Draft \ {d} : events'[e] = events[e]
    BY <1>t, <2>3, <2>4 DEF RfcTypes
  <2>7. Len(s) <= MaxEvents
    BY <1>5, <2>1 DEF RfcShort, Awaits, Rf!AddEvent
  <2>8. Goes(u, "tags", updater[u].todo)
    BY <1>5 DEF Goes, Rf!AddEvent
  <2>9. /\ updater'[u].pc = "tags" /\ updater'[u].at = updater[u].at /\ updater'[u].todo = updater[u].todo
        /\ Rf!At(u)' = d
    BY <1>p, <1>t, <2>1, <2>8, RfcGoes
  <2>10. Awaits(u)' = updater[u].todo \ {d}
    BY <2>9 DEF Awaits
  <2>11. \A e \in updater[u].todo : Len(events[e]) <= MaxEvents
    BY <1>5 DEF RfcShort, Awaits, Rf!AddEvent
  <2>12. \A e \in Awaits(u)' : Len(events'[e]) <= MaxEvents
    BY <1>t, <2>6, <2>10, <2>11
  <2>13. \A e \in Draft : Len(events'[e]) <= MaxEvents + 1
    BY <2>5, <2>6, <2>7 DEF RfcShort
  <2> QED BY <1>t, <2>9, <2>12, <2>13 DEF RfcShort
<1>6. CASE Rf!SetTags(u)
  <2>1. events' = events /\ Awaits(u) = updater[u].todo \ {Rf!At(u)} /\ Goes(u, "draft", updater[u].todo \ {Rf!At(u)})
    BY <1>6 DEF Rf!SetTags, Awaits, Goes
  <2>2. updater[u].todo \ {Rf!At(u)} \in SUBSET Draft
    BY <1>t
  <2> QED BY <1>p, <1>t, <2>1, <2>2, RunGoesOn
<1>7. CASE Rf!LookForLeft(u) \/ Rf!Untag(u) \/ Rf!Unset(u) \/ Rf!Done(u)
  <2>1. events' = events
    BY <1>7 DEF Rf!LookForLeft, Rf!Untag, Rf!Unset, Rf!Done, Rf!queueRow
  <2>2. PICK pc \in {"left", "unset", "done"}, S \in SUBSET Draft : Goes(u, pc, S)
    <3>1. CASE Rf!LookForLeft(u)
      <4>1. Rf!Left(u) \in SUBSET Draft
        BY DEF Rf!Left
      <4> QED BY <3>1, <4>1 DEF Goes, Rf!LookForLeft
    <3>2. CASE Rf!Untag(u) \/ Rf!Unset(u) \/ Rf!Done(u)
      <4>1. updater[u].todo \ {Rf!At(u)} \in SUBSET Draft
        BY <1>t
      <4> QED BY <1>t, <3>2, <4>1 DEF Goes, Rf!Untag, Rf!Unset, Rf!Done
    <3> QED BY <1>7, <3>1, <3>2
  <2> QED BY <1>p, <1>t, <2>1, <2>2, RunGoesOn
<1>8. CASE Rf!Exit(u) \/ Rf!Killed(u)
  <2>1. events' = events /\ updater' = [updater EXCEPT ![u] = Rf!Resting]
    BY <1>8 DEF Rf!Exit, Rf!Killed, Rf!queueRow
  <2> QED BY <1>t, <2>1, RunEnds
<1>9. CASE Rf!Delete(u)
  <2>1. PICK d : d = Rf!At(u)
    OBVIOUS
  <2>2. d \in Draft /\ updater[u].at \in 1..Len(events[d])
    BY <1>9, <1>t, <2>1, RfcAt DEF RunOK, Rf!Delete
  <2>3. PICK s \in Seq(Rf!Mapped), i \in Nat : s = events[d] /\ i = updater[u].at /\ i \in 1..Len(s)
    BY <1>t, <2>2 DEF RfcTypes
  <2>4. PICK n : n = TakenOut(s, i)
    OBVIOUS
  <2>5. /\ events' = [events EXCEPT ![d] = n] /\ updater' = [updater EXCEPT ![u] = Rf!Resting]
    BY <1>9, <2>1, <2>3, <2>4 DEF Rf!Delete, TakenOut
  <2>6. Len(n) = Len(s) - 1
    BY <2>3, <2>4, TakenOutEnds
  <2>7. events'[d] = n /\ \A e \in Draft \ {d} : events'[e] = events[e]
    BY <1>t, <2>2, <2>5 DEF RfcTypes
  <2>8. Len(s) \in Nat /\ Len(s) <= MaxEvents + 1
    BY <2>2, <2>3, LenProperties DEF RfcShort
  <2>9. \A e \in Draft : Len(events'[e]) <= MaxEvents + 1
    BY <2>6, <2>7, <2>8 DEF RfcShort
  <2>10. updater'[u].pc = "idle" /\ updater'[u].at = 0
    BY <1>t, <2>5 DEF RfcTypes, Rf!Resting
  <2>11. Awaits(u)' = {}
    BY <2>10 DEF Awaits
  <2> QED BY <1>t, <2>9, <2>10, <2>11 DEF RfcShort
<1> QED BY <1>1, <1>2, <1>3, <1>4, <1>5, <1>6, <1>7, <1>8, <1>9 DEF Rf!Start, Rf!Step

\* One request of a kind, or none, at a time; bounds that allow something to happen
Sizes ==
  /\ MaxMajor \in Nat \ {0} /\ MaxMinor \in Nat
  /\ OneEditor /\ RowsFinite /\ Text # {}
  /\ Last \in Nat \ {0} /\ OneJob
  /\ OneUpdater /\ MaxEvents \in Nat
  /\ Nominee # {} /\ \A c, d \in Clerk : c = d
  /\ MaxRows \in Nat /\ MtAssumption

\* What the invariants of two of the parts leave out
RfcWithin == approved \subseteq Draft /\ received \subseteq Draft
MtEmpty   == \A c \in Chair : chair[c].pc \notin {"save", "orders"} => chair[c].todo = << >>

RfcShortPart == part = "rfc" => RfcShort /\ RfcWithin
EmptyPart    == part = "materials" => MtEmpty
Flags        == part \in Part /\ failed \in BOOLEAN /\ late \in BOOLEAN

AllParts ==
  /\ Flags
  /\ ChPart /\ MsPart /\ IanaPart /\ RfcPart /\ RfcShortPart
  /\ MailPart /\ NomPart /\ SessionsInv /\ MaterialsInv /\ EmptyPart /\ ListPart

LEMMA FlagsStep == ASSUME Flags, [MCNext]_allVars PROVE Flags'
<1>1. part' = part
  BY PartStays
<1>2. CASE MCNext
  BY <1>1, <1>2 DEF Flags, MCNext, CharterMoves, MilestonesMove, IanaMoves, QueueMoves, NominationsMove,
     SessionsMove, MaterialsMove, MailMoves, ListsMove, Works, Breaks
<1>3. CASE UNCHANGED allVars
  BY <1>3 DEF Flags, allVars
<1> QED BY <1>2, <1>3

LEMMA RfcWithinStep ==
  ASSUME RfcTypes, RfcWithin, NEW u \in Updater, Rf!Start(u) \/ Rf!Step(u) \/ Rf!Killed(u) PROVE RfcWithin'
<1>1. updater[u].todo \subseteq Draft
  BY DEF RfcTypes
<1>2. CASE Rf!TakeUp(u)
  <2>1. updater[u].todo # {}
    BY <1>2 DEF Rf!TakeUp
  <2>2. Rf!At(u) \in Draft
    BY <1>1, <2>1 DEF Rf!At
  <2>3. received' \subseteq received \cup {Rf!At(u)} /\ approved' = approved
    BY <1>2 DEF Rf!TakeUp
  <2> QED BY <2>2, <2>3 DEF RfcWithin
<1>3. CASE ~ Rf!TakeUp(u)
  <2>1. UNCHANGED <<approved, received>>
    BY <1>3 DEF Rf!Start, Rf!Step, Rf!Killed, Rf!queueRow, Rf!Fetch, Rf!SetState, Rf!AddEvent, Rf!SetTags,
       Rf!LookForLeft, Rf!Untag, Rf!Unset, Rf!Done, Rf!Exit, Rf!Undo, Rf!Delete
  <2> QED BY <2>1 DEF RfcWithin
<1> QED BY <1>2, <1>3

LEMMA RfcShortKept ==
  ASSUME OneUpdater, MaxEvents \in Nat, RfcPart, RfcShortPart, [MCNext]_allVars PROVE RfcShortPart'
<1>1. part' = part
  BY PartStays
<1>2. CASE part = "rfc"
  <2>0. RfcInv /\ RfcShort /\ RfcWithin /\ RfcTypes
    BY <1>2 DEF RfcPart, RfcShortPart, RfcInv
  <2>1. \/ \E u \in Updater : Rf!Start(u) \/ Rf!Step(u) \/ Rf!Killed(u)
        \/ UNCHANGED <<events, updater>> /\ RfcWithin'
    BY <2>0, <1>2 DEF MCNext, allVars, queueRows, CharterMoves, MilestonesMove, IanaMoves, QueueMoves, NominationsMove,
       SessionsMove, MaterialsMove, MailMoves, ListsMove, Rf!Abort, Rf!EditorActs, Rf!EditorMoves,
       Rf!Others, Rf!Approve, Rf!TagOther, RfcWithin
  <2>2. CASE UNCHANGED <<events, updater>> /\ RfcWithin'
    BY <2>0, <2>2 DEF RfcShortPart, RfcShort, Awaits, Rf!At
  <2>3. CASE \E u \in Updater : Rf!Start(u) \/ Rf!Step(u) \/ Rf!Killed(u)
    <3>1. PICK u \in Updater : Rf!Start(u) \/ Rf!Step(u) \/ Rf!Killed(u)
      BY <2>3
    <3>2. RfcShort'
      BY <2>0, <3>1, RfcShortStep
    <3>3. RfcWithin'
      BY <2>0, <3>1, RfcWithinStep
    <3> QED BY <3>2, <3>3 DEF RfcShortPart
  <2> QED BY <2>1, <2>2, <2>3
<1>3. CASE part # "rfc"
  BY <1>1, <1>3 DEF RfcShortPart
<1> QED BY <1>2, <1>3

\* One chair goes on with a list to save, or without one.
LEMMA EmptyKept ==
  ASSUME MtBase, MtEmpty, NEW c \in Chair, NEW y, chair' = [chair EXCEPT ![c] = y],
         y.pc \notin {"save", "orders"} => y.todo = << >>
  PROVE  MtEmpty'
<1>1. chair'[c] = y /\ \A d \in Chair : d # c => chair'[d] = chair[d]
  BY DEF MtBase
<1> QED BY <1>1 DEF MtEmpty

LEMMA EmptyStep ==
  ASSUME MtBase, MtEmpty, NEW c \in Chair, Mt!Start(c) \/ Mt!Step(c) \/ Mt!Abort(c) PROVE MtEmpty'
<1> SUFFICES \E y : chair' = [chair EXCEPT ![c] = y] /\ (y.pc \notin {"save", "orders"} => y.todo = << >>)
  BY EmptyKept
<1>r. chair[c] \in Request
  BY DEF MtBase, RequestOK
<1>1. ASSUME NEW pc, NEW n, NEW todo, Mt!Enter(c, pc, n, todo), pc \in {"save", "orders"} \/ todo = << >>
      PROVE  \E y : chair' = [chair EXCEPT ![c] = y] /\ (y.pc \notin {"save", "orders"} => y.todo = << >>)
  <2> WITNESS [pc |-> pc, slide |-> n, todo |-> todo]
  <2> QED BY <1>1 DEF Mt!Enter
<1>2. ASSUME NEW pc, Mt!Goto(c, pc)
      PROVE  \E y : chair' = [chair EXCEPT ![c] = y] /\ (y.pc \notin {"save", "orders"} => y.todo = << >>)
  <2> WITNESS IF pc = "idle" THEN Mt!Resting ELSE [chair[c] EXCEPT !.pc = pc, !.todo = << >>]
  <2>1. (IF pc = "idle" THEN Mt!Resting ELSE [chair[c] EXCEPT !.pc = pc, !.todo = << >>]).todo = << >>
    BY <1>r DEF Mt!Resting, Request
  <2>2. chair' = [chair EXCEPT ![c] = IF pc = "idle" THEN Mt!Resting ELSE [chair[c] EXCEPT !.pc = pc, !.todo = << >>]]
    BY <1>2 DEF Mt!Goto
  <2> QED BY <2>1, <2>2
<1>3. CASE Mt!Start(c)
  <2>1. \E pc, n, todo : Mt!Enter(c, pc, n, todo) /\ (pc \in {"save", "orders"} \/ todo = << >>)
    <3>1. CASE Mt!Upload(c)
      BY <3>1, Zenon DEF Mt!Upload
    <3>2. CASE Mt!Move(c)
      BY <3>2, Zenon DEF Mt!Move
    <3>3. CASE Mt!Reorder(c)
      <4>1. PICK s \in Mt!Listings : \E i, place \in DOMAIN s : Puts(c, s, i, place)
        BY <3>3, Zenon DEF Mt!Reorder, Puts, PutIn, TakeOut, Placing
      <4> QED BY <4>1, Zenon DEF Puts
    <3>4. CASE \E n \in Mt!Slide : Mt!Delete(c, n) \/ Mt!Replace(c, n)
      BY <3>4, Zenon DEF Mt!Delete, Mt!Replace
    <3> QED BY <1>3, <3>1, <3>2, <3>3, <3>4 DEF Mt!Start
  <2> QED BY <1>1, <2>1, Zenon
<1>4. CASE Mt!Save(c) \/ Mt!WriteFile(c) \/ Mt!Activate(c) \/ Mt!Relate(c) \/ Mt!Hide(c)
  BY <1>2, <1>4 DEF Mt!Save, Mt!WriteFile, Mt!Activate, Mt!Relate, Mt!Hide
<1>5. CASE Mt!Abort(c)
  <2> WITNESS Mt!Resting
  <2> QED BY <1>5 DEF Mt!Abort, Mt!Resting
<1>6. CASE Mt!SaveOrder(c)
  <2>1. PICK more : chair' = [chair EXCEPT ![c] = IF more = << >> THEN Mt!Resting ELSE [chair[c] EXCEPT !.todo = more]]
    BY <1>6 DEF Mt!SaveOrder
  <2>2. chair[c].pc = "orders"
    BY <1>6 DEF Mt!SaveOrder, Mt!At
  <2> WITNESS IF more = << >> THEN Mt!Resting ELSE [chair[c] EXCEPT !.todo = more]
  <2>3. more # << >> => [chair[c] EXCEPT !.todo = more].pc = "orders"
    BY <1>r, <2>2 DEF Request
  <2> QED BY <2>1, <2>3 DEF Mt!Resting
<1> QED BY <1>3, <1>4, <1>5, <1>6 DEF Mt!Step

LEMMA EmptyPartKept ==
  ASSUME MaterialsInv, EmptyPart, [MCNext]_allVars PROVE EmptyPart'
<1>1. part' = part
  BY PartStays
<1>2. CASE part = "materials"
  <2>1. MtBase /\ MtEmpty
    BY <1>2 DEF MaterialsInv, EmptyPart
  <2>2. (\E c \in Chair : Mt!Start(c) \/ Mt!Step(c) \/ Mt!Abort(c)) \/ UNCHANGED Mt!materialVars
    BY <1>2 DEF MCNext, allVars, materialRows, Mt!materialVars, CharterMoves, MilestonesMove, IanaMoves,
       QueueMoves, NominationsMove, SessionsMove, MaterialsMove, MailMoves, ListsMove, Mt!Start
  <2>3. CASE UNCHANGED Mt!materialVars
    BY <2>1, <2>3 DEF Mt!materialVars, MtEmpty, EmptyPart
  <2> QED BY <2>1, <2>2, <2>3, EmptyStep DEF EmptyPart
<1>3. CASE part # "materials"
  BY <1>1, <1>3 DEF EmptyPart
<1> QED BY <1>2, <1>3

LEMMA AllStart == ASSUME Sizes PROVE MCInit => AllParts
<1> SUFFICES ASSUME MCInit PROVE AllParts
  OBVIOUS
<1>1. Flags
  BY DEF MCInit, Flags
<1>2. ChPart /\ ListPart /\ NomPart
  BY CharterBegins, ListBegins, NominationsBegin DEF Sizes
<1>3. MsPart
  BY MilestonesStart DEF Sizes
<1>4. IanaPart
  BY IanaInit DEF Sizes, IanaPart
<1>5. RfcPart
  BY RfcStarts
<1>6. RfcShortPart
  <2>1. part = "rfc" => Rf!Init
    BY DEF MCInit
  <2>2. Rf!Init => RfcWithin
    BY DEF Rf!Init, RfcWithin
  <2> QED BY <2>1, <2>2, RfcShortStarts DEF Sizes, RfcShortPart
<1>7. MailPart
  BY MailInit DEF MailPart
<1>8. SessionsInv
  BY SessionsStart DEF Sizes, SesAssumption
<1>9. MaterialsInv
  BY MaterialsStart DEF Sizes
<1>10. EmptyPart
  BY DEF MCInit, EmptyPart, MtEmpty, Mt!Init, Mt!Resting
<1> QED BY <1>1, <1>2, <1>3, <1>4, <1>5, <1>6, <1>7, <1>8, <1>9, <1>10 DEF AllParts

LEMMA AllStep == ASSUME Sizes, AllParts, [MCNext]_allVars PROVE AllParts'
<1>0. part' = part
  BY PartStays
<1>1. Flags'
  BY FlagsStep DEF AllParts
<1>2. ChPart'
  <2>1. ChP!Bounds
    BY DEF Sizes, ChP!Bounds
  <2> QED BY <1>0, <2>1, CharterMove, ChP!CharterStep DEF AllParts, ChPart
<1>3. ListPart'
  BY <1>0, ListMove, ListP!ListStep DEF AllParts, ListPart
<1>4. NomPart'
  BY <1>0, NominationMove, NomP!NomStep DEF AllParts, NomPart, Sizes
<1>5. MsPart'
  BY MilestonesStep DEF AllParts, Sizes
<1>6. IanaPart'
  BY <1>0, IanaStep DEF AllParts, IanaPart, Sizes
<1>7. RfcPart'
  BY RfcGoesOn DEF AllParts, Sizes
<1>8. RfcShortPart'
  BY RfcShortKept DEF AllParts, Sizes
<1>9. MailPart'
  BY <1>0, MailStep DEF AllParts, MailPart
<1>10. SessionsInv'
  BY SessionsStep DEF AllParts, Sizes, SesAssumption
<1>11. MaterialsInv'
  BY MaterialsStep DEF AllParts, Sizes
<1>12. EmptyPart'
  BY EmptyPartKept DEF AllParts
<1> QED BY <1>1, <1>2, <1>3, <1>4, <1>5, <1>6, <1>7, <1>8, <1>9, <1>10, <1>11, <1>12 DEF AllParts

\* What the invariants of the parts say of their types
LEMMA RfcTyped == ASSUME MaxEvents \in Nat, RfcInv, RfcTags, RfcShort, RfcWithin PROVE Rf!TypeOK
<1>1. RfcTypes
  BY DEF RfcInv
<1>2. \A d \in Draft : events[d] \in Seq(Rf!Mapped) /\ Len(events[d]) <= MaxEvents + 1
  BY <1>1 DEF RfcTypes, RfcShort
<1>3. ASSUME NEW u \in Updater
      PROVE  updater[u] \in [pc : Rf!PC, got : [Draft -> Rf!Entry], todo : SUBSET Draft, at : 0..MaxEvents + 1]
  <2>1. updater[u] \in [pc : Rf!PC, got : [Draft -> Rf!Entry], todo : SUBSET Draft, at : Nat]
    BY <1>1 DEF RfcTypes
  <2>2. updater[u].at \in 0..MaxEvents + 1
    BY <2>1 DEF RfcShort
  <2> QED BY <2>1, <2>2
<1>4. updater \in [Updater -> [pc : Rf!PC, got : [Draft -> Rf!Entry], todo : SUBSET Draft, at : 0..MaxEvents + 1]]
  BY <1>1, <1>3 DEF RfcTypes
<1>5. approved \subseteq Draft /\ received \subseteq Draft /\ undone \subseteq Draft
  BY DEF RfcWithin, RfcTags
<1> QED BY <1>1, <1>2, <1>4, <1>5 DEF RfcTypes, Rf!TypeOK

LEMMA MaterialsTyped == ASSUME MtAssumption, MtBase, MtEmpty PROVE Mt!TypeOK
<1>1. /\ Orders(order) /\ (\A n \in Mt!Slide : order[n] <= NextOf(order) + 1)
      /\ related \subseteq Mt!Slide
  BY DEF MtBase, OrdersOK
<1>2. NextOf(order) \in 0..MaxSlides /\ MaxSlides \in Nat
  <2>1. MaxSlides \in Nat
    BY DEF MtAssumption
  <2> QED BY <1>1, <2>1, NextOfIs
<1>3. order \in [Mt!Slide -> 0..(2 * MaxSlides + 1)]
  <2>1. PICK k \in 0..MaxSlides : k = NextOf(order)
    BY <1>2
  <2>2. ASSUME NEW n \in Mt!Slide PROVE order[n] \in 0..(2 * MaxSlides + 1)
    BY <1>1, <1>2, <2>1 DEF Orders
  <2> QED BY <1>1, <2>2 DEF Orders
<1>4. ASSUME NEW c \in Chair PROVE chair[c].todo \in Seq(Mt!Saving)
  <2>1. RequestOK(chair[c], order) /\ chair[c] \in Request /\ chair[c].slide \in 0..MaxSlides - 1
    BY DEF MtBase, RequestOK, Request, Mt!Slide
  <2>2. PICK todo : todo = chair[c].todo
    OBVIOUS
  <2>3. todo \in Seq(Saves)
    BY <2>1, <2>2 DEF Request
  <2>4. ASSUME NEW i \in 1..Len(todo) PROVE todo[i] \in Mt!Saving
    <3>1. todo[i] \in Saves
      BY <2>3, ElementOfSeq
    <3>2. todo[i].order \in Nat \ {0} /\ todo[i].slide \in Mt!Slide
      BY <3>1 DEF Saves
    <3>3. todo[i].order <= MaxSlides + 1
      <4>1. CASE chair[c].pc = "save"
        <5>1. Len(todo) = 1 /\ todo[1].order <= chair[c].slide + 2
          BY <2>1, <2>2, <4>1 DEF RequestOK
        <5>2. i = 1
          BY <5>1
        <5> QED BY <1>2, <2>1, <3>2, <5>1, <5>2
      <4>2. CASE chair[c].pc = "orders"
        <5>1. todo[i].order <= NextOf(order) + 1
          BY <2>1, <2>2, <4>2 DEF RequestOK
        <5> QED BY <1>2, <3>2, <5>1
      <4>3. CASE chair[c].pc \notin {"save", "orders"}
        <5>1. Len(todo) = 0
          BY <2>2, <4>3, EmptySeq DEF MtEmpty
        <5> QED BY <5>1
      <4> QED BY <4>1, <4>2, <4>3
    <3>4. todo[i].order \in 1..(2 * MaxSlides + 1)
      BY <1>2, <3>2, <3>3
    <3> QED BY <3>1, <3>2, <3>4 DEF Saves, Mt!Saving
  <2>5. todo \in Seq(Mt!Saving)
    <3>1. Len(todo) \in Nat /\ DOMAIN todo = 1..Len(todo) /\ todo = [i \in 1..Len(todo) |-> todo[i]]
      BY <2>3, LenProperties
    <3> HIDE <2>2
    <3> QED BY <2>4, <3>1
  <2> QED BY <2>2, <2>5
<1>5. \A c \in Chair : chair[c].pc \in MtPC /\ chair[c].slide \in Mt!Slide
  BY DEF MtBase, RequestOK, Request
<1> QED BY <1>1, <1>3, <1>4, <1>5 DEF MtBase, MtPC, Mt!TypeOK

LEMMA CharterTyped == ASSUME ChP!CharterInv PROVE Ch!TypeOK
<1>1. ChP!TypeOK
  BY DEF ChP!CharterInv, ChP!RowInv, ChP!WorkInv, ChP!TypeOK
<1>2. Ch!Local = ChP!Local /\ Ch!State = ChP!State
  BY SameRevisions DEF Ch!Local, ChP!Local, Ch!State, ChP!State, Ch!Op, ChP!Op, Ch!PC, ChP!PC,
     Ch!Choice, ChP!Choice, Ch!Process!Kind, ChP!Process!Kind, Ch!Process!State, ChP!Process!State,
     Ch!Process!Stage, ChP!Process!Stage
<1>3. Ch!Process!Group = ChP!Process!Group /\ Ch!Process!Kind = ChP!Process!Kind
  BY DEF Ch!Process!Group, ChP!Process!Group, Ch!Process!Kind, ChP!Process!Kind
<1>4. Ch!Process!View = ChP!Process!View
  BY <1>3 DEF Ch!Process!View, ChP!Process!View, Ch!Process!Rev, ChP!Process!Rev,
     Ch!Process!State, ChP!Process!State, Ch!Process!Stage, ChP!Process!Stage
<1> QED BY <1>1, <1>2, <1>3, <1>4, SameRevisions DEF ChP!TypeOK, Ch!TypeOK

LEMMA MilestonesTyped == ASSUME MsBase PROVE Ms!TypeOK
BY DEF MsBase, EdRec, EdWork, Ms!TypeOK

LEMMA IanaTyped == ASSUME IanaBase PROVE Ia!TypeOK
<1>1. fetched \subseteq Ia!Change
  BY DEF IanaBase, IanaRows
<1> QED BY <1>1 DEF IanaBase, IanaRows, IanaRun, Ia!TypeOK, Ia!Time

LEMMA NominationsTyped == ASSUME NomP!NomInv PROVE No!TypeOK
<1>1. NomP!TypeOK
  BY DEF NomP!NomInv
<1> QED BY <1>1 DEF NomP!TypeOK, No!TypeOK, NomP!PC, No!PC, NomP!Answer, No!Answer

LEMMA SessionsTyped == ASSUME SesInv PROVE Se!TypeOK
<1>1. SesWrite \subseteq Se!Write
  BY DEF SesWrite
<1>2. ASSUME NEW u \in User PROVE desk[u] \in Seq(Se!Write)
  <2>1. desk[u] \in Seq(SesWrite)
    BY DEF SesInv, SesTypes
  <2> QED BY <1>1, <2>1
<1> QED BY <1>2 DEF SesInv, SesTypes, Se!TypeOK

LEMMA ListTyped == ASSUME ListP!ListInv PROVE Co!TypeOK
<1>1. ListP!TypeOK
  BY DEF ListP!ListInv
<1> QED BY <1>1 DEF ListP!TypeOK, Co!TypeOK, ListP!Pages, Co!Pages, ListP!Changing, Co!Changing,
        ListP!Viewing, Co!Viewing

\* The rows and the local variables of every part have their types, whatever
\* its requests, jobs and pages do.
THEOREM TypesAreKept == ASSUME Sizes PROVE MCSpec => []TypesOK
<1>1. MCInit => AllParts
  BY AllStart
<1>2. AllParts /\ [MCNext]_allVars => AllParts'
  BY AllStep
<1>3. AllParts => TypesOK
  <2> SUFFICES ASSUME AllParts PROVE TypesOK
    OBVIOUS
  <2>1. Flags
    BY DEF AllParts
  <2>2. part = "charter" => Ch!TypeOK
    BY CharterTyped DEF AllParts, ChPart
  <2>3. part = "milestones" => Ms!TypeOK
    BY MilestonesTyped DEF AllParts, MsPart, MsInv
  <2>4. part = "iana" => Ia!TypeOK
    BY IanaTyped DEF AllParts, IanaPart, IanaInv
  <2>5. part = "rfc" => Rf!TypeOK
    BY RfcTyped DEF AllParts, Sizes, RfcPart, RfcShortPart
  <2>6. part = "mail" => Ma!TypeOK
    BY DEF AllParts, MailPart, MailInv, MailSound
  <2>7. part = "nominations" => No!TypeOK
    BY NominationsTyped DEF AllParts, NomPart
  <2>8. part = "sessions" => Se!TypeOK
    BY SessionsTyped DEF AllParts, SessionsInv
  <2>9. part = "materials" => Mt!TypeOK
    BY MaterialsTyped DEF AllParts, Sizes, MaterialsInv, EmptyPart
  <2>10. part = "lists" => Co!TypeOK
    BY ListTyped DEF AllParts, ListPart
  <2> QED BY <2>1, <2>2, <2>3, <2>4, <2>5, <2>6, <2>7, <2>8, <2>9, <2>10 DEF TypesOK, Flags, Part
<1> QED BY <1>1, <1>2, <1>3, PTL DEF MCSpec
=============================================================================
