---------------------------- MODULE Milestones ----------------------------
(***************************************************************************)
(* The milestones of one group: group/milestones, and the end of approve   *)
(* in doc/views_charter, which replaces the current milestones by those of *)
(* the charter.  A handler loads rows, decides, and then writes each row   *)
(* back, its history first; Dies ends it between two writes.               *)
(***************************************************************************)
EXTENDS Integers, FiniteSets, Sequences

CONSTANTS Editor,      \* processes that serve requests
          Row,         \* ids of GroupMilestone rows, a finite set of numbers
          Text         \* description, due date and documents of a milestone

VARIABLES
  milestone,   \* milestone[i]: the row with that id
  inHistory,   \* rows whose history has what the row holds
  editor       \* editor[e]: program counter and local variables

milestoneVars == <<milestone, inHistory, editor>>

Op       == {"none", "edit", "add", "reset", "approve"}
PC       == {"idle", "next", "history", "save", "create", "announce"}
RowState == {"none", "review", "active", "charter", "deleted"}
Content  == [state : RowState, text : Text]
Rows     == [Row -> Content]

NoText  == CHOOSE t \in Text : TRUE
NoRows  == [i \in Row |-> [state |-> "none", text |-> NoText]]
Resting == [op |-> "none", pc |-> "idle", copy |-> NoRows,
            left |-> {}, old |-> {}, agenda |-> << >>]

TypeOK ==
  /\ milestone \in Rows
  /\ inHistory \subseteq Row
  /\ editor \in [Editor -> [op : Op, pc : PC, copy : Rows, left : SUBSET Row, old : SUBSET Row,
                            agenda : Seq([row : Row, to : Content])]]

In(rows, states) == {i \in Row : rows[i].state \in states}
Current  == {"active", "review"}
Least(S) == CHOOSE i \in S : \A j \in S : i <= j
Free     == In(milestone, {"none"})

Init ==
  /\ milestone = NoRows /\ inHistory = {}
  /\ editor = [e \in Editor |-> Resting]

(***************************************************************************)
(* What a handler decides on the rows it has loaded                        *)
(***************************************************************************)
Load(e, op, pc, left, old, agenda) ==
  /\ editor[e].pc = "idle"
  /\ editor' = [editor EXCEPT ![e] = [op |-> op, pc |-> pc, copy |-> milestone,
                                      left |-> left, old |-> old, agenda |-> agenda]]
  /\ UNCHANGED <<milestone, inHistory>>

\* The page of a set shows these rows; a POST knows no others.
Listed(set) == In(milestone, IF set = "charter" THEN {"charter"} ELSE Current)

\* A form can delete its row, change it and, for a manager, accept or
\* reject it.
Changed(i, manager) ==
  LET now == milestone[i] IN
    {c \in Content \ {now} :
       \/ c.state = "deleted" /\ (c.text = now.text \/ (manager /\ now.state = "review"))
       \/ c.state = now.state
       \/ c.state = "active" /\ manager /\ now.state = "review"}

\* save_milestone_form for a row of the page
Edit(e) ==
  \E set \in {"current", "charter"}, manager \in BOOLEAN :
    \E i \in Listed(set) : \E c \in Changed(i, manager) :
      Load(e, "edit", "history", {}, {}, <<[row |-> i, to |-> c]>>)

\* ... and for a form whose id is not among them: an empty form, or one of a
\* page that is older than the end of its row, whatever it asks for.
Add(e) ==
  \E s \in {"review", "active", "charter"}, t \in Text :
    /\ Free # {}
    /\ Load(e, "add", "create", {}, {}, <<[row |-> Least(Free), to |-> [state |-> s, text |-> t]]>>)

\* reset_charter_milestones; the boxes that were ticked are in old.
Reset(e) ==
  \E picked \in SUBSET In(milestone, {"active"}) :
    Load(e, "reset", "next", In(milestone, {"charter"}), picked, << >>)

\* approve, once it has dealt with the charter
Approve(e) ==
  Load(e, "approve", "next", In(milestone, {"charter"}), In(milestone, Current), << >>)

(***************************************************************************)
(* The loops of reset and approve                                          *)
(***************************************************************************)
\* Process e turns to rows i, which it will give these states.
TurnsTo(e, left, old, agenda, pc) ==
  /\ editor' = [editor EXCEPT ![e] = [@ EXCEPT !.left = left, !.old = old, !.agenda = agenda, !.pc = pc]]
  /\ UNCHANGED <<milestone, inHistory>>

Put(e, i, s) == [row |-> i, to |-> [state |-> s, text |-> editor[e].copy[i].text]]

\* Rows of the group that say what a row of the charter says.
Same(e, m) == {o \in editor[e].old : editor[e].copy[o].text = editor[e].copy[m].text}

\* Mutant: the row that was kept stays on the list of those to delete
TakeOverForgets(e) ==
  /\ editor[e].op = "approve" /\ editor[e].pc = "next" /\ editor[e].left # {}
  /\ LET m == Least(editor[e].left)
         rest == editor[e].left \ {m}
         o == Least(Same(e, m))
     IN IF Same(e, m) = {}
        THEN TurnsTo(e, rest, editor[e].old, <<Put(e, m, "active")>>, "history")
        ELSE TurnsTo(e, rest, editor[e].old,
                     (IF editor[e].copy[o].state = "active" THEN << >> ELSE <<Put(e, o, "active")>>)
                       \o <<Put(e, m, "deleted")>>, "history")

\* Mutant: the row of the charter goes before the proposal takes its place
TakeOverDeletesFirst(e) ==
  /\ editor[e].op = "approve" /\ editor[e].pc = "next" /\ editor[e].left # {}
  /\ LET m == Least(editor[e].left)
         rest == editor[e].left \ {m}
         o == Least(Same(e, m))
     IN IF Same(e, m) = {}
        THEN TurnsTo(e, rest, editor[e].old, <<Put(e, m, "active")>>, "history")
        ELSE TurnsTo(e, rest, editor[e].old \ {o},
                     <<Put(e, m, "deleted")>>
                       \o (IF editor[e].copy[o].state = "active" THEN << >> ELSE <<Put(e, o, "active")>>),
                     "history")

\* The next milestone of the charter: keep the row that has it, or move it.
TakeOver(e) ==
  /\ editor[e].op = "approve" /\ editor[e].pc = "next" /\ editor[e].left # {}
  /\ LET m == Least(editor[e].left)
         rest == editor[e].left \ {m}
         o == Least(Same(e, m))
     IN IF Same(e, m) = {}
        THEN TurnsTo(e, rest, editor[e].old, <<Put(e, m, "active")>>, "history")
        ELSE TurnsTo(e, rest, editor[e].old \ {o},
                     (IF editor[e].copy[o].state = "active" THEN << >> ELSE <<Put(e, o, "active")>>)
                       \o <<Put(e, m, "deleted")>>, "history")

\* Mutant: a row that goes is not copied first
RetireAtOnce(e) ==
  /\ editor[e].op = "approve" /\ editor[e].pc = "next" /\ editor[e].left = {} /\ editor[e].old # {}
  /\ LET o == Least(editor[e].old)
     IN TurnsTo(e, {}, editor[e].old \ {o}, <<Put(e, o, "deleted")>>, "save")

\* What is left of the old milestones goes.
Retire(e) ==
  /\ editor[e].op = "approve" /\ editor[e].pc = "next" /\ editor[e].left = {} /\ editor[e].old # {}
  /\ LET o == Least(editor[e].old)
     IN TurnsTo(e, {}, editor[e].old \ {o}, <<Put(e, o, "deleted")>>, "history")

Conclude(e) ==
  /\ editor[e].op = "approve" /\ editor[e].pc = "next"
  /\ editor[e].left = {} /\ editor[e].old = {}
  /\ TurnsTo(e, {}, {}, << >>, "announce")

\* reset deletes the rows of the charter ...
Discard(e) ==
  /\ editor[e].op = "reset" /\ editor[e].pc = "next" /\ editor[e].left # {}
  /\ LET m == Least(editor[e].left)
     IN TurnsTo(e, editor[e].left \ {m}, editor[e].old, <<Put(e, m, "deleted")>>, "history")

\* ... and copies those picked, if they are active still.
Copy(e) ==
  /\ editor[e].op = "reset" /\ editor[e].pc = "next" /\ editor[e].left = {}
  /\ LET picked == editor[e].old \cap In(milestone, {"active"})
         m == Least(picked)
     IN IF picked = {}
        THEN /\ editor' = [editor EXCEPT ![e] = Resting] /\ UNCHANGED <<milestone, inHistory>>
        ELSE /\ Free # {}
             /\ TurnsTo(e, {}, picked \ {m},
                        <<[row |-> Least(Free), to |-> [state |-> "charter", text |-> milestone[m].text]]>>,
                        "create")

(***************************************************************************)
(* The statements                                                          *)
(***************************************************************************)
\* Where a process goes on after a write.
Onward(e) ==
  LET rest == Tail(editor[e].agenda) IN
    IF rest # << >> THEN [editor[e] EXCEPT !.pc = "history", !.agenda = rest]
    ELSE IF editor[e].op \in {"edit", "add"} THEN Resting
    ELSE [editor[e] EXCEPT !.pc = "next", !.agenda = << >>]

\* save_milestone_in_history copies the row as it was loaded.
SaveHistory(e) ==
  /\ editor[e].pc = "history"
  /\ LET i == Head(editor[e].agenda).row
     IN inHistory' = IF editor[e].copy[i] = milestone[i] THEN inHistory \cup {i} ELSE inHistory
  /\ editor' = [editor EXCEPT ![e].pc = "save"]
  /\ UNCHANGED milestone

\* The drafts of a milestone, a many-to-many table written beside the row, are
\* part of the content here, and one write with it.
SaveRow(e) ==
  /\ editor[e].pc \in {"save", "create"}
  /\ LET w == Head(editor[e].agenda)
     IN /\ milestone' = [milestone EXCEPT ![w.row] = w.to]
        /\ inHistory' = inHistory \ {w.row}
  /\ editor' = [editor EXCEPT ![e] = Onward(e)]

Announce(e) ==
  /\ editor[e].pc = "announce" /\ editor' = [editor EXCEPT ![e] = Resting]
  /\ UNCHANGED <<milestone, inHistory>>

Dies(e) ==
  /\ editor[e].pc # "idle" /\ editor' = [editor EXCEPT ![e] = Resting]
  /\ UNCHANGED <<milestone, inHistory>>

Start(e) == Edit(e) \/ Add(e) \/ Reset(e) \/ Approve(e)
Step(e)  == \/ TakeOver(e) \/ Retire(e) \/ Conclude(e) \/ Discard(e) \/ Copy(e)
            \/ SaveHistory(e) \/ SaveRow(e) \/ Announce(e)

NextOK == \E e \in Editor : Start(e) \/ Step(e)
Abort  == \E e \in Editor : Dies(e)

Spec   == Init /\ [][NextOK \/ Abort]_milestoneVars
SpecOK == Init /\ [][NextOK]_milestoneVars

(***************************************************************************)
(* Properties                                                              *)
(***************************************************************************)
Count(rows, states, t) == Cardinality({i \in In(rows, states) : rows[i].text = t})
Lower(m, n) == IF m <= n THEN m ELSE n

\* No milestone of the charter is lost while it is approved, wherever the
\* request dies: every one is in the charter or in force, as often as it was.
PlanSurvives ==
  \A e \in Editor : editor[e].op = "approve" =>
    \A t \in Text : Count(milestone, {"charter", "active"}, t) >= Count(editor[e].copy, {"charter"}, t)

\* When the approval is announced the milestones in force are those of the
\* charter, no proposal is left over, and a milestone the group had already is
\* the row it was.
PlanInForce ==
  \A e \in Editor : editor[e].pc = "announce" =>
    /\ In(milestone, {"charter", "review"}) = {}
    /\ \A t \in Text :
         LET plan == Count(editor[e].copy, {"charter"}, t)
         IN /\ Count(milestone, {"active"}, t) = plan
            /\ Cardinality({i \in In(milestone, {"active"}) : editor[e].copy[i].state \in Current
                                                            /\ milestone[i].text = t})
                 = Lower(plan, Count(editor[e].copy, Current, t))

\* What a row held is in its history before it holds anything else.
Recorded == \A i \in Row : milestone'[i] # milestone[i] => milestone[i].state = "none" \/ i \in inHistory
HistoryFirst == [][Recorded]_milestoneVars
=============================================================================
