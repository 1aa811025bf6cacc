--------------------------- MODULE CharterProofs ---------------------------
(***************************************************************************)
(* The text of a charter's revision was announced, for any number of       *)
(* revisions and of overlapping requests that may die anywhere; and        *)
(* requests that neither overlap nor die keep what CharterProcess promises.*)
(***************************************************************************)
EXTENDS Charter, WellFoundedInduction, TLAPS

\* A group with an approved charter needs room for its number.
Bounds == MaxMajor \in Nat \ {0} /\ MaxMinor \in Nat

\* A process has come to a statement of its script, and approves only where
\* there is a next number.
Knows(q) ==
  /\ q.pc = "idle" \/ (q.op \in DOMAIN Script /\ q.pc \in DOMAIN Script[q.op])
  /\ q.op \in {"approve", "adopt"} => q.rev.major < MaxMajor

\* The approved charter that a revision is based on was announced.
Based(v) == v.major >= 1 => Approved(v.major) \in announced

Holds(q) ==
  /\ Based(q.old) /\ Based(q.rev)
  /\ q.op = "submit" => q.rev.minor >= 0
  /\ q.op = "submit" /\ q.pc = "write" => q.rev \in announced
  /\ q.pc = "renumber" => NextApproved(q.rev) \in announced

\* Texts of revisions that are not approved are announced before they are
\* written; approved texts are copied first, but have a number of their own.
TextsFollow ==
  \A v \in Rev : text[v] > 0 => IF v.minor = -1 THEN v.major >= 1 ELSE v \in announced

RowInv ==
  /\ charter \in [rev : Rev, state : State] /\ type \in {"wg", "rg"}
  /\ group \in Process!Group /\ ballots \subseteq Process!Kind
  /\ text \in [Rev -> 0..2] /\ saved \subseteq Rev /\ announced \subseteq Rev
  /\ Based(charter.rev) /\ \A v \in saved : Based(v)
  /\ TextsFollow

WorkInv == work \in [Req -> Local] /\ \A r \in Req : Knows(work[r]) /\ Holds(work[r])

CharterInv == RowInv /\ WorkInv /\ shown \in Process!View

(***************************************************************************)
(* Scripts and revisions                                                   *)
(***************************************************************************)
\* Where each statement of a script leads
LEMMA ScriptSteps ==
  ASSUME NEW op \in DOMAIN Script, NEW pc \in DOMAIN Script[op]
  PROVE  LET n == Script[op][pc]
         IN /\ n \in PC /\ pc \in PC \ {"idle"}
            /\ n = "idle" \/ n \in DOMAIN Script[op]
            /\ op = "submit" => n # "renumber" /\ (n = "write" => pc = "announce")
            /\ op # "submit" => n # "write" /\ pc # "write" /\ (n = "renumber" => pc = "announce")
            /\ pc \in {"copy", "renumber"} => op \in {"approve", "adopt"}
            /\ pc = "announce" => op \in {"submit", "approve", "adopt"}
<1>1. CASE op = "submit"
  BY <1>1 DEF Script, PC
<1>2. CASE op = "move"
  BY <1>2 DEF Script, PC
<1>3. CASE op = "abandon"
  BY <1>3 DEF Script, PC
<1>4. CASE op = "drop"
  BY <1>4 DEF Script, PC
<1>5. CASE op = "approve"
  BY <1>5 DEF Script, PC
<1>6. CASE op = "adopt"
  BY <1>6 DEF Script, PC
<1>7. CASE op = "edit"
  BY <1>7 DEF Script, PC
<1>8. CASE op = "note"
  BY <1>8 DEF Script, PC
<1>9. CASE op = "propose"
  BY <1>9 DEF Script, PC
<1> QED
  BY <1>1, <1>2, <1>3, <1>4, <1>5, <1>6, <1>7, <1>8, <1>9 DEF Script

LEMMA ScriptNames == DOMAIN Script = Op
BY DEF Script, Op

\* Scripts begin with a statement of theirs, and write no text at once.
LEMMA ScriptStarts ==
  ASSUME NEW op \in Op
  PROVE  First(op) \in DOMAIN Script[op] /\ First(op) \in PC \ {"idle", "write", "renumber"}
<1>1. CASE op = "submit"
  BY <1>1 DEF Script, First, PC
<1>2. CASE op = "move"
  BY <1>2 DEF Script, First, PC
<1>3. CASE op = "abandon"
  BY <1>3 DEF Script, First, PC
<1>4. CASE op = "drop"
  BY <1>4 DEF Script, First, PC
<1>5. CASE op = "approve"
  BY <1>5 DEF Script, First, PC
<1>6. CASE op = "adopt"
  BY <1>6 DEF Script, First, PC
<1>7. CASE op = "edit"
  BY <1>7 DEF Script, First, PC
<1>8. CASE op = "note"
  BY <1>8 DEF Script, First, PC
<1>9. CASE op = "propose"
  BY <1>9 DEF Script, First, PC
<1> QED
  BY <1>1, <1>2, <1>3, <1>4, <1>5, <1>6, <1>7, <1>8, <1>9 DEF Op

\* A bounded set of numbers has a greatest one.
LEMMA Greatest ==
  ASSUME NEW b \in Int, NEW T \in SUBSET Int, T # {}, \A t \in T : t <= b
  PROVE  \E m \in T : \A t \in T : t <= m
<1> DEFINE D == {b - t : t \in T}
<1>1. D \subseteq Nat /\ D # {}
  <2>1. \A t \in T : b - t \in Nat
    OBVIOUS
  <2> QED BY <2>1
<1>2. PICK d \in D : \A e \in D : ~ (<<e, d>> \in OpToRel(<, Nat))
  BY <1>1, NatLessThanWellFounded, WFMin
<1>3. PICK m \in T : d = b - m
  BY <1>2
<1>4. ASSUME NEW t \in T PROVE t <= m
  <2>1. b - t \in D /\ b - t \in Nat /\ d \in Nat
    BY <1>1
  <2>2. ~ (b - t < d)
    BY <1>2, <2>1 DEF OpToRel
  <2> QED BY <1>3, <2>2
<1> QED BY <1>3, <1>4

\* Among revisions there is a newest one.
LEMMA NewestExists ==
  ASSUME Bounds, NEW S \in SUBSET Rev, S # {}
  PROVE  \E v \in S : \A w \in S : v = w \/ Newer(v, w)
<1>t. \A v \in S : v \in [major : 0..MaxMajor, minor : -1..MaxMinor]
  BY DEF Rev, Process!Rev
<1> DEFINE Majors == {v.major : v \in S}
<1>1. Majors \in SUBSET Int /\ Majors # {} /\ MaxMajor \in Int /\ \A t \in Majors : t <= MaxMajor
  BY <1>t DEF Bounds
<1> HIDE DEF Majors
<1>2. PICK a \in Majors : \A t \in Majors : t <= a
  BY <1>1, Greatest
<1> DEFINE Minors == {v.minor : v \in {w \in S : w.major = a}}
<1>3. Minors \in SUBSET Int /\ Minors # {} /\ MaxMinor \in Int /\ \A t \in Minors : t <= MaxMinor
  BY <1>t, <1>2 DEF Bounds, Majors
<1> HIDE DEF Minors
<1>4. PICK b \in Minors : \A t \in Minors : t <= b
  BY <1>3, Greatest
<1>5. PICK v \in S : v.major = a /\ v.minor = b
  BY <1>4 DEF Minors
<1>6. ASSUME NEW w \in S PROVE v = w \/ Newer(v, w)
  <2>1. w.major \in Majors /\ (w.major = a => w.minor \in Minors)
    BY DEF Majors, Minors
  <2>2. w.major <= a /\ (w.major = a => w.minor <= b)
    BY <1>2, <1>4, <2>1
  <2>3. /\ v.major \in Int /\ w.major \in Int /\ v.minor \in Int /\ w.minor \in Int
        /\ v = [major |-> v.major, minor |-> v.minor] /\ w = [major |-> w.major, minor |-> w.minor]
    BY <1>t
  <2>4. v.major = w.major /\ v.minor = w.minor => v = w
    BY <2>3
  <2> QED BY <1>5, <2>2, <2>3, <2>4 DEF Newer, Process!Newer
<1> QED BY <1>5, <1>6

LEMMA RevParts ==
  ASSUME Bounds, NEW v \in Rev
  PROVE  /\ v.major \in 0..MaxMajor /\ v.minor \in -1..MaxMinor
         /\ v = [major |-> v.major, minor |-> v.minor]
         /\ Approved(v.major) \in Rev
         /\ v.minor = -1 => v = Approved(v.major)
BY DEF Bounds, Rev, Process!Rev, Approved, Process!Approved

LEMMA NextParts ==
  ASSUME Bounds, NEW v \in Rev, v.major < MaxMajor
  PROVE  /\ NextApproved(v) \in Rev /\ NextApproved(v).minor = -1
         /\ NextApproved(v).major = v.major + 1 /\ NextApproved(v).major >= 1
         /\ NextApproved(v) = Approved(v.major + 1)
BY RevParts DEF Bounds, Rev, Process!Rev, NextApproved, Approved, Process!Approved

\* What each handler takes as the revision of its charter
LEMMA NextRevIsBased ==
  ASSUME Bounds, RowInv, NEW v \in NextRev
  PROVE  v \in Rev /\ Based(v) /\ v.minor >= 0
<1>1. charter.rev \in Rev
  BY DEF RowInv
<1>2. CASE NotUploadedYet
  BY <1>1, <1>2 DEF NextRev, NotUploadedYet, RowInv
<1>3. CASE ~NotUploadedYet
  <2>1. v \in Rev /\ v.major = charter.rev.major /\ v.minor > charter.rev.minor
    BY <1>3 DEF NextRev
  <2>2. v.minor \in Int /\ charter.rev.minor \in Int /\ charter.rev.minor >= -1
    BY <1>1, <2>1, RevParts DEF Bounds
  <2> QED BY <2>1, <2>2 DEF RowInv, Based
<1> QED BY <1>2, <1>3

LEMMA RestoredIsBased ==
  ASSUME Bounds, RowInv
  PROVE  Restored \in Rev /\ Based(Restored)
<1> DEFINE later == {v \in saved : Newer(v, charter.rev)}
           rev   == IF later = {} THEN charter.rev
                    ELSE CHOOSE v \in later : \A w \in later : v = w \/ Newer(v, w)
<1>1. later \in SUBSET Rev
  BY DEF RowInv
<1>2. rev \in Rev /\ Based(rev)
  <2>1. CASE later = {}
    BY <2>1 DEF RowInv
  <2>2. CASE later # {}
    <3>1. \E v \in later : \A w \in later : v = w \/ Newer(v, w)
      BY <1>1, <2>2, NewestExists
    <3>2. rev \in later
      BY <2>2, <3>1
    <3> QED BY <1>1, <3>2 DEF RowInv
  <2> QED BY <2>1, <2>2
<1>3. Restored = IF rev.minor = -1 THEN [rev EXCEPT !.minor = 0] ELSE rev
  BY DEF Restored
<1> HIDE DEF rev
<1>4. [rev EXCEPT !.minor = 0] \in Rev /\ [rev EXCEPT !.minor = 0].major = rev.major
  BY <1>2 DEF Rev, Process!Rev, Bounds
<1> QED BY <1>2, <1>3, <1>4 DEF Based

LEMMA ApprovedIsBased ==
  ASSUME Bounds, RowInv
  PROVE  Approved(charter.rev.major) \in Rev /\ Based(Approved(charter.rev.major))
<1>1. charter.rev \in Rev
  BY DEF RowInv
<1>2. Approved(charter.rev.major) \in Rev
  BY <1>1, RevParts
<1> QED BY <1>2 DEF RowInv, Based, Approved, Process!Approved

(***************************************************************************)
(* Requests begin                                                          *)
(***************************************************************************)
\* A process takes up q while nothing but announcements is added.
LEMMA OneWorks ==
  ASSUME WorkInv, NEW r \in Req, NEW q \in Local, work' = [work EXCEPT ![r] = q],
         announced \subseteq announced', Knows(q), Holds(q)'
  PROVE  WorkInv'
<1>1. work' \in [Req -> Local]
  BY DEF WorkInv
<1>2. ASSUME NEW p \in Req PROVE Knows(work[p])' /\ Holds(work[p])'
  <2>1. CASE p = r
    <3>1. work'[p] = q
      BY <2>1 DEF WorkInv
    <3> QED BY <3>1 DEF Knows, Holds, Based
  <2>2. CASE p # r
    <3>1. work'[p] = work[p]
      BY <2>2 DEF WorkInv
    <3> QED BY <3>1 DEF WorkInv, Knows, Holds, Based
  <2> QED BY <2>1, <2>2
<1> QED BY <1>1, <1>2 DEF WorkInv

LEMMA LoadKeeps ==
  ASSUME Bounds, RowInv, WorkInv, NEW r \in Req, NEW op \in Op, NEW rev \in Rev, NEW to \in State,
         NEW ballot \in Choice, Load(r, op, rev, to, ballot), Based(rev),
         op = "submit" => rev.minor >= 0,
         op \in {"approve", "adopt"} => rev.major < MaxMajor
  PROVE  RowInv' /\ WorkInv'
<1>1. /\ UNCHANGED row
      /\ work' = [work EXCEPT ![r] = [pc |-> First(op), op |-> op, old |-> charter.rev, rev |-> rev,
                                      to |-> to, ballot |-> ballot]]
  BY DEF Load
<1>2. PICK q \in Local : q = [pc |-> First(op), op |-> op, old |-> charter.rev, rev |-> rev,
                              to |-> to, ballot |-> ballot]
  BY ScriptStarts DEF Local, RowInv
<1>3. /\ q.pc = First(op) /\ q.op = op /\ q.rev = rev /\ q.old = charter.rev
      /\ q.pc \in DOMAIN Script[op] /\ q.pc \notin {"write", "renumber"}
  BY <1>2, ScriptStarts
<1>4. Knows(q)
  BY <1>3, ScriptNames DEF Knows
<1>5. Based(charter.rev) /\ announced' = announced
  BY <1>1 DEF RowInv, row
<1>6. Holds(q)'
  BY <1>3, <1>5 DEF Holds, Based
<1>7. WorkInv'
  BY <1>1, <1>2, <1>4, <1>5, <1>6, OneWorks
<1>8. RowInv'
  BY <1>1 DEF RowInv, row, Based, TextsFollow
<1> QED BY <1>7, <1>8

LEMMA ChooseKeeps ==
  ASSUME Bounds, RowInv, WorkInv, NEW r \in Req, NEW s \in Stage \cup {"approved"}, NEW rev \in Rev,
         Based(rev), Choose(r, s, rev)
  PROVE  RowInv' /\ WorkInv'
<1>1. s \in State /\ "adopt" \in Op /\ "move" \in Op /\ "none" \in Choice
  BY DEF Stage, State, Process!State, Op, Choice
<1>2. CASE s = "approved"
  BY <1>1, <1>2, LoadKeeps DEF Choose
<1>3. CASE s # "approved"
  <2>1. PICK b \in BallotFor(s) : Load(r, "move", rev, s, b)
    BY <1>3 DEF Choose
  <2>2. b \in Choice
    BY <2>1 DEF BallotFor, Choice, Process!Kind
  <2> QED BY <1>1, <2>1, <2>2, LoadKeeps
<1> QED BY <1>2, <1>3

LEMMA StartKeeps ==
  ASSUME Bounds, RowInv, WorkInv, NEW r \in Req, Start(r)
  PROVE  RowInv' /\ WorkInv'
<1>t. /\ charter.rev \in Rev /\ charter.state \in State /\ Based(charter.rev)
      /\ "none" \in Choice /\ "notrev" \in State /\ "approved" \in State
  BY DEF RowInv, Choice, State, Process!State
<1>o. {"submit", "abandon", "drop", "approve", "edit", "note", "propose"} \subseteq Op
  BY DEF Op
<1>1. CASE Submit(r)
  <2>1. PICK v \in NextRev : Load(r, "submit", v, charter.state, "none")
    BY <1>1 DEF Submit
  <2> QED BY <1>t, <1>o, <2>1, NextRevIsBased, LoadKeeps
<1>2. CASE ChangeState(r)
  <2>1. PICK s \in Stage \cup {"approved"} : Choose(r, s, charter.rev)
    BY <1>2 DEF ChangeState, Stage, Process!Stage
  <2> QED BY <1>t, <2>1, ChooseKeeps
<1>3. CASE StartProcess(r)
  <2>1. PICK s \in Stage \cup {"approved"} : Choose(r, s, Restored)
    BY <1>3 DEF StartProcess, Stage, Process!Stage
  <2> QED BY <2>1, RestoredIsBased, ChooseKeeps
<1>4. CASE Abandon(r)
  <2>1. CASE Load(r, "drop", charter.rev, "notrev", "none")
    BY <1>t, <1>o, <2>1, LoadKeeps
  <2>2. CASE Load(r, "abandon", Approved(charter.rev.major), "approved", "none")
    BY <1>t, <1>o, <2>2, ApprovedIsBased, LoadKeeps
  <2> QED BY <1>4, <2>1, <2>2 DEF Abandon
<1>5. CASE Approve(r)
  BY <1>5, <1>t, <1>o, LoadKeeps DEF Approve
<1>6. CASE EditRow(r)
  <2>1. PICK op \in {"edit", "note"} : Load(r, op, charter.rev, charter.state, "none")
    BY <1>6 DEF EditRow
  <2> QED BY <1>t, <1>o, <2>1, LoadKeeps
<1>7. CASE Propose(r)
  BY <1>7, <1>t, <1>o, LoadKeeps DEF Propose
<1> QED BY <1>1, <1>2, <1>3, <1>4, <1>5, <1>6, <1>7 DEF Start

(***************************************************************************)
(* Requests go on                                                          *)
(***************************************************************************)
\* What a process holds that has come to a statement, and what it holds after
LEMMA StatementKeeps ==
  ASSUME Bounds, WorkInv, NEW r \in Req, NEW what \in PC \ {"idle"}, Statement(r, what),
         announced \subseteq announced', announced' \subseteq Rev,
         what = "announce" =>
           IF work[r].op = "submit" THEN work[r].rev \in announced'
                                    ELSE NextApproved(work[r].rev) \in announced'
  PROVE  /\ WorkInv'
         /\ work[r] \in Local /\ Holds(work[r]) /\ work[r].pc = what
         /\ what \in {"copy", "renumber"} => work[r].rev.major < MaxMajor
         /\ what = "write" => work[r].op = "submit"
         /\ what = "announce" /\ work[r].op # "submit" => work[r].rev.major < MaxMajor
<1>1. PICK q \in Local : q = work[r]
  BY DEF WorkInv
<1> DEFINE n == Script[q.op][what]
<1>2. Knows(q) /\ Holds(q) /\ q.pc = what
  BY <1>1 DEF WorkInv, Statement
<1>3. q.op \in DOMAIN Script /\ what \in DOMAIN Script[q.op]
  BY <1>2 DEF Knows
<1>4. work' = [work EXCEPT ![r] = IF n = "idle" THEN Idle ELSE [q EXCEPT !.pc = n]]
  BY <1>1 DEF Statement, WorkInv
<1>5. /\ n \in PC /\ (n = "idle" \/ n \in DOMAIN Script[q.op])
      /\ q.op = "submit" => n # "renumber" /\ (n = "write" => what = "announce")
      /\ q.op # "submit" => n # "write" /\ what # "write" /\ (n = "renumber" => what = "announce")
      /\ what \in {"copy", "renumber"} => q.op \in {"approve", "adopt"}
      /\ what = "announce" => q.op \in {"submit", "approve", "adopt"}
  BY <1>3, ScriptSteps
<1> HIDE DEF n
<1>6. ASSUME n = "idle" PROVE WorkInv'
  <2>1. Idle \in Local /\ Knows(Idle) /\ Idle.pc = "idle" /\ Idle.op = "edit"
                      /\ Idle.old = None /\ Idle.rev = None /\ None.major = 0
    BY DEF Idle, Local, PC, Op, Choice, None, Rev, Process!Rev, State, Process!State, Bounds, Knows
  <2>2. PICK i \in Local : i = Idle
    BY <2>1
  <2>3. Holds(i)'
    BY <2>1, <2>2 DEF Holds, Based
  <2>4. work' = [work EXCEPT ![r] = i] /\ Knows(i)
    BY <1>4, <1>6, <2>1, <2>2
  <2> QED BY <2>3, <2>4, OneWorks
<1>7. ASSUME n # "idle" PROVE WorkInv'
  <2>1. PICK i \in Local : i = [q EXCEPT !.pc = n]
    BY <1>5 DEF Local
  <2>2. i.pc = n /\ i.op = q.op /\ i.old = q.old /\ i.rev = q.rev
    BY <2>1 DEF Local
  <2>3. Knows(i)
    BY <1>2, <1>3, <1>5, <1>7, <2>2 DEF Knows
  <2>4. Holds(i)'
    BY <1>1, <1>2, <1>5, <2>2 DEF Holds, Based
  <2>5. work' = [work EXCEPT ![r] = i]
    BY <1>4, <1>7, <2>1
  <2> QED BY <2>3, <2>4, <2>5, OneWorks
<1>8. WorkInv'
  BY <1>6, <1>7
<1>9. /\ what \in {"copy", "renumber"} => q.rev.major < MaxMajor
      /\ what = "write" => q.op = "submit"
      /\ what = "announce" /\ q.op # "submit" => q.rev.major < MaxMajor
  BY <1>2, <1>5 DEF Knows
<1> QED BY <1>1, <1>2, <1>8, <1>9

\* A statement that writes neither revision, text nor announcement
LEMMA RowKept ==
  ASSUME RowInv, UNCHANGED <<type, text, saved, announced>>, charter'.rev = charter.rev,
         charter' \in [rev : Rev, state : State], group' \in Process!Group,
         ballots' \subseteq Process!Kind
  PROVE  RowInv'
BY DEF RowInv, Based, TextsFollow

\* A process that stops
LEMMA StopKeeps ==
  ASSUME Bounds, RowInv, WorkInv, NEW r \in Req, work' = [work EXCEPT ![r] = Idle], UNCHANGED row
  PROVE  RowInv' /\ WorkInv'
<1>1. Idle \in Local /\ Knows(Idle) /\ Idle.pc = "idle" /\ Idle.op = "edit"
                    /\ Idle.old = None /\ Idle.rev = None /\ None.major = 0
  BY DEF Idle, Local, PC, Op, Choice, None, Rev, Process!Rev, State, Process!State, Bounds, Knows
<1>2. PICK i \in Local : i = Idle
  BY <1>1
<1>3. Holds(i)'
  BY <1>1, <1>2 DEF Holds, Based
<1>4. WorkInv'
  BY <1>1, <1>2, <1>3, OneWorks DEF row
<1>5. RowInv'
  BY DEF RowInv, row, Based, TextsFollow
<1> QED BY <1>4, <1>5

LEMMA StepKeeps ==
  ASSUME Bounds, RowInv, WorkInv, NEW r \in Req, Step(r)
  PROVE  RowInv' /\ WorkInv'
<1>t. charter \in [rev : Rev, state : State] /\ announced \subseteq Rev
  BY DEF RowInv
<1>p. {"history", "announce", "write", "save", "state", "close", "ballot", "group", "copy",
       "renumber"} \subseteq PC \ {"idle"}
  BY DEF PC
<1>1. CASE SaveHistory(r)
  <2>1. /\ Statement(r, "history") /\ saved' = saved \cup {work[r].old}
        /\ UNCHANGED <<charter, type, group, ballots, text, announced>>
    BY <1>1 DEF SaveHistory
  <2>2. WorkInv' /\ work[r] \in Local /\ Holds(work[r])
    BY <1>t, <1>p, <2>1, StatementKeeps
  <2>3. work[r].old \in Rev /\ Based(work[r].old)
    BY <2>2 DEF Local, Holds
  <2>4. RowInv'
    BY <2>1, <2>3 DEF RowInv, Based, TextsFollow
  <2> QED BY <2>2, <2>4
<1>2. CASE SetState(r)
  <2>1. /\ Statement(r, "state") /\ charter' = [charter EXCEPT !.state = work[r].to]
        /\ UNCHANGED <<type, group, ballots, text, saved, announced>>
    BY <1>2 DEF SetState
  <2>2. WorkInv' /\ work[r] \in Local
    BY <1>t, <1>p, <2>1, StatementKeeps
  <2>3. work[r].to \in State
    BY <2>2 DEF Local
  <2>4. charter' \in [rev : Rev, state : State] /\ charter'.rev = charter.rev
    BY <1>t, <2>1, <2>3
  <2>5. RowInv'
    BY <2>1, <2>4, RowKept DEF RowInv
  <2> QED BY <2>2, <2>5
<1>3. CASE Save(r)
  <2>1. /\ Statement(r, "save") /\ charter' = [charter EXCEPT !.rev = work[r].rev]
        /\ UNCHANGED <<type, group, ballots, text, saved, announced>>
    BY <1>3 DEF Save
  <2>2. WorkInv' /\ work[r] \in Local /\ Holds(work[r])
    BY <1>t, <1>p, <2>1, StatementKeeps
  <2>3. work[r].rev \in Rev /\ Based(work[r].rev)
    BY <2>2 DEF Local, Holds
  <2>4. charter' \in [rev : Rev, state : State] /\ charter'.rev = work[r].rev
    BY <1>t, <2>1, <2>3
  <2>5. RowInv'
    BY <2>1, <2>3, <2>4 DEF RowInv, Based, TextsFollow
  <2> QED BY <2>2, <2>5
<1>4. CASE Close(r)
  <2>1. /\ Statement(r, "close") /\ ballots' = {}
        /\ UNCHANGED <<charter, type, group, text, saved, announced>>
    BY <1>4 DEF Close
  <2>2. WorkInv'
    BY <1>t, <1>p, <2>1, StatementKeeps
  <2>3. RowInv'
    BY <2>1, RowKept DEF RowInv
  <2> QED BY <2>2, <2>3
<1>5. CASE CreateBallot(r)
  <2>1. /\ Statement(r, "ballot") /\ ballots' = ballots \cup ({work[r].ballot} \ {"none"})
        /\ UNCHANGED <<charter, type, group, text, saved, announced>>
    BY <1>5 DEF CreateBallot
  <2>2. WorkInv' /\ work[r] \in Local
    BY <1>t, <1>p, <2>1, StatementKeeps
  <2>3. work[r].ballot \in Choice
    BY <2>2 DEF Local
  <2>4. RowInv'
    BY <2>1, <2>3, RowKept DEF RowInv, Choice
  <2> QED BY <2>2, <2>4
<1>6. CASE SetGroup(r)
  <2>1. /\ Statement(r, "group") /\ group' \in {"abandon", "proposed", "active"}
        /\ UNCHANGED <<charter, type, ballots, text, saved, announced>>
    BY <1>6 DEF SetGroup
  <2>2. WorkInv'
    BY <1>t, <1>p, <2>1, StatementKeeps
  <2>3. RowInv'
    BY <2>1, RowKept DEF RowInv, Process!Group
  <2> QED BY <2>2, <2>3
<1>7. CASE WriteText(r)
  <2>1. /\ Statement(r, "write") /\ text' = Written(work[r].rev)
        /\ UNCHANGED <<charter, type, group, ballots, saved, announced>>
    BY <1>7 DEF WriteText
  <2>2. /\ WorkInv' /\ work[r] \in Local /\ Holds(work[r]) /\ work[r].pc = "write"
        /\ work[r].op = "submit"
    BY <1>t, <1>p, <2>1, StatementKeeps
  <2>3. work[r].rev \in Rev /\ work[r].rev.minor >= 0 /\ work[r].rev \in announced
    BY <2>2 DEF Local, Holds
  <2>4. text' \in [Rev -> 0..2] /\ \A v \in Rev : v # work[r].rev => text'[v] = text[v]
    BY <2>1, <2>3 DEF RowInv, Written
  <2>5. TextsFollow'
    BY <2>1, <2>3, <2>4 DEF RowInv, TextsFollow
  <2> QED BY <2>1, <2>2, <2>4, <2>5 DEF RowInv, Based
<1>8. CASE CopyText(r)
  <2>1. /\ Statement(r, "copy") /\ text' = Written(NextApproved(work[r].rev))
        /\ UNCHANGED <<charter, type, group, ballots, saved, announced>>
    BY <1>8 DEF CopyText
  <2>2. WorkInv' /\ work[r] \in Local /\ work[r].rev.major < MaxMajor
    BY <1>t, <1>p, <2>1, StatementKeeps
  <2>3. /\ NextApproved(work[r].rev) \in Rev /\ NextApproved(work[r].rev).minor = -1
        /\ NextApproved(work[r].rev).major >= 1
    BY <2>2, NextParts DEF Local
  <2>4. /\ text' \in [Rev -> 0..2]
        /\ \A v \in Rev : v # NextApproved(work[r].rev) => text'[v] = text[v]
    BY <2>1, <2>3 DEF RowInv, Written
  <2>5. TextsFollow'
    BY <2>1, <2>3, <2>4 DEF RowInv, TextsFollow
  <2> QED BY <2>1, <2>2, <2>4, <2>5 DEF RowInv, Based
<1>9. CASE CopyFails(r)
  BY <1>9, StopKeeps DEF CopyFails
<1>10. CASE Announce(r)
  <2> DEFINE v == IF work[r].op = "submit" THEN work[r].rev ELSE NextApproved(work[r].rev)
  <2>1. /\ Statement(r, "announce") /\ announced' = announced \cup {v}
        /\ UNCHANGED <<charter, type, group, ballots, text, saved>>
    BY <1>10 DEF Announce
  <2>2. work[r] \in Local /\ Knows(work[r]) /\ work[r].pc = "announce"
    BY <2>1 DEF WorkInv, Statement
  <2>3. work[r].op # "submit" => work[r].rev.major < MaxMajor
    BY <2>2, ScriptSteps DEF Knows
  <2>4. v \in Rev
    BY <2>2, <2>3, NextParts DEF Local
  <2>5. WorkInv'
    BY <1>t, <1>p, <2>1, <2>4, StatementKeeps
  <2>6. RowInv'
    BY <1>t, <2>1, <2>4 DEF RowInv, Based, TextsFollow
  <2> QED BY <2>5, <2>6
<1>11. CASE Renumber(r)
  <2>1. /\ Statement(r, "renumber") /\ charter' = [charter EXCEPT !.rev = NextApproved(work[r].rev)]
        /\ UNCHANGED <<type, group, ballots, text, saved, announced>>
    BY <1>11 DEF Renumber
  <2>2. /\ WorkInv' /\ work[r] \in Local /\ Holds(work[r]) /\ work[r].pc = "renumber"
        /\ work[r].rev.major < MaxMajor
    BY <1>t, <1>p, <2>1, StatementKeeps
  <2> DEFINE v == NextApproved(work[r].rev)
  <2>3. v \in Rev /\ v.minor = -1 /\ v \in announced
    BY <2>2, NextParts DEF Local, Holds
  <2>4. v = Approved(v.major)
    BY <2>3, RevParts
  <2>5. charter' \in [rev : Rev, state : State] /\ charter'.rev = v
    BY <1>t, <2>1, <2>3
  <2> HIDE DEF v
  <2>6. RowInv'
    BY <2>1, <2>3, <2>4, <2>5 DEF RowInv, Based, TextsFollow
  <2> QED BY <2>2, <2>6
<1> QED
  BY <1>1, <1>2, <1>3, <1>4, <1>5, <1>6, <1>7, <1>8, <1>9, <1>10, <1>11 DEF Step

\* The ghost is a view of the rows.
LEMMA CurrentIsView == RowInv => Current \in Process!View
BY DEF RowInv, Current, Process!View, Rev, State

LEMMA CharterInit == Bounds /\ Init => CharterInv
<1> SUFFICES ASSUME Bounds, Init PROVE CharterInv
  OBVIOUS
<1> DEFINE zero == [major |-> 0, minor |-> 0]
<1>1. zero \in Rev /\ Approved(1) \in Rev /\ Approved(1).major = 1 /\ Approved(1).minor = -1
  BY DEF Bounds, Rev, Process!Rev, Approved, Process!Approved
<1>2. /\ type \in {"wg", "rg"} /\ ballots = {} /\ saved = {}
      /\ text = [v \in Rev |-> IF v \in announced THEN 1 ELSE 0]
  BY DEF Init
<1>c. \/ /\ group \in {"proposed", "bof"} /\ announced = {}
         /\ charter = [rev |-> zero, state |-> "notrev"]
      \/ /\ group = "active" /\ announced = {Approved(1)}
         /\ charter = [rev |-> Approved(1), state |-> "approved"]
  BY DEF Init
<1>d. /\ group \in Process!Group /\ announced \subseteq Rev
      /\ charter \in [rev : Rev, state : State]
      /\ \/ charter.rev = zero /\ announced = {}
         \/ charter.rev = Approved(1) /\ announced = {Approved(1)}
  BY <1>1, <1>c DEF Process!Group, State, Process!State, Process!Stage
<1>3. Based(charter.rev)
  BY <1>1, <1>d DEF Based
<1>4. TextsFollow
  BY <1>1, <1>2, <1>d DEF TextsFollow
<1>5. RowInv
  BY <1>2, <1>d, <1>3, <1>4 DEF RowInv
<1>6. Idle \in Local /\ Knows(Idle) /\ Holds(Idle)
  BY DEF Idle, Local, PC, Op, Choice, None, Rev, Process!Rev, State, Process!State, Bounds, Knows,
         Holds, Based
<1>7. WorkInv
  BY <1>6 DEF Init, WorkInv
<1> QED BY <1>5, <1>7, CurrentIsView DEF CharterInv, Init

LEMMA CharterStep ==
  ASSUME Bounds, CharterInv, [NextOK \/ Abort]_vars
  PROVE  CharterInv'
<1>1. ASSUME NEW r \in Req, Start(r) \/ Step(r) \/ Dies(r) PROVE RowInv' /\ WorkInv'
  BY <1>1, StartKeeps, StepKeeps, StopKeeps DEF Dies, CharterInv
<1>2. CASE NextOK \/ Abort
  <2>1. RowInv' /\ WorkInv'
    BY <1>1, <1>2 DEF NextOK, Abort
  <2>2. shown' = Current' \/ shown' = shown
    BY <1>2 DEF NextOK, Abort, Show
  <2>3. Current' \in Process!View
    BY <2>1, CurrentIsView DEF RowInv, Current, Process!View, Rev, State
  <2> QED BY <2>1, <2>2, <2>3 DEF CharterInv, Process!View
<1>3. CASE UNCHANGED vars
  BY <1>3 DEF vars, CharterInv, RowInv, WorkInv, Knows, Holds, Based, TextsFollow
<1> QED BY <1>2, <1>3

\* doc/views_charter: the variables keep to their types.
THEOREM TypeCorrect == ASSUME Bounds PROVE Spec => []TypeOK
<1>1. Init => CharterInv
  BY CharterInit
<1>2. CharterInv /\ [NextOK \/ Abort]_vars => CharterInv'
  BY CharterStep
<1>3. CharterInv => TypeOK
  BY DEF CharterInv, RowInv, WorkInv, TypeOK
<1> QED
  BY <1>1, <1>2, <1>3, PTL DEF Spec

LEMMA TextFollows == Bounds /\ CharterInv => TextIsAnnounced
<1> SUFFICES ASSUME Bounds, CharterInv, text[charter.rev] > 0 PROVE charter.rev \in announced
  BY DEF TextIsAnnounced
<1>1. charter.rev \in Rev /\ Based(charter.rev) /\ TextsFollow
  BY DEF CharterInv, RowInv
<1>2. CASE charter.rev.minor # -1
  BY <1>1, <1>2 DEF TextsFollow
<1>3. CASE charter.rev.minor = -1
  <2>1. charter.rev.major >= 1
    BY <1>1, <1>3 DEF TextsFollow
  <2>2. charter.rev = Approved(charter.rev.major)
    BY <1>1, <1>3, RevParts
  <2>3. Approved(charter.rev.major) \in announced
    BY <1>1, <2>1 DEF Based
  <2> QED BY <2>2, <2>3
<1> QED BY <1>2, <1>3

\* charter_with_milestones_txt: the text of the revision a charter has was
\* announced, however requests overlap and wherever they die.
THEOREM TextsAreAnnounced == ASSUME Bounds PROVE Spec => []TextIsAnnounced
<1>1. Init => CharterInv
  BY CharterInit
<1>2. CharterInv /\ [NextOK \/ Abort]_vars => CharterInv'
  BY CharterStep
<1>3. CharterInv => TextIsAnnounced
  BY TextFollows
<1> QED
  BY <1>1, <1>2, <1>3, PTL DEF Spec
(***************************************************************************)
(* Requests that neither overlap nor die                                   *)
(***************************************************************************)
\* The statements that a request has behind it
Behind == [
  submit  |-> [history |-> {}, announce |-> {"history"}, write |-> {"history", "announce"},
               save |-> {"history", "announce", "write"}],
  move    |-> [history |-> {}, state |-> {"history"}, save |-> {"history", "state"},
               ballot |-> {"history", "state", "save"}],
  abandon |-> [history |-> {}, state |-> {"history"}, close |-> {"history", "state"},
               save |-> {"history", "state", "close"}],
  drop    |-> [group |-> {}, history |-> {"group"}, state |-> {"group", "history"},
               close |-> {"group", "history", "state"},
               save |-> {"group", "history", "state", "close"}],
  approve |-> [history |-> {}, state |-> {"history"}, close |-> {"history", "state"},
               group |-> {"history", "state", "close"},
               copy |-> {"history", "state", "close", "group"},
               announce |-> {"history", "state", "close", "group", "copy"},
               renumber |-> {"history", "state", "close", "group", "copy", "announce"}],
  adopt   |-> [history |-> {}, state |-> {"history"}, save |-> {"history", "state"},
               group |-> {"history", "state", "save"},
               copy |-> {"history", "state", "save", "group"},
               announce |-> {"history", "state", "save", "group", "copy"},
               renumber |-> {"history", "state", "save", "group", "copy", "announce"}],
  edit    |-> [history |-> {}, save |-> {"history"}],
  note    |-> [save |-> {}],
  propose |-> [group |-> {}]]

\* The rows are those of the charter when it was at rest, b, as far as request q, which has the
\* statements D behind it, has not changed them.
Rows(b, D, q) ==
  /\ charter.state = IF "state" \in D THEN q.to ELSE b.state
  /\ charter.rev = IF "renumber" \in D THEN NextApproved(q.rev)
                   ELSE IF "save" \in D THEN q.rev ELSE b.rev
  /\ ballots = (IF "close" \in D THEN {} ELSE b.ballots)
                 \cup (IF "ballot" \in D THEN {q.ballot} \ {"none"} ELSE {})
  /\ group = IF "group" \notin D THEN b.group
             ELSE CASE q.op = "drop" -> "abandon"
                    [] q.op = "propose" -> "proposed"
                    [] OTHER -> "active"
  /\ \A v \in Rev : text[v] > 0 <=> \/ v \in b.texts
                                    \/ "write" \in D /\ v = q.rev
                                    \/ "copy" \in D /\ v = NextApproved(q.rev)
  /\ "copy" \in D => q.rev \in b.texts

\* Nothing is lost and nothing is numbered twice: a text, and an approval that
\* was announced, is in the history, in force or what request q has made.
Filed(b, D, q) ==
  /\ \A v \in Rev :
       /\ text[v] <= 1
       /\ text[v] > 0 => \/ v \in saved \cup {b.rev}
                         \/ "write" \in D /\ v = q.rev
                         \/ "copy" \in D /\ v = NextApproved(q.rev)
  /\ \A v \in announced :
       v.minor = -1 => /\ v.major >= 1
                       /\ \/ v \in saved \cup {b.rev}
                          \/ "announce" \in D /\ q.op # "submit" /\ v = NextApproved(q.rev)
  /\ \A v \in saved : v.major <= b.rev.major
  /\ "history" \in D => b.rev \in saved

\* No ballot is open on a charter at rest that is not under review, and the IESG
\* does not ballot on charters of research groups.
BallotsFit(b) ==
  /\ type = "rg" => b.ballots = {}
  /\ b.state \in {"notrev", "approved"} => b.ballots = {}

\* A revision of the same effort, not before the one in force
Continues(b, v) == v = b.rev \/ (v.major = b.rev.major /\ Newer(v, b.rev))

\* What a request has read and chosen
Chosen(b, q) ==
  /\ q.old = b.rev /\ q.rev.major = b.rev.major
  /\ CASE q.op = "submit"  -> q.rev \notin b.texts /\ q.rev.minor >= 0 /\ Continues(b, q.rev)
       [] q.op = "move"    -> /\ q.to \in Stage /\ Continues(b, q.rev)
                              /\ {q.ballot} \ {"none"} \in Process!Opens(q.to)
                              /\ type = "rg" => q.ballot = "none"
       [] q.op = "abandon" -> /\ b.group \notin {"proposed", "bof"}
                              /\ q.to = "approved" /\ q.rev = Approved(b.rev.major)
       [] q.op = "drop"    -> /\ b.group \in {"proposed", "bof"}
                              /\ q.to = "notrev" /\ q.rev = b.rev
       [] q.op = "approve" -> q.to = "approved" /\ q.rev = b.rev
       [] q.op = "adopt"   -> q.to = "approved" /\ type = "rg" /\ Continues(b, q.rev)
       [] OTHER            -> q.rev = b.rev

AtWork(q) ==
  Chosen(shown, q) /\ Rows(shown, Behind[q.op][q.pc], q) /\ Filed(shown, Behind[q.op][q.pc], q)

SerialInv ==
  /\ CharterInv /\ BallotsFit(shown)
  /\ IF Quiet THEN shown = Current /\ Filed(shown, {}, Idle)
     ELSE \A r \in Req : AtWork(work[r])

LEMMA BehindScript ==
  ASSUME NEW op \in DOMAIN Script, NEW pc \in DOMAIN Script[op]
  PROVE  LET n == Script[op][pc]
             D == Behind[op][pc]
         IN /\ pc \notin D /\ Behind[op][First(op)] = {}
            /\ n # "idle" => Behind[op][n] = D \cup {pc}
            /\ pc = "save" => "renumber" \notin D
            /\ pc = "close" => "ballot" \notin D
            /\ pc = "write" => "copy" \notin D /\ op = "submit"
            /\ pc = "copy" => "write" \notin D
<1>1. CASE op = "submit"
  BY <1>1 DEF Script, Behind, First
<1>2. CASE op = "move"
  BY <1>2 DEF Script, Behind, First
<1>3. CASE op = "abandon"
  BY <1>3 DEF Script, Behind, First
<1>4. CASE op = "drop"
  BY <1>4 DEF Script, Behind, First
<1>5. CASE op = "approve"
  BY <1>5 DEF Script, Behind, First
<1>6. CASE op = "adopt"
  BY <1>6 DEF Script, Behind, First
<1>7. CASE op = "edit"
  BY <1>7 DEF Script, Behind, First
<1>8. CASE op = "note"
  BY <1>8 DEF Script, Behind, First
<1>9. CASE op = "propose"
  BY <1>9 DEF Script, Behind, First
<1> QED
  BY <1>1, <1>2, <1>3, <1>4, <1>5, <1>6, <1>7, <1>8, <1>9 DEF Script

\* After its last statement a request has the whole script behind it.
LEMMA BehindAll ==
  ASSUME NEW op \in DOMAIN Script, NEW pc \in DOMAIN Script[op], Script[op][pc] = "idle"
  PROVE  Behind[op][pc] \cup {pc} = DOMAIN Script[op]
<1>1. CASE op = "submit"
  BY <1>1 DEF Script, Behind
<1>2. CASE op = "move"
  BY <1>2 DEF Script, Behind
<1>3. CASE op = "abandon"
  BY <1>3 DEF Script, Behind
<1>4. CASE op = "drop"
  BY <1>4 DEF Script, Behind
<1>5. CASE op = "approve"
  BY <1>5 DEF Script, Behind
<1>6. CASE op = "adopt"
  BY <1>6 DEF Script, Behind
<1>7. CASE op = "edit"
  BY <1>7 DEF Script, Behind
<1>8. CASE op = "note"
  BY <1>8 DEF Script, Behind
<1>9. CASE op = "propose"
  BY <1>9 DEF Script, Behind
<1> QED
  BY <1>1, <1>2, <1>3, <1>4, <1>5, <1>6, <1>7, <1>8, <1>9 DEF Script

\* A statement makes of the rows what Rows says of a request that has it behind it.
LEMMA StatementShows ==
  ASSUME Bounds, CharterInv, NEW r \in Req, NEW q \in Local, q = work[r], q.pc # "idle",
         NEW b \in Process!View, NEW D, D = Behind[q.op][q.pc],
         Chosen(b, q), Rows(b, D, q), Filed(b, D, q), Step(r), ~CopyFails(r)
  PROVE  /\ Rows(b, D \cup {q.pc}, q)' /\ Filed(b, D \cup {q.pc}, q)' /\ type' = type
         /\ LET n == Script[q.op][q.pc]
            IN work' = [work EXCEPT ![r] = IF n = "idle" THEN Idle ELSE [q EXCEPT !.pc = n]]
<1>1. /\ q.op \in DOMAIN Script /\ q.pc \in DOMAIN Script[q.op] /\ q.pc \notin D
      /\ q.pc = "save" => "renumber" \notin D
      /\ q.pc = "close" => "ballot" \notin D
      /\ q.pc = "write" => "copy" \notin D /\ q.op = "submit"
      /\ q.pc = "copy" => "write" \notin D /\ q.op \in {"approve", "adopt"}
      /\ q.pc = "renumber" => q.op \in {"approve", "adopt"}
      /\ q.pc = "announce" => q.op \in {"submit", "approve", "adopt"}
      /\ q.op \in {"approve", "adopt"} => q.rev.major < MaxMajor
  BY BehindScript, ScriptSteps DEF CharterInv, WorkInv, Knows
<1>2. /\ q.rev \in Rev /\ b.rev \in Rev /\ q.old = b.rev /\ q.rev.major = b.rev.major
      /\ q.op \in {"approve", "adopt"} =>
           NextApproved(q.rev) \in Rev /\ NextApproved(q.rev).major = q.rev.major + 1
  BY <1>1, NextParts DEF Local, Chosen, Process!View, Rev
<1>3. /\ charter \in [rev : Rev, state : State] /\ text \in [Rev -> 0..2]
      /\ saved \subseteq Rev /\ announced \subseteq Rev
  BY DEF CharterInv, RowInv
<1> DEFINE E == D \cup {q.pc}
<1>e. \A x : x \in E <=> x \in D \/ x = q.pc
  OBVIOUS
<1> HIDE DEF E
<1> SUFFICES /\ Rows(b, E, q)' /\ Filed(b, E, q)' /\ type' = type /\ Statement(r, q.pc)
  BY DEF E, Statement
<1> USE <1>1, <1>2, <1>3, <1>e
<1>4. CASE SaveHistory(r)
  <2>1. /\ Statement(r, "history") /\ q.pc = "history" /\ saved' = saved \cup {b.rev}
        /\ UNCHANGED <<charter, type, group, ballots, text, announced>>
    BY <1>4 DEF SaveHistory, Statement
  <2>2. b.rev.major <= b.rev.major
    BY RevParts
  <2>3. Rows(b, E, q)'
    BY <2>1 DEF Rows
  <2>4. Filed(b, E, q)'
    BY <2>1, <2>2 DEF Filed
  <2> QED BY <2>1, <2>3, <2>4
<1>5. CASE SetState(r)
  <2>1. /\ Statement(r, "state") /\ q.pc = "state" /\ charter' = [charter EXCEPT !.state = q.to]
        /\ UNCHANGED <<type, group, ballots, text, saved, announced>>
    BY <1>5 DEF SetState, Statement
  <2>2. charter'.state = q.to /\ charter'.rev = charter.rev
    BY <2>1
  <2> QED BY <2>1, <2>2 DEF Rows, Filed
<1>6. CASE Save(r)
  <2>1. /\ Statement(r, "save") /\ q.pc = "save" /\ charter' = [charter EXCEPT !.rev = q.rev]
        /\ UNCHANGED <<type, group, ballots, text, saved, announced>>
    BY <1>6 DEF Save, Statement
  <2>2. charter'.rev = q.rev /\ charter'.state = charter.state
    BY <2>1
  <2> QED BY <2>1, <2>2 DEF Rows, Filed
<1>7. CASE Close(r)
  <2>1. /\ Statement(r, "close") /\ q.pc = "close" /\ ballots' = {}
        /\ UNCHANGED <<charter, type, group, text, saved, announced>>
    BY <1>7 DEF Close, Statement
  <2> QED BY <2>1 DEF Rows, Filed
<1>8. CASE CreateBallot(r)
  <2>1. /\ Statement(r, "ballot") /\ q.pc = "ballot" /\ ballots' = ballots \cup ({q.ballot} \ {"none"})
        /\ UNCHANGED <<charter, type, group, text, saved, announced>>
    BY <1>8 DEF CreateBallot, Statement
  <2> QED BY <2>1 DEF Rows, Filed
<1>9. CASE SetGroup(r)
  <2>1. /\ Statement(r, "group") /\ q.pc = "group"
        /\ group' = CASE q.op = "drop" -> "abandon"
                      [] q.op = "propose" -> "proposed"
                      [] OTHER -> "active"
        /\ UNCHANGED <<charter, type, ballots, text, saved, announced>>
    BY <1>9 DEF SetGroup, Statement
  <2> QED BY <2>1 DEF Rows, Filed
<1>10. CASE WriteText(r)
  <2>1. /\ Statement(r, "write") /\ q.pc = "write" /\ text' = Written(q.rev)
        /\ UNCHANGED <<charter, type, group, ballots, saved, announced>>
    BY <1>10 DEF WriteText, Statement
  <2>2. q.rev \notin b.texts /\ text[q.rev] = 0
    BY <2>1 DEF Chosen, Rows
  <2>3. \A v \in Rev : text'[v] = IF v = q.rev THEN 1 ELSE text[v]
    BY <2>1, <2>2 DEF Written
  <2> QED BY <2>1, <2>2, <2>3 DEF Rows, Filed
<1>11. CASE CopyText(r)
  <2> DEFINE w == NextApproved(q.rev)
  <2>1. /\ Statement(r, "copy") /\ q.pc = "copy" /\ text' = Written(w)
        /\ UNCHANGED <<charter, type, group, ballots, saved, announced>>
    BY <1>11 DEF CopyText, Statement
  <2>2. w \in Rev /\ w.major > b.rev.major
    BY <2>1 DEF Rev, Process!Rev, Bounds
  <2>3. w \notin saved /\ w # b.rev
    <3>1. \A v \in saved : v.major <= b.rev.major
      BY DEF Filed
    <3>2. b.rev.major \in Int /\ w.major \in Int
      BY <2>2, RevParts
    <3> QED BY <2>2, <3>1, <3>2
  <2>4. text[w] = 0
    BY <2>1, <2>2, <2>3 DEF Filed
  <2>5. \A v \in Rev : text'[v] = IF v = w THEN 1 ELSE text[v]
    BY <2>1, <2>2, <2>4 DEF Written
  <2> HIDE DEF w
  <2>6. w = NextApproved(q.rev)
    BY DEF w
  <2>7. q.rev \in b.texts
    BY <1>11, <2>1 DEF CopyText, Rows
  <2> QED BY <2>1, <2>4, <2>5, <2>6, <2>7 DEF Rows, Filed
<1>12. CASE Announce(r)
  <2>1. /\ Statement(r, "announce") /\ q.pc = "announce"
        /\ announced' = announced \cup {IF q.op = "submit" THEN q.rev ELSE NextApproved(q.rev)}
        /\ UNCHANGED <<charter, type, group, ballots, text, saved>>
    BY <1>12 DEF Announce, Statement
  <2>2. q.op = "submit" => q.rev.minor # -1
    BY RevParts DEF Chosen
  <2>3. q.op # "submit" => NextApproved(q.rev).major >= 1
    BY <2>1, NextParts
  <2> QED BY <2>1, <2>2, <2>3 DEF Rows, Filed
<1>13. CASE Renumber(r)
  <2>1. /\ Statement(r, "renumber") /\ q.pc = "renumber"
        /\ charter' = [charter EXCEPT !.rev = NextApproved(q.rev)]
        /\ UNCHANGED <<type, group, ballots, text, saved, announced>>
    BY <1>13 DEF Renumber, Statement
  <2>2. charter'.rev = NextApproved(q.rev) /\ charter'.state = charter.state
    BY <2>1
  <2> QED BY <2>1, <2>2 DEF Rows, Filed
<1> QED
  BY <1>4, <1>5, <1>6, <1>7, <1>8, <1>9, <1>10, <1>11, <1>12, <1>13 DEF Step

LEMMA SameView ==
  ASSUME NEW c \in Process!View, NEW d \in Process!View, c.rev = d.rev, c.state = d.state,
         c.ballots = d.ballots, c.group = d.group, c.texts = d.texts
  PROVE  c = d
BY DEF Process!View

\* A request that has all its statements behind it has done what one of the
\* buttons promises, or nothing that the pages show.
LEMMA RequestDone ==
  ASSUME Bounds, CharterInv', NEW q \in Local, q.op \in DOMAIN Script,
         q.op \in {"approve", "adopt"} => q.rev.major < MaxMajor,
         shown \in Process!View, shown' = Current', type' = type,
         Chosen(shown, q), BallotsFit(shown),
         NEW b \in Process!View, b = shown, NEW D, D = DOMAIN Script[q.op],
         Rows(b, D, q)', Filed(b, D, q)', NEW i
  PROVE  [Process!Next]_shown /\ BallotsFit(shown)' /\ Filed(shown, {}, i)'
<1> DEFINE T == {v \in Rev : text'[v] > 0}
<1>1. /\ shown' = [rev |-> charter'.rev, state |-> charter'.state, ballots |-> ballots',
                   group |-> group', texts |-> T]
      /\ shown' \in Process!View /\ \A v : v \in T <=> v \in Rev /\ text'[v] > 0
  BY DEF Current, CharterInv
<1>2. /\ q.rev \in Rev /\ b.rev \in Rev /\ q.old = b.rev /\ q.rev.major = b.rev.major
      /\ q.op \in {"approve", "adopt"} =>
           /\ NextApproved(q.rev) \in Rev /\ NextApproved(q.rev) = Approved(q.rev.major + 1)
           /\ NextApproved(q.rev).major = q.rev.major + 1
  BY NextParts DEF Local, Chosen, Process!View, Rev
<1>3. /\ b.texts \subseteq Rev /\ saved' \subseteq Rev /\ announced' \subseteq Rev
  BY DEF Process!View, Rev, CharterInv, RowInv
<1>4. b.rev.major \in Int /\ b.rev.minor \in Int /\ \A v \in Rev : v.major \in Int /\ v.minor \in Int
  BY <1>2, RevParts
<1>f. /\ charter'.rev \in Process!Rev /\ charter'.state \in Process!State /\ group' \in Process!Group
      /\ ballots' \in SUBSET Process!Kind /\ T \in SUBSET Process!Rev
  BY <1>1 DEF Process!View
<1> HIDE DEF T
<1> USE <1>1, <1>2, <1>3, <1>4
<1>5. CASE q.op = "submit"
  <2>1. D = {"history", "announce", "write", "save"}
    BY <1>5 DEF Script
  <2>2. /\ charter'.rev = q.rev /\ charter'.state = b.state /\ ballots' = b.ballots
        /\ group' = b.group /\ T = b.texts \cup {q.rev}
    BY <1>5, <2>1 DEF Rows
  <2>3. shown' = [shown EXCEPT !.rev = q.rev, !.texts = @ \cup {q.rev}]
    <3>1. PICK d \in Process!View : d = [shown EXCEPT !.rev = q.rev, !.texts = @ \cup {q.rev}]
      BY <2>2, <1>f DEF Process!View
    <3>2. /\ d.rev = shown'.rev /\ d.state = shown'.state /\ d.ballots = shown'.ballots
          /\ d.group = shown'.group /\ d.texts = shown'.texts
      BY <2>2, <3>1 DEF Process!View
    <3> QED BY <3>1, <3>2, SameView
  <2>4. Process!Revise
    BY <1>5, <2>3 DEF Process!Revise, Chosen, Continues, Newer, Rev
  <2>5. BallotsFit(shown)'
    BY <2>2 DEF BallotsFit
  <2>6. Filed(shown, {}, i)'
    BY <1>5, <2>1, <2>2 DEF Filed
  <2> QED BY <2>4, <2>5, <2>6 DEF Process!Next
<1>6. CASE q.op = "move"
  <2> DEFINE k == {q.ballot} \ {"none"}
  <2>1. D = {"history", "state", "save", "ballot"}
    BY <1>6 DEF Script
  <2>2. /\ charter'.rev = q.rev /\ charter'.state = q.to /\ group' = b.group /\ T = b.texts
        /\ ballots' = b.ballots \cup k
    BY <1>6, <2>1 DEF Rows
  <2>3. shown' = [shown EXCEPT !.state = q.to, !.rev = q.rev, !.ballots = @ \cup k]
    <3>1. PICK d \in Process!View : d = [shown EXCEPT !.state = q.to, !.rev = q.rev, !.ballots = @ \cup k]
      BY <2>2, <1>f DEF Process!View
    <3>2. /\ d.rev = shown'.rev /\ d.state = shown'.state /\ d.ballots = shown'.ballots
          /\ d.group = shown'.group /\ d.texts = shown'.texts
      BY <2>2, <3>1 DEF Process!View
    <3> QED BY <3>1, <3>2, SameView
  <2>4. Process!Move
    <3>1. q.to \in Process!Stage /\ k \in Process!Opens(q.to) /\ Continues(b, q.rev)
      BY <1>6 DEF Chosen, Stage
    <3> HIDE DEF k
    <3>2. /\ q.rev \in Process!Rev
          /\ q.rev = shown.rev \/ (q.rev.major = shown.rev.major /\ Process!Newer(q.rev, shown.rev))
      BY <3>1 DEF Continues, Newer, Rev
    <3>3. \E c \in Process!Opens(q.to) :
            shown' = [shown EXCEPT !.state = q.to, !.rev = q.rev, !.ballots = @ \cup c]
      BY <2>3, <3>1
    <3> QED BY <3>1, <3>2, <3>3 DEF Process!Move
  <2>5. BallotsFit(shown)'
    BY <1>6, <2>2 DEF BallotsFit, Chosen, Stage, Process!Stage
  <2>6. Filed(shown, {}, i)'
    BY <1>6, <2>1, <2>2 DEF Filed
  <2> QED BY <2>4, <2>5, <2>6 DEF Process!Next
<1>7. CASE q.op = "abandon"
  <2>1. D = {"history", "state", "close", "save"}
    BY <1>7 DEF Script
  <2>2. /\ charter'.rev = Approved(b.rev.major) /\ charter'.state = "approved" /\ group' = b.group
        /\ T = b.texts /\ ballots' = {} /\ b.group \notin {"proposed", "bof"}
        /\ charter'.rev.major = b.rev.major
    BY <1>7, <2>1 DEF Rows, Chosen
  <2>3. shown' = [shown EXCEPT !.state = "approved", !.rev = Approved(@.major), !.ballots = {}]
    <3>1. PICK d \in Process!View : d = [shown EXCEPT !.state = "approved", !.rev = Approved(@.major), !.ballots = {}]
      BY <2>2, <1>f DEF Process!View
    <3>2. /\ d.rev = shown'.rev /\ d.state = shown'.state /\ d.ballots = shown'.ballots
          /\ d.group = shown'.group /\ d.texts = shown'.texts
      BY <2>2, <3>1 DEF Process!View
    <3> QED BY <3>1, <3>2, SameView
  <2>4. Process!Abandon
    BY <2>2, <2>3 DEF Process!Abandon, Approved
  <2>5. BallotsFit(shown)'
    BY <2>2 DEF BallotsFit
  <2>6. Filed(shown, {}, i)'
    BY <1>7, <2>1, <2>2 DEF Filed
  <2> QED BY <2>4, <2>5, <2>6 DEF Process!Next
<1>8. CASE q.op = "drop"
  <2>1. D = {"group", "history", "state", "close", "save"}
    BY <1>8 DEF Script
  <2>2. /\ charter'.rev = b.rev /\ charter'.state = "notrev" /\ group' = "abandon"
        /\ T = b.texts /\ ballots' = {} /\ b.group \in {"proposed", "bof"}
    BY <1>8, <2>1 DEF Rows, Chosen
  <2>3. shown' = [shown EXCEPT !.state = "notrev", !.group = "abandon", !.ballots = {}]
    <3>1. PICK d \in Process!View : d = [shown EXCEPT !.state = "notrev", !.group = "abandon", !.ballots = {}]
      BY <2>2, <1>f DEF Process!View
    <3>2. /\ d.rev = shown'.rev /\ d.state = shown'.state /\ d.ballots = shown'.ballots
          /\ d.group = shown'.group /\ d.texts = shown'.texts
      BY <2>2, <3>1 DEF Process!View
    <3> QED BY <3>1, <3>2, SameView
  <2>4. Process!Abandon
    BY <2>2, <2>3 DEF Process!Abandon
  <2>5. BallotsFit(shown)'
    BY <2>2 DEF BallotsFit
  <2>6. Filed(shown, {}, i)'
    BY <1>8, <2>1, <2>2 DEF Filed
  <2> QED BY <2>4, <2>5, <2>6 DEF Process!Next
<1>9. CASE q.op \in {"approve", "adopt"}
  <2> DEFINE w == NextApproved(q.rev)
             k == IF q.op = "approve" THEN {} ELSE b.ballots
  <2>1. D = IF q.op = "approve"
            THEN {"history", "state", "close", "group", "copy", "announce", "renumber"}
            ELSE {"history", "state", "save", "group", "copy", "announce", "renumber"}
    BY <1>9 DEF Script
  <2>2. /\ charter'.rev = w /\ charter'.state = "approved" /\ group' = "active"
        /\ ballots' = k
        /\ q.op = "adopt" => type = "rg"
    BY <1>9, <2>1 DEF Rows, Chosen
  <2>3. T = b.texts \cup {w} /\ w \in Rev /\ w.major = b.rev.major + 1
    BY <1>9, <2>1 DEF Rows
  <2>4. q.rev \in b.texts
    BY <1>9, <2>1 DEF Rows
  <2>5. shown' = [shown EXCEPT !.state = "approved", !.group = "active", !.ballots = k, !.rev = w,
                               !.texts = @ \cup {w}]
    <3>1. PICK d \in Process!View : d = [shown EXCEPT !.state = "approved", !.group = "active", !.ballots = k, !.rev = w,
                               !.texts = @ \cup {w}]
      BY <2>2, <2>3, <1>f DEF Process!View
    <3>2. /\ d.rev = shown'.rev /\ d.state = shown'.state /\ d.ballots = shown'.ballots
          /\ d.group = shown'.group /\ d.texts = shown'.texts
      BY <2>2, <2>3, <3>1 DEF Process!View
    <3> QED BY <3>1, <3>2, SameView
  <2>6. q.rev = b.rev \/ Newer(q.rev, b.rev)
    BY <1>9 DEF Chosen, Continues
  <2> HIDE DEF w, k
  <2>7. w = Approved(q.rev.major + 1) /\ k \in {{}, b.ballots}
    BY <1>9 DEF w, k
  <2>8. Process!Approve
    BY <2>4, <2>5, <2>6, <2>7 DEF Process!Approve, Newer, Rev, Approved
  <2>9. BallotsFit(shown)'
    BY <1>9, <2>2 DEF BallotsFit, k
  <2>10. Filed(shown, {}, i)'
    <3>1. "announce" \in D /\ "copy" \in D /\ "history" \in D /\ "write" \notin D
      BY <1>9, <2>1
    <3>2. w = NextApproved(q.rev)
      BY DEF w
    <3> QED BY <2>2, <2>3, <3>1, <3>2 DEF Filed
  <2> QED BY <2>8, <2>9, <2>10 DEF Process!Next
<1>10. CASE q.op \in {"edit", "note"}
  <2>1. D = IF q.op = "edit" THEN {"history", "save"} ELSE {"save"}
    BY <1>10 DEF Script
  <2>2. /\ charter'.rev = b.rev /\ charter'.state = b.state /\ group' = b.group
        /\ T = b.texts /\ ballots' = b.ballots
    BY <1>10, <2>1 DEF Rows, Chosen
  <2>3. shown' = shown
    BY <2>2, SameView
  <2>5. BallotsFit(shown)'
    BY <2>2 DEF BallotsFit
  <2>6. Filed(shown, {}, i)'
    BY <1>10, <2>1, <2>2 DEF Filed
  <2> QED BY <2>3, <2>5, <2>6
<1>11. CASE q.op = "propose"
  <2>1. D = {"group"}
    BY <1>11 DEF Script
  <2>2. /\ charter'.rev = b.rev /\ charter'.state = b.state /\ group' = "proposed"
        /\ T = b.texts /\ ballots' = b.ballots
    BY <1>11, <2>1 DEF Rows, Chosen
  <2>3. shown' = [shown EXCEPT !.group = "proposed"]
    <3>1. PICK d \in Process!View : d = [shown EXCEPT !.group = "proposed"]
      BY <2>2, <1>f DEF Process!View
    <3>2. /\ d.rev = shown'.rev /\ d.state = shown'.state /\ d.ballots = shown'.ballots
          /\ d.group = shown'.group /\ d.texts = shown'.texts
      BY <2>2, <3>1 DEF Process!View
    <3> QED BY <3>1, <3>2, SameView
  <2>4. Process!Propose
    BY <2>2, <2>3 DEF Process!Propose
  <2>5. BallotsFit(shown)'
    BY <2>2 DEF BallotsFit
  <2>6. Filed(shown, {}, i)'
    BY <1>11, <2>1, <2>2 DEF Filed
  <2> QED BY <2>4, <2>5, <2>6 DEF Process!Next
<1> QED
  BY <1>5, <1>6, <1>7, <1>8, <1>9, <1>10, <1>11, ScriptNames DEF Op

\* A request that finds no text to number is done as well.
LEMMA RequestFails ==
  ASSUME Bounds, CharterInv, CharterInv', NEW r \in Req, NEW q \in Local, q = work[r],
         shown' = Current', CopyFails(r), AtWork(q), BallotsFit(shown), NEW i
  PROVE  [Process!Next]_shown /\ BallotsFit(shown)' /\ Filed(shown, {}, i)'
<1> DEFINE T == {v \in Rev : text[v] > 0}
           k == IF q.op = "approve" THEN {} ELSE shown.ballots
           D == Behind[q.op][q.pc]
<1>1. UNCHANGED row /\ q.pc = "copy" /\ text[q.rev] = 0
  BY DEF CopyFails
<1>2. q.op \in {"approve", "adopt"}
  BY <1>1, ScriptSteps DEF CharterInv, WorkInv, Knows
<1>3. /\ D = IF q.op = "approve" THEN {"history", "state", "close", "group"}
             ELSE {"history", "state", "save", "group"}
  <2>1. CASE q.op = "approve"
    BY <1>1, <2>1 DEF Behind
  <2>2. CASE q.op = "adopt"
    BY <1>1, <2>2 DEF Behind
  <2> QED BY <1>2, <2>1, <2>2
<1>4. Chosen(shown, q) /\ Rows(shown, D, q) /\ Filed(shown, D, q)
  BY DEF AtWork
<1>5. /\ charter.rev = q.rev /\ charter.state = "approved" /\ group = "active" /\ ballots = k
      /\ q.op = "adopt" => type = "rg"
  BY <1>2, <1>3, <1>4 DEF Chosen, Rows
<1>6. /\ shown \in Process!View /\ shown' \in Process!View /\ shown.texts \subseteq Rev
      /\ q.rev \in Rev /\ (q.rev = shown.rev \/ Newer(q.rev, shown.rev))
      /\ q.rev.major = shown.rev.major
  BY <1>2, <1>4 DEF CharterInv, Process!View, Local, Rev, Chosen, Continues
<1>7. T = shown.texts /\ q.rev \notin shown.texts
  BY <1>1, <1>3, <1>4, <1>6 DEF Rows
<1>8. shown' = [rev |-> q.rev, state |-> "approved", ballots |-> k, group |-> "active", texts |-> T]
  BY <1>1, <1>5 DEF Current, row
<1> HIDE DEF T, k, D
<1>9. shown' = [shown EXCEPT !.state = "approved", !.group = "active", !.ballots = k, !.rev = q.rev]
  <2>0. /\ q.rev \in Process!Rev /\ "approved" \in Process!State /\ "active" \in Process!Group
        /\ k \in SUBSET Process!Kind
    BY <1>6, <1>8 DEF Process!View
  <2>1. PICK d \in Process!View :
          d = [shown EXCEPT !.state = "approved", !.group = "active", !.ballots = k, !.rev = q.rev]
    BY <1>6, <2>0 DEF Process!View
  <2>2. /\ d.rev = shown'.rev /\ d.state = shown'.state /\ d.ballots = shown'.ballots
        /\ d.group = shown'.group /\ d.texts = shown'.texts
    BY <1>6, <1>7, <1>8, <2>1 DEF Process!View
  <2> QED BY <1>6, <2>1, <2>2, SameView
<1>10. Process!Approve
  <2>1. q.rev \in Process!Rev /\ k \in {{}, shown.ballots}
    BY <1>6 DEF Rev, k
  <2>2. q.rev = shown.rev \/ (q.rev.major = shown.rev.major /\ Process!Newer(q.rev, shown.rev))
    BY <1>6 DEF Newer
  <2> QED BY <1>7, <1>9, <2>1, <2>2 DEF Process!Approve
<1>11. BallotsFit(shown)'
  BY <1>1, <1>2, <1>5, <1>8 DEF BallotsFit, k, row
<1>12. Filed(shown, {}, i)'
  BY <1>1, <1>3, <1>4, <1>6, <1>8 DEF Filed, row
<1> QED BY <1>10, <1>11, <1>12 DEF Process!Next

(***************************************************************************)
(* Requests begin on a charter at rest                                     *)
(***************************************************************************)
AtRest == Bounds /\ CharterInv /\ shown = Current /\ Filed(shown, {}, Idle)

\* Process r has taken up a request and changed nothing yet.
Begins(r) ==
  /\ UNCHANGED <<row, shown>>
  /\ \E q \in Local : work' = [work EXCEPT ![r] = q] /\ q.pc # "idle" /\ AtWork(q)

LEMMA LoadBegins ==
  ASSUME AtRest, NEW r \in Req, NEW op \in Op, NEW rev \in Rev, NEW to \in State, NEW ballot \in Choice,
         Load(r, op, rev, to, ballot), shown' = shown,
         \A q \in Local : q.op = op /\ q.old = charter.rev /\ q.rev = rev /\ q.to = to
                            /\ q.ballot = ballot => Chosen(shown, q)
  PROVE  Begins(r)
<1>1. PICK q \in Local : q = [pc |-> First(op), op |-> op, old |-> charter.rev, rev |-> rev,
                              to |-> to, ballot |-> ballot]
  BY ScriptStarts DEF AtRest, CharterInv, RowInv, Local
<1>2. /\ q.pc = First(op) /\ q.op = op /\ q.old = charter.rev /\ q.rev = rev /\ q.to = to
      /\ q.ballot = ballot /\ q.pc # "idle"
  BY <1>1, ScriptStarts
<1>3. Behind[q.op][q.pc] = {}
  BY <1>2, ScriptStarts, ScriptNames, BehindScript
<1>4. Rows(shown, {}, q) /\ Filed(shown, {}, q)
  BY DEF AtRest, Rows, Filed, Current
<1>5. AtWork(q)
  BY <1>2, <1>3, <1>4 DEF AtWork
<1> QED BY <1>1, <1>2, <1>5 DEF Load, Begins

LEMMA RestoredContinues ==
  ASSUME AtRest PROVE Restored \in Rev /\ Continues(shown, Restored) /\ Restored.major = shown.rev.major
<1> DEFINE later == {v \in saved : Newer(v, charter.rev)}
           rev   == IF later = {} THEN charter.rev
                    ELSE CHOOSE v \in later : \A w \in later : v = w \/ Newer(v, w)
<1>1. /\ later \in SUBSET Rev /\ charter.rev = shown.rev /\ charter.rev \in Rev
      /\ \A v \in saved : v.major <= charter.rev.major
  BY DEF AtRest, CharterInv, RowInv, Current, Filed
<1>2. rev \in Rev /\ Continues(shown, rev)
  <2>1. CASE later = {}
    BY <1>1, <2>1 DEF Continues
  <2>2. CASE later # {}
    <3>1. \E v \in later : \A w \in later : v = w \/ Newer(v, w)
      BY <1>1, <2>2, NewestExists DEF AtRest
    <3>2. rev \in later
      BY <2>2, <3>1
    <3> HIDE DEF rev
    <3>3. rev \in Rev /\ Newer(rev, charter.rev) /\ rev.major <= charter.rev.major
      BY <1>1, <3>2
    <3>4. rev.major \in Int /\ charter.rev.major \in Int
      BY <1>1, <3>3, RevParts DEF AtRest
    <3> QED BY <1>1, <3>3, <3>4 DEF Continues, Newer, Process!Newer
  <2> QED BY <2>1, <2>2
<1>3. Restored = IF rev.minor = -1 THEN [rev EXCEPT !.minor = 0] ELSE rev
  BY DEF Restored
<1> HIDE DEF rev
<1>4. PICK z \in Rev : z = [rev EXCEPT !.minor = 0]
  <2>1. Bounds /\ rev \in Rev
    BY <1>2 DEF AtRest
  <2>2. [rev EXCEPT !.minor = 0] \in Rev
    BY <2>1 DEF Rev, Process!Rev, Bounds
  <2> QED BY <2>2
<1>5. z.major = rev.major /\ z.minor = 0
  BY <1>2, <1>4 DEF Rev, Process!Rev
<1>6. /\ rev.major \in Int /\ rev.minor \in Int /\ shown.rev.major \in Int /\ shown.rev.minor \in Int
      /\ shown.rev.minor >= -1
  BY <1>1, <1>2, RevParts DEF AtRest, Bounds
<1> QED BY <1>2, <1>3, <1>4, <1>5, <1>6 DEF Continues, Newer, Process!Newer

\* The ballot that comes with a stage
LEMMA BallotsOpen ==
  ASSUME NEW s \in Stage, type \in {"wg", "rg"}, type = "rg" => s \in {"intrev", "extrev"},
         NEW b \in BallotFor(s)
  PROVE  {b} \ {"none"} \in Process!Opens(s) /\ b \in Choice /\ (type = "rg" => b = "none")
<1>1. \/ b = "none" /\ (type = "rg" \/ s \notin {"intrev", "iesgrev"})
      \/ type = "wg" /\ s = "intrev" /\ b \in {"r-extrev", "r-wo-ext"}
      \/ type = "wg" /\ s = "iesgrev" /\ b = "approve"
  BY DEF BallotFor
<1>2. CASE b = "none" /\ (type = "rg" \/ s \notin {"intrev", "iesgrev"})
  <2>1. {b} \ {"none"} = {} /\ s # "iesgrev"
    BY <1>2
  <2> QED BY <1>2, <2>1 DEF Process!Opens, Choice, Process!Kind
<1>3. CASE type = "wg" /\ s = "intrev" /\ b \in {"r-extrev", "r-wo-ext"}
  <2>1. {b} \ {"none"} = {b}
    BY <1>3
  <2> QED BY <1>3, <2>1 DEF Process!Opens, Choice, Process!Kind
<1>4. CASE type = "wg" /\ s = "iesgrev" /\ b = "approve"
  <2>1. {b} \ {"none"} = {"approve"}
    BY <1>4
  <2> QED BY <1>4, <2>1 DEF Process!Opens, Choice, Process!Kind
<1> QED BY <1>1, <1>2, <1>3, <1>4

LEMMA ChooseBegins ==
  ASSUME AtRest, shown' = shown, NEW r \in Req, NEW s \in Stage \cup {"approved"}, NEW rev \in Rev,
         Continues(shown, rev), rev.major = shown.rev.major,
         type = "wg" => s # "approved", type = "rg" => s \in {"intrev", "extrev", "approved"},
         Choose(r, s, rev)
  PROVE  Begins(r)
<1>1. /\ s \in State /\ "adopt" \in Op /\ "move" \in Op /\ "none" \in Choice
      /\ charter.rev = shown.rev /\ type \in {"wg", "rg"}
  BY DEF Stage, State, Process!State, Op, Choice, AtRest, Current, CharterInv, RowInv
<1>2. CASE s = "approved"
  <2>1. Load(r, "adopt", rev, s, "none")
    BY <1>2 DEF Choose
  <2>2. \A q \in Local : q.op = "adopt" /\ q.old = charter.rev /\ q.rev = rev /\ q.to = s
                           /\ q.ballot = "none" => Chosen(shown, q)
    BY <1>1, <1>2 DEF Chosen
  <2> QED BY <1>1, <2>1, <2>2, LoadBegins
<1>3. CASE s # "approved"
  <2>1. PICK b \in BallotFor(s) : Load(r, "move", rev, s, b)
    BY <1>3 DEF Choose
  <2>2. {b} \ {"none"} \in Process!Opens(s) /\ b \in Choice /\ (type = "rg" => b = "none")
    BY <1>1, <1>3, <2>1, BallotsOpen
  <2>3. \A q \in Local : q.op = "move" /\ q.old = charter.rev /\ q.rev = rev /\ q.to = s
                           /\ q.ballot = b => Chosen(shown, q)
    BY <1>1, <1>3, <2>2 DEF Chosen
  <2> QED BY <1>1, <2>1, <2>2, <2>3, LoadBegins
<1> QED BY <1>2, <1>3

LEMMA StartBegins ==
  ASSUME AtRest, shown' = shown, NEW r \in Req, Start(r)
  PROVE  Begins(r)
<1>t. /\ Bounds /\ RowInv /\ charter.rev \in Rev /\ charter.state \in State /\ type \in {"wg", "rg"}
      /\ "none" \in Choice /\ "notrev" \in State /\ "approved" \in State
      /\ shown.rev = charter.rev /\ shown.group = group /\ shown.texts = {v \in Rev : text[v] > 0}
  BY DEF AtRest, CharterInv, RowInv, Choice, State, Process!State, Current
<1>o. {"submit", "abandon", "drop", "approve", "edit", "note", "propose"} \subseteq Op
  BY DEF Op
<1>c. Continues(shown, charter.rev)
  BY <1>t DEF Continues
<1>1. CASE Submit(r)
  <2>1. PICK v \in NextRev : Load(r, "submit", v, charter.state, "none")
    BY <1>1 DEF Submit
  <2>2. v \in Rev /\ v.minor >= 0 /\ text[v] \in 0..2
    BY <1>t, NextRevIsBased DEF RowInv
  <2>3. v.major = shown.rev.major /\ Continues(shown, v) /\ ~(text[v] > 0)
    <3>1. CASE NotUploadedYet
      BY <1>t, <1>c, <3>1 DEF NextRev, NotUploadedYet
    <3>2. CASE ~NotUploadedYet
      <4>1. v \notin saved /\ v.major = charter.rev.major /\ v.minor > charter.rev.minor
        BY <3>2 DEF NextRev
      <4>2. v # charter.rev
        BY <1>t, <2>2, <4>1, RevParts
      <4> QED BY <1>t, <2>2, <4>1, <4>2 DEF AtRest, Filed, Continues, Newer, Process!Newer
    <3> QED BY <3>1, <3>2
  <2>4. \A q \in Local : q.op = "submit" /\ q.old = charter.rev /\ q.rev = v
                           /\ q.to = charter.state /\ q.ballot = "none" => Chosen(shown, q)
    BY <1>t, <2>2, <2>3 DEF Chosen
  <2> QED BY <1>t, <1>o, <2>1, <2>2, <2>4, LoadBegins
<1>2. CASE ChangeState(r)
  <2>1. PICK s \in IF type = "wg" THEN Stage ELSE {"intrev", "extrev", "approved"} :
          Choose(r, s, charter.rev)
    BY <1>2 DEF ChangeState
  <2>2. /\ s \in Stage \cup {"approved"} /\ (type = "wg" => s # "approved")
        /\ type = "rg" => s \in {"intrev", "extrev", "approved"}
    BY <1>t, <2>1 DEF Stage, Process!Stage
  <2> QED BY <1>t, <1>c, <2>1, <2>2, ChooseBegins
<1>3. CASE StartProcess(r)
  <2>1. PICK s \in IF type = "wg" THEN {"infrev"} ELSE {"intrev", "extrev", "approved"} :
          Choose(r, s, Restored)
    BY <1>3 DEF StartProcess
  <2>2. /\ s \in Stage \cup {"approved"} /\ (type = "wg" => s # "approved")
        /\ type = "rg" => s \in {"intrev", "extrev", "approved"}
    BY <1>t, <2>1 DEF Stage, Process!Stage
  <2> QED BY <2>1, <2>2, RestoredContinues, ChooseBegins
<1>4. CASE Abandon(r)
  <2>1. CASE group \in {"proposed", "bof"}
    <3>1. Load(r, "drop", charter.rev, "notrev", "none")
      BY <1>4, <2>1 DEF Abandon
    <3>2. \A q \in Local : q.op = "drop" /\ q.old = charter.rev /\ q.rev = charter.rev
                             /\ q.to = "notrev" /\ q.ballot = "none" => Chosen(shown, q)
      BY <1>t, <2>1 DEF Chosen
    <3> QED BY <1>t, <1>o, <3>1, <3>2, LoadBegins
  <2>2. CASE group \notin {"proposed", "bof"}
    <3>0. PICK a \in Rev : a = Approved(charter.rev.major) /\ a.major = charter.rev.major
      BY <1>t, ApprovedIsBased DEF Approved, Process!Approved
    <3>1. Load(r, "abandon", a, "approved", "none")
      BY <1>4, <2>2, <3>0 DEF Abandon
    <3>2. \A q \in Local : q.op = "abandon" /\ q.old = charter.rev /\ q.rev = a
                             /\ q.to = "approved" /\ q.ballot = "none" => Chosen(shown, q)
      BY <1>t, <2>2, <3>0 DEF Chosen
    <3> QED BY <1>t, <1>o, <3>1, <3>2, LoadBegins
  <2> QED BY <2>1, <2>2
<1>5. CASE Approve(r)
  <2>1. Load(r, "approve", charter.rev, "approved", "none")
    BY <1>5 DEF Approve
  <2>2. \A q \in Local : q.op = "approve" /\ q.old = charter.rev /\ q.rev = charter.rev
                           /\ q.to = "approved" /\ q.ballot = "none" => Chosen(shown, q)
    BY <1>t DEF Chosen
  <2> QED BY <1>t, <1>o, <2>1, <2>2, LoadBegins
<1>6. CASE EditRow(r)
  <2>1. PICK op \in {"edit", "note"} : Load(r, op, charter.rev, charter.state, "none")
    BY <1>6 DEF EditRow
  <2>2. \A q \in Local : q.op = op /\ q.old = charter.rev /\ q.rev = charter.rev
                           /\ q.to = charter.state /\ q.ballot = "none" => Chosen(shown, q)
    BY <1>t DEF Chosen
  <2> QED BY <1>t, <1>o, <2>1, <2>2, LoadBegins
<1>7. CASE Propose(r)
  <2>1. Load(r, "propose", charter.rev, charter.state, "none")
    BY <1>7 DEF Propose
  <2>2. \A q \in Local : q.op = "propose" /\ q.old = charter.rev /\ q.rev = charter.rev
                           /\ q.to = charter.state /\ q.ballot = "none" => Chosen(shown, q)
    BY <1>t, <2>1 DEF Chosen
  <2> QED BY <1>t, <1>o, <2>1, <2>2, LoadBegins
<1> QED BY <1>1, <1>2, <1>3, <1>4, <1>5, <1>6, <1>7 DEF Start

(***************************************************************************)
(* The steps of requests that take turns                                   *)
(***************************************************************************)
Serial == Bounds /\ \A a, c \in Req : a = c

LEMMA SerialStep ==
  ASSUME Serial, SerialInv, [NextOK]_vars
  PROVE  SerialInv' /\ [Process!Next]_shown
<1>t. Bounds /\ CharterInv /\ CharterInv' /\ shown \in Process!View /\ work \in [Req -> Local]
  BY CharterStep DEF Serial, SerialInv, CharterInv, WorkInv
<1>1. ASSUME NEW r \in Req, Start(r), Show PROVE SerialInv' /\ [Process!Next]_shown
  <2>1. work[r].pc = "idle"
    BY <1>1 DEF Start, Submit, ChangeState, StartProcess, Choose, Abandon, Approve, EditRow, Propose,
                Load
  <2>2. Quiet /\ AtRest
    BY <1>t, <2>1 DEF Quiet, Serial, SerialInv, AtRest
  <2>3. ~Quiet'
    <3>1. First(work'[r].op) = work'[r].pc /\ work'[r].op \in Op
      BY <1>1, <1>t DEF Start, Submit, ChangeState, StartProcess, Choose, Abandon, Approve, EditRow,
                        Propose, Load, Op
    <3> QED BY <3>1, ScriptStarts DEF Quiet
  <2>4. shown' = shown
    BY <1>1, <2>3 DEF Show
  <2>5. Begins(r)
    BY <1>1, <2>2, <2>4, StartBegins
  <2>6. PICK q \in Local : work' = [work EXCEPT ![r] = q] /\ q.pc # "idle" /\ AtWork(q)
    BY <2>5 DEF Begins
  <2>7. work'[r] = q /\ UNCHANGED <<row, shown>>
    BY <1>t, <2>5, <2>6 DEF Begins
  <2>8. AtWork(q)' /\ BallotsFit(shown)'
    BY <2>6, <2>7 DEF AtWork, Chosen, Rows, Filed, BallotsFit, SerialInv, row
  <2>9. \A p \in Req : AtWork(work[p])'
    BY <2>7, <2>8 DEF Serial
  <2> QED BY <1>t, <2>3, <2>4, <2>8, <2>9 DEF SerialInv
<1>2. ASSUME NEW r \in Req, Step(r), Show PROVE SerialInv' /\ [Process!Next]_shown
  <2>1. PICK q \in Local : q = work[r]
    BY <1>t
  <2>2. q.pc # "idle"
    BY <1>2, <2>1 DEF Step, SaveHistory, SetState, Save, Close, CreateBallot, SetGroup, WriteText,
                      CopyText, CopyFails, Announce, Renumber, Statement
  <2>3. ~Quiet /\ AtWork(q) /\ BallotsFit(shown)
    BY <2>1, <2>2 DEF Quiet, SerialInv
  <2>4. /\ q.op \in DOMAIN Script /\ q.pc \in DOMAIN Script[q.op]
        /\ q.op \in {"approve", "adopt"} => q.rev.major < MaxMajor
    BY <1>t, <2>1, <2>2 DEF CharterInv, WorkInv, Knows
  <2>5. PICK b \in Process!View : b = shown
    BY <1>t
  <2> DEFINE D == Behind[q.op][q.pc]
             n == Script[q.op][q.pc]
  <2>6. CASE CopyFails(r)
    <3>1. work' = [work EXCEPT ![r] = Idle] /\ Idle.pc = "idle"
      BY <2>6 DEF CopyFails, Idle
    <3>2. Quiet' /\ shown' = Current'
      BY <1>2, <1>t, <3>1 DEF Quiet, Show, Serial
    <3> QED BY <1>t, <2>1, <2>3, <2>6, <3>2, RequestFails DEF SerialInv
  <2>7. CASE ~CopyFails(r)
    <3> HIDE DEF D
    <3>1. Chosen(b, q) /\ Rows(b, D, q) /\ Filed(b, D, q)
      BY <2>3, <2>5 DEF AtWork, D
    <3>2. /\ Rows(b, D \cup {q.pc}, q)' /\ Filed(b, D \cup {q.pc}, q)' /\ type' = type
          /\ work' = [work EXCEPT ![r] = IF n = "idle" THEN Idle ELSE [q EXCEPT !.pc = n]]
      BY <1>2, <1>t, <2>1, <2>2, <2>7, <3>1, StatementShows DEF D
    <3>3. CASE n = "idle"
      <4>1. Quiet' /\ shown' = Current'
        <5>1. work'[r].pc = "idle"
          BY <1>t, <3>2, <3>3 DEF Idle
        <5> QED BY <1>2, <5>1 DEF Quiet, Show, Serial
      <4>2. D \cup {q.pc} = DOMAIN Script[q.op]
        BY <2>4, <3>3, BehindAll DEF D
      <4>3. [Process!Next]_shown /\ BallotsFit(shown)' /\ Filed(shown, {}, Idle)'
        BY <1>t, <2>3, <2>4, <2>5, <3>1, <3>2, <4>1, <4>2, RequestDone
      <4> QED BY <1>t, <4>1, <4>3 DEF SerialInv
    <3>4. CASE n # "idle"
      <4>0. n \in PC
        BY <2>4, ScriptSteps
      <4>1. PICK p \in Local : p = [q EXCEPT !.pc = n]
        BY <4>0 DEF Local
      <4>2. p.pc = n /\ p.op = q.op /\ p.old = q.old /\ p.rev = q.rev /\ p.to = q.to
            /\ p.ballot = q.ballot
        BY <4>1 DEF Local
      <4>3. work'[r] = p
        BY <1>t, <3>2, <3>4, <4>1
      <4>4. ~Quiet' /\ shown' = b
        BY <1>2, <2>5, <3>4, <4>2, <4>3 DEF Quiet, Show
      <4>5. Behind[p.op][p.pc] = D \cup {q.pc}
        BY <2>4, <3>4, <4>2, BehindScript DEF D
      <4>6. Chosen(b, p)' /\ Rows(b, D \cup {q.pc}, p)' /\ Filed(b, D \cup {q.pc}, p)'
        BY <3>1, <3>2, <4>2 DEF Chosen, Rows, Filed
      <4>7. AtWork(p)'
        BY <4>4, <4>5, <4>6 DEF AtWork
      <4>8. \A c \in Req : AtWork(work[c])'
        BY <4>3, <4>7 DEF Serial
      <4>9. BallotsFit(shown)'
        BY <2>3, <2>5, <3>2, <4>4 DEF BallotsFit
      <4> QED BY <1>t, <2>5, <4>4, <4>8, <4>9 DEF SerialInv
    <3> QED BY <3>3, <3>4
  <2> QED BY <2>6, <2>7
<1>3. CASE UNCHANGED vars
  <2>1. UNCHANGED <<charter, type, group, ballots, text, saved, announced, work, shown>>
    BY <1>3 DEF vars
  <2>2. Quiet' = Quiet /\ Current' = Current /\ BallotsFit(shown)'
    BY <2>1 DEF Quiet, Current, BallotsFit, SerialInv
  <2>3. CASE Quiet
    BY <1>t, <2>1, <2>2, <2>3 DEF SerialInv, Filed
  <2>4. CASE ~Quiet
    <3>1. ASSUME NEW p \in Req PROVE AtWork(work[p])'
      <4>1. PICK q \in Local : q = work[p] /\ q = work'[p]
        BY <1>t, <2>1
      <4>2. AtWork(q)
        BY <2>4, <4>1 DEF SerialInv
      <4>3. PICK b \in Process!View : b = shown /\ b = shown'
        BY <1>t, <2>1
      <4>4. PICK D : D = Behind[q.op][q.pc]
        OBVIOUS
      <4>5. Chosen(b, q)'
        BY <2>1, <4>2, <4>3 DEF AtWork, Chosen
      <4>6. Rows(b, D, q)'
        BY <2>1, <4>2, <4>3, <4>4 DEF AtWork, Rows
      <4>7. Filed(b, D, q)'
        BY <2>1, <4>2, <4>3, <4>4 DEF AtWork, Filed
      <4> QED BY <4>1, <4>3, <4>4, <4>5, <4>6, <4>7 DEF AtWork
    <3>2. SerialInv'
      BY <1>t, <2>2, <2>4, <3>1 DEF SerialInv
    <3> QED BY <2>1, <3>2
  <2> QED BY <2>1, <2>3, <2>4
<1> QED BY <1>1, <1>2, <1>3 DEF NextOK

LEMMA SerialInit == ASSUME Serial PROVE Init => SerialInv
<1> SUFFICES ASSUME Init PROVE SerialInv
  OBVIOUS
<1>1. Bounds /\ CharterInv
  BY CharterInit DEF Serial
<1>2. Quiet /\ shown = Current
  BY DEF Init, Quiet, Idle
<1>3. BallotsFit(shown)
  BY <1>2 DEF Init, Current, BallotsFit
<1>4. shown.rev = charter.rev /\ saved = {}
  BY <1>2 DEF Init, Current
<1>5. \A v \in Rev : text[v] <= 1 /\ (text[v] > 0 => v = charter.rev)
  BY DEF Init, Approved, Process!Approved
<1>6. \A v \in announced : v.minor = -1 => v.major >= 1 /\ v = charter.rev
  BY DEF Init, Approved, Process!Approved
<1>7. Filed(shown, {}, Idle)
  BY <1>4, <1>5, <1>6 DEF Filed
<1> QED BY <1>1, <1>2, <1>3, <1>7 DEF SerialInv

\* The promises that hold when requests take turns and none of them dies
LEMMA TextsFinal == ASSUME Serial, SerialInv PROVE TextsAreFinal
<1>1. CASE Quiet
  BY <1>1 DEF SerialInv, Filed, TextsAreFinal
<1>2. CASE ~Quiet
  BY <1>2 DEF SerialInv, AtWork, Filed, TextsAreFinal, Quiet
<1> QED BY <1>1, <1>2

LEMMA NothingHangs == ASSUME SerialInv PROVE NoHangingBallot
BY DEF SerialInv, BallotsFit, Current, NoHangingBallot

LEMMA GroupShowsApproved == ASSUME Serial, SerialInv PROVE GroupTextIsApproved
<1> DEFINE approved == {v \in announced : v.minor = -1}
           known == {charter.rev} \cup saved
           from == {v \in known : v.minor = -1}
<1> SUFFICES ASSUME Quiet, approved # {}
             PROVE  GroupText \in approved /\ \A v \in approved : ~Newer(v, GroupText)
  BY DEF GroupTextIsApproved
<1>1. Bounds /\ RowInv /\ shown = Current /\ Filed(shown, {}, Idle)
  BY DEF Serial, SerialInv, CharterInv
<1>2. shown.rev = charter.rev
  BY <1>1 DEF Current
<1>3. approved \subseteq from
  BY <1>1, <1>2 DEF Filed
<1>4. known \subseteq Rev /\ from \subseteq Rev
  BY <1>1 DEF RowInv
<1>5. GroupText \in from /\ \A w \in from : GroupText = w \/ Newer(GroupText, w)
  BY <1>1, <1>3, <1>4, NewestExists DEF GroupText
<1>6. PICK g \in from : g = GroupText
  BY <1>5
<1>7. g \in approved
  <2>1. PICK v \in approved : v.major >= 1
    BY <1>1 DEF Filed
  <2>2. g = v \/ Newer(g, v)
    BY <1>3, <1>5, <1>6, <2>1
  <2>3. g \in Rev /\ v \in Rev /\ g.minor = -1 /\ Based(g)
    BY <1>1, <1>3, <1>4, <1>6, <2>1 DEF RowInv
  <2>4. /\ g.major \in Int /\ v.major \in Int /\ g.minor \in Int /\ v.minor \in Int
        /\ g = Approved(g.major)
    BY <1>1, <2>3, RevParts
  <2>5. g.major >= 1
    BY <2>1, <2>2, <2>4 DEF Newer, Process!Newer
  <2> QED BY <2>3, <2>4, <2>5 DEF Based
<1>8. ASSUME NEW v \in approved PROVE ~Newer(v, g)
  <2>1. g = v \/ Newer(g, v)
    BY <1>3, <1>5, <1>6
  <2>2. g \in Rev /\ v \in Rev
    BY <1>3, <1>4, <1>6
  <2>3. g.major \in Int /\ v.major \in Int /\ g.minor \in Int /\ v.minor \in Int
    BY <1>1, <2>2, RevParts
  <2> QED BY <2>1, <2>3 DEF Newer, Process!Newer
<1> QED BY <1>6, <1>7, <1>8

\* The three promises, and that each request is one step of the pages: for any
\* number of revisions, when requests take turns and none of them dies.
THEOREM PromisesKept ==
  ASSUME Serial
  PROVE  SpecOK => [](TextsAreFinal /\ NoHangingBallot /\ GroupTextIsApproved)
<1>1. Init => SerialInv
  BY SerialInit
<1>2. SerialInv /\ [NextOK]_vars => SerialInv'
  BY SerialStep
<1>3. SerialInv => TextsAreFinal /\ NoHangingBallot /\ GroupTextIsApproved
  BY TextsFinal, NothingHangs, GroupShowsApproved
<1> QED
  BY <1>1, <1>2, <1>3, PTL DEF SpecOK

LEMMA ProcessBegins == Bounds /\ Init => Process!Init
<1> SUFFICES ASSUME Bounds, Init PROVE Process!Init
  OBVIOUS
<1>1. shown = Current /\ ballots = {} /\ text = [v \in Rev |-> IF v \in announced THEN 1 ELSE 0]
  BY DEF Init
<1>2. CASE announced = {} /\ group \in {"proposed", "bof"}
           /\ charter = [rev |-> [major |-> 0, minor |-> 0], state |-> "notrev"]
  <2>1. {v \in Rev : text[v] > 0} = {}
    BY <1>1, <1>2
  <2> QED BY <1>1, <1>2, <2>1 DEF Current, Process!Init
<1>3. CASE announced = {Approved(1)} /\ group = "active" /\ Approved(1) \in Rev
           /\ charter = [rev |-> Approved(1), state |-> "approved"]
  <2>1. {v \in Rev : text[v] > 0} = {Approved(1)}
    BY <1>1, <1>3
  <2> QED BY <1>1, <1>3, <2>1 DEF Current, Process!Init, Approved
<1>4. Approved(1) \in Rev
  BY DEF Bounds, Approved, Process!Approved, Rev, Process!Rev
<1> QED BY <1>2, <1>3, <1>4 DEF Init

\* ... and each is a step of what CharterProcess promises, or none.
THEOREM FollowsTheProcess == ASSUME Serial PROVE SpecOK => FollowsProcess
<1>1. Init => SerialInv /\ Process!Init
  BY SerialInit, ProcessBegins DEF Serial
<1>2. SerialInv /\ [NextOK]_vars => SerialInv' /\ [Process!Next]_shown
  BY SerialStep
<1> QED
  BY <1>1, <1>2, PTL DEF SpecOK, FollowsProcess, Process!Spec

=============================================================================
