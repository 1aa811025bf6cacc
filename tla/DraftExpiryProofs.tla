-------------------------- MODULE DraftExpiryProofs -------------------------
(***************************************************************************)
(* DraftExpiry for every number of revisions, life and choice of streams,  *)
(* IESG moves and buttons: types for any number of overlapping requests    *)
(* that may die anywhere, and the current text kept for requests that      *)
(* neither overlap nor die, wherever the clean-up runs between their       *)
(* statements.                                                             *)
(***************************************************************************)
EXTENDS MCDraftExpiry, TLAPS

\* A process has come to a statement of its script.
Knows(q) == q.pc = "idle" \/ (q.op \in DOMAIN Script /\ q.pc \in DOMAIN Script[q.op])

TInv ==
  /\ TypeOK /\ \A r \in Req : Knows(req[r])
  /\ session.op = "none" => session = NoSession

Kept == repo \cup archive

\* A process that submits a revision has saved its row.
Saved(q) == q.op \in NewRev /\ q.pc \notin {"idle", "archive", "save"}

\* Until then the row is the one it loaded, and its text is kept; from then on
\* the process is about to publish the text of the revision the row names.
Holds(q) ==
  /\ q.pc # "idle" /\ q.op \notin NewRev => q.doc.rev = q.old
  /\ Saved(q) => doc.rev = q.doc.rev
  /\ ~Saved(q) => doc.rev \in Kept /\ (q.pc # "idle" => doc.rev = q.old)

KInv == TInv /\ \A r \in Req : Holds(req[r])

USE ExpiryAssumption

(***************************************************************************)
(* Scripts and local variables                                             *)
(***************************************************************************)
\* Where each statement of a script leads: a text is published after the row
\* has been saved, and by nobody but those who submit a revision.
LEMMA ScriptSteps ==
  ASSUME NEW op \in DOMAIN Script, NEW pc \in DOMAIN Script[op]
  PROVE  LET n == Script[op][pc]
         IN /\ n \in PC /\ pc # "idle"
            /\ n = "idle" \/ n \in DOMAIN Script[op]
            /\ op \in NewRev /\ n = "idle" => pc \in {"publish", "promote"}
            /\ op \in NewRev /\ n \in {"archive", "save"} => pc \in {"archive"}
            /\ pc \in {"publish", "promote"} => op \in NewRev /\ n = "idle"
            /\ op \in NewRev /\ pc = "archive" => n = "save"
            /\ pc = "restore" => op \notin NewRev
<1>1. CASE op = "expire"
  BY <1>1 DEF Script, PC, NewRev, Status
<1>2. CASE op = "post"
  BY <1>2 DEF Script, PC, NewRev, Status
<1>3. CASE op = "resurrect"
  BY <1>3 DEF Script, PC, NewRev, Status
<1>4. CASE op = "index"
  BY <1>4 DEF Script, PC, NewRev, Status
<1>5. CASE op = "makerfc"
  BY <1>5 DEF Script, PC, NewRev, Status
<1>6. CASE op = "revise"
  BY <1>6 DEF Script, PC, NewRev, Status
<1>7. CASE op = "update"
  BY <1>7 DEF Script, PC, NewRev, Status
<1>8. CASE op = "restore"
  BY <1>8 DEF Script, PC, NewRev, Status
<1>9. CASE op = "replace"
  BY <1>9 DEF Script, PC, NewRev, Status
<1>10. CASE op = "extend"
  BY <1>10 DEF Script, PC, NewRev, Status
<1>11. CASE op = "withdraw"
  BY <1>11 DEF Script, PC, NewRev, Status
<1> QED
  BY <1>1, <1>2, <1>3, <1>4, <1>5, <1>6, <1>7, <1>8, <1>9, <1>10, <1>11 DEF Script

\* Scripts begin with a statement of theirs, not with one that publishes.
LEMMA ScriptStarts ==
  ASSUME NEW op \in DOMAIN Script
  PROVE  /\ First[op] \in PC \ {"idle"} /\ First[op] \in DOMAIN Script[op]
         /\ op \in NewRev => First[op] \in {"archive", "save"}
BY DEF Script, First, PC, NewRev, Status

LEMMA Ops ==
  /\ {"expire", "post", "resurrect", "index", "makerfc", "revise", "update", "restore",
      "replace", "extend", "withdraw"} = DOMAIN Script
  /\ "none" \notin DOMAIN Script
BY DEF Script

LEMMA IdleLocal == Idle \in Local /\ Idle.pc = "idle"
<1>1. (CHOOSE s \in Stream : TRUE) \in Stream
  OBVIOUS
<1> QED
  BY <1>1 DEF Idle, Local, PC, Row, Rev

LEMMA LocalFields ==
  ASSUME NEW q \in Local
  PROVE  /\ q.pc \in PC /\ q.op \in DOMAIN Script \cup {"none"} /\ q.old \in Rev
         /\ q.doc \in Row /\ q.doc.rev \in Rev
BY DEF Local, Row

LEMMA AgeRow == ASSUME NEW d \in Row PROVE Age(d) \in Row /\ Age(d).rev = d.rev
BY DEF Age, Row

\* What a process that executes a statement becomes.
LEMMA StatementStep ==
  ASSUME TInv, NEW r \in Req, NEW what \in PC \ {"idle"}, Statement(r, what)
  PROVE  /\ req' \in [Req -> Local] /\ (\A p \in Req : Knows(req'[p]))
         /\ \A p \in Req \ {r} : req'[p] = req[p]
         /\ req[r].op \in DOMAIN Script /\ req[r].pc = what /\ what \in DOMAIN Script[req[r].op]
         /\ LET n == Script[req[r].op][what]
            IN /\ n = "idle" => req'[r] = Idle
               /\ n # "idle" => req'[r].pc = n /\ req'[r].op = req[r].op
                                /\ req'[r].old = req[r].old /\ req'[r].doc = req[r].doc
<1> DEFINE q == req[r]
           n == Script[q.op][what]
           q1 == IF n = "idle" THEN Idle ELSE [q EXCEPT !.pc = n]
<1>1. req \in [Req -> Local] /\ q \in Local /\ Knows(q)
  BY DEF TInv, TypeOK
<1>2. q.op \in DOMAIN Script /\ q.pc = what /\ what \in DOMAIN Script[q.op]
  BY <1>1 DEF Statement, Knows
<1>3. n \in PC /\ (n = "idle" \/ n \in DOMAIN Script[q.op])
  BY <1>2, ScriptSteps
<1>4. req' = [req EXCEPT ![r] = q1]
  BY DEF Statement
<1>5. /\ q1 \in Local /\ Knows(q1)
      /\ n = "idle" => q1 = Idle
      /\ n # "idle" => q1.pc = n /\ q1.op = q.op /\ q1.old = q.old /\ q1.doc = q.doc
  <2>1. CASE n = "idle"
    BY <2>1, IdleLocal DEF Knows
  <2>2. CASE n # "idle"
    BY <1>1, <1>2, <1>3, <2>2 DEF Local, Knows
  <2> QED
    BY <2>1, <2>2
<1> HIDE DEF q1
<1>6. req' \in [Req -> Local] /\ req'[r] = q1 /\ \A p \in Req \ {r} : req'[p] = req[p]
  BY <1>1, <1>4, <1>5
<1>7. \A p \in Req : Knows(req'[p])
  BY <1>5, <1>6 DEF TInv
<1> QED
  BY <1>2, <1>5, <1>6, <1>7

\* What a process that stops becomes.
LEMMA StopsStep ==
  ASSUME TInv, NEW r \in Req, Stops(r)
  PROVE  /\ req' = [req EXCEPT ![r] = Idle] /\ req' \in [Req -> Local]
         /\ \A p \in Req : Knows(req'[p])
<1>1. req \in [Req -> Local] /\ req' = [req EXCEPT ![r] = Idle]
  BY DEF TInv, TypeOK, Stops
<1>2. req' \in [Req -> Local] /\ req'[r] = Idle /\ \A p \in Req \ {r} : req'[p] = req[p]
  BY <1>1, IdleLocal
<1>3. \A p \in Req : Knows(req'[p])
  BY <1>2, IdleLocal DEF TInv, Knows
<1> QED
  BY <1>1, <1>2, <1>3

\* What a process that begins becomes.
LEMMA LoadStep ==
  ASSUME TInv, NEW r \in Req, NEW op \in DOMAIN Script, NEW rev \in Rev, Load(r, op, rev)
  PROVE  /\ req' \in [Req -> Local] /\ (\A p \in Req : Knows(req'[p]))
         /\ req'[r].pc = First[op] /\ req'[r].op = op /\ req'[r].old = doc.rev
         /\ op \notin NewRev => req'[r].doc.rev = doc.rev
         /\ UNCHANGED <<doc, files>>
<1> DEFINE d == [doc EXCEPT !.rev = IF op \in NewRev THEN rev ELSE @,
                            !.left = IF op \in NewLife THEN Life ELSE @]
           q1 == [pc |-> First[op], op |-> op, old |-> doc.rev, doc |-> d]
<1>1. req \in [Req -> Local] /\ doc \in Row /\ doc.rev \in Rev
  BY DEF TInv, TypeOK, Row
<1>2. d \in Row /\ (op \notin NewRev => d.rev = doc.rev)
  <2> DEFINE v == IF op \in NewRev THEN rev ELSE doc.rev
             l == IF op \in NewLife THEN Life ELSE doc.left
  <2>1. v \in Rev /\ l \in -1..Life /\ (op \notin NewRev => v = doc.rev)
    BY <1>1 DEF Row, ExpiryAssumption
  <2>2. d = [doc EXCEPT !.rev = v, !.left = l]
    OBVIOUS
  <2> HIDE DEF v, l, d
  <2> QED
    BY <1>1, <2>1, <2>2 DEF Row
<1> HIDE DEF d
<1>3. /\ q1 \in Local /\ Knows(q1)
      /\ q1.pc = First[op] /\ q1.op = op /\ q1.old = doc.rev /\ q1.doc = d
  BY <1>1, <1>2, ScriptStarts DEF Local, Knows
<1>4. req' = [req EXCEPT ![r] = q1]
  BY DEF Load, d
<1> HIDE DEF q1
<1>5. req' \in [Req -> Local] /\ req'[r] = q1 /\ \A p \in Req \ {r} : req'[p] = req[p]
  BY <1>1, <1>3, <1>4
<1>6. UNCHANGED <<doc, files>>
  BY DEF Load, row
<1> QED
  BY <1>2, <1>3, <1>5, <1>6 DEF TInv

(***************************************************************************)
(* Types                                                                   *)
(***************************************************************************)
\* A process begins a request of a kind that has a script.
LEMMA StartLoads ==
  ASSUME TInv, NEW r \in Req, Start(r)
  PROVE  /\ \E op \in DOMAIN Script, rev \in Rev : Load(r, op, rev)
         /\ session' = session /\ meeting' = meeting
<1>1. doc \in Row /\ doc.rev \in Rev /\ session \in [op : Button \cup {"none"}, rev : Rev]
  BY DEF TInv, TypeOK, Row
<1>2. CASE Expire(r)
  BY <1>1, <1>2, Ops DEF Expire, Load
<1>3. CASE Post(r)
  <2>1. doc.rev + 1 \in Rev
    BY <1>1, <1>3 DEF Post, Rev
  <2> QED
    BY <1>3, <2>1, Ops DEF Post, Load
<1>4. CASE Resurrect(r)
  BY <1>1, <1>4, Ops DEF Resurrect, Load
<1>5. CASE RfcIndex(r)
  BY <1>1, <1>5, Ops DEF RfcIndex, Load
<1>6. CASE MakeRfc(r)
  BY <1>1, <1>6, Ops DEF MakeRfc, Load
<1>7. CASE Confirm(r)
  <2>1. session.op \in DOMAIN Script /\ session.rev \in Rev
    BY <1>1, <1>7, Ops DEF Confirm, TInv
  <2> QED
    BY <1>7, <2>1 DEF Confirm, Load
<1> QED
  BY <1>2, <1>3, <1>4, <1>5, <1>6, <1>7 DEF Start

\* Every statement keeps the types.
LEMMA StepTypes ==
  ASSUME TInv, NEW r \in Req, Step(r)
  PROVE  TInv'
<1>1. doc \in Row /\ doc.rev \in Rev /\ req[r] \in Local
  BY DEF TInv, TypeOK, Row
<1>2. req[r].doc \in Row /\ req[r].doc.rev \in Rev /\ req[r].old \in Rev
  BY <1>1, LocalFields
<1> DEFINE Rest == /\ req' \in [Req -> Local] /\ (\A p \in Req : Knows(req'[p]))
                   /\ session' \in [op : Button \cup {"none"}, rev : Rev]
                   /\ (session'.op = "none" => session' = NoSession) /\ UNCHANGED meeting
<1>3. ASSUME NEW what \in PC \ {"idle"}, Statement(r, what) PROVE Rest
  <2>1. req' \in [Req -> Local] /\ \A p \in Req : Knows(req'[p])
    BY <1>3, StatementStep
  <2>2. session' \in {session, NoSession} /\ UNCHANGED meeting
    BY <1>3 DEF Statement, Clear
  <2>3. NoSession \in [op : Button \cup {"none"}, rev : Rev] /\ NoSession.op = "none"
    BY DEF NoSession, Rev
  <2> QED
    BY <2>1, <2>2, <2>3 DEF TInv, TypeOK
<1>4. /\ {"save", "dead", "pub", "related", "move", "archive", "publish", "promote", "restore"}
           \subseteq PC \ {"idle"}
      /\ Status \subseteq PC \ {"idle"}
  BY DEF PC, Status
<1> HIDE DEF Rest
<1>5. CASE Save(r)
  <2>1. Statement(r, "save")
    BY <1>5 DEF Save
  <2>2. Rest
    BY <2>1, <1>3, <1>4
  <2> QED
    BY <1>1, <1>2, <1>5, <2>2 DEF Rest, Save, TInv, TypeOK, files
<1>6. CASE SetDead(r)
  <2>1. Statement(r, "dead")
    BY <1>6 DEF SetDead
  <2>2. Rest
    BY <2>1, <1>3, <1>4
  <2> QED
    BY <1>1, <1>2, <1>6, <2>2 DEF Rest, SetDead, TInv, TypeOK, files
<1>7. CASE SetPub(r)
  <2>1. Statement(r, "pub")
    BY <1>7 DEF SetPub
  <2>2. Rest
    BY <2>1, <1>3, <1>4
  <2> QED
    BY <1>1, <1>2, <1>7, <2>2 DEF Rest, SetPub, TInv, TypeOK, files
<1>8. CASE Relate(r)
  <2>1. Statement(r, "related")
    BY <1>8 DEF Relate
  <2>2. Rest
    BY <2>1, <1>3, <1>4
  <2> QED
    BY <1>1, <1>2, <1>8, <2>2 DEF Rest, Relate, TInv, TypeOK, files
<1>9. CASE Move(r)
  <2>1. Statement(r, "move")
    BY <1>9 DEF Move
  <2>2. Rest
    BY <2>1, <1>3, <1>4
  <2> QED
    BY <1>1, <1>2, <1>9, <2>2 DEF Rest, Move, TInv, TypeOK, row
<1>10. CASE Archive(r)
  <2>1. Statement(r, "archive")
    BY <1>10 DEF Archive
  <2>2. Rest
    BY <2>1, <1>3, <1>4
  <2> QED
    BY <1>1, <1>2, <1>10, <2>2 DEF Rest, Archive, TInv, TypeOK, row
<1>11. CASE Publish(r)
  <2>1. Statement(r, "publish") \/ Statement(r, "promote")
    BY <1>11 DEF Publish
  <2>2. Rest
    BY <2>1, <1>3, <1>4
  <2> QED
    BY <1>1, <1>2, <1>11, <2>2 DEF Rest, Publish, TInv, TypeOK, row
<1>12. CASE Restore(r)
  <2>1. Statement(r, "restore")
    BY <1>12 DEF Restore
  <2>2. Rest
    BY <2>1, <1>3, <1>4
  <2> QED
    BY <1>1, <1>2, <1>12, <2>2 DEF Rest, Restore, LastArchived, TInv, TypeOK, row
<1>13. ASSUME NEW s \in Status, SetStatus(r, s) PROVE TInv'
  <2>1. Statement(r, s)
    BY <1>13 DEF SetStatus
  <2>2. Rest
    BY <2>1, <1>3, <1>4
  <2> QED
    BY <1>13, <2>2 DEF Rest, SetStatus, TInv, TypeOK, files
<1> QED
  BY <1>5, <1>6, <1>7, <1>8, <1>9, <1>10, <1>11, <1>12, <1>13 DEF Step

\* A day that passes changes no revision and no statement.
LEMMA TickStep ==
  ASSUME TInv, Tick
  PROVE  /\ doc' \in Row /\ doc'.rev = doc.rev /\ req' \in [Req -> Local]
         /\ \A p \in Req : /\ req'[p].pc = req[p].pc /\ req'[p].op = req[p].op
                           /\ req'[p].old = req[p].old /\ req'[p].doc.rev = req[p].doc.rev
<1>1. doc \in Row /\ req \in [Req -> Local]
  BY DEF TInv, TypeOK
<1>2. doc' \in Row /\ doc'.rev = doc.rev
  BY <1>1, AgeRow DEF Tick
<1>3. req' = [p \in Req |-> [req[p] EXCEPT !.doc = Age(@)]]
  BY DEF Tick
<1>4. ASSUME NEW p \in Req
      PROVE  /\ req'[p] \in Local
             /\ req'[p].pc = req[p].pc /\ req'[p].op = req[p].op
             /\ req'[p].old = req[p].old /\ req'[p].doc.rev = req[p].doc.rev
  <2>1. Age(req[p].doc) \in Row /\ Age(req[p].doc).rev = req[p].doc.rev
    BY <1>1, LocalFields, AgeRow
  <2> DEFINE a == Age(req[p].doc)
  <2>2. req'[p] = [req[p] EXCEPT !.doc = a]
    BY <1>3
  <2> HIDE DEF a
  <2>3. a \in Row /\ a.rev = req[p].doc.rev
    BY <2>1 DEF a
  <2> QED
    BY <1>1, <2>2, <2>3 DEF Local
<1> QED
  BY <1>2, <1>3, <1>4

\* What the others change in one statement has its type.
LEMMA OtherTypes ==
  ASSUME TInv,
         \/ IesgMoves \/ StreamState \/ ChangeStream \/ Review
         \/ ReplacedBy \/ NoLongerReplaced
         \/ \E v \in Rev : Clean(v)
         \/ Tick \/ Meeting \/ Cancel
         \/ \E op \in Button : OpenForm(op)
  PROVE  TInv'
<1> USE DEF TInv, TypeOK, row, files
<1>1. CASE IesgMoves
  BY <1>1 DEF IesgMoves
<1>2. CASE StreamState
  BY <1>2 DEF StreamState
<1>3. CASE ChangeStream
  <2>1. doc' \in Row
    BY <1>3 DEF ChangeStream, Row
  <2> QED
    BY <1>3, <2>1 DEF ChangeStream
<1>4. CASE Review
  BY <1>4 DEF Review
<1>5. CASE ReplacedBy
  BY <1>5 DEF ReplacedBy, Status
<1>6. CASE NoLongerReplaced
  BY <1>6 DEF NoLongerReplaced, Status
<1>7. ASSUME NEW v \in Rev, Clean(v) PROVE TInv'
  BY <1>7 DEF Clean
<1>8. CASE Tick
  <2>1. doc' \in Row /\ req' \in [Req -> Local] /\ \A p \in Req : Knows(req'[p])
    BY <1>8, TickStep DEF Knows
  <2> QED
    BY <1>8, <2>1 DEF Tick
<1>9. CASE Meeting
  BY <1>9 DEF Meeting
<1>10. CASE Cancel
  BY <1>10 DEF Cancel, NoSession, Rev
<1>11. ASSUME NEW op \in Button, OpenForm(op) PROVE TInv'
  <2>1. doc.rev \in Rev /\ (op \in NewRev => doc.rev + 1 \in Rev)
    BY <1>11 DEF OpenForm, Row, Rev
  <2>2. op # "none"
    BY DEF ExpiryAssumption
  <2>3. session' \in [op : Button \cup {"none"}, rev : Rev] /\ session'.op # "none"
    BY <1>11, <2>1, <2>2 DEF OpenForm
  <2> QED
    BY <1>11, <2>3 DEF OpenForm
<1> QED
  BY <1>1, <1>2, <1>3, <1>4, <1>5, <1>6, <1>7, <1>8, <1>9, <1>10, <1>11

LEMMA TInvInit == Init => TInv
<1> SUFFICES ASSUME Init PROVE TInv
  OBVIOUS
<1>1. doc \in Row
  BY DEF Init, Row, Rev
<1>2. req \in [Req -> Local] /\ \A r \in Req : Knows(req[r])
  BY IdleLocal DEF Init, Knows
<1>3. session \in [op : Button \cup {"none"}, rev : Rev] /\ 0 \in Rev
  BY DEF Init, NoSession, Rev
<1> QED
  BY <1>1, <1>2, <1>3 DEF Init, TInv, TypeOK, Status

LEMMA TInvNext == TInv /\ [Next]_vars => TInv'
<1> SUFFICES ASSUME TInv, [Next]_vars PROVE TInv'
  OBVIOUS
<1>1. ASSUME NEW r \in Req, Start(r) PROVE TInv'
  <2>1. PICK op \in DOMAIN Script, rev \in Rev : Load(r, op, rev)
    BY <1>1, StartLoads
  <2>2. session' \in {session, NoSession}
    BY <1>1, StartLoads
  <2>3. req' \in [Req -> Local] /\ \A p \in Req : Knows(req'[p])
    BY <2>1, LoadStep
  <2>4. session' \in [op : Button \cup {"none"}, rev : Rev]
    BY <2>2 DEF TInv, TypeOK, NoSession, Rev
  <2> QED
    BY <2>1, <2>2, <2>3, <2>4 DEF Load, TInv, TypeOK, row, files, NoSession
<1>2. ASSUME NEW r \in Req, Step(r) PROVE TInv'
  BY <1>2, StepTypes
<1>3. ASSUME NEW r \in Req, Raises(r) \/ Abort(r) PROVE TInv'
  <2>1. Stops(r)
    BY <1>3 DEF Raises, Abort
  <2> QED
    BY <2>1, StopsStep DEF Stops, TInv, TypeOK, row, files
<1>4. CASE \/ IesgMoves \/ StreamState \/ ChangeStream \/ Review
           \/ ReplacedBy \/ NoLongerReplaced
           \/ \E v \in Rev : Clean(v)
           \/ Tick \/ Meeting \/ Cancel
           \/ \E op \in Button : OpenForm(op)
  BY <1>4, OtherTypes
<1>5. CASE UNCHANGED vars
  BY <1>5 DEF vars, row, files, TInv, TypeOK
<1> QED
  BY <1>1, <1>2, <1>3, <1>4, <1>5 DEF Next, NextOK

\* Whatever the requests and the jobs do to a draft at the same time, and
\* wherever they die, its row, states, files and pending forms keep their
\* types, and every process is at a statement of the request it serves.
THEOREM TypeCorrect == Spec => []TypeOK
<1>1. TInv => TypeOK
  BY DEF TInv
<1> QED
  BY <1>1, TInvInit, TInvNext, PTL DEF Spec

(***************************************************************************)
(* The current text                                                        *)
(***************************************************************************)
\* What Holds says before and after each statement.
LEMMA StatementHolds ==
  ASSUME TInv, NEW r \in Req, NEW what \in PC \ {"idle"}, Statement(r, what), Holds(req[r]),
         what = "save" => doc' = req[r].doc,
         what # "save" => doc' = doc,
         what \in {"publish", "promote"} => req[r].doc.rev \in Kept',
         what \notin {"publish", "promote"} => Kept' = Kept
  PROVE  Holds(req[r])'
<1> DEFINE q == req[r]
           op == q.op
           n == Script[op][what]
<1>1. op \in DOMAIN Script /\ q.pc = what /\ what \in DOMAIN Script[op]
  BY StatementStep
<1>2. /\ n \in PC /\ what # "idle"
      /\ op \in NewRev /\ n = "idle" => what \in {"publish", "promote"}
      /\ op \in NewRev /\ n \in {"archive", "save"} => what \in {"archive"}
      /\ what \in {"publish", "promote"} => op \in NewRev /\ n = "idle"
      /\ op \in NewRev /\ what = "archive" => n = "save"
  BY <1>1, ScriptSteps
<1>3. /\ n = "idle" => req'[r] = Idle
      /\ n # "idle" => req'[r].pc = n /\ req'[r].op = op
                       /\ req'[r].old = q.old /\ req'[r].doc = q.doc
  BY StatementStep
<1>4. Idle.pc = "idle"
  BY IdleLocal
<1>5. /\ op \notin NewRev => q.doc.rev = q.old
      /\ Saved(q) <=> op \in NewRev /\ what \notin {"archive", "save"}
      /\ Saved(q) => doc.rev = q.doc.rev
      /\ ~Saved(q) => doc.rev \in Kept /\ doc.rev = q.old
  BY <1>1, <1>2 DEF Holds, Saved
<1>6. Saved(req'[r]) <=> op \in NewRev /\ n \notin {"idle", "archive", "save"}
  BY <1>2, <1>3, <1>4 DEF Saved
<1> HIDE DEF q, op, n
<1>7. req'[r].pc # "idle" /\ req'[r].op \notin NewRev => req'[r].doc.rev = req'[r].old
  BY <1>3, <1>4, <1>5
<1>8. Saved(req'[r]) => doc'.rev = req'[r].doc.rev
  <2>1. CASE what = "save"
    BY <2>1, <1>3, <1>6 DEF q
  <2>2. CASE what # "save"
    BY <2>2, <1>2, <1>3, <1>5, <1>6
  <2> QED
    BY <2>1, <2>2
<1>9. ~Saved(req'[r]) => doc'.rev \in Kept' /\ (req'[r].pc # "idle" => doc'.rev = req'[r].old)
  <2>1. CASE op \in NewRev /\ n = "idle"
    BY <2>1, <1>2, <1>3, <1>4, <1>5, <1>6 DEF q
  <2>2. CASE op \in NewRev /\ n # "idle"
    BY <2>2, <1>2, <1>3, <1>5, <1>6
  <2>3. CASE op \notin NewRev
    <3>1. doc'.rev = doc.rev
      BY <2>3, <1>5 DEF q
    <3> QED
      BY <2>3, <3>1, <1>2, <1>3, <1>4, <1>5
  <2> QED
    BY <2>1, <2>2, <2>3
<1> QED
  BY <1>7, <1>8, <1>9 DEF Holds, Saved, Kept

LEMMA StepHolds ==
  ASSUME TInv, NEW r \in Req, Step(r), Holds(req[r])
  PROVE  Holds(req[r])'
<1>1. /\ {"save", "dead", "pub", "related", "move", "archive", "publish", "promote", "restore"}
           \subseteq PC \ {"idle"}
      /\ Status \subseteq PC \ {"idle", "save", "publish", "promote"}
  BY DEF PC, Status
<1>2. CASE Save(r)
  <2>1. Statement(r, "save") /\ doc' = req[r].doc /\ Kept' = Kept
    BY <1>2 DEF Save, files, Kept
  <2> QED
    BY <1>1, <2>1, StatementHolds
<1>3. CASE SetDead(r)
  <2>1. Statement(r, "dead") /\ doc' = doc /\ Kept' = Kept
    BY <1>3 DEF SetDead, files, Kept
  <2> QED
    BY <1>1, <2>1, StatementHolds
<1>4. CASE SetPub(r)
  <2>1. Statement(r, "pub") /\ doc' = doc /\ Kept' = Kept
    BY <1>4 DEF SetPub, files, Kept
  <2> QED
    BY <1>1, <2>1, StatementHolds
<1>5. CASE Relate(r)
  <2>1. Statement(r, "related") /\ doc' = doc /\ Kept' = Kept
    BY <1>5 DEF Relate, files, Kept
  <2> QED
    BY <1>1, <2>1, StatementHolds
<1>6. ASSUME NEW s \in Status, SetStatus(r, s) PROVE Holds(req[r])'
  <2>1. Statement(r, s) /\ doc' = doc /\ Kept' = Kept
    BY <1>6 DEF SetStatus, files, Kept
  <2> QED
    BY <1>1, <2>1, StatementHolds
<1>7. CASE Move(r)
  <2>1. Statement(r, "move") /\ doc' = doc /\ Kept' = Kept
    BY <1>7 DEF Move, row, Kept
  <2> QED
    BY <1>1, <2>1, StatementHolds
<1>8. CASE Archive(r)
  <2>1. Statement(r, "archive") /\ doc' = doc /\ Kept' = Kept
    BY <1>8 DEF Archive, row, Kept
  <2> QED
    BY <1>1, <2>1, StatementHolds
<1>9. CASE Publish(r)
  <2>1. doc' = doc /\ req[r].doc.rev \in Kept'
    BY <1>9 DEF Publish, row, Kept
  <2>2. CASE Statement(r, "publish")
    BY <1>1, <2>1, <2>2, StatementHolds
  <2>3. CASE Statement(r, "promote")
    BY <1>1, <2>1, <2>3, StatementHolds
  <2> QED
    BY <1>9, <2>2, <2>3 DEF Publish
<1>10. CASE Restore(r)
  <2>1. Statement(r, "restore") /\ doc' = doc /\ Kept' = Kept
    BY <1>10 DEF Restore, LastArchived, row, Kept
  <2> QED
    BY <1>1, <2>1, StatementHolds
<1> QED
  BY <1>2, <1>3, <1>4, <1>5, <1>6, <1>7, <1>8, <1>9, <1>10 DEF Step

\* A statement that raises leaves the current text where it is.
LEMMA RaisesHolds ==
  ASSUME TInv, NEW r \in Req, Raises(r), Holds(req[r])
  PROVE  Holds(req[r])'
<1>1. req'[r] = Idle /\ Idle.pc = "idle" /\ UNCHANGED <<doc, repo, archive>>
  BY StopsStep, IdleLocal DEF Raises, Stops, row, files, TInv, TypeOK
<1>2. req[r].pc \in {"archive", "promote", "restore"}
  BY DEF Raises
<1>3. req[r].op \in DOMAIN Script /\ req[r].pc \in DOMAIN Script[req[r].op]
  BY <1>2 DEF TInv, Knows
<1>4. req[r].pc = "restore" => req[r].op \notin NewRev
  BY <1>3, ScriptSteps
<1>5. doc.rev \in Kept
  <2>1. CASE req[r].pc \in {"archive", "restore"}
    BY <2>1, <1>4 DEF Holds, Saved
  <2>2. CASE req[r].pc = "promote"
    <3>1. req[r].doc.rev \in repo
      BY <2>2 DEF Raises
    <3> QED
      BY <3>1 DEF Holds, Kept
  <2> QED
    BY <1>2, <2>1, <2>2
<1> QED
  BY <1>1, <1>5 DEF Holds, Saved, Kept

\* A request begins with the row as it is.
LEMMA StartHolds ==
  ASSUME TInv, NEW r \in Req, Start(r), Holds(req[r])
  PROVE  Holds(req[r])'
<1>1. PICK op \in DOMAIN Script, rev \in Rev : Load(r, op, rev)
  BY StartLoads
<1>2. /\ req'[r].pc = First[op] /\ req'[r].op = op /\ req'[r].old = doc.rev
      /\ op \notin NewRev => req'[r].doc.rev = doc.rev
      /\ UNCHANGED <<doc, files>>
  BY <1>1, LoadStep
<1>3. op \in NewRev => First[op] \in {"archive", "save"}
  BY ScriptStarts
<1>4. doc.rev \in Kept
  BY <1>1 DEF Load, Holds, Saved
<1> QED
  BY <1>2, <1>3, <1>4 DEF Holds, Saved, Kept, files

LEMMA KInvInit == Init => KInv
<1> SUFFICES ASSUME Init PROVE KInv
  OBVIOUS
<1>1. TInv
  BY TInvInit
<1>2. doc.rev = 0 /\ 0 \in Kept
  BY DEF Init, Kept
<1>3. ASSUME NEW r \in Req PROVE Holds(req[r])
  BY <1>2, IdleLocal DEF Init, Holds, Saved
<1> QED
  BY <1>1, <1>3 DEF KInv

LEMMA KInvNext ==
  ASSUME \A p, q \in Req : p = q
  PROVE  KInv /\ [NextOK]_vars => KInv'
<1> SUFFICES ASSUME KInv, [NextOK]_vars PROVE KInv'
  OBVIOUS
<1>1. TInv /\ TInv'
  BY TInvNext DEF KInv, Next
<1>2. ASSUME NEW p \in Req PROVE Holds(req[p])'
  <2>1. Holds(req[p])
    BY DEF KInv
  <2>2. ASSUME NEW r \in Req, Start(r) \/ Step(r) \/ Raises(r) PROVE Holds(req[p])'
    <3>1. r = p
      OBVIOUS
    <3>2. CASE Start(p)
      BY <1>1, <2>1, <3>2, StartHolds
    <3>3. CASE Step(p)
      BY <1>1, <2>1, <3>3, StepHolds
    <3>4. CASE Raises(p)
      BY <1>1, <2>1, <3>4, RaisesHolds
    <3> QED
      BY <2>2, <3>1, <3>2, <3>3, <3>4
  <2>3. ASSUME NEW v \in Rev, Clean(v) PROVE Holds(req[p])'
    <3>1. UNCHANGED <<doc, req>> /\ (doc.rev \in Kept => doc.rev \in Kept')
      BY <2>3 DEF Clean, row, Kept
    <3> QED
      BY <2>1, <3>1 DEF Holds, Saved, Kept
  <2>4. CASE Tick
    <3>1. /\ doc'.rev = doc.rev
          /\ req'[p].pc = req[p].pc /\ req'[p].op = req[p].op
          /\ req'[p].old = req[p].old /\ req'[p].doc.rev = req[p].doc.rev
      BY <1>1, <2>4, TickStep
    <3>2. Kept' = Kept
      BY <2>4 DEF Tick, files, Kept
    <3> QED
      BY <2>1, <3>1, <3>2 DEF Holds, Saved, Kept
  <2>5. CASE ChangeStream
    <3>1. doc'.rev = doc.rev
      BY <1>1, <2>5 DEF ChangeStream, TInv, TypeOK, Row
    <3> QED
      BY <2>1, <2>5, <3>1 DEF ChangeStream, files, Holds, Saved, Kept
  <2>6. CASE \/ IesgMoves \/ StreamState \/ Review \/ ReplacedBy \/ NoLongerReplaced
             \/ Meeting \/ Cancel \/ (\E op \in Button : OpenForm(op)) \/ UNCHANGED vars
    <3>1. UNCHANGED <<doc, req, repo, archive>>
      BY <2>6 DEF IesgMoves, StreamState, Review, ReplacedBy, NoLongerReplaced, Meeting,
                  Cancel, OpenForm, vars, row, files
    <3> QED
      BY <2>1, <3>1 DEF Holds, Saved, Kept
  <2> QED
    BY <2>2, <2>3, <2>4, <2>5, <2>6 DEF NextOK
<1> QED
  BY <1>1, <1>2 DEF KInv

LEMMA KInvKeeps ==
  ASSUME Req # {} PROVE KInv => CurrentKept
<1> SUFFICES ASSUME KInv, Quiet PROVE doc.rev \in repo \cup archive
  BY DEF CurrentKept
<1>1. PICK r \in Req : TRUE
  OBVIOUS
<1>2. req[r].pc = "idle" /\ Holds(req[r])
  BY DEF KInv, Quiet
<1> QED
  BY <1>2 DEF Holds, Saved, Kept

\* For requests that come one at a time and are not killed, whichever buttons
\* the Secretariat uses and wherever a day, a meeting or the clean-up of the
\* repository falls between their statements: when they are done the text of
\* the current revision is in the repository or the archive.
THEOREM CurrentIsKept ==
  ASSUME \A p, q \in Req : p = q, Req # {}
  PROVE  SpecOK => []CurrentKept
<1>1. KInv => CurrentKept
  BY KInvKeeps
<1>2. KInv /\ [NextOK]_vars => KInv'
  BY KInvNext
<1> QED
  BY <1>1, <1>2, KInvInit, PTL DEF SpecOK

\* The same until a request has died, the property that is model-checked.
THEOREM CurrentIsKeptUnlessFailed ==
  ASSUME \A p, q \in Req : p = q, Req # {}
  PROVE  MCSpec => []CurrentKeptUnlessFailed
<1> DEFINE Inv == failed \/ KInv
<1>1. MCInit => Inv
  BY KInvInit DEF MCInit
<1>2. Inv /\ [Fine \/ Fails]_<<vars, failed>> => Inv'
  <2> SUFFICES ASSUME Inv, [Fine \/ Fails]_<<vars, failed>>, ~failed' PROVE KInv'
    OBVIOUS
  <2>1. ~failed /\ [NextOK]_vars
    BY DEF Fine, Fails
  <2> QED BY <2>1, KInvNext
<1>3. Inv => CurrentKeptUnlessFailed
  BY KInvKeeps DEF CurrentKeptUnlessFailed
<1> QED
  BY <1>1, <1>2, <1>3, PTL DEF MCSpec
=============================================================================
