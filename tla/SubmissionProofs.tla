-------------------------- MODULE SubmissionProofs --------------------------
(***************************************************************************)
(* The safety properties of Submission that hold for every set of          *)
(* submissions, every number of overlapping requests and every revision    *)
(* bound, with requests dying anywhere.                                    *)
(***************************************************************************)
EXTENDS MCSubmission, TLAPS

InPlace(v)      == repo[v] # None \/ archive[v] # None
Announced(s, v) == \E e \in events : e.sub = s /\ e.rev = v
Settled         == marks.state = "active" /\ marks.iana # "reviewed"

\* A row waiting for a confirmation of a working group's revision 00.
Waiting(row) == GroupDraft /\ row.rev = 0 /\ row.state \in {"auth", "aut-appr"}

\* What a process knows at each point of its request: only a finished
\* posting carries "posted", the event precedes the files, and a confirmed
\* revision 00 was cleared by a preapproval.
LocalInv(q) ==
  /\ q.pc # "idle" => q.sub \in Sub
  /\ q.row.state = "posted" => q.pc = "save" /\ q.op \in Entry /\ InPlace(q.row.rev)
                               /\ Announced(q.sub, q.row.rev) /\ Settled
  /\ q.pc \in {"archive", "publish"} => Announced(q.sub, q.row.rev) /\ Settled
  /\ Waiting(q.row) => q.sub \in cleared
  /\ GroupDraft /\ q.row.rev = 0 /\ q.op = "confirm" => q.sub \in cleared
  /\ q.pc \in Posting => q.op \in Entry
  /\ q.pc = "rename" => q.prev \in Rev

IInv ==
  /\ TypeOK
  /\ PostedIsComplete
  /\ PublishedIsAnnounced
  /\ GroupApproval
  /\ \A s \in Sub : Waiting(subm[s]) => s \in cleared
  /\ \A r \in Req : LocalInv(req[r])
(***************************************************************************)
(* Type correctness                                                        *)
(***************************************************************************)
USE ConstantsAssumption

\* The fields of a row and of a process' local variables, and what updating
\* one field does to the others.
LEMMA RowFields ==
  ASSUME NEW row \in Row
  PROVE  /\ row.state \in Workflow!StateName \cup {"none"} /\ row.rev \in Rev
         /\ \A st \in Workflow!StateName \cup {"none"} :
              /\ [row EXCEPT !.state = st] \in Row
              /\ [row EXCEPT !.state = st].state = st
              /\ [row EXCEPT !.state = st].rev = row.rev
BY DEF Row

LEMMA RowForm ==
  ASSUME NEW row \in Row
  PROVE  /\ row = [state |-> row.state, rev |-> row.rev]
         /\ \A st : [row EXCEPT !.state = st] = [state |-> st, rev |-> row.rev]
BY DEF Row

LEMMA LocalFields ==
  ASSUME NEW q \in Local
  PROVE  /\ q.pc \in PC /\ q.sub \in Sub \cup {None} /\ q.row \in Row
         /\ q.prev \in -1..MaxRev /\ q.rfc \in BOOLEAN /\ q.op \in Op
BY DEF Local

LEMMA LocalGoto ==
  ASSUME NEW q \in Local, NEW pc \in PC
  PROVE  LET n == [q EXCEPT !.pc = pc]
         IN  n \in Local /\ n.pc = pc /\ n.sub = q.sub /\ n.row = q.row /\ n.op = q.op
             /\ n.prev = q.prev
BY DEF Local

LEMMA IdleFields ==
  Idle \in Local /\ Idle.pc = "idle" /\ Idle.row.state = "none" /\ Idle.op = "none"
BY DEF Idle, NoRow, Local, PC, Row, Op, Rev

LEMMA WorkFields ==
  ASSUME NEW op \in Op, NEW s \in Sub, NEW row \in Row, NEW prev \in -1..MaxRev, NEW pc \in PC
  PROVE  LET q == Work(op, s, row, prev, pc)
         IN  q \in Local /\ q.pc = pc /\ q.sub = s /\ q.row = row /\ q.op = op
             /\ q.prev = prev
BY DEF Work, Local

\* Replacing the local variables of one process.
LEMMA ReqUpdate ==
  ASSUME req \in [Req -> Local], NEW r \in Req, NEW q \in Local,
         req' = [req EXCEPT ![r] = q]
  PROVE  /\ req' \in [Req -> Local] /\ req'[r] = q
         /\ \A p \in Req : p # r => req'[p] = req[p]
OBVIOUS

LEMMA GotoType ==
  ASSUME req \in [Req -> Local], NEW r \in Req, NEW pc \in PC, Goto(r, pc)
  PROVE  /\ req' \in [Req -> Local]
         /\ req'[r].pc = pc /\ req'[r].sub = req[r].sub
         /\ req'[r].row = req[r].row /\ req'[r].op = req[r].op /\ req'[r].prev = req[r].prev
         /\ \A p \in Req : p # r => req'[p] = req[p]
<1>1. req' = [req EXCEPT ![r] = [req[r] EXCEPT !.pc = pc]]
  BY DEF Goto
<1>2. [req[r] EXCEPT !.pc = pc] \in Local
  BY LocalGoto
<1> QED
  BY <1>1, <1>2, LocalGoto, ReqUpdate

LEMMA FinishType ==
  ASSUME req \in [Req -> Local], NEW r \in Req, Finish(r)
  PROVE  /\ req' \in [Req -> Local] /\ req'[r] = Idle
         /\ \A p \in Req : p # r => req'[p] = req[p]
BY IdleFields, ReqUpdate DEF Finish

LEMMA InitType == Init => TypeOK
<1> SUFFICES ASSUME Init PROVE TypeOK
  OBVIOUS
<1>1. req \in [Req -> Local]
  BY IdleFields DEF Init
<1>2. subm \in [Sub -> Row]
  BY DEF Init, NoRow, Row, Rev
<1>3. marks \in Marks
  <2>1. NoMark \in Marks
    BY DEF NoMark, Marks
  <2> QED
    BY <2>1 DEF Init
<1>4. 0 \in Rev /\ -1 \in -1..MaxRev /\ 0 \in -1..MaxRev
  BY DEF Rev
<1>5. doc \in [rev : -1..MaxRev, meta : Content]
  BY <1>4 DEF Init, Content
<1>6. events \subseteq [rev : Rev, sub : Sub \cup {Prior}, via : Entry \cup {"none"}]
  BY <1>4 DEF Init
<1>7. repo \in [Rev -> Content] /\ staging \in [Rev -> Content] /\ archive \in [Rev -> Content]
  BY DEF Init, Content
<1> QED
  BY <1>1, <1>2, <1>3, <1>5, <1>6, <1>7 DEF Init, TypeOK

(***************************************************************************)
(* What every step keeps                                                   *)
(***************************************************************************)
Grows ==
  /\ \A v \in Rev : InPlace(v) => InPlace(v)'
  /\ events \subseteq events'
  /\ Settled => Settled'
  /\ cleared \subseteq cleared'

\* A step of process r leaves what the other processes know true.
LEMMA OthersKeep ==
  ASSUME IInv, NEW r \in Req, Grows, LocalInv(req[r])',
         \A p \in Req : p # r => req'[p] = req[p]
  PROVE  \A p \in Req : LocalInv(req[p])'
<1> SUFFICES ASSUME NEW p \in Req, p # r PROVE LocalInv(req[p])'
  OBVIOUS
<1>1. req'[p] = req[p] /\ LocalInv(req[p]) /\ req[p] \in Local
  BY DEF IInv, TypeOK
<1>2. req[p].row.rev \in Rev
  BY <1>1, LocalFields, RowFields
<1> QED
  BY <1>1, <1>2 DEF Grows, LocalInv, Announced, Waiting

\* As long as rows do not change, what is posted stays complete.
LEMMA RowsKeep ==
  ASSUME IInv, Grows, subm' = subm
  PROVE  PostedIsComplete' /\ \A s \in Sub : Waiting(subm[s])' => s \in cleared'
<1>1. \A s \in Sub : subm[s].rev \in Rev
  BY RowFields DEF IInv, TypeOK
<1>2. \A s \in Sub : subm[s].state = "posted" =>
        InPlace(subm[s].rev)' /\ Announced(s, subm[s].rev)' /\ Settled'
  BY <1>1 DEF IInv, PostedIsComplete, Grows, InPlace, Announced, Settled
<1>3. PostedIsComplete'
  BY <1>2 DEF PostedIsComplete, InPlace, Announced, Settled
<1>4. \A s \in Sub : Waiting(subm[s])' => s \in cleared'
  BY DEF IInv, Waiting, Grows
<1> QED
  BY <1>3, <1>4

\* A step that changes neither rows, nor published files, nor marks, nor events.
LEMMA QuietStep ==
  ASSUME IInv, TypeOK', NEW r \in Req, LocalInv(req[r])',
         \A p \in Req : p # r => req'[p] = req[p],
         UNCHANGED <<subm, repo, archive, marks, events>>, cleared \subseteq cleared'
  PROVE  IInv'
<1>1. Grows
  BY DEF Grows, InPlace, Settled
<1>2. PublishedIsAnnounced'
  BY DEF IInv, PublishedIsAnnounced
<1>3. GroupApproval'
  BY DEF IInv, GroupApproval
<1> QED
  BY <1>1, <1>2, <1>3, OthersKeep, RowsKeep DEF IInv

(***************************************************************************)
(* The first step of every request                                         *)
(***************************************************************************)
LEMMA StartInv ==
  ASSUME IInv, NEW r \in Req, NEW s \in Sub, Start(r, s)
  PROVE  IInv'
<1> DEFINE Begun(op, row, prev, pc) ==
      /\ req' = [req EXCEPT ![r] = Work(op, s, row, prev, pc)]
      /\ UNCHANGED <<subm, repo, archive, document, staging, preapproved, pages>>
<1>t. TypeOK /\ subm[s] \in Row /\ req \in [Req -> Local]
  BY DEF IInv, TypeOK
<1>b. ASSUME NEW op \in Op, NEW pc \in PC \ {"idle", "archive", "publish"},
             NEW st \in Workflow!StateName \ {"posted"}, NEW v \in Rev,
             NEW prev \in -1..MaxRev, Begun(op, [state |-> st, rev |-> v], prev, pc),
             cleared \subseteq cleared', cleared' \subseteq Sub,
             pc = "rename" => prev \in Rev,
             GroupDraft /\ v = 0 /\ (st \in {"auth", "aut-appr"} \/ op = "confirm")
               => s \in cleared',
             pc \in Posting => op \in Entry
      PROVE  IInv'
  <2> DEFINE row == [state |-> st, rev |-> v]
  <2>1. row \in Row /\ row.state = st /\ row.rev = v
    BY DEF Row
  <2>2. /\ req' \in [Req -> Local] /\ req'[r] = Work(op, s, row, prev, pc)
        /\ \A p \in Req : p # r => req'[p] = req[p]
    BY <1>t, <1>b, <2>1, WorkFields, ReqUpdate
  <2>3. req'[r].pc = pc /\ req'[r].sub = s /\ req'[r].row = row /\ req'[r].op = op
        /\ req'[r].prev = prev
    BY <1>b, <2>1, <2>2, WorkFields
  <2>4. TypeOK'
    BY <1>t, <1>b, <2>2 DEF TypeOK, document
  <2>5. LocalInv(req[r])'
    BY <1>b, <2>1, <2>3 DEF LocalInv, Waiting, Posting, Op
  <2> QED
    BY <1>b, <2>2, <2>4, <2>5, QuietStep DEF document
<1>v. subm[s] = [state |-> subm[s].state, rev |-> subm[s].rev] /\ subm[s].rev \in Rev
  BY <1>t, RowForm, RowFields
<1>c. GroupDraft /\ subm[s].rev = 0 /\ subm[s].state \in {"auth", "aut-appr"} => s \in cleared
  BY DEF IInv, Waiting
<1>n. /\ {"store", "rename", "save", "get"} \subseteq PC \ {"idle", "archive", "publish"}
      /\ {"upload", "autopost", "edit", "cancel", "expire"} \cup Entry \subseteq Op
      /\ {"uploaded", "auth", "aut-appr", "grp-appr", "manual", "cancel"}
           \subseteq Workflow!StateName \ {"posted"}
      /\ \A pc \in {"store", "rename", "save"} : pc \notin Posting
      /\ -1 \in -1..MaxRev /\ Rev \subseteq -1..MaxRev
  BY DEF PC, Rev, Op, Posting, Workflow!StateName, Workflow!Live
<1>1. ASSUME NEW v \in Rev, UploadCheck(r, s, v) PROVE IInv'
  <2>1. Begun("upload", [state |-> "uploaded", rev |-> v], -1, "store") /\ cleared' = cleared
    BY <1>1 DEF UploadCheck, files, rest
  <2> QED BY <2>1, <1>n, <1>b, <1>t DEF TypeOK
<1>2. ASSUME NEW v \in Rev, Edit(r, s, v) PROVE IInv'
  <2>1. cleared' = cleared
    BY <1>2 DEF Edit, rest
  <2>2. PICK pc \in {"rename", "save"} :
          Begun("edit", [state |-> "manual", rev |-> v], subm[s].rev, pc)
    BY <1>2 DEF Edit, Load, files, rest
  <2>3. subm[s].rev \in Rev /\ subm[s].rev \in -1..MaxRev /\ "edit" \in Op /\ pc \notin Posting
        /\ pc \in PC \ {"idle", "archive", "publish"}
    BY <1>n, <1>v
  <2> QED BY <2>1, <2>2, <2>3, <1>n, <1>b, <1>t DEF TypeOK
<1>3. CASE Autopost(r, s)
  <2> DEFINE st == AutopostState(subm[s])
  <2>1. st \in {"grp-appr", "auth", "aut-appr"}
    BY DEF AutopostState
  <2>2. Begun("autopost", [state |-> st, rev |-> subm[s].rev], -1, "save")
    BY <1>3, <1>t, RowForm DEF Autopost, Load, files, rest
  <2>3. cleared \subseteq cleared' /\ cleared' \subseteq Sub
    BY <1>3, <1>t DEF Autopost, TypeOK
  <2>4. GroupDraft /\ subm[s].rev = 0 /\ st \in {"auth", "aut-appr"} => s \in cleared'
    BY <1>3 DEF Autopost, AutopostState, NeedsGroupApproval
  <2> HIDE DEF st
  <2> QED BY <2>1, <2>2, <2>3, <2>4, <1>n, <1>b, <1>v
<1>4. CASE Cancel(r, s) \/ Expire(r, s)
  <2>1. cleared' = cleared /\ \E op \in {"cancel", "expire"} :
          Begun(op, [state |-> "cancel", rev |-> subm[s].rev], -1, "save")
    BY <1>4, <1>t, RowForm DEF Cancel, Expire, Load, files, rest
  <2> QED BY <2>1, <1>n, <1>b, <1>t, <1>v DEF TypeOK
<1>5. CASE Approve(r, s) \/ Confirm(r, s) \/ ForcePost(r, s)
  <2>0. cleared' = cleared
    BY <1>5 DEF Approve, Confirm, ForcePost, Post, rest
  <2>1. PICK op \in Entry :
          /\ Begun(op, [state |-> subm[s].state, rev |-> subm[s].rev], -1, "get")
          /\ op = "confirm" => subm[s].state \in {"auth", "aut-appr"}
    BY <1>5, <1>v DEF Approve, Confirm, ForcePost, Post, Load, files, rest, Entry
  <2>2. subm[s].state \in {"auth", "aut-appr", "grp-appr", "manual"}
    BY <1>5 DEF Approve, Confirm, ForcePost, Workflow!NextStates
  <2> DEFINE st == subm[s].state
  <2>3. GroupDraft /\ subm[s].rev = 0 /\ (st \in {"auth", "aut-appr"} \/ op = "confirm")
          => s \in cleared'
    BY <2>0, <2>1, <1>c
  <2>4. st \in Workflow!StateName \ {"posted"}
    BY <2>2, <1>n
  <2>5. Begun(op, [state |-> st, rev |-> subm[s].rev], -1, "get")
    BY <2>1
  <2>6. cleared \subseteq cleared' /\ cleared' \subseteq Sub
    BY <2>0, <1>t DEF TypeOK
  <2> HIDE DEF st, Begun
  <2> QED BY <2>3, <2>4, <2>5, <2>6, <1>n, <1>b, <1>v
<1> QED BY <1>1, <1>2, <1>3, <1>4, <1>5 DEF Start

(***************************************************************************)
(* The later steps of a request                                            *)
(***************************************************************************)
LEMMA RowWritten ==
  ASSUME IInv, NEW r \in Req, req[r].pc \in {"create", "save"},
         subm' = [subm EXCEPT ![req[r].sub] = req[r].row],
         UNCHANGED <<files, document, cleared>>
  PROVE  /\ Grows /\ PublishedIsAnnounced' /\ GroupApproval'
         /\ subm' \in [Sub -> Row]
         /\ PostedIsComplete'
         /\ \A s \in Sub : Waiting(subm[s])' => s \in cleared'
<1>1. LocalInv(req[r]) /\ req[r] \in Local /\ subm \in [Sub -> Row]
  BY DEF IInv, TypeOK
<1>2. req[r].sub \in Sub /\ req[r].row \in Row
  BY <1>1, LocalFields DEF LocalInv
<1>3. subm' \in [Sub -> Row] /\ subm'[req[r].sub] = req[r].row
      /\ \A s \in Sub : s # req[r].sub => subm'[s] = subm[s]
  BY <1>1, <1>2
<1>4. Grows /\ PublishedIsAnnounced' /\ GroupApproval'
  BY DEF Grows, InPlace, Settled, files, document, IInv, PublishedIsAnnounced, GroupApproval
<1>5. ASSUME NEW s \in Sub, subm'[s].state = "posted"
      PROVE  InPlace(subm'[s].rev) /\ Announced(s, subm'[s].rev) /\ Settled
  <2>1. CASE s = req[r].sub
    BY <1>1, <1>3, <1>5, <2>1 DEF LocalInv
  <2>2. CASE s # req[r].sub
    BY <1>3, <1>5, <2>2 DEF IInv, PostedIsComplete, InPlace, Announced, Settled
  <2> QED BY <2>1, <2>2
<1>6. PostedIsComplete'
  BY <1>5 DEF PostedIsComplete, InPlace, Announced, Settled, files, document
<1>7. \A s \in Sub : Waiting(subm[s])' => s \in cleared'
  BY <1>1, <1>3 DEF IInv, LocalInv, Waiting
<1> QED BY <1>3, <1>4, <1>6, <1>7

\* Going on with a request whose row is not posted.
LEMMA GotoInv ==
  ASSUME IInv, NEW r \in Req, NEW pc \in PC \ {"archive", "publish", "rename"}, Goto(r, pc),
         req[r].pc # "idle", req[r].row.state # "posted",
         pc \in Posting => req[r].op \in Entry, cleared' = cleared
  PROVE  /\ req' \in [Req -> Local] /\ LocalInv(req[r])'
         /\ \A p \in Req : p # r => req'[p] = req[p]
<1>1. LocalInv(req[r]) /\ req \in [Req -> Local]
  BY DEF IInv, TypeOK
<1>2. /\ req' \in [Req -> Local]
      /\ req'[r].pc = pc /\ req'[r].sub = req[r].sub
      /\ req'[r].row = req[r].row /\ req'[r].op = req[r].op
      /\ \A p \in Req : p # r => req'[p] = req[p]
  BY <1>1, GotoType
<1>3. LocalInv(req[r])'
  BY <1>1, <1>2 DEF LocalInv, Waiting
<1> QED BY <1>2, <1>3

LEMMA StepInv ==
  ASSUME IInv, NEW r \in Req, Step(r) \/ Abort(r)
  PROVE  IInv'
<1>t. /\ TypeOK /\ req \in [Req -> Local] /\ req[r] \in Local /\ LocalInv(req[r])
      /\ staging \in [Rev -> Content] /\ repo \in [Rev -> Content]
      /\ archive \in [Rev -> Content] /\ marks \in Marks
  BY DEF IInv, TypeOK
<1>l. /\ req[r].row \in Row /\ req[r].row.rev \in Rev /\ req[r].prev \in -1..MaxRev
      /\ req[r].pc # "idle" => req[r].sub \in Sub
      /\ req[r].op \in Op
  BY <1>t, LocalFields, RowFields DEF LocalInv
<1>p. {"create", "save", "unlink", "put", "states", "archive", "publish"} \subseteq PC
  BY DEF PC, Posting
<1>c. None \in Content /\ Sub \subseteq Content
  BY DEF Content
<1>x. /\ req[r].pc # "save" => req[r].row.state # "posted"
      /\ req[r].op = "cancel" => req[r].row.state # "posted"
  BY <1>t DEF LocalInv, Entry
<1>f. ASSUME Finish(r) PROVE /\ req' \in [Req -> Local] /\ LocalInv(req[r])'
                            /\ \A p \in Req : p # r => req'[p] = req[p]
  BY <1>f, <1>t, FinishType, IdleFields DEF LocalInv, Waiting, Posting
<1>1. CASE UploadStore(r)
  <2>1. /\ req' \in [Req -> Local] /\ LocalInv(req[r])'
        /\ \A p \in Req : p # r => req'[p] = req[p]
    BY <1>1, <1>x, <1>p, GotoInv DEF UploadStore, Posting, rest
  <2>2. staging' \in [Rev -> Content]
    BY <1>1, <1>t, <1>l, <1>c DEF UploadStore
  <2>3. TypeOK'
    BY <1>1, <1>t, <2>1, <2>2 DEF UploadStore, TypeOK, document, rest
  <2> QED BY <1>1, <2>1, <2>3, QuietStep DEF UploadStore, document, rest
<1>2. CASE UploadCreate(r)
  <2>1. /\ req' \in [Req -> Local] /\ LocalInv(req[r])'
        /\ \A p \in Req : p # r => req'[p] = req[p]
    BY <1>2, <1>f DEF UploadCreate
  <2>2. /\ Grows /\ PublishedIsAnnounced' /\ GroupApproval'
        /\ subm' \in [Sub -> Row] /\ PostedIsComplete'
        /\ \A s \in Sub : Waiting(subm[s])' => s \in cleared'
    BY <1>2, RowWritten DEF UploadCreate, rest
  <2>3. TypeOK'
    BY <1>2, <1>t, <2>1, <2>2 DEF UploadCreate, TypeOK, files, document, rest
  <2> QED BY <2>1, <2>2, <2>3, OthersKeep DEF IInv
<1>3. CASE EditRename(r)
  <2>1. /\ req' \in [Req -> Local] /\ LocalInv(req[r])'
        /\ \A p \in Req : p # r => req'[p] = req[p]
    <3>1. CASE Finish(r) BY <3>1, <1>f
    <3>2. CASE Goto(r, "save")
      BY <1>3, <3>2, <1>x, <1>p, GotoInv DEF EditRename, Posting, rest
    <3> QED BY <1>3, <3>1, <3>2 DEF EditRename
  <2>2. staging' \in [Rev -> Content]
    <3> DEFINE old == req[r].prev
               new == req[r].row.rev
    <3>1. CASE staging' = [staging EXCEPT ![new] = staging[old], ![old] = None] /\ old \in Rev
      BY <3>1, <1>t, <1>l, <1>c
    <3>2. CASE staging' = staging
      BY <3>2, <1>t
    <3>3. req[r].pc = "rename" => old \in Rev
      BY <1>t DEF LocalInv
    <3> QED BY <1>3, <3>1, <3>2, <3>3 DEF EditRename
  <2>3. TypeOK'
    BY <1>3, <1>t, <2>1, <2>2 DEF EditRename, TypeOK, document, rest
  <2> QED BY <1>3, <2>1, <2>3, QuietStep DEF EditRename, document, rest
<1>4. CASE SaveRow(r)
  <2>2. /\ Grows /\ PublishedIsAnnounced' /\ GroupApproval'
        /\ subm' \in [Sub -> Row] /\ PostedIsComplete'
        /\ \A s \in Sub : Waiting(subm[s])' => s \in cleared'
    BY <1>4, RowWritten DEF SaveRow
  <2>1. /\ req' \in [Req -> Local] /\ LocalInv(req[r])'
        /\ \A p \in Req : p # r => req'[p] = req[p]
    <3>1. CASE Finish(r) BY <3>1, <1>f
    <3>2. CASE Goto(r, "unlink") /\ req[r].op = "cancel"
      BY <1>4, <3>2, <1>x, <1>p, GotoInv DEF SaveRow, Posting
    <3> QED BY <1>4, <3>1, <3>2 DEF SaveRow
  <2>3. TypeOK'
    BY <1>4, <1>t, <2>1, <2>2 DEF SaveRow, TypeOK, files, document
  <2> QED BY <2>1, <2>2, <2>3, OthersKeep DEF IInv
<1>5. CASE CancelUnlink(r)
  <2>1. /\ req' \in [Req -> Local] /\ LocalInv(req[r])'
        /\ \A p \in Req : p # r => req'[p] = req[p]
    BY <1>5, <1>f DEF CancelUnlink
  <2>2. staging' \in [Rev -> Content]
    BY <1>5, <1>t, <1>l, <1>c DEF CancelUnlink
  <2>3. TypeOK'
    BY <1>5, <1>t, <2>1, <2>2 DEF CancelUnlink, TypeOK, document, rest
  <2> QED BY <1>5, <2>1, <2>3, QuietStep DEF CancelUnlink, document, rest
<1>6. CASE PostGet(r)
  <2> DEFINE q == [req[r] EXCEPT !.pc = "put", !.prev = doc.rev, !.rfc = (marks.state = "rfc")]
  <2>1. doc.rev \in -1..MaxRev
    BY <1>t DEF TypeOK
  <2>2. q \in Local /\ q.pc = "put" /\ q.sub = req[r].sub /\ q.row = req[r].row
        /\ q.op = req[r].op
    BY <1>t, <1>p, <2>1 DEF Local
  <2>3. req' = [req EXCEPT ![r] = q]
    BY <1>6 DEF PostGet
  <2>4. req' \in [Req -> Local] /\ req'[r] = q /\ \A p \in Req : p # r => req'[p] = req[p]
    <3> HIDE DEF q
    <3> QED BY <1>t, <2>2, <2>3, ReqUpdate
  <2>5. LocalInv(req[r])'
    BY <1>6, <1>t, <2>2, <2>4 DEF PostGet, LocalInv, Waiting, Posting, rest
  <2>6. history' \subseteq Rev
    BY <1>6, <1>t DEF PostGet, TypeOK
  <2>7. TypeOK'
    BY <1>6, <1>t, <2>4, <2>6 DEF PostGet, TypeOK, files, rest
  <2> QED BY <1>6, <2>4, <2>5, <2>7, QuietStep DEF PostGet, files, rest
<1>7. CASE PostPut(r)
  <2>1. /\ req' \in [Req -> Local] /\ LocalInv(req[r])'
        /\ \A p \in Req : p # r => req'[p] = req[p]
    BY <1>7, <1>t, <1>x, <1>p, GotoInv DEF PostPut, LocalInv, Posting, rest
  <2>2. doc' \in [rev : -1..MaxRev, meta : Content]
    BY <1>7, <1>l, <1>c DEF PostPut, Rev
  <2>3. TypeOK'
    BY <1>7, <1>t, <2>1, <2>2 DEF PostPut, TypeOK, files, rest
  <2> QED BY <1>7, <2>1, <2>3, QuietStep DEF PostPut, files, rest
<1>8. CASE PostStates(r)
  <2> DEFINE e == [rev |-> req[r].row.rev, sub |-> req[r].sub, via |-> req[r].op]
  <2>1. req[r].sub \in Sub /\ req[r].op \in Entry
    BY <1>8, <1>t DEF PostStates, LocalInv, Posting
  <2>2. /\ req' \in [Req -> Local] /\ req'[r].pc = "archive"
        /\ req'[r].sub = req[r].sub /\ req'[r].row = req[r].row /\ req'[r].op = req[r].op
        /\ \A p \in Req : p # r => req'[p] = req[p]
    BY <1>8, <1>t, <1>p, GotoType DEF PostStates
  <2>3. marks' \in Marks /\ Settled'
    BY <1>8, <1>t DEF PostStates, Marks, Settled
  <2>4. events' = events \cup {e} /\ e \in [rev : Rev, sub : Sub \cup {Prior}, via : Entry \cup {"none"}]
    BY <1>8, <1>l, <2>1 DEF PostStates
  <2>5. TypeOK'
    BY <1>8, <1>t, <2>2, <2>3, <2>4 DEF PostStates, TypeOK, files, rest
  <2>6. Announced(req[r].sub, req[r].row.rev)'
    <3>1. e.sub = req[r].sub /\ e.rev = req[r].row.rev
      OBVIOUS
    <3>2. e \in events'
      BY <2>4
    <3> HIDE DEF e
    <3> QED BY <2>2, <3>1, <3>2 DEF Announced
  <2>7. LocalInv(req[r])'
    BY <1>8, <1>t, <2>1, <2>2, <2>3, <2>6
       DEF PostStates, LocalInv, Waiting, Posting, rest, Announced
  <2>8. Grows
    BY <1>8, <2>3, <2>4 DEF PostStates, Grows, InPlace, files, rest
  <2>9. PublishedIsAnnounced'
    BY <1>8, <2>4 DEF PostStates, files, IInv, PublishedIsAnnounced
  <2>10. GroupApproval'
    BY <1>8, <1>t, <2>4 DEF PostStates, rest, IInv, GroupApproval, LocalInv
  <2>11. subm' = subm
    BY <1>8 DEF PostStates
  <2> QED BY <2>2, <2>5, <2>7, <2>8, <2>9, <2>10, <2>11, OthersKeep, RowsKeep DEF IInv
<1>9. CASE PostArchive(r)
  <2>1. /\ req' \in [Req -> Local] /\ req'[r].pc = "publish"
        /\ req'[r].sub = req[r].sub /\ req'[r].row = req[r].row /\ req'[r].op = req[r].op
        /\ \A p \in Req : p # r => req'[p] = req[p]
    BY <1>9, <1>t, <1>p, GotoType DEF PostArchive
  <2>2. marks' \in Marks /\ (Settled => Settled')
    BY <1>9, <1>t DEF PostArchive, Marks, Settled
  <2>3. repo' \in [Rev -> Content] /\ archive' \in [Rev -> Content]
        /\ \A v \in Rev : InPlace(v)' <=> InPlace(v)
    BY <1>9, <1>t, <1>c DEF PostArchive, InPlace
  <2>4. TypeOK'
    BY <1>9, <1>t, <2>1, <2>2, <2>3 DEF PostArchive, TypeOK, rest
  <2>5. Grows
    BY <1>9, <2>2, <2>3 DEF PostArchive, Grows, rest
  <2>6. LocalInv(req[r])'
    BY <1>9, <1>t, <2>1, <2>2 DEF PostArchive, LocalInv, Waiting, Posting, rest, Announced
  <2>7. PublishedIsAnnounced'
    BY <1>9, <2>3 DEF PostArchive, IInv, PublishedIsAnnounced, InPlace
  <2>8. GroupApproval' /\ subm' = subm
    BY <1>9 DEF PostArchive, rest, IInv, GroupApproval
  <2> QED BY <2>1, <2>4, <2>5, <2>6, <2>7, <2>8, OthersKeep, RowsKeep DEF IInv
<1>10. CASE PostPublish(r)
  <2> DEFINE v == req[r].row.rev
             q == [req[r] EXCEPT !.pc = "save", !.row.state = "posted"]
  <2>1. repo' \in [Rev -> Content] /\ staging' \in [Rev -> Content]
        /\ (\A w \in Rev : InPlace(w) => InPlace(w)')
        /\ (\A w \in Rev : w # v => (InPlace(w)' => InPlace(w)))
        /\ \A w \in Rev : w = v /\ (staging[w] # None \/ repo[w] # None) => InPlace(w)'
    <3>1. v \in Rev /\ archive' = archive
      BY <1>10, <1>l DEF PostPublish
    <3>2. CASE staging[v] # None
      <4>1. repo' = [repo EXCEPT ![v] = staging[v]] /\ staging' = [staging EXCEPT ![v] = None]
        BY <1>10, <3>2 DEF PostPublish
      <4>2. staging[v] \in Content
        BY <3>1, <1>t
      <4> HIDE DEF v
      <4>3. repo' \in [Rev -> Content] /\ staging' \in [Rev -> Content]
        BY <3>1, <4>1, <4>2, <1>t, <1>c
      <4>4. repo'[v] # None /\ \A w \in Rev : w # v => repo'[w] = repo[w]
        BY <3>1, <3>2, <4>1, <1>t
      <4> QED BY <3>1, <4>3, <4>4 DEF InPlace
    <3>3. CASE staging[v] = None
      <4>1. repo' = repo /\ staging' = staging
        BY <1>10, <3>3 DEF PostPublish
      <4> HIDE DEF v
      <4> QED BY <3>1, <3>3, <4>1, <1>t DEF InPlace
    <3> QED BY <3>2, <3>3
  <2>2. q \in Local /\ q.pc = "save" /\ q.sub = req[r].sub /\ q.row.state = "posted"
        /\ q.row.rev = v /\ q.op = req[r].op
    BY <1>t, <1>p DEF Local, Row, Workflow!StateName
  <2>3. Announced(req[r].sub, v) /\ Settled /\ req[r].op \in Entry /\ req[r].sub \in Sub
    BY <1>10, <1>t DEF PostPublish, LocalInv, Posting
  <2>4. Grows /\ GroupApproval' /\ subm' = subm
    BY <1>10, <2>1 DEF PostPublish, Grows, document, rest, Settled, IInv, GroupApproval
  <2>5. PublishedIsAnnounced'
    BY <1>10, <2>1, <2>3
       DEF PostPublish, document, IInv, PublishedIsAnnounced, InPlace, Announced
  <2>6. /\ req' \in [Req -> Local] /\ LocalInv(req[r])'
        /\ \A p \in Req : p # r => req'[p] = req[p]
    <3>1. CASE Finish(r) BY <3>1, <1>f
    <3>2. CASE (staging[v] # None \/ repo[v] # None) /\ req' = [req EXCEPT ![r] = q]
      <4> HIDE DEF q
      <4>1. req' \in [Req -> Local] /\ req'[r] = q /\ \A p \in Req : p # r => req'[p] = req[p]
        BY <3>2, <1>t, <2>2, ReqUpdate
      <4>2. LocalInv(req[r])'
        BY <1>10, <1>t, <1>l, <3>2, <4>1, <2>1, <2>2, <2>3, <2>4
           DEF PostPublish, LocalInv, Waiting, Posting, document, rest, Announced, Grows
      <4> QED BY <4>1, <4>2
    <3> QED BY <1>10, <3>1, <3>2 DEF PostPublish
  <2>7. TypeOK'
    BY <1>10, <1>t, <2>1, <2>6 DEF PostPublish, TypeOK, document, rest
  <2> QED BY <2>4, <2>5, <2>6, <2>7, OthersKeep, RowsKeep DEF IInv
<1>11. CASE Abort(r)
  <2>1. /\ req' \in [Req -> Local] /\ LocalInv(req[r])'
        /\ \A p \in Req : p # r => req'[p] = req[p]
    BY <1>11, <1>f DEF Abort
  <2>2. TypeOK'
    BY <1>11, <1>t, <2>1 DEF Abort, TypeOK, files, document, rest
  <2> QED BY <1>11, <2>1, <2>2, QuietStep DEF Abort, files, document, rest
<1> QED
  BY <1>1, <1>2, <1>3, <1>4, <1>5, <1>6, <1>7, <1>8, <1>9, <1>10, <1>11 DEF Step, PostStep

LEMMA InitInv == Init => IInv
<1> SUFFICES ASSUME Init PROVE IInv
  OBVIOUS
<1>1. TypeOK
  BY InitType
<1>2. \A s \in Sub : subm[s] = NoRow /\ NoRow.state = "none"
  BY DEF Init, NoRow
<1>3. PostedIsComplete /\ \A s \in Sub : Waiting(subm[s]) => s \in cleared
  BY <1>2 DEF PostedIsComplete, Waiting
<1>4. PublishedIsAnnounced
  <2>1. CASE doc.rev = -1
    BY <2>1 DEF Init, PublishedIsAnnounced
  <2>2. CASE doc.rev = 0
    <3> DEFINE e == [rev |-> 0, sub |-> Prior, via |-> "none"]
    <3>1. events = {e} /\ e.rev = 0
      BY <2>2 DEF Init
    <3> HIDE DEF e
    <3>2. \A v \in Rev : repo[v] # None \/ archive[v] # None => v = 0
      BY <2>2 DEF Init
    <3> QED BY <3>1, <3>2 DEF PublishedIsAnnounced
  <2> QED BY <2>1, <2>2 DEF Init
<1>5. GroupApproval
  BY DEF Init, GroupApproval
<1>6. \A r \in Req : LocalInv(req[r])
  BY IdleFields DEF Init, LocalInv, Waiting, Posting
<1> QED BY <1>1, <1>3, <1>4, <1>5, <1>6 DEF IInv

LEMMA NextInv == IInv /\ [Next]_vars => IInv'
<1> SUFFICES ASSUME IInv, [Next]_vars PROVE IInv'
  OBVIOUS
<1>1. ASSUME NEW r \in Req, Step(r) \/ Abort(r) PROVE IInv'
  BY <1>1, StepInv
<1>2. ASSUME NEW r \in Req, NEW s \in Sub, Start(r, s) PROVE IInv'
  BY <1>2, StartInv
<1>3. ASSUME UNCHANGED <<subm, files, document, cleared, req>>,
             preapproved' \in BOOLEAN, pages' \subseteq Sub
      PROVE  IInv'
  BY <1>3 DEF IInv, TypeOK, PostedIsComplete, PublishedIsAnnounced, GroupApproval,
              LocalInv, Waiting, InPlace, Announced, Settled, files, document
<1>4. ASSUME NEW s \in Sub, ViewStatus(s) PROVE IInv'
  BY <1>3, <1>4 DEF ViewStatus, IInv, TypeOK
<1>5. CASE AddPreapproval \/ CancelPreapproval
  BY <1>3, <1>5 DEF AddPreapproval, CancelPreapproval, IInv, TypeOK
<1>6. CASE UNCHANGED vars
  BY <1>3, <1>6 DEF vars, IInv, TypeOK, files, document
<1> QED BY <1>1, <1>2, <1>4, <1>5, <1>6 DEF Next, NextOK

\* post_submission and the requests around it keep the invariant.
THEOREM Invariance == Spec => []IInv
BY InitInv, NextInv, PTL DEF Spec

\* The rows, files and local variables of the submission tool stay well
\* typed, with any number of requests running and dying.
THEOREM TypeCorrect == Spec => []TypeOK
<1>1. IInv => TypeOK
  BY DEF IInv
<1> QED BY <1>1, Invariance, PTL

\* Whatever overlaps with post_submission and wherever requests die, a
\* submission in state "posted" has been published completely.
THEOREM PostedComplete == Spec => []PostedIsComplete
<1>1. IInv => PostedIsComplete
  BY DEF IInv
<1> QED BY <1>1, Invariance, PTL

\* Files become public only after the event that announces them.
THEOREM PublishedAnnounced == Spec => []PublishedIsAnnounced
<1>1. IInv => PublishedIsAnnounced
  BY DEF IInv
<1> QED BY <1>1, Invariance, PTL

\* No authors' confirmation publishes a working group's revision 00 that was
\* not cleared by a preapproval.
THEOREM GroupApproved == Spec => []GroupApproval
<1>1. IInv => GroupApproval
  BY DEF IInv
<1> QED BY <1>1, Invariance, PTL

(***************************************************************************)
(* One request at a time: the row a process loaded is still the row in the *)
(* database, so the workflow of the name table is followed.                *)
(***************************************************************************)
Fresh(q) ==
  /\ q.pc \in {"store", "create"} => subm[q.sub].state = "none" /\ q.row.state = "uploaded"
  /\ q.pc \in {"rename", "save"} => q.row.state \in Workflow!NextStates(subm[q.sub].state)
  /\ q.pc \in Posting => "posted" \in Workflow!NextStates(subm[q.sub].state)
  /\ q.pc = "put" => q.prev = doc.rev /\ {doc.rev} \cap Rev \subseteq history

SerialInv == IInv /\ \A r \in Req : Fresh(req[r])

\* What one step of a process that runs alone does to rows and history.
WorkflowStep ==
  \/ subm' = subm
  \/ \E s \in Sub : /\ \A t \in Sub : t # s => subm'[t] = subm[t]
                    /\ \/ subm[s].state = "none" /\ subm'[s].state = "uploaded"
                       \/ subm'[s].state \in Workflow!NextStates(subm[s].state)
HistoryStep == doc'.rev # doc.rev /\ Exists => doc.rev \in history

LEMMA SerialStart ==
  ASSUME SerialInv, NEW r \in Req, NEW s \in Sub, Start(r, s)
  PROVE  Fresh(req[r])' /\ subm' = subm /\ doc' = doc
<1>t. req \in [Req -> Local] /\ subm[s] \in Row
  BY DEF SerialInv, IInv, TypeOK
<1>v. /\ subm[s] = [state |-> subm[s].state, rev |-> subm[s].rev]
      /\ \A st : [subm[s] EXCEPT !.state = st] = [state |-> st, rev |-> subm[s].rev]
  BY <1>t, RowForm
<1> USE DEF Fresh, Work, Posting, Workflow!NextStates, files, document
<1>1. ASSUME NEW v \in Rev, UploadCheck(r, s, v) PROVE Fresh(req[r])' /\ subm' = subm /\ doc' = doc
  BY <1>1, <1>t DEF UploadCheck
<1>2. ASSUME NEW v \in Rev, Edit(r, s, v) PROVE Fresh(req[r])' /\ subm' = subm /\ doc' = doc
  BY <1>2, <1>t DEF Edit, Load
<1>3. CASE Autopost(r, s)
  BY <1>3, <1>t, <1>v DEF Autopost, Load, AutopostState
<1>4. CASE Cancel(r, s) \/ Expire(r, s)
  BY <1>4, <1>t, <1>v DEF Cancel, Expire, Load, Workflow!Live, Live
<1>5. CASE Approve(r, s) \/ Confirm(r, s) \/ ForcePost(r, s)
  BY <1>5, <1>t DEF Approve, Confirm, ForcePost, Post, Load, Entry
<1> QED BY <1>1, <1>2, <1>3, <1>4, <1>5 DEF Start

LEMMA SerialStep ==
  ASSUME SerialInv, NEW r \in Req, Step(r) \/ Abort(r)
  PROVE  Fresh(req[r])' /\ WorkflowStep /\ HistoryStep
<1>t. /\ req \in [Req -> Local] /\ req[r] \in Local /\ subm \in [Sub -> Row] /\ Fresh(req[r])
      /\ LocalInv(req[r]) /\ doc.rev \in -1..MaxRev
  BY DEF SerialInv, IInv, TypeOK
<1>s. req[r].pc # "idle" => req[r].sub \in Sub
  BY <1>t DEF LocalInv
<1>p. {"create", "save", "unlink", "put", "states", "archive", "publish"} \subseteq PC
  BY DEF PC, Posting
<1>f. Finish(r) => Fresh(req[r])'
  BY <1>t, FinishType, IdleFields DEF Fresh, Posting
<1>w. subm' = subm => WorkflowStep
  BY DEF WorkflowStep
<1>h. doc' = doc => HistoryStep
  BY DEF HistoryStep
<1> USE DEF files, document
<1>1. CASE UploadStore(r)
  BY <1>1, <1>t, <1>p, <1>w, <1>h, GotoType DEF UploadStore, Fresh, Posting
<1>2. CASE UploadCreate(r) \/ SaveRow(r)
  <2>1. WorkflowStep
    BY <1>2, <1>t, <1>s DEF UploadCreate, SaveRow, Fresh, WorkflowStep
  <2>2. Goto(r, "unlink") => Fresh(req[r])'
    BY <1>t, <1>p, GotoType DEF Fresh, Posting
  <2> QED BY <1>2, <2>1, <2>2, <1>f, <1>h DEF UploadCreate, SaveRow
<1>3. CASE EditRename(r)
  <2>1. Goto(r, "save") => Fresh(req[r])'
    BY <1>3, <1>t, <1>p, GotoType DEF EditRename, Fresh, Posting
  <2> QED BY <1>3, <2>1, <1>f, <1>w, <1>h DEF EditRename
<1>4. CASE CancelUnlink(r)
  BY <1>4, <1>f, <1>w, <1>h DEF CancelUnlink
<1>5. CASE PostGet(r)
  <2>1. subm' = subm /\ doc' = doc /\ {doc.rev} \cap Rev \subseteq history'
    BY <1>5 DEF PostGet
  <2>2. req'[r].pc = "put" /\ req'[r].prev = doc.rev /\ req'[r].sub = req[r].sub
    BY <1>5, <1>t DEF PostGet, Local
  <2> QED BY <1>5, <1>t, <1>w, <1>h, <2>1, <2>2 DEF PostGet, Fresh, Posting
<1>6. CASE PostPut(r)
  <2>1. HistoryStep
    BY <1>6, <1>t DEF PostPut, Fresh, HistoryStep, Exists, Rev
  <2> QED BY <1>6, <1>t, <1>p, <1>w, <2>1, GotoType DEF PostPut, Fresh, Posting
<1>7. CASE PostStates(r)
  BY <1>7, <1>t, <1>p, <1>w, <1>h, GotoType DEF PostStates, Fresh, Posting
<1>8. CASE PostArchive(r)
  BY <1>8, <1>t, <1>p, <1>w, <1>h, GotoType DEF PostArchive, Fresh, Posting
<1>9. CASE PostPublish(r)
  <2>1. ASSUME req' = [req EXCEPT ![r].pc = "save", ![r].row.state = "posted"]
        PROVE  Fresh(req[r])'
    <3>1. req'[r].pc = "save" /\ req'[r].row.state = "posted" /\ req'[r].sub = req[r].sub
      BY <1>t, <2>1 DEF Local, Row
    <3> QED BY <1>9, <1>t, <3>1 DEF PostPublish, Fresh, Posting
  <2> QED BY <1>9, <2>1, <1>f, <1>w, <1>h DEF PostPublish
<1>10. CASE Abort(r)
  BY <1>10, <1>f, <1>w, <1>h DEF Abort
<1> QED
  BY <1>1, <1>2, <1>3, <1>4, <1>5, <1>6, <1>7, <1>8, <1>9, <1>10 DEF Step, PostStep

LEMMA SerialNext ==
  ASSUME \A p, q \in Req : p = q, SerialInv, [Next]_vars
  PROVE  SerialInv' /\ WorkflowStep /\ HistoryStep
<1>1. IInv'
  BY NextInv DEF SerialInv
<1>2. ASSUME NEW r \in Req, Step(r) \/ Abort(r)
      PROVE  (\A p \in Req : Fresh(req[p])') /\ WorkflowStep /\ HistoryStep
  BY <1>2, SerialStep
<1>3. ASSUME NEW r \in Req, NEW s \in Sub, Start(r, s)
      PROVE  (\A p \in Req : Fresh(req[p])') /\ WorkflowStep /\ HistoryStep
  BY <1>3, SerialStart DEF WorkflowStep, HistoryStep
<1>4. ASSUME UNCHANGED <<subm, document, req>>
      PROVE  (\A p \in Req : Fresh(req[p])') /\ WorkflowStep /\ HistoryStep
  BY <1>4 DEF SerialInv, Fresh, document, WorkflowStep, HistoryStep
<1>5. ASSUME NEW s \in Sub, ViewStatus(s) PROVE UNCHANGED <<subm, document, req>>
  BY <1>5 DEF ViewStatus
<1>6. ASSUME AddPreapproval \/ CancelPreapproval \/ UNCHANGED vars
      PROVE  UNCHANGED <<subm, document, req>>
  BY <1>6 DEF AddPreapproval, CancelPreapproval, vars, document
<1> QED
  BY <1>1, <1>2, <1>3, <1>4, <1>5, <1>6 DEF SerialInv, Next, NextOK

LEMMA SerialInit == Init => SerialInv
BY InitInv, IdleFields DEF Init, SerialInv, Fresh, Posting

\* As long as the requests for one name do not overlap, the rows go through
\* the states of DraftSubmissionStateName in the order next_states allows:
\* the tool implements the workflow table, even if requests die half way.
THEOREM WorkflowFollowed ==
  ASSUME \A p, q \in Req : p = q
  PROVE  Spec => FollowsWorkflow
<1>1. Init => Workflow!Init
  BY DEF Init, Workflow!Init, NoRow
<1>2. SerialInv /\ [Next]_vars => SerialInv'
  BY SerialNext
<1>3. SerialInv /\ [Next]_vars => [Workflow!Next]_([s \in Sub |-> subm[s].state])
  <2> SUFFICES ASSUME SerialInv, [Next]_vars
               PROVE  [Workflow!Next]_([s \in Sub |-> subm[s].state])
    OBVIOUS
  <2>1. WorkflowStep
    BY SerialNext
  <2>2. CASE subm' = subm
    BY <2>2
  <2>3. ASSUME NEW s \in Sub, \A t \in Sub : t # s => subm'[t] = subm[t],
               subm[s].state = "none", subm'[s].state = "uploaded"
        PROVE  Workflow!Next
    BY <2>3 DEF Workflow!Next, Workflow!Create
  <2>4. ASSUME NEW s \in Sub, \A t \in Sub : t # s => subm'[t] = subm[t],
               subm'[s].state \in Workflow!NextStates(subm[s].state)
        PROVE  Workflow!Next
    BY <2>4 DEF Workflow!Next, Workflow!Move
  <2> QED BY <2>1, <2>2, <2>3, <2>4 DEF WorkflowStep
<1> QED
  BY <1>1, <1>2, <1>3, SerialInit, PTL DEF Spec, FollowsWorkflow, Workflow!Spec

\* Without overlapping requests, no revision of the Document is replaced
\* before save_document_in_history has kept it.
THEOREM HistoryKept ==
  ASSUME \A p, q \in Req : p = q
  PROVE  Spec => HistoryComplete
<1>1. SerialInv /\ [Next]_vars => SerialInv'
  BY SerialNext
<1>2. SerialInv /\ [Next]_vars => [doc'.rev # doc.rev /\ Exists => doc.rev \in history]_doc
  BY SerialNext DEF HistoryStep
<1> QED
  BY <1>1, <1>2, SerialInit, PTL DEF Spec, HistoryComplete

(***************************************************************************)
(* One request at a time, until one dies: the repository                   *)
(***************************************************************************)
\* Where the files in the repository stand in a posting: between the new
\* revision of the Document and the archiving there may be those of the
\* revision before.
Sorted(q) ==
  /\ q.pc \notin {"states", "archive"} => \A v \in Rev : repo[v] # None => v = doc.rev
  /\ q.pc \in {"states", "archive"} => \A v \in Rev : repo[v] # None => v \in {q.prev, q.row.rev}
  /\ q.pc \in {"states", "archive", "publish"} => doc.rev = q.row.rev

RepoInv == SerialInv /\ \A r \in Req : Sorted(req[r])

LEMMA SortedStep ==
  ASSUME RepoInv, NEW r \in Req, Step(r)
  PROVE  Sorted(req[r])'
<1>t. /\ req \in [Req -> Local] /\ req[r] \in Local /\ req[r].row \in Row /\ doc.rev \in -1..MaxRev
      /\ repo \in [Rev -> Content] /\ Sorted(req[r]) /\ Fresh(req[r])
  BY LocalFields DEF RepoInv, SerialInv, IInv, TypeOK
<1>p. {"create", "save", "unlink", "put", "states", "archive", "publish"} \subseteq PC
  BY DEF PC, Posting
<1> DEFINE Calm == UNCHANGED <<doc, repo>> /\ req[r].pc \notin {"states", "archive"}
<1>f. Calm /\ Finish(r) => Sorted(req[r])'
  BY <1>t, FinishType, IdleFields DEF Sorted
<1>g. ASSUME NEW pc \in {"create", "save", "unlink"}, Calm, Goto(r, pc) PROVE Sorted(req[r])'
  BY <1>t, <1>p, <1>g, GotoType DEF Sorted
<1> USE DEF files, document
<1>1. CASE UploadStore(r) \/ UploadCreate(r) \/ EditRename(r) \/ SaveRow(r) \/ CancelUnlink(r)
  BY <1>1, <1>f, <1>g DEF UploadStore, UploadCreate, EditRename, SaveRow, CancelUnlink
<1>2. CASE PostGet(r)
  <2>1. req'[r].pc = "put" /\ req[r].pc = "get" /\ UNCHANGED <<doc, repo>>
    BY <1>2, <1>t DEF PostGet, Local
  <2> QED BY <1>t, <2>1 DEF Sorted
<1>3. CASE PostPut(r)
  <2>1. /\ req'[r].pc = "states" /\ req'[r].prev = req[r].prev /\ req'[r].row = req[r].row
        /\ repo' = repo /\ doc'.rev = req[r].row.rev /\ req[r].pc = "put" /\ req[r].prev = doc.rev
    BY <1>3, <1>t, <1>p, GotoType DEF PostPut, Fresh
  <2> QED BY <1>t, <2>1 DEF Sorted
<1>4. CASE PostStates(r)
  <2>1. /\ req'[r].pc = "archive" /\ req'[r].prev = req[r].prev /\ req'[r].row = req[r].row
        /\ repo' = repo /\ doc' = doc /\ req[r].pc = "states"
    BY <1>4, <1>t, <1>p, GotoType DEF PostStates
  <2> QED BY <1>t, <2>1 DEF Sorted
<1>5. CASE PostArchive(r)
  <2>1. /\ req'[r].pc = "publish" /\ req'[r].row = req[r].row /\ doc' = doc /\ req[r].pc = "archive"
    BY <1>5, <1>t, <1>p, GotoType DEF PostArchive
  <2>2. \A v \in Rev : repo'[v] # None => (repo[v] # None /\ v # req[r].prev) \/ v = req[r].row.rev
    BY <1>5, <1>t DEF PostArchive
  <2> QED BY <1>t, <2>1, <2>2 DEF Sorted
<1>6. CASE PostPublish(r)
  <2>1. /\ doc' = doc /\ req[r].pc = "publish" /\ doc.rev = req[r].row.rev
        /\ \A v \in Rev : repo'[v] # None => v = doc.rev
    BY <1>6, <1>t DEF PostPublish, Sorted
  <2>2. req'[r].pc \in {"save", "idle"}
    BY <1>6, <1>t, FinishType, IdleFields DEF PostPublish, Local
  <2> QED BY <2>1, <2>2 DEF Sorted
<1> QED BY <1>1, <1>2, <1>3, <1>4, <1>5, <1>6 DEF Step, PostStep

LEMMA SortedStart ==
  ASSUME RepoInv, NEW r \in Req, NEW s \in Sub, Start(r, s)
  PROVE  Sorted(req[r])'
<1>t. req \in [Req -> Local] /\ Sorted(req[r])
  BY DEF RepoInv, SerialInv, IInv, TypeOK
<1>1. req[r].pc = "idle" /\ UNCHANGED <<doc, repo>>
  BY DEF Start, UploadCheck, Edit, Autopost, Cancel, Expire, Approve, Confirm, ForcePost, Post,
         Load, files, document
<1>2. req'[r].pc \notin {"states", "archive", "publish"}
  BY <1>t DEF Start, UploadCheck, Edit, Autopost, Cancel, Expire, Approve, Confirm, ForcePost, Post,
              Load, Work
<1> QED BY <1>t, <1>1, <1>2 DEF Sorted

LEMMA RepoNext ==
  ASSUME \A p, q \in Req : p = q, RepoInv, [NextOK]_vars
  PROVE  RepoInv'
<1>1. SerialInv'
  BY SerialNext DEF RepoInv, Next
<1>2. ASSUME NEW r \in Req, Step(r) PROVE \A p \in Req : Sorted(req[p])'
  BY <1>2, SortedStep
<1>3. ASSUME NEW r \in Req, NEW s \in Sub, Start(r, s) PROVE \A p \in Req : Sorted(req[p])'
  BY <1>3, SortedStart
<1>4. ASSUME UNCHANGED <<doc, repo, req>> PROVE \A p \in Req : Sorted(req[p])'
  BY <1>4 DEF RepoInv, Sorted
<1>5. ASSUME \/ \E s \in Sub : ViewStatus(s)
             \/ AddPreapproval \/ CancelPreapproval \/ UNCHANGED vars
      PROVE  UNCHANGED <<doc, repo, req>>
  BY <1>5 DEF ViewStatus, AddPreapproval, CancelPreapproval, vars, files, document
<1> QED
  BY <1>1, <1>2, <1>3, <1>4, <1>5 DEF RepoInv, NextOK

LEMMA RepoInit == Init => RepoInv
<1> SUFFICES ASSUME Init PROVE RepoInv
  OBVIOUS
<1>1. SerialInv /\ \A v \in Rev : repo[v] # None => v = doc.rev
  BY SerialInit DEF Init
<1> QED BY <1>1, IdleFields DEF Init, RepoInv, Sorted

\* As long as requests for one name do not overlap and none has died, a posting
\* leaves only the files of the current revision in the repository.
THEOREM OnlyCurrentLeft ==
  ASSUME \A p, q \in Req : p = q, Req # {}
  PROVE  MCSpec => []OnlyCurrentUnlessFailed
<1> DEFINE Inv == failed \/ RepoInv
<1>1. MCInit => Inv
  BY RepoInit DEF MCInit
<1>2. Inv /\ [Fine \/ Fails]_<<vars, failed>> => Inv'
  <2> SUFFICES ASSUME Inv, [Fine \/ Fails]_<<vars, failed>>, ~failed' PROVE RepoInv'
    OBVIOUS
  <2>1. ~failed /\ [NextOK]_vars
    BY DEF Fine, Fails
  <2> QED BY <2>1, RepoNext
<1>3. Inv => OnlyCurrentUnlessFailed
  <2> SUFFICES ASSUME RepoInv, \A r \in Req : req[r].pc = "idle", NEW v \in Rev, repo[v] # None
               PROVE  v = doc.rev
    BY DEF OnlyCurrentUnlessFailed, OnlyCurrentInRepository
  <2> QED BY DEF RepoInv, Sorted
<1> QED
  BY <1>1, <1>2, <1>3, PTL DEF MCSpec

=============================================================================
