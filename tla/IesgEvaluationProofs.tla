------------------------ MODULE IesgEvaluationProofs ------------------------
(***************************************************************************)
(* IesgEvaluation for every set of Area Directors, calendar and bound:     *)
(* types for any number of overlapping requests, the ballot and the state  *)
(* for requests that do not overlap; in both cases they may die anywhere.  *)
(***************************************************************************)
EXTENDS MCIesgEvaluation, FiniteSetTheorems, WellFoundedInduction, TLAPS

\* What a process knows whatever runs beside it.
Knows(q) ==
  /\ \/ q.pc = "idle"
     \/ q.op = "clear" /\ q.pc = "check"
     \/ q.op \in DOMAIN Plan /\ q.pc \in DOMAIN Plan[q.op]
  /\ q.op \notin {"none", "issue", "clear"} => q.new \in IesgState
  /\ q.pc = "yes" \/ (q.pc = "create" /\ q.had) => Created # {}

TInv ==
  /\ TypeOK
  /\ \A v \in votes : v.ballot \in Created
  /\ \A r \in Req : Knows(req[r])

USE EvaluationAssumption

(***************************************************************************)
(* Local variables                                                         *)
(***************************************************************************)
\* Where each statement of a plan leads.
LEMMA PlanSteps ==
  ASSUME NEW op \in DOMAIN Plan, NEW pc \in DOMAIN Plan[op]
  PROVE  LET n == Plan[op][pc]
         IN /\ n \in PC
            /\ n = "idle" \/ (op = "clear" /\ n = "check") \/ n \in DOMAIN Plan[op]
            /\ n = "add" => pc = "remove"
            /\ n = "create" => pc = "close"
            /\ n = "yes" => pc = "create"
            /\ n = "verdict" => pc = "close"
<1>1. CASE op = "start"
  BY <1>1 DEF Plan, PC
<1>2. CASE op = "to_iesg"
  BY <1>2 DEF Plan, PC
<1>3. CASE op = "change"
  BY <1>3 DEF Plan, PC
<1>4. CASE op = "lc_req"
  BY <1>4 DEF Plan, PC
<1>5. CASE op = "lc"
  BY <1>5 DEF Plan, PC
<1>6. CASE op = "lc_end"
  BY <1>6 DEF Plan, PC
<1>7. CASE op = "defer"
  BY <1>7 DEF Plan, PC
<1>8. CASE op = "undefer"
  BY <1>8 DEF Plan, PC
<1>9. CASE op = "issue"
  BY <1>9 DEF Plan, PC
<1>10. CASE op = "clear"
  BY <1>10 DEF Plan, PC
<1>11. CASE op = "approve"
  BY <1>11 DEF Plan, PC
<1> QED
  BY <1>1, <1>2, <1>3, <1>4, <1>5, <1>6, <1>7, <1>8, <1>9, <1>10, <1>11 DEF Plan

\* Which requests start where.
LEMMA PlanStarts ==
  /\ {"start", "change", "lc_req", "lc", "lc_end", "defer", "undefer", "approve", "to_iesg",
      "issue", "clear"} \subseteq DOMAIN Plan
  /\ \A op \in {"start", "change", "lc_req", "lc", "lc_end", "defer", "undefer", "approve",
                "to_iesg"} : "remove" \in DOMAIN Plan[op]
  /\ "started" \in DOMAIN Plan["to_iesg"] /\ "telechat" \in DOMAIN Plan["start"]
  /\ "create" \in DOMAIN Plan["issue"] /\ "close" \in DOMAIN Plan["clear"]
BY DEF Plan

LEMMA IdleLocal == Idle \in Local /\ Idle.pc = "idle" /\ Knows(Idle)
BY DEF Idle, Local, PC, Op, Knows, User

LEMMA SettingOps ==
  ASSUME NEW op \in DOMAIN Plan, NEW pc \in DOMAIN Plan[op],
         pc \in {"remove", "add", "log", "started", "verdict"}
  PROVE  op \notin {"none", "issue", "clear"}
BY DEF Plan

LEMMA SettingLocal ==
  ASSUME NEW op \in DOMAIN Plan, NEW pc \in PC, NEW prev \in IesgState \cup {"none"},
         NEW new \in IesgState, NEW newtag \in {"none", "sub", "keep"},
         NEW day \in Date \cup {NoDate}
  PROVE  LET q == Setting(op, pc, prev, new, newtag, day)
         IN q \in Local /\ q.pc = pc /\ q.op = op /\ q.new = new /\ q.had = FALSE
BY DEF Setting, Local, Op, User

LEMMA SettingKnows ==
  ASSUME NEW op \in DOMAIN Plan, NEW pc \in DOMAIN Plan[op], pc \in PC \ {"create", "yes"},
         NEW prev \in IesgState \cup {"none"}, NEW new \in IesgState,
         NEW newtag \in {"none", "sub", "keep"}, NEW day \in Date \cup {NoDate}
  PROVE  LET q == Setting(op, pc, prev, new, newtag, day)
         IN q \in Local /\ Knows(q)
<1> DEFINE q == Setting(op, pc, prev, new, newtag, day)
<1>1. q \in Local /\ q.pc = pc /\ q.op = op /\ q.new = new
  BY DEF Setting, Local, Op, User
<1> HIDE DEF q
<1>2. Knows(q)
  BY <1>1 DEF Knows
<1> QED
  BY <1>1, <1>2 DEF q

LEMMA BallotingLocal ==
  ASSUME NEW op \in DOMAIN Plan, NEW pc \in PC, NEW had \in BOOLEAN, NEW user \in User
  PROVE  LET q == Balloting(op, pc, had, user)
         IN q \in Local /\ q.pc = pc /\ q.op = op /\ q.had = had
BY DEF Balloting, Local, Op

LEMMA LocalFields ==
  ASSUME NEW q \in Local
  PROVE  /\ q.pc \in PC /\ q.op \in Op /\ q.prev \in IesgState \cup {"none"}
         /\ q.new \in IesgState \cup {"none"} /\ q.newtag \in {"none", "sub", "keep"}
         /\ q.had \in BOOLEAN /\ q.changed \in BOOLEAN
         /\ q.day \in Date \cup {NoDate} /\ q.user \in User
BY DEF Local

\* What Follow gives for a process that has a next statement.
LEMMA FollowLocal ==
  ASSUME NEW q \in Local, q.op \in DOMAIN Plan, q.pc \in DOMAIN Plan[q.op],
         NEW had \in BOOLEAN, NEW changed \in BOOLEAN
  PROVE  LET n == Follow(q, had, changed)
         IN /\ n \in Local
            /\ n.pc = Plan[q.op][q.pc]
            /\ n.pc # "idle" => /\ n.op = q.op /\ n.new = q.new /\ n.had = had
                               /\ n.prev = q.prev /\ n.changed = changed /\ n.day = q.day
            /\ n.pc = "idle" => n = Idle
<1>1. Plan[q.op][q.pc] \in PC
  BY PlanSteps
<1>2. CASE Plan[q.op][q.pc] = "idle"
  BY <1>2, IdleLocal DEF Follow
<1>3. CASE Plan[q.op][q.pc] # "idle"
  BY <1>1, <1>3 DEF Follow, Local
<1> QED
  BY <1>2, <1>3

\* A process with a next statement takes it.
Busy(q) == q.op \in DOMAIN Plan /\ q.pc \in DOMAIN Plan[q.op]

LEMMA AdvanceReq ==
  ASSUME req \in [Req -> Local], NEW r \in Req, Busy(req[r]),
         NEW had \in BOOLEAN, NEW changed \in BOOLEAN, AdvanceWith(r, had, changed)
  PROVE  /\ req' \in [Req -> Local]
         /\ \A p \in Req : p # r => req'[p] = req[p]
         /\ req'[r].pc = Plan[req[r].op][req[r].pc]
         /\ req'[r].pc # "idle" => /\ req'[r].op = req[r].op /\ req'[r].new = req[r].new
                                   /\ req'[r].had = had /\ req'[r].changed = changed
                                   /\ req'[r].prev = req[r].prev /\ req'[r].day = req[r].day
         /\ req'[r].pc = "idle" => req'[r] = Idle
<1> DEFINE n == Follow(req[r], had, changed)
<1>1. /\ n \in Local /\ n.pc = Plan[req[r].op][req[r].pc]
      /\ n.pc # "idle" => /\ n.op = req[r].op /\ n.new = req[r].new /\ n.had = had
                         /\ n.prev = req[r].prev /\ n.changed = changed /\ n.day = req[r].day
      /\ n.pc = "idle" => n = Idle
  BY FollowLocal DEF Busy
<1>2. req' = [req EXCEPT ![r] = n]
  BY DEF AdvanceWith
<1> HIDE DEF n
<1> QED
  BY <1>1, <1>2

(***************************************************************************)
(* Ballots                                                                 *)
(***************************************************************************)
LEMMA CreatedType ==
  ASSUME ballot \in Seq({"created", "closed"})
  PROVE  /\ Len(ballot) \in Nat /\ DOMAIN ballot = 1..Len(ballot)
         /\ Created \subseteq 1..Len(ballot)
         /\ \A i \in 1..Len(ballot) : ballot[i] \in {"created", "closed"}
BY DEF Created

LEMMA LatestCreated ==
  ASSUME ballot \in Seq({"created", "closed"}), Created # {}
  PROVE  LatestBallot \in Created /\ \A j \in Created : j <= LatestBallot
<1> DEFINE T == {Len(ballot) - i : i \in Created}
<1>1. T \subseteq Nat /\ T # {}
  BY CreatedType
<1>2. PICK m \in T : \A n \in T : ~ (<<n, m>> \in OpToRel(<, Nat))
  BY <1>1, NatLessThanWellFounded, WFMin
<1>3. PICK i \in Created : m = Len(ballot) - i
  BY <1>2
<1>4. \A j \in Created : j <= i
  <2> SUFFICES ASSUME NEW j \in Created PROVE j <= i
    OBVIOUS
  <2>1. Len(ballot) - j \in T /\ Len(ballot) - j \in Nat /\ m \in Nat
    BY <1>1
  <2>2. ~ (Len(ballot) - j < m)
    BY <1>2, <2>1 DEF OpToRel
  <2> QED
    BY <1>3, <2>2, CreatedType
<1>5. \E k \in Created : \A j \in Created : j <= k
  BY <1>3, <1>4
<1> QED
  BY <1>5 DEF LatestBallot

LEMMA AppendBallot ==
  ASSUME ballot \in Seq({"created", "closed"}), NEW x \in {"created", "closed"},
         ballot' = Append(ballot, x)
  PROVE  /\ ballot' \in Seq({"created", "closed"})
         /\ Len(ballot') = Len(ballot) + 1
         /\ \A i \in 1..Len(ballot) : ballot'[i] = ballot[i]
         /\ ballot'[Len(ballot) + 1] = x
         /\ Created \subseteq Created'
         /\ x = "created" => Len(ballot) + 1 \in Created'
BY DEF Created

(***************************************************************************)
(* Type correctness                                                        *)
(***************************************************************************)
LEMMA TInvInit == Init => TInv
<1> SUFFICES ASSUME Init PROVE TInv
  OBVIOUS
<1>1. req \in [Req -> Local] /\ \A r \in Req : Knows(req[r])
  BY IdleLocal DEF Init
<1>2. 0 \in Day /\ <<>> \in Seq({"created", "closed"})
  BY DEF Day
<1> QED
  BY <1>1, <1>2 DEF Init, TInv, TypeOK, NoVerdict, NoDate

\* The other processes still know what they knew.
LEMMA OthersKnow ==
  ASSUME TInv, NEW r \in Req, Created \subseteq Created', Knows(req[r])',
         \A p \in Req : p # r => req'[p] = req[p]
  PROVE  \A p \in Req : Knows(req[p])'
<1> SUFFICES ASSUME NEW p \in Req, p # r PROVE Knows(req[p])'
  OBVIOUS
<1>1. req'[p] = req[p] /\ Knows(req[p])
  BY DEF TInv
<1> QED
  BY <1>1 DEF Knows

\* A statement of process r that is followed by the next of its plan.
LEMMA StepKnows ==
  ASSUME TInv, NEW r \in Req, req[r].pc \notin {"idle", "check"},
         NEW had \in BOOLEAN, NEW changed \in BOOLEAN, AdvanceWith(r, had, changed),
         Created \subseteq Created',
         req[r].pc = "create" => Created' # {},
         req[r].pc = "close" => had = FALSE
  PROVE  /\ req' \in [Req -> Local]
         /\ \A p \in Req : Knows(req[p])'
<1>1. Busy(req[r]) /\ req \in [Req -> Local] /\ Knows(req[r])
  BY DEF TInv, TypeOK, Knows, Busy
<1> DEFINE n == req'[r]
<1>2. /\ req' \in [Req -> Local]
      /\ \A p \in Req : p # r => req'[p] = req[p]
      /\ n.pc = Plan[req[r].op][req[r].pc]
      /\ n.pc # "idle" => /\ n.op = req[r].op /\ n.new = req[r].new /\ n.had = had
                         /\ n.prev = req[r].prev /\ n.changed = changed /\ n.day = req[r].day
      /\ n.pc = "idle" => n = Idle
  BY <1>1, AdvanceReq
<1>3. Knows(req[r])'
  <2>1. CASE n.pc = "idle"
    BY <1>2, <2>1 DEF Knows, Idle
  <2>2. CASE n.pc # "idle"
    <3>1. /\ (n.op = "clear" /\ n.pc = "check") \/ n.pc \in DOMAIN Plan[n.op]
          /\ n.pc = "create" => req[r].pc = "close"
          /\ n.pc = "yes" => req[r].pc = "create"
      BY <1>1, <1>2, <2>2, PlanSteps DEF Busy
    <3>2. n.op \notin {"none", "issue", "clear"} => n.new \in IesgState
      BY <1>1, <1>2, <2>2, <3>1 DEF Knows
    <3> QED
      BY <1>1, <1>2, <2>2, <3>1, <3>2 DEF Knows, Busy
  <2> QED
    BY <2>1, <2>2
<1> QED
  BY <1>2, <1>3, OthersKnow

LEMMA AdvanceKnows ==
  ASSUME TInv, NEW r \in Req, req[r].pc \notin {"idle", "check", "close"}, Advance(r),
         Created \subseteq Created', req[r].pc = "create" => Created' # {}
  PROVE  /\ req' \in [Req -> Local]
         /\ \A p \in Req : Knows(req[p])'
<1>1. req[r].had \in BOOLEAN /\ req[r].changed \in BOOLEAN
  BY LocalFields DEF TInv, TypeOK
<1> QED
  BY <1>1, StepKnows DEF Advance

\* A request sets the state to a proper state.
LEMMA SetsState ==
  ASSUME TInv, NEW r \in Req, req[r].pc \in {"remove", "add", "log", "started", "verdict"}
  PROVE  /\ req[r] \in Local /\ req[r].new \in IesgState /\ req[r].newtag \in {"none", "sub", "keep"}
         /\ req[r].had \in BOOLEAN /\ req[r].changed \in BOOLEAN
<1>1. Busy(req[r]) /\ req[r] \in Local /\ Knows(req[r])
  BY DEF TInv, TypeOK, Knows, Busy
<1> QED
  BY <1>1, LocalFields, SettingOps DEF Knows, Busy

LEMMA StepTInv ==
  ASSUME TInv, NEW r \in Req, Step(r)
  PROVE  TInv'
<1>t. TypeOK /\ req[r] \in Local /\ Knows(req[r])
  BY DEF TInv, TypeOK
<1>c. UNCHANGED ballot => Created' = Created
  BY DEF Created
<1>1. CASE Remove(r)
  <2>1. (req[r].new \in iesg) \in BOOLEAN /\ req[r].changed \in BOOLEAN /\ Created' = Created
    BY <1>1, <1>c, SetsState DEF Remove, ballots
  <2>2. req' \in [Req -> Local] /\ \A p \in Req : Knows(req[p])'
    BY <1>1, <2>1, StepKnows DEF Remove
  <2> QED
    BY <1>1, <1>t, <2>1, <2>2 DEF Remove, TInv, TypeOK, ballots, dates
<1>2. CASE Add(r)
  <2> DEFINE ch == req[r].changed \/ req[r].prev # req[r].new \/ tag # tag'
  <2>1. req[r].new \in IesgState /\ req[r].newtag \in {"none", "sub", "keep"}
        /\ req[r].had \in BOOLEAN /\ ch \in BOOLEAN /\ Created' = Created
    BY <1>2, <1>c, SetsState DEF Add, ballots
  <2>2. AdvanceWith(r, req[r].had, ch) /\ req[r].pc = "add"
    BY <1>2 DEF Add
  <2> HIDE DEF ch
  <2>3. req' \in [Req -> Local] /\ \A p \in Req : Knows(req[p])'
    BY <2>1, <2>2, StepKnows
  <2> QED
    BY <1>2, <1>t, <2>1, <2>3 DEF Add, TInv, TypeOK, ballots, dates
<1>3. CASE Log(r)
  <2>1. req' \in [Req -> Local] /\ \A p \in Req : Knows(req[p])'
    BY <1>3, <1>c, AdvanceKnows DEF Log, ballots
  <2> QED
    BY <1>3, <1>t, <1>c, <2>1, SetsState DEF Log, TInv, TypeOK, ballots, dates
<1>4. CASE Started(r)
  <2>1. req' \in [Req -> Local] /\ \A p \in Req : Knows(req[p])'
    BY <1>4, <1>c, AdvanceKnows DEF Started, ballots
  <2> QED
    BY <1>4, <1>t, <1>c, <2>1, SetsState DEF Started, TInv, TypeOK, ballots, dates
<1>5. CASE Iana(r)
  <2>1. req' \in [Req -> Local] /\ \A p \in Req : Knows(req[p])'
    BY <1>5, <1>c, AdvanceKnows DEF Iana, ballots
  <2> QED
    BY <1>5, <1>t, <1>c, <2>1 DEF Iana, TInv, TypeOK, ballots, dates, state
<1>6. CASE LastCall(r)
  <2>1. req' \in [Req -> Local] /\ \A p \in Req : Knows(req[p])'
    BY <1>6, <1>c, AdvanceKnows DEF LastCall, ballots
  <2> QED
    BY <1>6, <1>t, <1>c, <2>1, LocalFields DEF LastCall, TInv, TypeOK, ballots, state
<1>7. CASE Telechat(r)
  <2>1. req' \in [Req -> Local] /\ \A p \in Req : Knows(req[p])'
    BY <1>7, <1>c, AdvanceKnows DEF Telechat, ballots
  <2> QED
    BY <1>7, <1>t, <1>c, <2>1, LocalFields DEF Telechat, TInv, TypeOK, ballots, state
<1>8. CASE Create(r)
  <2>1. /\ ballot' \in Seq({"created", "closed"}) /\ Created \subseteq Created'
        /\ Created' # {}
    BY <1>8, <1>t, <1>c, AppendBallot DEF Create, Knows, TypeOK
  <2>2. req' \in [Req -> Local] /\ \A p \in Req : Knows(req[p])'
    BY <1>8, <2>1, AdvanceKnows DEF Create
  <2> QED
    BY <1>8, <1>t, <2>1, <2>2 DEF Create, TInv, TypeOK, dates, state
<1>9. CASE Yes(r)
  <2>1. req' \in [Req -> Local] /\ \A p \in Req : Knows(req[p])'
    BY <1>9, <1>c, AdvanceKnows DEF Yes
  <2>2. LatestBallot \in Created /\ Created' = Created /\ LatestBallot \in Nat \ {0}
    BY <1>9, <1>t, <1>c, LatestCreated, CreatedType DEF Yes, Knows, TypeOK
  <2>3. req[r].user \in Ad \cup {Secretariat}
    BY <1>t, LocalFields DEF User
  <2>4. votes' \subseteq Vote /\ \A v \in votes' : v.ballot \in Created
    BY <1>9, <1>t, <2>2, <2>3 DEF Yes, Vote, TInv, TypeOK
  <2> QED
    BY <1>9, <1>t, <2>1, <2>2, <2>4 DEF Yes, TInv, TypeOK, dates, state
<1>10. CASE Close(r)
  <2>1. ballot' \in Seq({"created", "closed"}) /\ Created \subseteq Created'
    BY <1>10, <1>t, <1>c, AppendBallot DEF Close, TypeOK
  <2>2. req[r].changed \in BOOLEAN
    BY <1>t, LocalFields
  <2>3. req' \in [Req -> Local] /\ \A p \in Req : Knows(req[p])'
    BY <1>10, <2>1, <2>2, StepKnows DEF Close
  <2> QED
    BY <1>10, <1>t, <2>1, <2>3 DEF Close, TInv, TypeOK, dates, state
<1>11. CASE Verdict(r)
  <2>1. req' \in [Req -> Local] /\ \A p \in Req : Knows(req[p])'
    BY <1>11, <1>c, AdvanceKnows DEF Verdict, ballots
  <2> QED
    BY <1>11, <1>t, <1>c, <2>1, CreatedType DEF Verdict, TInv, TypeOK, ballots, dates, state
<1>12. CASE CheckDefer(r)
  <2>1. Created' = Created
    BY <1>12, <1>c DEF CheckDefer, ballots
  <2>2. \E q \in Local : req' = [req EXCEPT ![r] = q] /\ Knows(q)
    <3>1. CASE \E d \in Active : req' = [req EXCEPT ![r] =
                 Setting("undefer", "remove", "defer", "iesg-eva", "none", d)]
      <4>1. PICK d \in Active : req' = [req EXCEPT ![r] =
                 Setting("undefer", "remove", "defer", "iesg-eva", "none", d)]
        BY <3>1
      <4>2. d \in Date /\ {"defer", "iesg-eva"} \subseteq IesgState /\ "remove" \in PC
        BY DEF Active, Date, IesgState, PC
      <4>3. Setting("undefer", "remove", "defer", "iesg-eva", "none", d) \in Local
            /\ Knows(Setting("undefer", "remove", "defer", "iesg-eva", "none", d))
        BY <4>2, SettingKnows, PlanStarts
      <4> QED
        BY <4>1, <4>3
    <3>2. CASE req' = [req EXCEPT ![r] = Idle]
      BY <3>2, IdleLocal
    <3> QED
      BY <1>12, <3>1, <3>2 DEF CheckDefer
  <2>3. PICK q \in Local : req' = [req EXCEPT ![r] = q] /\ Knows(q)
    BY <2>2
  <2>4. req' \in [Req -> Local] /\ req'[r] = q /\ \A p \in Req : p # r => req'[p] = req[p]
    BY <1>t, <2>3 DEF TypeOK
  <2>5. Knows(req[r])'
    BY <2>1, <2>3, <2>4 DEF Knows
  <2>6. \A p \in Req : Knows(req[p])'
    BY <2>1, <2>4, <2>5, OthersKnow
  <2> QED
    BY <1>12, <1>t, <2>1, <2>4, <2>6 DEF CheckDefer, TInv, TypeOK, ballots, dates, state
<1> QED
  BY <1>1, <1>2, <1>3, <1>4, <1>5, <1>6, <1>7, <1>8, <1>9, <1>10, <1>11, <1>12 DEF Step

\* A request that starts with what it has read keeps the invariant.
LEMMA LoadTInv ==
  ASSUME TInv, NEW r \in Req, NEW q \in Local, Knows(q), Load(r, q),
         promise' \in Date \cup {NoDate}
  PROVE  TInv'
<1>t. TypeOK
  BY DEF TInv
<1>1. Created' = Created
  BY DEF Load, ballots, Created
<1>2. req' \in [Req -> Local] /\ req'[r] = q /\ \A p \in Req : p # r => req'[p] = req[p]
  BY <1>t DEF Load, TypeOK
<1>3. Knows(req[r])'
  BY <1>1, <1>2 DEF Knows
<1>4. \A p \in Req : Knows(req[p])'
  BY <1>1, <1>2, <1>3, OthersKnow
<1> QED
  BY <1>t, <1>1, <1>2, <1>4 DEF Load, TInv, TypeOK, ballots, state

\* What the handlers read is a state, and so is what they ask for.
LEMMA HandlerLocal ==
  ASSUME NEW op \in DOMAIN Plan, NEW pc \in DOMAIN Plan[op],
         pc \in {"remove", "started", "telechat"},
         NEW prev \in IesgState \cup {"none"}, NEW new \in IesgState,
         NEW newtag \in {"none", "sub", "keep"}, NEW day \in Date \cup {NoDate}
  PROVE  Setting(op, pc, prev, new, newtag, day) \in Local
         /\ Knows(Setting(op, pc, prev, new, newtag, day))
BY SettingKnows DEF PC

LEMMA NamedStates ==
  /\ {"pub-req", "watching", "lc-req", "lc", "writeupw", "goaheadw", "iesg-eva", "defer",
      "ann", "dead"} \subseteq IesgState
  /\ Picked \subseteq IesgState
  /\ Active \subseteq Date /\ Day \subseteq Date
BY DEF IesgState, Active, Date

LEMMA StartTInv ==
  ASSUME TInv, NEW r \in Req, Start(r)
  PROVE  TInv'
<1>t. TypeOK /\ promise \in Date \cup {NoDate}
  BY DEF TInv, TypeOK
<1>1. ASSUME NEW s \in IesgState, NEW d \in Active \cup {NoDate}, EditInfo(r, s, d)
      PROVE  TInv'
  <2>1. d \in Date \cup {NoDate} /\ promise' \in Date \cup {NoDate}
    BY <1>1, <1>t, NamedStates DEF EditInfo
  <2>2. PICK pc \in {"remove", "telechat"}, prev \in IesgState \cup {"none"} :
          Load(r, Setting("start", pc, prev, s, "keep", d))
    BY <1>1 DEF EditInfo
  <2> QED
    BY <2>1, <2>2, HandlerLocal, PlanStarts, LoadTInv
<1>2. ASSUME NEW prev \in IesgState \cup {"none"}, ToIesg(r, prev)
      PROVE  TInv'
  <2>1. PICK pc \in {"remove", "started"} :
          Load(r, Setting("to_iesg", pc, prev, "pub-req", "keep", NoDate))
    BY <1>2 DEF ToIesg
  <2> QED
    BY <1>2, <1>t, <2>1, HandlerLocal, PlanStarts, NamedStates, LoadTInv DEF ToIesg
<1>3. ASSUME NEW prev \in IesgState \cup {"none"}, RequestLastCall(r, prev)
      PROVE  TInv'
  BY <1>3, <1>t, HandlerLocal, PlanStarts, NamedStates, LoadTInv DEF RequestLastCall
<1>4. ASSUME NEW prev \in IesgState \cup {"none"}, DeferBallot(r, prev)
      PROVE  TInv'
  <2>1. PICK d \in Active : Load(r, Setting("defer", "remove", prev, "defer", "none", d))
    BY <1>4 DEF DeferBallot
  <2> QED
    BY <1>4, <1>t, <2>1, HandlerLocal, PlanStarts, NamedStates, LoadTInv DEF DeferBallot
<1>5. ASSUME NEW prev \in IesgState \cup {"none"}, NEW s \in Picked, NEW t \in {"none", "sub"},
             ChangeState(r, prev, s, t)
      PROVE  TInv'
  BY <1>5, <1>t, HandlerLocal, PlanStarts, NamedStates, LoadTInv DEF ChangeState
<1>6. ASSUME NEW prev \in IesgState \cup {"none"}, NEW d \in Day, MakeLastCall(r, prev, d)
      PROVE  TInv'
  BY <1>6, <1>t, HandlerLocal, PlanStarts, NamedStates, LoadTInv DEF MakeLastCall
<1>7. ASSUME NEW prev \in IesgState \cup {"none"}, NEW s \in {"writeupw", "goaheadw"},
             ExpireLastCall(r, prev, s)
      PROVE  TInv'
  BY <1>7, <1>t, HandlerLocal, PlanStarts, NamedStates, LoadTInv DEF ExpireLastCall
<1>8. ASSUME NEW prev \in IesgState \cup {"none"}, NEW s \in {"ann", "dead"},
             ApproveBallot(r, prev, s)
      PROVE  TInv'
  BY <1>8, <1>t, HandlerLocal, PlanStarts, NamedStates, LoadTInv DEF ApproveBallot
<1>9. ASSUME NEW u \in User, IssueBallot(r, u)
      PROVE  TInv'
  <2> DEFINE q == Balloting("issue", "create", BallotOpen, u)
  <2>1. BallotOpen \in BOOLEAN /\ "create" \in PC
    BY DEF BallotOpen, PC
  <2>2. q \in Local /\ q.pc = "create" /\ q.op = "issue" /\ q.had = BallotOpen
    BY <2>1, PlanStarts, BallotingLocal
  <2>3. BallotOpen => Created # {}
    BY <1>t, CreatedType DEF BallotOpen, Created, TypeOK
  <2>4. Load(r, q) /\ promise' \in Date \cup {NoDate}
    BY <1>9, <1>t DEF IssueBallot
  <2> HIDE DEF q
  <2>5. Knows(q)
    BY <2>2, <2>3, PlanStarts DEF Knows
  <2> QED
    BY <2>2, <2>4, <2>5, LoadTInv
<1>10. CASE ClearBallot(r)
  <2> DEFINE q == Balloting("clear", "close", FALSE, Secretariat)
  <2>1. "close" \in PC /\ Secretariat \in User /\ FALSE \in BOOLEAN
    BY DEF PC, User
  <2>2. q \in Local /\ q.pc = "close" /\ q.op = "clear"
    BY <2>1, PlanStarts DEF Balloting, Local, Op
  <2>3. Load(r, q) /\ promise' \in Date \cup {NoDate}
    BY <1>10, <1>t DEF ClearBallot
  <2> HIDE DEF q
  <2>4. Knows(q)
    BY <2>2, PlanStarts DEF Knows
  <2> QED
    BY <2>2, <2>3, <2>4, LoadTInv
<1>11. CASE UndeferBallot(r)
  <2>1. PICK d \in Active : Load(r, Setting("undefer", "remove", "defer", "iesg-eva", "none", d))
    BY <1>11 DEF UndeferBallot
  <2> QED
    BY <1>11, <1>t, <2>1, HandlerLocal, PlanStarts, NamedStates, LoadTInv DEF UndeferBallot
<1> QED
  BY <1>1, <1>2, <1>3, <1>4, <1>5, <1>6, <1>7, <1>8, <1>9, <1>10, <1>11 DEF Start

LEMMA NextTInv == TInv /\ [Next]_vars => TInv'
<1> SUFFICES ASSUME TInv, [Next]_vars PROVE TInv'
  OBVIOUS
<1>t. TypeOK
  BY DEF TInv
<1>c. UNCHANGED ballot => Created' = Created
  BY DEF Created
<1>1. ASSUME NEW r \in Req, Start(r) PROVE TInv'
  BY <1>1, StartTInv
<1>2. ASSUME NEW r \in Req, Step(r) PROVE TInv'
  BY <1>2, StepTInv
<1>3. ASSUME NEW b \in DOMAIN ballot, NEW ad \in Ad, NEW p \in Position, EditPosition(b, ad, p)
      PROVE  TInv'
  <2>1. /\ b \in Created /\ UNCHANGED <<state, iana, ballot, verdict, dates, today, req>>
        /\ votes' \subseteq votes \cup {[ballot |-> b, ad |-> ad, pos |-> p]}
    BY <1>3 DEF EditPosition
  <2>2. b \in Nat \ {0}
    BY <1>t, <2>1, CreatedType DEF TypeOK
  <2>3. votes' \subseteq Vote /\ \A v \in votes' : v.ballot \in Created
    BY <1>t, <2>1, <2>2 DEF TInv, TypeOK, Vote
  <2>4. Created' = Created /\ req' = req
    BY <1>c, <2>1
  <2>5. \A q \in Req : Knows(req[q])'
    BY <2>4 DEF TInv, Knows
  <2> QED
    BY <1>t, <2>1, <2>3, <2>4, <2>5 DEF TInv, TypeOK, state, dates
<1>4. ASSUME NEW s \in {"need-rev", "done"}, ChangeIanaState(s)
      PROVE  TInv'
  <2>1. Created' = Created /\ req' = req
    BY <1>4, <1>c DEF ChangeIanaState, ballots
  <2>2. \A q \in Req : Knows(req[q])'
    BY <2>1 DEF TInv, Knows
  <2> QED
    BY <1>4, <1>t, <2>1, <2>2 DEF ChangeIanaState, TInv, TypeOK, state, ballots, dates
<1>5. CASE Tick
  <2>1. Created' = Created /\ req' = req
    BY <1>5, <1>c DEF Tick, ballots
  <2>2. \A q \in Req : Knows(req[q])'
    BY <2>1 DEF TInv, Knows
  <2>3. today' \in Day
    BY <1>5, <1>t DEF Tick, TypeOK, Day
  <2> QED
    BY <1>5, <1>t, <2>1, <2>2, <2>3 DEF Tick, TInv, TypeOK, state, ballots, dates
<1>6. ASSUME NEW r \in Req, Abort(r) PROVE TInv'
  <2>1. req' = [req EXCEPT ![r] = Idle] /\ Created' = Created
    BY <1>6, <1>c DEF Abort, ballots
  <2>2. req' \in [Req -> Local] /\ req'[r] = Idle /\ \A p \in Req : p # r => req'[p] = req[p]
    BY <1>t, <2>1, IdleLocal DEF TypeOK
  <2>3. Knows(req[r])'
    BY <2>2, IdleLocal DEF Knows
  <2>4. \A p \in Req : Knows(req[p])'
    BY <2>1, <2>2, <2>3, OthersKnow
  <2> QED
    BY <1>6, <1>t, <2>1, <2>2, <2>4 DEF Abort, TInv, TypeOK, state, ballots, dates
<1>7. CASE UNCHANGED vars
  <2>1. Created' = Created /\ req' = req
    BY <1>7, <1>c DEF vars, ballots
  <2>2. \A q \in Req : Knows(req[q])'
    BY <2>1 DEF TInv, Knows
  <2> QED
    BY <1>7, <1>t, <2>1, <2>2 DEF vars, TInv, TypeOK, state, ballots, dates
<1> QED
  BY <1>1, <1>2, <1>3, <1>4, <1>5, <1>6, <1>7 DEF Next, NextOK

\* However requests overlap and wherever they die, every variable keeps its
\* type and every position belongs to a ballot that was created.
THEOREM TypeCorrect == Spec => []TypeOK
<1>1. TInv => TypeOK
  BY DEF TInv
<1> QED
  BY <1>1, TInvInit, NextTInv, PTL DEF Spec

(***************************************************************************)
(* One request at a time                                                   *)
(***************************************************************************)
\* Ballots are created and closed in turn.
Alternates == \A i \in 1..Len(ballot) : i + 1 <= Len(ballot) => ballot[i] # ballot[i + 1]

\* What the decision recorded last says about the ballots.
Decided ==
  /\ verdict <= Len(ballot)
  /\ verdict > 0 => ballot[verdict] = "closed"

\* What the only process has seen is still true.
Sees(q) ==
  /\ q.pc = "add" => iesg \subseteq {q.new}
  /\ q.pc = "create" => q.had = BallotOpen
  /\ q.pc = "verdict" => ~ BallotOpen

SerialInv ==
  /\ TInv
  /\ \E s : iesg \subseteq {s}
  /\ Alternates
  /\ Decided
  /\ \A r \in Req : Sees(req[r])

\* What BallotOpen says of the last event, and the last event of BallotOpen.
LEMMA LastBallot ==
  ASSUME ballot \in Seq({"created", "closed"})
  PROVE  /\ BallotOpen \in BOOLEAN
         /\ ~ BallotOpen /\ Len(ballot) > 0 => ballot[Len(ballot)] = "closed"
         /\ BallotOpen => Len(ballot) > 0 /\ ballot[Len(ballot)] = "created"
BY DEF BallotOpen

\* A ballot event that does not repeat the one before.
LEMMA AppendAlternates ==
  ASSUME ballot \in Seq({"created", "closed"}), verdict \in Nat \cup {NoVerdict},
         Alternates, Decided, NEW x \in {"created", "closed"},
         ballot' = Append(ballot, x), verdict' = verdict,
         Len(ballot) > 0 => ballot[Len(ballot)] # x
  PROVE  Alternates' /\ Decided' /\ (BallotOpen' <=> x = "created")
<1>1. /\ Len(ballot') = Len(ballot) + 1 /\ Len(ballot) \in Nat
      /\ \A i \in 1..Len(ballot) : ballot'[i] = ballot[i]
      /\ ballot'[Len(ballot) + 1] = x
  BY AppendBallot
<1>2. Alternates'
  <2> SUFFICES ASSUME NEW i \in 1..(Len(ballot) + 1), i + 1 <= Len(ballot) + 1
               PROVE  ballot'[i] # ballot'[i + 1]
    BY <1>1 DEF Alternates
  <2>1. CASE i + 1 <= Len(ballot)
    BY <1>1, <2>1 DEF Alternates
  <2>2. CASE i = Len(ballot)
    BY <1>1, <2>2
  <2> QED
    BY <1>1, <2>1, <2>2
<1>3. Decided'
  BY <1>1 DEF Decided, NoVerdict
<1>4. BallotOpen' <=> x = "created"
  BY <1>1 DEF BallotOpen
<1> QED
  BY <1>2, <1>3, <1>4

LEMMA SerialStart ==
  ASSUME SerialInv, NEW r \in Req, Start(r), \A p, q \in Req : p = q
  PROVE  SerialInv'
<1>1. TInv' /\ TypeOK
  BY StartTInv DEF SerialInv, TInv
<1> DEFINE Fits(q) == q.pc \notin {"add", "verdict"} /\ (q.pc = "create" => q.had = BallotOpen)
<1>a. ASSUME NEW op, NEW pc \in {"remove", "started", "telechat"}, NEW prev, NEW s, NEW t, NEW d,
             Load(r, Setting(op, pc, prev, s, t, d))
      PROVE  \E q : Load(r, q) /\ Fits(q)
  <2>1. Fits(Setting(op, pc, prev, s, t, d))
    BY DEF Setting
  <2> QED
    BY <1>a, <2>1
<1>b. ASSUME NEW op, NEW pc \in {"create", "close"}, NEW had, NEW u,
             Load(r, Balloting(op, pc, had, u)), pc = "create" => had = BallotOpen
      PROVE  \E q : Load(r, q) /\ Fits(q)
  <2>1. Fits(Balloting(op, pc, had, u))
    BY <1>b DEF Balloting
  <2> QED
    BY <1>b, <2>1
<1> HIDE DEF Fits
<1>c. \/ \E op, prev, s, t, d : \E pc \in {"remove", "started", "telechat"} :
           Load(r, Setting(op, pc, prev, s, t, d))
      \/ \E op, had, u : \E pc \in {"create", "close"} :
           Load(r, Balloting(op, pc, had, u)) /\ (pc = "create" => had = BallotOpen)
  BY DEF Start, EditInfo, ToIesg, RequestLastCall, DeferBallot, ChangeState, MakeLastCall,
         ExpireLastCall, ApproveBallot, IssueBallot, ClearBallot, UndeferBallot
<1>2. PICK q : Load(r, q) /\ Fits(q)
  BY <1>a, <1>b, <1>c
<1>3. req' = [req EXCEPT ![r] = q] /\ ballot' = ballot /\ iesg' = iesg /\ verdict' = verdict
  BY <1>2 DEF Load, ballots, state
<1>4. \A p \in Req : Sees(req[p])'
  BY <1>1, <1>2, <1>3 DEF Sees, TypeOK, BallotOpen, Fits
<1> QED
  BY <1>1, <1>3, <1>4 DEF SerialInv, Alternates, Decided

\* A statement that leaves ballots, decision and states alone, and whose
\* successor is none of those Sees speaks about.
LEMMA SerialQuiet ==
  ASSUME SerialInv, TInv', UNCHANGED <<iesg, ballot, verdict>>,
         \A r \in Req : req'[r].pc \in {"add", "create", "verdict"} => req'[r] = req[r]
  PROVE  SerialInv'
<1>1. \A r \in Req : Sees(req[r])'
  BY DEF SerialInv, Sees, BallotOpen
<1> QED
  BY <1>1 DEF SerialInv, Alternates, Decided

LEMMA SerialStep ==
  ASSUME SerialInv, NEW r \in Req, Step(r), \A p, q \in Req : p = q
  PROVE  SerialInv'
<1>t. /\ TInv' /\ TInv /\ TypeOK /\ req[r] \in Local /\ Knows(req[r]) /\ Sees(req[r])
      /\ req[r].had \in BOOLEAN /\ req[r].changed \in BOOLEAN
  BY StepTInv, LocalFields DEF SerialInv, TInv, TypeOK
<1> DEFINE n == req'[r]
\* The next statement: it follows from the plan.
<1>n. ASSUME NEW had \in BOOLEAN, NEW changed \in BOOLEAN, AdvanceWith(r, had, changed),
             req[r].pc \notin {"idle", "check"}
      PROVE  /\ n.pc = "add" => req[r].pc = "remove" /\ n.new = req[r].new
             /\ n.pc = "create" => req[r].pc = "close" /\ n.had = had
             /\ n.pc = "verdict" => req[r].pc = "close"
  <2>1. Busy(req[r])
    BY <1>t, <1>n DEF Knows, Busy
  <2>2. /\ n.pc = Plan[req[r].op][req[r].pc]
        /\ n.pc # "idle" => /\ n.op = req[r].op /\ n.new = req[r].new /\ n.had = had
                         /\ n.prev = req[r].prev /\ n.changed = changed /\ n.day = req[r].day
    BY <1>t, <1>n, <2>1, AdvanceReq DEF TypeOK
  <2>3. n.pc # "idle" => /\ n.pc = "add" => req[r].pc = "remove"
                         /\ n.pc = "create" => req[r].pc = "close"
                         /\ n.pc = "verdict" => req[r].pc = "close"
    BY <2>1, <2>2, PlanSteps DEF Busy
  <2> QED
    BY <2>2, <2>3
<1>q. ASSUME Advance(r), req[r].pc \notin {"idle", "check", "close", "remove"}
      PROVE  \A p \in Req : req'[p].pc \in {"add", "create", "verdict"} => req'[p] = req[p]
  BY <1>t, <1>q, <1>n DEF Advance
<1> HIDE DEF n
<1>1. CASE Remove(r)
  <2>1. req[r].pc = "remove" /\ iesg' = iesg \cap {req[r].new} /\ UNCHANGED <<ballot, verdict>>
    BY <1>1 DEF Remove, ballots
  <2>2. (req[r].new \in iesg) \in BOOLEAN /\ AdvanceWith(r, req[r].new \in iesg, req[r].changed)
    BY <1>1 DEF Remove
  <2>3. n.pc \notin {"create", "verdict"} /\ (n.pc = "add" => n.new = req[r].new)
    BY <1>t, <1>n, <2>1, <2>2
  <2>4. \A p \in Req : Sees(req[p])'
    BY <2>1, <2>3 DEF Sees, n
  <2> QED
    BY <1>t, <2>1, <2>4 DEF SerialInv, Alternates, Decided
<1>2. CASE Add(r)
  <2>1. /\ req[r].pc = "add" /\ iesg \subseteq {req[r].new} /\ iesg' \subseteq {req[r].new}
        /\ UNCHANGED <<ballot, verdict>>
    BY <1>t, <1>2 DEF Add, Sees, ballots
  <2> DEFINE ch == req[r].changed \/ req[r].prev # req[r].new \/ tag # tag'
  <2>2. ch \in BOOLEAN /\ AdvanceWith(r, req[r].had, ch)
    BY <1>t, <1>2 DEF Add
  <2> HIDE DEF ch
  <2>3. n.pc \notin {"add", "create", "verdict"}
    BY <1>t, <1>n, <2>1, <2>2
  <2>4. \A p \in Req : Sees(req[p])'
    BY <2>3 DEF Sees, n
  <2> QED
    BY <1>t, <2>1, <2>4 DEF SerialInv, Alternates, Decided
<1>3. CASE Log(r) \/ Started(r)
  BY <1>t, <1>3, <1>q, SerialQuiet DEF Log, Started, ballots
<1>4. CASE Iana(r) \/ LastCall(r) \/ Telechat(r)
  BY <1>t, <1>4, <1>q, SerialQuiet DEF Iana, LastCall, Telechat, ballots, state
<1>5. CASE Yes(r)
  BY <1>t, <1>5, <1>q, SerialQuiet DEF Yes, state
<1>6. CASE Create(r)
  <2>1. /\ req[r].pc = "create" /\ req[r].had = BallotOpen /\ UNCHANGED <<iesg, verdict>>
        /\ ballot' = IF BallotOpen THEN ballot ELSE Append(ballot, "created")
    BY <1>t, <1>6 DEF Create, Sees, state
  <2>2. Alternates' /\ Decided'
    <3>1. CASE BallotOpen
      BY <2>1, <3>1 DEF SerialInv, Alternates, Decided
    <3>2. CASE ~ BallotOpen
      BY <1>t, <2>1, <3>2, LastBallot, AppendAlternates DEF SerialInv, TypeOK
    <3> QED
      BY <3>1, <3>2
  <2>3. n.pc \notin {"add", "create", "verdict"}
    BY <1>t, <1>6, <1>n, <2>1 DEF Create, Advance
  <2>4. \A p \in Req : Sees(req[p])'
    BY <2>3 DEF Sees, n
  <2> QED
    BY <1>t, <2>1, <2>2, <2>4 DEF SerialInv
<1>7. CASE Close(r)
  <2>1. /\ req[r].pc = "close" /\ UNCHANGED <<iesg, verdict>>
        /\ ballot' = IF BallotOpen THEN Append(ballot, "closed") ELSE ballot
    BY <1>7 DEF Close, state
  <2>f. PICK f \in BOOLEAN : f = FALSE /\ AdvanceWith(r, f, req[r].changed)
    BY <1>7 DEF Close
  <2>2. Alternates' /\ Decided' /\ ~ BallotOpen'
    <3>1. CASE BallotOpen
      BY <1>t, <2>1, <3>1, LastBallot, AppendAlternates DEF SerialInv, TypeOK
    <3>2. CASE ~ BallotOpen
      BY <2>1, <3>2 DEF SerialInv, Alternates, Decided, BallotOpen
    <3> QED
      BY <3>1, <3>2
  <2>3. n.pc # "add" /\ (n.pc = "create" => n.had = f)
    <3>1. \A had, changed \in BOOLEAN : AdvanceWith(r, had, changed) =>
             n.pc # "add" /\ (n.pc = "create" => n.had = had)
      BY <1>n, <2>1
    <3> QED
      BY <1>t, <3>1, <2>f
  <2>4. \A p \in Req : Sees(req[p])'
    BY <2>2, <2>3, <2>f DEF Sees, BallotOpen, n
  <2> QED
    BY <1>t, <2>1, <2>2, <2>4 DEF SerialInv
<1>8. CASE Verdict(r)
  <2>1. /\ req[r].pc = "verdict" /\ ~ BallotOpen /\ verdict' = Len(ballot)
        /\ UNCHANGED <<iesg, ballot>>
    BY <1>t, <1>8 DEF Verdict, Sees, state, ballots
  <2>2. Alternates' /\ Decided'
    BY <1>t, <2>1, LastBallot, CreatedType DEF SerialInv, Alternates, Decided, TypeOK
  <2>3. n.pc \notin {"add", "create", "verdict"}
    BY <1>t, <1>8, <1>n, <2>1 DEF Verdict, Advance
  <2>4. \A p \in Req : Sees(req[p])'
    BY <2>3 DEF Sees, n
  <2> QED
    BY <1>t, <2>1, <2>2, <2>4 DEF SerialInv
<1>9. CASE CheckDefer(r)
  <2>1. UNCHANGED <<iesg, ballot, verdict>>
    BY <1>9 DEF CheckDefer, state, ballots
  <2>2. n.pc \in {"remove", "idle"}
    BY <1>t, <1>9 DEF CheckDefer, Setting, Idle, n, TypeOK
  <2> QED
    BY <1>t, <2>1, <2>2, SerialQuiet DEF n
<1> QED
  BY <1>1, <1>2, <1>3, <1>4, <1>5, <1>6, <1>7, <1>8, <1>9 DEF Step

LEMMA SerialNext ==
  ASSUME SerialInv, [Next]_vars, \A p, q \in Req : p = q
  PROVE  SerialInv'
<1>t. TInv' /\ TypeOK
  BY NextTInv DEF SerialInv, TInv
<1>1. ASSUME NEW r \in Req, Start(r) PROVE SerialInv'
  BY <1>1, SerialStart
<1>2. ASSUME NEW r \in Req, Step(r) PROVE SerialInv'
  BY <1>2, SerialStep
<1>3. ASSUME NEW b \in DOMAIN ballot, NEW ad \in Ad, NEW p \in Position, EditPosition(b, ad, p)
      PROVE  SerialInv'
  BY <1>t, <1>3, SerialQuiet DEF EditPosition, state
<1>4. ASSUME NEW s \in {"need-rev", "done"}, ChangeIanaState(s)
      PROVE  SerialInv'
  BY <1>t, <1>4, SerialQuiet DEF ChangeIanaState, state, ballots
<1>5. CASE Tick
  BY <1>t, <1>5, SerialQuiet DEF Tick, state, ballots
<1>6. ASSUME NEW r \in Req, Abort(r) PROVE SerialInv'
  BY <1>t, <1>6, SerialQuiet DEF Abort, state, ballots, Idle, TypeOK
<1>7. CASE UNCHANGED vars
  BY <1>t, <1>7, SerialQuiet DEF vars, state, ballots
<1> QED
  BY <1>1, <1>2, <1>3, <1>4, <1>5, <1>6, <1>7 DEF Next, NextOK

LEMMA SerialInit == Init => SerialInv
<1> SUFFICES ASSUME Init PROVE SerialInv
  OBVIOUS
<1>1. TInv
  BY TInvInit
<1> QED
  BY <1>1 DEF Init, SerialInv, Alternates, Decided, Sees, Idle, NoVerdict

\* Without overlapping requests, set_state never leaves a draft in two
\* states, wherever the request dies.
THEOREM OneStateAtATime ==
  ASSUME \A p, q \in Req : p = q
  PROVE  Spec => []OneState
<1>1. SerialInv /\ [Next]_vars => SerialInv'
  BY SerialNext
<1>2. SerialInv => OneState
  <2> SUFFICES ASSUME SerialInv PROVE Cardinality(iesg) <= 1
    BY DEF OneState
  <2>1. PICK s : iesg \subseteq {s}
    BY DEF SerialInv
  <2>2. iesg = {} \/ iesg = {s}
    BY <2>1
  <2>3. Cardinality(iesg) = 0 \/ Cardinality(iesg) = 1
    BY <2>2, FS_EmptySet, FS_Singleton
  <2> QED
    BY <2>3
<1> QED
  BY <1>1, <1>2, SerialInit, PTL DEF Spec

\* Without overlapping requests, positions on a ballot that has not been closed
\* are on the ballot that active_ballot() finds: no later one takes its place.
THEOREM EveryPositionShown ==
  ASSUME \A p, q \in Req : p = q
  PROVE  Spec => []PositionsShown
<1>1. SerialInv /\ [Next]_vars => SerialInv'
  BY SerialNext
<1>2. SerialInv => PositionsShown
  <2> SUFFICES ASSUME SerialInv, NEW v \in votes,
                      \A i \in v.ballot..Len(ballot) : ballot[i] # "closed"
               PROVE  v.ballot = LatestBallot
    BY DEF PositionsShown
  <2>1. ballot \in Seq({"created", "closed"}) /\ v.ballot \in Created
    BY DEF SerialInv, TInv, TypeOK
  <2> DEFINE l == LatestBallot
             b == v.ballot
  <2>2. /\ l \in Created /\ b <= l /\ l \in 1..Len(ballot) /\ b \in 1..Len(ballot)
    BY <2>1, LatestCreated, CreatedType
  <2> HIDE DEF l, b
  <2>3. CASE b < l
    <3>1. b + 1 \in b..Len(ballot) /\ b + 1 \in 1..Len(ballot) /\ b + 1 <= Len(ballot)
      BY <2>1, <2>2, <2>3
    <3>2. ballot[b] = "created" /\ ballot[b] # ballot[b + 1]
      BY <2>1, <2>2, <3>1 DEF SerialInv, Alternates, Created, b
    <3>3. ballot[b + 1] \in {"created", "closed"} /\ ballot[b + 1] # "closed"
      BY <2>1, <3>1, CreatedType DEF b
    <3> QED
      BY <3>2, <3>3
  <2> QED
    BY <2>2, <2>3 DEF l, b
<1> QED
  BY <1>1, <1>2, SerialInit, PTL DEF Spec

\* Without overlapping requests, a decision is recorded only after the ballot
\* has been closed.
THEOREM DecisionClosesBallot ==
  ASSUME \A p, q \in Req : p = q
  PROVE  Spec => []ApprovalEndsBallot
<1>1. SerialInv /\ [Next]_vars => SerialInv'
  BY SerialNext
<1>2. SerialInv => ApprovalEndsBallot
  BY DEF SerialInv, Decided, ApprovalEndsBallot
<1> QED
  BY <1>1, <1>2, SerialInit, PTL DEF Spec
(***************************************************************************)
(* One request at a time, until one dies: history, IANA and Last Calls     *)
(***************************************************************************)
\* Statements that follow the change of the state and record it
Pends(op, pc) ==
  pc = "log" \/ (op = "approve" /\ pc \in {"close", "verdict"}) \/ (op = "start" /\ pc = "started")

\* to_iesg records the start of the process before it changes the state.
Submits(op, pc) == op = "to_iesg" /\ pc = "started"

HistoryNow == iesg = (IF log = "none" THEN {} ELSE {log}) /\ (iesg # {} => started)

\* What the log says, and what a request that changes the state is about to
\* add to it.
Logged(q) ==
  /\ q.pc \in {"remove", "add"} => /\ q.op = "start" \/ started
                                   /\ q.changed \/ q.prev # q.new \/ log = q.new
  /\ q.pc = "add" => (q.had <=> q.new \in iesg)
  /\ Pends(q.op, q.pc) => /\ iesg = {q.new} /\ (q.op = "start" \/ started)
                          /\ q.changed \/ log = q.new
  /\ Submits(q.op, q.pc) => q.prev # q.new
  /\ \/ q.pc \in {"remove", "add"} \/ Pends(q.op, q.pc) \/ Submits(q.op, q.pc)
     \/ HistoryNow

AskedNow == iesg = {"lc"} \/ lastcall # NoDate => iana # "none"

\* Only two handlers send a draft to Last Call, and both ask IANA afterwards.
Asks(q) ==
  /\ \/ q.op \in {"change", "lc"} /\ q.new = "lc" /\ q.pc \in {"add", "log", "lastcall", "iana"}
     \/ AskedNow
  /\ (q.pc \in {"remove", "add"} \/ Submits(q.op, q.pc)) /\ q.new = "lc" => q.op \in {"change", "lc"}
  /\ q.op = "lc" => q.new = "lc"

\* The announcement that was mailed is recorded, or about to be.
Promises(q) ==
  IF q.op = "lc" /\ q.pc \in {"remove", "add", "log", "lastcall"}
  THEN q.day = promise ELSE promise = lastcall

FineInv ==
  SerialInv /\ \A r \in Req : Logged(req[r]) /\ Asks(req[r]) /\ Promises(req[r])

\* The order of the statements around a change of state.
LEMMA PlanOrder ==
  ASSUME NEW op \in DOMAIN Plan, NEW pc \in DOMAIN Plan[op]
  PROVE  LET n == Plan[op][pc]
         IN /\ pc = "remove" <=> n = "add"
            /\ n = "remove" <=> Submits(op, pc)
            /\ ~Submits(op, n)
            /\ pc = "add" => Pends(op, n)
            /\ pc \in {"log", "started"} => ~Pends(op, n)
            /\ Pends(op, pc) /\ pc \notin {"log", "started"} => Pends(op, n)
            /\ ~Pends(op, pc) /\ pc # "add" => ~Pends(op, n)
            /\ op \in {"change", "lc"} /\ pc = "add" => n = "log"
            /\ op = "change" /\ pc = "log" => n = "iana"
            /\ op = "lc" /\ pc = "log" => n = "lastcall"
            /\ op = "lc" => (pc = "lastcall" => n = "iana") /\ pc \notin {"started", "telechat"}
            /\ op \in {"change", "lc"} => pc \in {"remove", "add", "log", "iana", "lastcall"}
            /\ op = "change" => pc # "lastcall"
            /\ pc = "lastcall" => op = "lc"
            /\ n \in {"lastcall", "iana"} => pc \in {"log", "lastcall"}
            /\ pc = "iana" => n = "idle"
            /\ pc = "started" => op = "start" \/ Submits(op, pc)
<1> USE DEF Pends, Submits
<1>1. CASE op = "start"
  BY <1>1 DEF Plan, PC
<1>2. CASE op = "to_iesg"
  BY <1>2 DEF Plan, PC
<1>3. CASE op = "change"
  BY <1>3 DEF Plan, PC
<1>4. CASE op = "lc_req"
  BY <1>4 DEF Plan, PC
<1>5. CASE op = "lc"
  BY <1>5 DEF Plan, PC
<1>6. CASE op = "lc_end"
  BY <1>6 DEF Plan, PC
<1>7. CASE op = "defer"
  BY <1>7 DEF Plan, PC
<1>8. CASE op = "undefer"
  BY <1>8 DEF Plan, PC
<1>9. CASE op = "issue"
  BY <1>9 DEF Plan, PC
<1>10. CASE op = "clear"
  BY <1>10 DEF Plan, PC
<1>11. CASE op = "approve"
  BY <1>11 DEF Plan, PC
<1> QED
  BY <1>1, <1>2, <1>3, <1>4, <1>5, <1>6, <1>7, <1>8, <1>9, <1>10, <1>11 DEF Plan

LEMMA IdleFine ==
  ASSUME HistoryNow, AskedNow, promise = lastcall
  PROVE  Logged(Idle) /\ Asks(Idle) /\ Promises(Idle)
BY DEF Logged, Asks, Promises, Idle, Pends, Submits

\* What the draft says when no request is at work, or when one has not
\* touched it.
LEMMA FineRest ==
  ASSUME NEW q, Logged(q), Asks(q), Promises(q), q.pc \in {"idle", "check"}
  PROVE  HistoryNow /\ AskedNow /\ promise = lastcall
BY DEF Logged, Asks, Promises, Pends, Submits

LEMMA StateRead ==
  ASSUME HistoryNow, NEW prev, GetState(prev)
  PROVE  prev = log /\ (prev # "none" => started)
BY DEF HistoryNow, GetState

\* What a handler about the ballot starts with
LEMMA BallotingFine ==
  ASSUME NEW op \in {"issue", "clear"}, NEW pc \in {"create", "close"}, NEW had, NEW u,
         HistoryNow, AskedNow
  PROVE  LET q == Balloting(op, pc, had, u)
         IN Logged(q) /\ Asks(q) /\ q.op # "lc"
BY DEF Balloting, Logged, Asks, Pends, Submits

\* A request that has just begun knows what the draft says.
LEMMA FineLoad ==
  ASSUME FineInv, NEW r \in Req, NEW q, Load(r, q), Logged(q), Asks(q),
         IF q.op = "lc" THEN q.pc = "remove" /\ q.day = promise' ELSE promise' = promise
  PROVE  Logged(req[r])' /\ Asks(req[r])' /\ Promises(req[r])'
<1>1. /\ req'[r] = q /\ req[r].pc = "idle"
      /\ UNCHANGED <<iesg, log, started, iana, lastcall>>
  BY DEF FineInv, SerialInv, TInv, TypeOK, Load, state
<1>2. promise = lastcall
  BY <1>1, FineRest DEF FineInv
<1> QED BY <1>1, <1>2 DEF Logged, Asks, Promises, HistoryNow, AskedNow

LEMMA FineStart ==
  ASSUME FineInv, NEW r \in Req, Start(r)
  PROVE  Logged(req[r])' /\ Asks(req[r])' /\ Promises(req[r])'
<1> DEFINE Goal == Logged(req[r])' /\ Asks(req[r])' /\ Promises(req[r])'
<1>0. req[r].pc = "idle"
  BY DEF Start, EditInfo, ToIesg, RequestLastCall, DeferBallot, ChangeState, MakeLastCall,
         ExpireLastCall, ApproveBallot, IssueBallot, ClearBallot, UndeferBallot, Load
<1>1. HistoryNow /\ AskedNow /\ promise = lastcall
  BY <1>0, FineRest DEF FineInv
<1>s. ASSUME NEW op, NEW pc \in {"remove", "started", "telechat"}, NEW prev, NEW s, NEW t, NEW d,
             pc = "remove" => (op = "start" \/ started) /\ (op = "change" \/ prev # s \/ log = s),
             pc = "started" => op = "to_iesg" /\ prev # s,
             pc # "telechat" /\ s = "lc" => op = "change",
             op # "lc", promise' = promise, Load(r, Setting(op, pc, prev, s, t, d))
      PROVE  Goal
  <2>1. PICK q : q = Setting(op, pc, prev, s, t, d)
    OBVIOUS
  <2>2. Logged(q) /\ Asks(q) /\ q.op # "lc"
    BY <1>1, <1>s, <2>1 DEF Setting, Logged, Asks, Pends, Submits
  <2> QED BY <1>s, <2>1, <2>2, FineLoad
<1>b. ASSUME NEW op \in {"issue", "clear"}, NEW pc \in {"create", "close"}, NEW had, NEW u,
             promise' = promise, Load(r, Balloting(op, pc, had, u))
      PROVE  Goal
  <2>1. PICK q : q = Balloting(op, pc, had, u)
    OBVIOUS
  <2>2. Logged(q) /\ Asks(q) /\ q.op # "lc"
    BY <1>1, <2>1, BallotingFine
  <2> QED BY <1>b, <2>1, <2>2, FineLoad
<1>r. \A prev : GetState(prev) => prev = log /\ (prev # "none" => started)
  BY <1>1, StateRead
<1> HIDE DEF Goal
<1>2. ASSUME NEW s \in IesgState, NEW d, EditInfo(r, s, d) PROVE Goal
  BY <1>2, <1>s DEF EditInfo
<1>3. ASSUME NEW prev, ToIesg(r, prev) PROVE Goal
  BY <1>3, <1>s, <1>r DEF ToIesg
<1>4. ASSUME NEW prev, RequestLastCall(r, prev) PROVE Goal
  BY <1>4, <1>s, <1>r DEF RequestLastCall
<1>5. ASSUME NEW prev, DeferBallot(r, prev) PROVE Goal
  BY <1>5, <1>s, <1>r DEF DeferBallot
<1>6. ASSUME NEW prev, NEW s, NEW t, ChangeState(r, prev, s, t) PROVE Goal
  BY <1>6, <1>s, <1>r DEF ChangeState
<1>7. ASSUME NEW prev, NEW d, MakeLastCall(r, prev, d) PROVE Goal
  <2>1. PICK q : q = Setting("lc", "remove", prev, "lc", "none", d)
    OBVIOUS
  <2>2. GetState(prev) /\ prev # "none" /\ Load(r, q) /\ promise' = d
    BY <1>7, <2>1 DEF MakeLastCall
  <2>3. prev = log /\ started
    BY <1>r, <2>2
  <2>4. Logged(q) /\ Asks(q) /\ q.op = "lc" /\ q.pc = "remove" /\ q.day = d
    BY <1>1, <2>1, <2>3 DEF Setting, Logged, Asks, Pends, Submits
  <2> QED BY <2>2, <2>4, FineLoad DEF Goal
<1>8. ASSUME NEW prev, NEW s, ExpireLastCall(r, prev, s) PROVE Goal
  <2>1. iesg # {} /\ "lc" \in iesg
    BY <1>8 DEF ExpireLastCall
  <2>2. started
    BY <1>1, <2>1 DEF HistoryNow
  <2> QED BY <1>8, <1>s, <1>r, <2>2 DEF ExpireLastCall
<1>9. ASSUME NEW prev, NEW s, ApproveBallot(r, prev, s) PROVE Goal
  BY <1>9, <1>s, <1>r DEF ApproveBallot
<1>10. ASSUME NEW u, IssueBallot(r, u) PROVE Goal
  BY <1>10, <1>b DEF IssueBallot
<1>11. ASSUME ClearBallot(r) PROVE Goal
  <2>1. Load(r, Balloting("clear", "close", FALSE, Secretariat)) /\ promise' = promise
    BY <1>11 DEF ClearBallot
  <2> QED BY <2>1, <1>b
<1>12. ASSUME UndeferBallot(r) PROVE Goal
  <2>1. PICK d : Load(r, Setting("undefer", "remove", "defer", "iesg-eva", "none", d))
    BY <1>12 DEF UndeferBallot
  <2>2. promise' = promise /\ started
    BY <1>12, <1>r DEF UndeferBallot
  <2> QED BY <2>1, <2>2, <1>s
<1>13. Goal
  <2>1. ASSUME \E s \in IesgState, d \in Active \cup {NoDate} : EditInfo(r, s, d)
        PROVE  Goal
    BY <2>1, <1>2
  <2>2. ASSUME \E prev \in IesgState \cup {"none"} :
               \/ ToIesg(r, prev) \/ RequestLastCall(r, prev) \/ DeferBallot(r, prev)
               \/ \E s \in Picked, t \in {"none", "sub"} : ChangeState(r, prev, s, t)
               \/ \E d \in Day : MakeLastCall(r, prev, d)
               \/ \E s \in {"writeupw", "goaheadw"} : ExpireLastCall(r, prev, s)
               \/ \E s \in {"ann", "dead"} : ApproveBallot(r, prev, s)
        PROVE  Goal
    BY <2>2, <1>3, <1>4, <1>5, <1>6, <1>7, <1>8, <1>9
  <2>3. ASSUME \E u \in User : IssueBallot(r, u) PROVE Goal
    BY <2>3, <1>10
  <2> QED BY <2>1, <2>2, <2>3, <1>11, <1>12 DEF Start
<1> QED BY <1>13 DEF Goal

\* The next statement of a request, or none
Goes(q, n, had, changed) ==
  /\ n.pc = Plan[q.op][q.pc]
  /\ n.pc = "idle" => n = Idle
  /\ n.pc # "idle" => /\ n.op = q.op /\ n.new = q.new /\ n.had = had /\ n.changed = changed
                      /\ n.prev = q.prev /\ n.day = q.day

\* A statement that leaves alone what the log is about
LEMMA KeepsLogged ==
  ASSUME NEW q, NEW n, NEW had, Busy(q), Goes(q, n, had, q.changed), Logged(q),
         q.pc \notin {"remove", "add", "log", "started"}, UNCHANGED <<iesg, log, started>>
  PROVE  Logged(n)'
<1>1. q.op \in DOMAIN Plan /\ q.pc \in DOMAIN Plan[q.op]
  BY DEF Busy
<1>2. /\ n.pc \notin {"add", "remove"} /\ ~Submits(q.op, n.pc)
      /\ Pends(q.op, n.pc) <=> Pends(q.op, q.pc)
  BY <1>1, PlanOrder DEF Goes, Submits
<1>3. n.pc = "idle" => ~Pends(q.op, n.pc) /\ ~Pends(n.op, n.pc) /\ ~Submits(n.op, n.pc)
  BY DEF Pends, Submits
<1>4. n.pc # "idle" => Pends(n.op, n.pc) = Pends(q.op, n.pc) /\ Submits(n.op, n.pc) = Submits(q.op, n.pc)
  BY DEF Goes
<1>5. ~Submits(q.op, q.pc)
  BY DEF Submits
<1> QED BY <1>2, <1>3, <1>4, <1>5 DEF Logged, HistoryNow, Goes

\* ... and what IANA and those who wait for the Last Call are told
LEMMA KeepsAsked ==
  ASSUME NEW q, NEW n, NEW had, NEW changed, Busy(q), Goes(q, n, had, changed), Asks(q), Promises(q),
         q.pc \notin {"remove", "add", "log", "lastcall", "iana"},
         UNCHANGED <<iesg, lastcall, iana, promise>>
  PROVE  Asks(n)' /\ Promises(n)'
<1>1. q.op \in DOMAIN Plan /\ q.pc \in DOMAIN Plan[q.op]
  BY DEF Busy
<1>2. q.op \notin {"change", "lc"}
  BY <1>1, PlanOrder
<1>3. /\ n.pc = "add" => FALSE
      /\ n.pc = "remove" => q.op = "to_iesg" /\ q.pc = "started"
      /\ n.op # "lc" /\ ~Submits(n.op, n.pc)
  BY <1>1, <1>2, PlanOrder DEF Goes, Submits, Idle
<1>4. n.pc = "remove" => n.new # "lc"
  BY <1>3 DEF Asks, Goes, Submits
<1> QED BY <1>2, <1>3, <1>4 DEF Asks, Promises, AskedNow

LEMMA FineStep ==
  ASSUME FineInv, NEW r \in Req, Step(r), SerialInv'
  PROVE  Logged(req[r])' /\ Asks(req[r])' /\ Promises(req[r])'
<1>t. /\ req \in [Req -> Local] /\ req[r] \in Local /\ Knows(req[r]) /\ Sees(req[r])
      /\ Logged(req[r]) /\ Asks(req[r]) /\ Promises(req[r])
      /\ req[r].had \in BOOLEAN /\ req[r].changed \in BOOLEAN
      /\ \E s : iesg \subseteq {s}
  BY LocalFields DEF FineInv, SerialInv, TInv, TypeOK
<1>q. PICK q \in Local : q = req[r]
  BY <1>t
<1>n. PICK n : n = req'[r]
  OBVIOUS
<1>a. ASSUME NEW had \in BOOLEAN, NEW changed \in BOOLEAN, AdvanceWith(r, had, changed),
             q.pc \notin {"idle", "check"}
      PROVE  Busy(q) /\ Goes(q, n, had, changed)
  <2>1. Busy(q)
    BY <1>t, <1>q, <1>a DEF Knows, Busy
  <2> QED BY <1>t, <1>q, <1>n, <1>a, <2>1, AdvanceReq DEF Goes
<1>b. ASSUME Advance(r), q.pc \notin {"idle", "check"}
      PROVE  Busy(q) /\ Goes(q, n, q.had, q.changed)
  BY <1>a, <1>b, <1>t, <1>q DEF Advance
<1>o. Busy(q) => q.op \in DOMAIN Plan /\ q.pc \in DOMAIN Plan[q.op]
  BY DEF Busy
<1> SUFFICES Logged(n)' /\ Asks(n)' /\ Promises(n)'
  BY <1>n
<1>1. CASE Remove(r)
  <2>1. /\ q.pc = "remove" /\ iesg' = iesg \cap {q.new} /\ (q.new \in iesg) \in BOOLEAN
        /\ UNCHANGED <<log, started, iana, lastcall, promise>>
    BY <1>1, <1>q DEF Remove, dates
  <2>2. Busy(q) /\ Goes(q, n, q.new \in iesg, q.changed)
    BY <1>1, <1>q, <1>a, <1>t, <2>1 DEF Remove
  <2>3. n.pc = "add" /\ ~Pends(q.op, "add") /\ ~Submits(q.op, "add")
    BY <1>o, <2>1, <2>2, PlanOrder DEF Goes, Pends, Submits
  <2>4. n.op = q.op /\ n.new = q.new /\ n.had = (q.new \in iesg) /\ n.changed = q.changed
        /\ n.prev = q.prev /\ n.day = q.day
    BY <2>2, <2>3 DEF Goes
  <2>5. Logged(n)'
    BY <1>t, <1>q, <2>1, <2>3, <2>4 DEF Logged
  <2>6. AskedNow /\ (iesg' = {"lc"} => iesg = {"lc"})
    BY <1>t, <1>q, <2>1 DEF Asks
  <2>7. Asks(n)' /\ Promises(n)'
    BY <1>t, <1>q, <2>1, <2>3, <2>4, <2>6 DEF Asks, Promises, AskedNow
  <2> QED BY <2>5, <2>7
<1>2. CASE Add(r)
  <2>1. /\ q.pc = "add" /\ iesg' = (IF q.had THEN iesg ELSE iesg \cup {q.new})
        /\ UNCHANGED <<log, started, iana, lastcall, promise>>
    BY <1>2, <1>q DEF Add, dates
  <2>2. PICK ch \in BOOLEAN : /\ ch = (q.changed \/ q.prev # q.new \/ tag # tag')
                              /\ AdvanceWith(r, q.had, ch)
    BY <1>2, <1>q DEF Add
  <2>3. Busy(q) /\ Goes(q, n, q.had, ch)
    BY <1>q, <1>a, <1>t, <2>1, <2>2
  <2>4. /\ Pends(q.op, n.pc) /\ ~Submits(q.op, n.pc) /\ n.pc \notin {"idle", "remove", "add"}
        /\ q.op \in {"change", "lc"} => n.pc = "log"
    BY <1>o, <2>1, <2>3, PlanOrder DEF Goes, Pends, Submits
  <2>5. n.op = q.op /\ n.new = q.new /\ n.changed = ch /\ n.prev = q.prev /\ n.day = q.day
    BY <2>3, <2>4 DEF Goes
  <2>6. iesg' = {q.new}
    BY <1>t, <1>q, <2>1 DEF Logged, Sees
  <2>7. Logged(n)'
    BY <1>t, <1>q, <2>1, <2>2, <2>4, <2>5, <2>6 DEF Logged
  <2>8. Asks(n)'
    BY <1>t, <1>q, <2>1, <2>4, <2>5, <2>6 DEF Asks, AskedNow
  <2>9. Promises(n)'
    BY <1>t, <1>q, <1>o, <2>1, <2>3, <2>4, <2>5, PlanOrder DEF Promises
  <2> QED BY <2>7, <2>8, <2>9
<1>3. CASE Log(r)
  <2>1. /\ q.pc = "log" /\ log' = (IF q.changed THEN q.new ELSE log)
        /\ UNCHANGED <<iesg, started, iana, lastcall, promise>>
    BY <1>3, <1>q DEF Log, dates
  <2>2. Busy(q) /\ Goes(q, n, q.had, q.changed)
    BY <1>3, <1>b, <2>1 DEF Log
  <2>3. /\ ~Pends(q.op, n.pc) /\ ~Submits(q.op, n.pc) /\ n.pc \notin {"remove", "add", "log"}
        /\ q.op = "change" => n.pc = "iana"
        /\ q.op = "lc" => n.pc = "lastcall"
        /\ n.op = "lc" => q.op = "lc"
    BY <1>o, <2>1, <2>2, PlanOrder DEF Goes, Pends, Submits, Idle
  <2>4. q.op # "start" /\ iesg = {q.new} /\ started /\ log' = q.new /\ q.new # "none"
    <3>1. q.op # "start"
      BY <1>o, <2>1, <2>2 DEF Plan
    <3>2. q.op \notin {"none", "issue", "clear"}
      BY <1>o, <2>1, <2>2, SettingOps
    <3> QED BY <1>t, <1>q, <2>1, <3>1, <3>2 DEF Logged, Pends, Knows, IesgState
  <2>5. Logged(n)'
    <3>1. HistoryNow'
      BY <2>1, <2>4 DEF HistoryNow
    <3>2. ~Pends(n.op, n.pc) /\ ~Submits(n.op, n.pc)
      BY <2>2, <2>3 DEF Goes, Pends, Submits, Idle
    <3> QED BY <2>3, <3>1, <3>2 DEF Logged
  <2>6. Asks(n)' /\ Promises(n)'
    BY <1>t, <1>q, <2>1, <2>2, <2>3, <2>4 DEF Asks, Promises, AskedNow, Goes, Idle, Submits
  <2> QED BY <2>5, <2>6
<1>4. CASE Started(r)
  <2>1. /\ q.pc = "started" /\ log' = q.new /\ started'
        /\ UNCHANGED <<iesg, iana, lastcall, promise>>
    BY <1>4, <1>q DEF Started, dates
  <2>2. Busy(q) /\ Goes(q, n, q.had, q.changed)
    BY <1>4, <1>b, <2>1 DEF Started
  <2>3. /\ ~Pends(q.op, n.pc) /\ ~Submits(q.op, n.pc) /\ n.pc # "add"
        /\ n.pc = "remove" <=> Submits(q.op, q.pc)
        /\ q.op = "start" \/ Submits(q.op, q.pc)
    BY <1>o, <2>1, <2>2, PlanOrder DEF Goes
  <2>4. ~Pends(n.op, n.pc) /\ ~Submits(n.op, n.pc)
    BY <2>2, <2>3 DEF Goes, Pends, Submits, Idle
  <2>5. ASSUME n.pc = "remove" PROVE Logged(n)'
    <3>1. n.prev = q.prev /\ n.new = q.new /\ q.prev # q.new
      BY <1>t, <1>q, <2>2, <2>3, <2>5 DEF Goes, Logged
    <3> QED BY <2>1, <2>4, <2>5, <3>1 DEF Logged
  <2>6. ASSUME n.pc # "remove" PROVE Logged(n)'
    <3>1. q.op = "start" /\ iesg = {q.new} /\ q.new # "none"
      BY <1>t, <1>q, <2>1, <2>3, <2>6 DEF Logged, Pends, Knows, IesgState
    <3>2. HistoryNow'
      BY <2>1, <3>1 DEF HistoryNow
    <3> QED BY <2>3, <2>4, <2>6, <3>2 DEF Logged
  <2>7. Asks(n)' /\ Promises(n)'
    BY <1>t, <1>q, <2>1, <2>2, KeepsAsked
  <2> QED BY <2>5, <2>6, <2>7
<1>5. CASE Iana(r)
  <2>1. /\ q.pc = "iana" /\ UNCHANGED <<iesg, log, started, lastcall, promise>>
        /\ iana' = (IF q.new \in {"iesg-eva", "lc"} /\ iana = "none" THEN "need-rev" ELSE iana)
    BY <1>5, <1>q DEF Iana, state, dates
  <2>2. Busy(q) /\ Goes(q, n, q.had, q.changed)
    BY <1>5, <1>b, <2>1 DEF Iana
  <2>3. n = Idle
    BY <1>o, <2>1, <2>2, PlanOrder DEF Goes
  <2>4. HistoryNow'
    BY <1>t, <1>q, <2>1 DEF Logged, HistoryNow, Pends, Submits
  <2>5. AskedNow' /\ promise' = lastcall'
    BY <1>t, <1>q, <2>1 DEF Asks, AskedNow, Promises
  <2> QED BY <2>3, <2>4, <2>5 DEF Logged, Asks, Promises, Idle, Pends, Submits
<1>6. CASE LastCall(r)
  <2>1. /\ q.pc = "lastcall" /\ lastcall' = q.day
        /\ UNCHANGED <<iesg, log, started, iana, promise>>
    BY <1>6, <1>q DEF LastCall, state
  <2>2. Busy(q) /\ Goes(q, n, q.had, q.changed)
    BY <1>6, <1>b, <2>1 DEF LastCall
  <2>3. q.op = "lc" /\ n.pc = "iana" /\ n.op = "lc" /\ n.new = q.new
    BY <1>o, <2>1, <2>2, PlanOrder DEF Goes
  <2>4. Logged(n)'
    BY <1>t, <1>q, <2>1, <2>2, KeepsLogged
  <2>5. Asks(n)' /\ Promises(n)'
    BY <1>t, <1>q, <2>1, <2>3 DEF Asks, Promises, Submits
  <2> QED BY <2>4, <2>5
<1>7. CASE Telechat(r) \/ Create(r) \/ Yes(r) \/ Verdict(r)
  <2>1. /\ q.pc \in {"telechat", "create", "yes", "verdict"} /\ Advance(r)
        /\ UNCHANGED <<iesg, log, started, iana, lastcall, promise>>
    BY <1>7, <1>q DEF Telechat, Create, Yes, Verdict, state, dates
  <2>2. Busy(q) /\ Goes(q, n, q.had, q.changed)
    BY <1>b, <2>1
  <2> QED BY <1>t, <1>q, <2>1, <2>2, KeepsLogged, KeepsAsked
<1>8. CASE Close(r)
  <2>1. /\ q.pc = "close" /\ UNCHANGED <<iesg, log, started, iana, lastcall, promise>>
    BY <1>8, <1>q DEF Close, state, dates
  <2>2. PICK f \in BOOLEAN : AdvanceWith(r, f, q.changed)
    BY <1>8, <1>q DEF Close
  <2>3. Busy(q) /\ Goes(q, n, f, q.changed)
    BY <1>a, <1>t, <1>q, <2>1, <2>2
  <2> QED BY <1>t, <1>q, <2>1, <2>3, KeepsLogged, KeepsAsked
<1>9. CASE CheckDefer(r)
  <2>1. q.pc = "check" /\ UNCHANGED <<iesg, log, started, iana, lastcall, promise>>
    BY <1>9, <1>q DEF CheckDefer, state, dates
  <2>2. HistoryNow /\ AskedNow /\ promise = lastcall
    BY <1>t, <1>q, <2>1, FineRest
  <2>3. HistoryNow' /\ AskedNow' /\ promise' = lastcall'
    BY <2>1, <2>2 DEF HistoryNow, AskedNow
  <2>4. CASE n = Idle
    BY <2>3, <2>4 DEF Logged, Asks, Promises, Idle, Pends, Submits
  <2>5. ASSUME GetState("defer"), NEW d, n = Setting("undefer", "remove", "defer", "iesg-eva", "none", d)
        PROVE  Logged(n)' /\ Asks(n)' /\ Promises(n)'
    <3>1. started'
      BY <2>1, <2>2, <2>5, StateRead
    <3> QED BY <2>3, <2>5, <3>1 DEF Setting, Logged, Asks, Promises, Pends, Submits
  <2> QED BY <1>9, <1>t, <1>n, <2>4, <2>5 DEF CheckDefer
<1> QED
  BY <1>1, <1>2, <1>3, <1>4, <1>5, <1>6, <1>7, <1>8, <1>9 DEF Step

LEMMA FineNext ==
  ASSUME FineInv, [NextOK]_vars, \A p, q \in Req : p = q
  PROVE  FineInv'
<1>t. SerialInv'
  BY SerialNext DEF FineInv, Next
<1>1. ASSUME NEW r \in Req, Start(r) \/ Step(r) PROVE FineInv'
  BY <1>t, <1>1, FineStart, FineStep DEF FineInv
<1>2. ASSUME UNCHANGED <<iesg, log, started, lastcall, promise, req>>, iana # "none" => iana' # "none"
      PROVE  FineInv'
  BY <1>t, <1>2 DEF FineInv, Logged, HistoryNow, Asks, AskedNow, Promises
<1>3. ASSUME NEW b \in DOMAIN ballot, NEW ad \in Ad, NEW p \in Position, EditPosition(b, ad, p)
      PROVE  FineInv'
  BY <1>2, <1>3 DEF EditPosition, state, dates
<1>4. ASSUME NEW s \in {"need-rev", "done"}, ChangeIanaState(s)
      PROVE  FineInv'
  BY <1>2, <1>4 DEF ChangeIanaState, state, dates
<1>5. CASE Tick \/ UNCHANGED vars
  BY <1>2, <1>5 DEF Tick, vars, state, dates
<1> QED
  BY <1>1, <1>3, <1>4, <1>5 DEF NextOK

LEMMA FineInit == Init => FineInv
<1> SUFFICES ASSUME Init PROVE FineInv
  OBVIOUS
<1>1. HistoryNow /\ AskedNow /\ promise = lastcall
  BY DEF Init, HistoryNow, AskedNow, NoDate
<1>2. SerialInv /\ \A r \in Req : req[r] = Idle
  BY SerialInit DEF Init
<1> QED BY <1>1, <1>2, IdleFine DEF FineInv

LEMMA FineMove ==
  ASSUME \A p, q \in Req : p = q, failed \/ FineInv, [Fine \/ Fails]_<<vars, failed>>
  PROVE  failed' \/ FineInv'
<1>1. CASE ~failed'
  <2>1. ~failed /\ [NextOK]_vars
    BY <1>1 DEF Fine, Fails
  <2> QED BY <2>1, FineNext
<1> QED BY <1>1

\* When requests do not overlap and none has died: the event that was written
\* last names the state of the draft.
THEOREM HistoryTrue ==
  ASSUME \A p, q \in Req : p = q, Req # {}
  PROVE  MCFairSpec => []HistoryUnlessFailed
<1>1. MCInit => failed \/ FineInv
  BY FineInit DEF MCInit
<1>2. (failed \/ FineInv) /\ [Fine \/ Fails]_<<vars, failed>> => (failed \/ FineInv)'
  BY FineMove
<1>3. failed \/ FineInv => HistoryUnlessFailed
  BY FineRest DEF FineInv, HistoryUnlessFailed, HistoryIsTrue, Quiet, HistoryNow
<1> QED
  BY <1>1, <1>2, <1>3, PTL DEF MCFairSpec

\* change_state and make_last_call, under the same conditions: IANA was asked
\* about each Last Call.
THEOREM IanaIsAsked ==
  ASSUME \A p, q \in Req : p = q, Req # {}
  PROVE  MCFairSpec => []IanaUnlessFailed
<1>1. MCInit => failed \/ FineInv
  BY FineInit DEF MCInit
<1>2. (failed \/ FineInv) /\ [Fine \/ Fails]_<<vars, failed>> => (failed \/ FineInv)'
  BY FineMove
<1>3. failed \/ FineInv => IanaUnlessFailed
  BY FineRest DEF FineInv, IanaUnlessFailed, IanaAsked, Quiet, AskedNow
<1> QED
  BY <1>1, <1>2, <1>3, PTL DEF MCFairSpec

\* ... and expire-last-calls never ends a Last Call before the day that was
\* announced last.
THEOREM LastCallsUncut ==
  ASSUME \A p, q \in Req : p = q
  PROVE  MCFairSpec => LastCallUncutUnlessFailed
<1>1. MCInit => failed \/ FineInv
  BY FineInit DEF MCInit
<1>2. (failed \/ FineInv) /\ [Fine \/ Fails]_<<vars, failed>> => (failed \/ FineInv)'
  BY FineMove
<1>3. failed \/ FineInv => failed \/ ~CutsLastCall
  <2> SUFFICES ASSUME FineInv, NEW r \in Req, NEW prev, NEW s,
                      ExpireLastCall(r, prev, s), promise > today
               PROVE  FALSE
    BY DEF CutsLastCall
  <2>1. req[r].pc = "idle" /\ lastcall <= today
    BY DEF ExpireLastCall, LastCallOver, Load
  <2>2. promise = lastcall
    BY <2>1, FineRest DEF FineInv
  <2>3. promise \in Int /\ today \in Int
    BY DEF FineInv, SerialInv, TInv, TypeOK, Date, Day, NoDate
  <2> QED BY <2>1, <2>2, <2>3
<1>4. (failed \/ FineInv) => [failed \/ ~CutsLastCall]_vars
  BY <1>3
<1> QED
  BY <1>1, <1>2, <1>4, PTL DEF MCFairSpec, LastCallUncutUnlessFailed

=============================================================================
