--------------------------- MODULE SessionRequest ---------------------------
(***************************************************************************)
(* The Session rows of one group for one meeting: the request tool in      *)
(* secr/sreq and the scheduling pages in secr/meetings.  A request is made *)
(* on two pages, and the form is kept in the user's session in between; a  *)
(* scheduling page may have been loaded long before it is sent.  A handler *)
(* reads the rows and then writes them one by one, beside the handlers of  *)
(* other users, and may die before any write; a user sends one request at  *)
(* a time.  The conflicts of the group and the length of a session are     *)
(* left out.                                                               *)
(***************************************************************************)
EXTENDS Ascending

CONSTANTS User,        \* chairs of the group, ADs and the secretariat
          MaxRows      \* bound of the model: rows that are ever created

VARIABLES
  session,     \* session[i]: the row with id i, its status and its slots in the agenda;
               \* ghost odd: it is in the agenda although its status says that it does not
               \* meet, and something that OnAgendaCanMeet excepts made it so
  form,        \* form[u]: sessions asked for in the form user u has to confirm
  desk,        \* desk[u]: what the request of user u has still to write
  raced        \* ghost: more sessions wait than may, after something that
               \* TwoWithoutApproval excepts

sessionVars == <<session, form, desk, raced>>

Status == {"schedw", "apprw", "appr", "sched", "canceled", "notmeet", "deleted"}
Barred == {"notmeet", "deleted", "apprw"}     \* not in sessions_that_can_meet
Form   == {S \in SUBSET {1, 2, 3} : S = {} \/ 1 \in S}
Id     == 1..MaxRows
SessionRow ==
  [status : Status \cup {"none", "gone"}, slots : 0..2, odd : BOOLEAN]
Write  ==
  [do : {"withdraw", "drop", "assign", "free", "take", "delete"}, row : Id]
    \cup [do : {"save"}, row : Id, status : {"sched", "canceled", "appr"}]
    \cup [do : {"rewrite"}, row : Id, status : Status]
    \cup [do : {"create"}, status : {"schedw", "apprw", "notmeet"}, sees : 0..2]
    \cup [do : {"purge"}, states : SUBSET Status]
    \cup [do : {"ask", "forget"}]

TypeOK ==
  /\ session \in [Id -> SessionRow]
  /\ form \in [User -> Form]
  /\ desk \in [User -> Seq(Write)]
  /\ raced \in BOOLEAN

Fresh(status) == [status |-> status, slots |-> 0, odd |-> FALSE]

Init ==
  /\ session = [i \in Id |-> Fresh("none")]
  /\ form = [u \in User |-> {}] /\ desk = [u \in User |-> << >>]
  /\ raced = FALSE

With(states) == {i \in Id : session[i].status \in states}
Rows == With(Status)
Live == With(Status \ {"deleted", "canceled", "notmeet"})

\* A row stays odd until its status and its slots agree again.
Update(i, status, slots, excepted) ==
  session' = [session EXCEPT ![i] = [status |-> status, slots |-> slots,
                odd |-> (@.odd \/ excepted) /\ slots > 0 /\ status \in Barred]]

\* raced stays until two sessions wait again, or less.
Recount(excepted) == raced' = ((raced \/ excepted) /\ Cardinality(With({"schedw"})') > 2)

(***************************************************************************)
(* The pages of secr/sreq: what they read and what they will write         *)
(***************************************************************************)
On(do, i)         == [do |-> do, row |-> i]
Save(i, status)   == [do |-> "save", row |-> i, status |-> status]
Rewrite(i)        == [do |-> "rewrite", row |-> i, status |-> session[i].status]
Create(status, n) == [do |-> "create", status |-> status, sees |-> n]
Purge(states)     == [do |-> "purge", states |-> states]

Begin(u, writes) ==
  /\ desk[u] = << >> /\ writes # << >>
  /\ desk' = [desk EXCEPT ![u] = writes]
  /\ UNCHANGED <<session, form, raced>>

\* new checks that there is no request and keeps the form.
New(u) ==
  /\ desk[u] = << >> /\ Rows = With({"deleted", "notmeet"})
  /\ \E f \in Form \ {{}} : form' = [form EXCEPT ![u] = f]
  /\ UNCHANGED <<session, desk, raced>>

\* Mutant: the third session is asked for like the others
ThirdPlain(f) == IF 3 \in f THEN <<Create("schedw", 2)>> ELSE << >>

\* A third session needs the approval of an AD.
Third(f) == IF 3 \in f THEN <<Create("apprw", 0)>> ELSE << >>

\* confirm does not check again; the form is forgotten when the answer is sent.
Confirm(u) ==
  LET f == form[u] IN
    /\ f # {}
    /\ Begin(u, <<Purge({"canceled", "notmeet"}), Create("schedw", 0)>>
                  \o (IF 2 \in f THEN <<Create("schedw", 1)>> ELSE << >>) \o Third(f)
                  \o <<Purge({"notmeet"}), [do |-> "forget"]>>)

Discard(u) ==
  /\ desk[u] = << >> /\ form[u] # {}
  /\ form' = [form EXCEPT ![u] = {}] /\ UNCHANGED <<session, desk, raced>>

\* edit_mtg counts every row of the group, those that were withdrawn too.  Rows
\* there are are written back as they were read, or deleted.
Edit(u) ==
  LET row == Ascending(Rows)
      n   == Len(row)
      Old(k) == {<< >>, <<Rewrite(row[k])>>, <<On("delete", row[k])>>}
  IN /\ n > 0
     /\ \E first  \in {<< >>, <<Rewrite(row[1])>>},
           second \in IF n < 2 THEN {<< >>, <<Create("schedw", n)>>} ELSE Old(2),
           third  \in IF n < 3 THEN {<< >>, <<Create("apprw", 0)>>} ELSE Old(3) :
             Begin(u, first \o second \o third)

\* cancel withdraws the request, also one that was scheduled.
Cancel(u) ==
  LET row == Ascending(Rows) IN
    Begin(u, [k \in 1..Len(row) |-> On("withdraw", row[k])])

\* no_session, whatever sessions the group has
NoSession(u) == Begin(u, <<Purge({"canceled"}), [do |-> "ask"], Create("notmeet", 0)>>)

\* approve gets the one row that waits, and fails if there are two.
Approve(u) ==
  /\ Cardinality(With({"apprw"})) = 1
  /\ \E i \in With({"apprw"}) : Begin(u, <<Save(i, "appr")>>)

(***************************************************************************)
(* The pages of secr/meetings                                              *)
(***************************************************************************)
\* schedule: the row may have been withdrawn since the page was loaded, and it may
\* be one that no AD approved.  The next slot is freed, the row moves, its note is
\* saved (one that is saved with a move writes what the move wrote once more) and
\* the next slot is taken too.
Schedule(u, i) ==
  /\ i \in Rows /\ session[i].status # "notmeet"
  /\ \E free \in {<< >>, <<On("free", i)>>},
        move \in {<< >>, (IF session[i].slots > 0 THEN <<On("drop", i)>> ELSE << >>)
                            \o <<On("assign", i), Save(i, "sched")>>},
        note \in {<< >>, <<Rewrite(i)>>},
        combine \in {<< >>, <<On("assign", i)>>} :
          /\ free = << >> \/ session[i].slots = 2
          /\ combine = << >> \/ session[i].slots < 2
          /\ session[i].slots = 0 => move # << >>
          /\ move = << >> \/ note = << >>
          /\ Begin(u, free \o move \o note \o combine)

\* remove_session goes through all rows and ends at one that has no slot.  Of a
\* combined session it frees one slot.
Remove(u) ==
  LET row == Ascending(Rows) IN
    Begin(u, [k \in 1..Len(row) |-> On("take", row[k])])

\* notifications, for one slot of the agenda
Notify(u, i) ==
  /\ session[i].status = "schedw" /\ session[i].slots > 0
  /\ Begin(u, <<Save(i, "sched")>>)

\* scheduledsessions_post of the agenda editor takes any id; its page offers
\* those of sessions_that_can_meet.
Place(i) ==
  /\ i \in Rows /\ session[i].slots < 2
  /\ Update(i, session[i].status, session[i].slots + 1, TRUE)
  /\ UNCHANGED <<form, desk, raced>>

(***************************************************************************)
(* The writes                                                              *)
(***************************************************************************)
Then(u, writes) == desk' = [desk EXCEPT ![u] = writes \o Tail(@)]

\* The status first, then the slots.  save writes a row again that was deleted.
Withdraw(u, w) ==
  /\ w.do = "withdraw" /\ Update(w.row, "deleted", session[w.row].slots, FALSE)
  /\ Recount(FALSE) /\ Then(u, <<On("drop", w.row)>>) /\ UNCHANGED form

\* Mutant: the slots of a session that is withdrawn are kept
DropNothing(u, w) ==
  /\ w.do = "drop" /\ Then(u, << >>) /\ UNCHANGED <<session, form, raced>>

Drop(u, w) ==
  /\ w.do = "drop" /\ Update(w.row, session[w.row].status, 0, FALSE)
  /\ Then(u, << >>) /\ UNCHANGED <<form, raced>>

\* assign: the slot first, then the status
Assign(u, w) ==
  /\ w.do = "assign" /\ w.row \in Rows /\ session[w.row].slots < 2
  /\ Update(w.row, session[w.row].status, session[w.row].slots + 1, FALSE)
  /\ Then(u, <<Save(w.row, "sched")>>) /\ UNCHANGED <<form, raced>>

Free(u, w) ==
  LET old == session[w.row].slots IN
  /\ w.do = "free" /\ Update(w.row, session[w.row].status, IF old > 0 THEN old - 1 ELSE 0, FALSE)
  /\ Then(u, << >>) /\ UNCHANGED <<form, raced>>

\* Mutant: a row that has no slot does not end the loop
TakeAnyway(u, w) ==
  /\ w.do = "take" /\ Update(w.row, session[w.row].status, session[w.row].slots - 1, FALSE)
  /\ Then(u, <<Save(w.row, "canceled")>>) /\ UNCHANGED <<form, raced>>

Take(u, w) ==
  /\ w.do = "take" /\ session[w.row].slots > 0
  /\ Update(w.row, session[w.row].status, session[w.row].slots - 1, FALSE)
  /\ Then(u, <<Save(w.row, "canceled")>>) /\ UNCHANGED <<form, raced>>

SaveStatus(u, w) ==
  /\ w.do = "save" /\ Update(w.row, w.status, session[w.row].slots, FALSE)
  /\ Recount(FALSE) /\ Then(u, << >>) /\ UNCHANGED form

\* The status is the one that was read, whatever it has become.
WriteBack(u, w) ==
  LET stale == session[w.row].status # w.status IN
  /\ w.do = "rewrite" /\ Update(w.row, w.status, session[w.row].slots, stale)
  /\ Recount(stale) /\ Then(u, << >>) /\ UNCHANGED form

NewRow(u, w) ==
  /\ w.do = "create"
  /\ \E i \in Id :
       /\ session[i].status = "none" /\ \A j \in 1..i - 1 : session[j].status # "none"
       /\ session' = [session EXCEPT ![i] = Fresh(w.status)]
  /\ Recount(w.status = "schedw" /\ Cardinality(Live) > w.sees)
  /\ Then(u, << >>) /\ UNCHANGED form

Delete(u, w) ==
  /\ w.do \in {"delete", "purge"}
  /\ LET ended == IF w.do = "purge" THEN With(w.states) ELSE {w.row}
     IN session' = [i \in Id |-> IF i \in ended THEN Fresh("gone") ELSE session[i]]
  /\ Recount(FALSE) /\ Then(u, << >>) /\ UNCHANGED form

\* no_session is done if the group is marked as not meeting.
Ask(u, w) ==
  /\ w.do = "ask"
  /\ desk' = [desk EXCEPT ![u] = IF With({"notmeet"}) # {} THEN << >> ELSE Tail(@)]
  /\ UNCHANGED <<session, form, raced>>

Forget(u, w) ==
  /\ w.do = "forget" /\ form' = [form EXCEPT ![u] = {}]
  /\ Then(u, << >>) /\ UNCHANGED <<session, raced>>

\* w is the second of two writes that belong together, of the status and the slots of row i.
Repairs(w, i) ==
  (w.do = "drop" \/ (w.do = "save" /\ w.status = "sched")) /\ w.row = i

\* A request dies, or fails: at a row that has no slot, or that was deleted.  The
\* form it had to forget stays.
Die(u) ==
  /\ desk[u] # << >>
  /\ session' = [i \in Id |-> IF Repairs(Head(desk[u]), i)
                 THEN [session[i] EXCEPT !.odd = @ \/ (session[i].slots > 0 /\ session[i].status \in Barred)]
                 ELSE session[i]]
  /\ desk' = [desk EXCEPT ![u] = << >>] /\ UNCHANGED <<form, raced>>

Step(u) ==
  /\ desk[u] # << >>
  /\ LET w == Head(desk[u]) IN
       \/ Withdraw(u, w) \/ Drop(u, w) \/ Assign(u, w) \/ Free(u, w) \/ Take(u, w)
       \/ SaveStatus(u, w) \/ WriteBack(u, w) \/ NewRow(u, w) \/ Delete(u, w)
       \/ Ask(u, w) \/ Forget(u, w)

Request(u) ==
  \/ New(u) \/ Confirm(u) \/ Discard(u) \/ Edit(u) \/ Cancel(u) \/ NoSession(u) \/ Approve(u)
  \/ Remove(u) \/ \E i \in Id : Schedule(u, i) \/ Notify(u, i)

Next == (\E u \in User : Request(u) \/ Step(u) \/ Die(u)) \/ \E i \in Id : Place(i)

Spec == Init /\ [][Next]_sessionVars

(***************************************************************************)
(* Properties                                                              *)
(***************************************************************************)
\* The agenda and the status of a session agree: what is in the agenda has a
\* status of those that meet (the scheduling page makes whatever it is given, also
\* a session that was withdrawn or not approved, one that is scheduled).  Excepted
\* is a row that the agenda editor was made to place, one that some request is
\* about to put in order with the second of two writes, one whose request died just
\* there, and one that got back a status read before another request changed it.
OnAgendaCanMeet ==
  \A i \in Id : session[i].slots > 0 /\ session[i].status \in Barred =>
    session[i].odd \/ \E u \in User : desk[u] # << >> /\ Repairs(Head(desk[u]), i)

\* No group has more than two sessions that wait to be scheduled and nobody
\* approved.  Excepted is what the code does not check: a form that is confirmed
\* although the group has sessions by then (two chairs sent a first request, or a
\* request was sent again that died before it forgot its form), an edit that adds
\* a session although others did so after it had counted, and a status of a row
\* that is written back after another request changed it.
TwoWithoutApproval == raced \/ Cardinality(With({"schedw"})) <= 2
=============================================================================
