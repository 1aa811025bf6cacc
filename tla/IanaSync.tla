----------------------------- MODULE IanaSync -----------------------------
(***************************************************************************)
(* The IANA states of drafts as bin/iana-changes-updates and sync/iana     *)
(* keep them: IANA's log of changes is fetched for an interval, the oldest *)
(* change first, and each one not known yet is logged and takes effect     *)
(* unless something newer has happened.  Meanwhile IANA goes on deciding,  *)
(* and an upload sets the state of a draft and then logs it.               *)
(***************************************************************************)
EXTENDS Integers, FiniteSets

CONSTANTS Job,         \* processes that run the script
          Doc,         \* drafts
          Last         \* the clock stops here, a bound of the model

VARIABLES
  clock,       \* time, in units that tell changes apart
  changeLog,   \* IANA's log: the changes made so far
  ianaState,   \* ianaState[d]: state of one type, draft-iana-action or -review
  logged,      \* StateDocEvents of that type: what, and how many alike
  sync,        \* sync[j]: program counter and local variables
  revising,    \* drafts whose upload has set the state and not logged it yet
  fetched,     \* ghost: the changes that the script has been given
  overtaken    \* ghost: drafts whose upload came between a check of the script and
               \* its set, or that the script set between the two steps of an upload

ianaVars == <<clock, changeLog, ianaState, logged, sync, revising, fetched, overtaken>>

Time    == 1..Last
IanaSet == {"ok", "not-ok"}              \* states that IANA decides on
State   == IanaSet \cup {"changed"}      \* ... and one the datatracker sets
Change  == [doc : Doc, time : Time, state : State]

PC      == {"idle", "look", "record", "check", "set"}
Resting == [pc |-> "idle", todo |-> {}, prev |-> "none"]

TypeOK ==
  /\ clock \in 1..Last
  /\ changeLog \subseteq Change
  /\ ianaState \in [Doc -> State \cup {"none"}]
  /\ logged \in [Change -> 0..2]
  /\ fetched \subseteq Change
  /\ revising \subseteq Doc /\ overtaken \subseteq Doc
  /\ sync \in [Job -> [pc : PC, todo : SUBSET Change, prev : State \cup {"none"}]]

Init ==
  /\ clock = 1 /\ changeLog = {}
  /\ ianaState = [d \in Doc |-> "none"]
  /\ logged = [c \in Change |-> 0]
  /\ fetched = {} /\ revising = {} /\ overtaken = {}
  /\ sync = [j \in Job |-> Resting]

Logged == {c \in Change : logged[c] > 0}
Counted(c) == [logged EXCEPT ![c] = IF @ = 2 THEN 2 ELSE @ + 1]

\* The newest of a set of changes of draft d, if there is one
Newest(S, d) == {c \in S : c.doc = d /\ \A o \in S : o.doc = d => o.time <= c.time}

\* Mutant: the changes are taken in the order of the answer
Unsorted(j) == CHOOSE c \in sync[j].todo : \A o \in sync[j].todo : c.time >= o.time

\* The change a job is at, the oldest one left.
At(j) == CHOOSE c \in sync[j].todo : \A o \in sync[j].todo : c.time <= o.time

Tick ==
  /\ clock < Last /\ clock' = clock + 1
  /\ UNCHANGED <<changeLog, ianaState, logged, sync, revising, fetched, overtaken>>

\* Nothing else has happened to draft d at this time.
Fresh(d) == \A c \in changeLog \cup Logged : c.doc = d => c.time < clock

\* IANA changes the state of a draft.
Decide(d) ==
  /\ Fresh(d)
  /\ \E s \in IanaSet : changeLog' = changeLog \cup {[doc |-> d, time |-> clock, state |-> s]}
  /\ UNCHANGED <<clock, ianaState, logged, sync, revising, fetched, overtaken>>

\* A new revision asks for another review, see Submission ...
Revise(d) ==
  /\ ianaState[d] \in IanaSet /\ d \notin revising
  /\ ianaState' = [ianaState EXCEPT ![d] = "changed"]
  /\ revising' = revising \cup {d} /\ overtaken' = overtaken \ {d}
  /\ UNCHANGED <<clock, changeLog, logged, sync, fetched>>

\* ... and then logs that.
LogRevision(d) ==
  /\ d \in revising /\ Fresh(d) /\ revising' = revising \ {d}
  /\ logged' = Counted([doc |-> d, time |-> clock, state |-> "changed"])
  /\ overtaken' = overtaken \cup {e \in {d} : \E j \in Job : sync[j].pc = "set" /\ At(j).doc = d}
  /\ UNCHANGED <<clock, changeLog, ianaState, sync, fetched>>

UploadDies(d) ==
  /\ d \in revising /\ revising' = revising \ {d}
  /\ UNCHANGED <<clock, changeLog, ianaState, logged, sync, fetched, overtaken>>

\* The interval asked for; the server answers with what is in its log.
Fetch(j, from, to) ==
  LET got == {c \in changeLog : c.time \in from..to} IN
    /\ sync[j].pc = "idle" /\ got # {}
    /\ sync' = [sync EXCEPT ![j] = [pc |-> "look", todo |-> got, prev |-> "none"]]
    /\ fetched' = fetched \cup got
    /\ UNCHANGED <<clock, changeLog, ianaState, logged, revising, overtaken>>

GoesTo(j, pc) == sync' = [sync EXCEPT ![j].pc = pc]
Passed(j) ==
  LET rest == sync[j].todo \ {At(j)}
  IN sync' = [sync EXCEPT ![j] = IF rest = {} THEN Resting
                                 ELSE [pc |-> "look", todo |-> rest, prev |-> "none"]]

\* Mutant: what is known already is taken again
KnownNever(c) == FALSE

\* Known by time, type and state; the query does not name the document.
Known(c) == \E r \in Logged : r.time = c.time /\ r.state = c.state

Look(j) ==
  /\ sync[j].pc = "look"
  /\ IF Known(At(j)) THEN Passed(j)
     ELSE sync' = [sync EXCEPT ![j].pc = "record", ![j].prev = ianaState[At(j).doc]]
  /\ UNCHANGED <<clock, changeLog, ianaState, logged, revising, fetched, overtaken>>

\* add_state_change_event records nothing for a state the draft has.
Record(j) ==
  /\ sync[j].pc = "record" /\ GoesTo(j, "check")
  /\ logged' = IF sync[j].prev = At(j).state THEN logged ELSE Counted(At(j))
  /\ UNCHANGED <<clock, changeLog, ianaState, revising, fetched, overtaken>>

\* Mutant: the state is set, whatever has happened since
CheckNothing(j) ==
  /\ sync[j].pc = "check" /\ GoesTo(j, "set")
  /\ UNCHANGED <<clock, changeLog, ianaState, logged, revising, fetched, overtaken>>

\* An event that is newer decides.
Check(j) ==
  /\ sync[j].pc = "check"
  /\ IF \E r \in Logged : r.doc = At(j).doc /\ r.time > At(j).time
     THEN Passed(j) ELSE GoesTo(j, "set")
  /\ UNCHANGED <<clock, changeLog, ianaState, logged, revising, fetched, overtaken>>

\* Whoever sets the newest event puts a draft right.
Set(j) ==
  /\ sync[j].pc = "set" /\ Passed(j)
  /\ LET d == At(j).doc IN
       /\ ianaState' = [ianaState EXCEPT ![d] = At(j).state]
       /\ overtaken' = IF d \in revising THEN overtaken \cup {d}
                       ELSE overtaken \ {e \in {d} : At(j) \in Newest(Logged, d)}
  /\ UNCHANGED <<clock, changeLog, logged, revising, fetched>>

Killed(j) ==
  /\ sync[j].pc # "idle" /\ sync' = [sync EXCEPT ![j] = Resting]
  /\ UNCHANGED <<clock, changeLog, ianaState, logged, revising, fetched, overtaken>>

Step(j) == Look(j) \/ Record(j) \/ Check(j) \/ Set(j)
Asleep  == \A j \in Job : sync[j].pc = "idle"

\* The script is run up to the present ...
FetchNow(j) == \E from \in Time : Fetch(j, from, clock)
\* ... or by hand for any period.
FetchOld(j) == \E from, to \in Time : Fetch(j, from, to)

World  == Tick \/ \E d \in Doc : Decide(d) \/ Revise(d) \/ LogRevision(d)
NextOK == World \/ \E j \in Job : FetchNow(j) \/ FetchOld(j) \/ Step(j)
Abort  == (\E j \in Job : Killed(j)) \/ \E d \in Doc : UploadDies(d)

Spec   == Init /\ [][NextOK \/ Abort]_ianaVars
SpecOK == Init /\ [][NextOK]_ianaVars

(***************************************************************************)
(* Properties                                                              *)
(***************************************************************************)
\* No upload is under way, and none was overtaken since the state was right.
Settled(d) == d \notin revising /\ d \notin overtaken

\* The state of a draft is that of its newest event, however the intervals
\* were chosen and whatever happened meanwhile.  Excepted is the race that the
\* code leaves open: the script checks for newer events and then sets the state,
\* an upload sets it and then logs it.  A draft overtaken so has the wrong state
\* until a change that is logged, or an upload, puts it right.
StateIsNewestEvent ==
  Asleep => \A d \in Doc : \A c \in Newest(Logged, d) : Settled(d) => ianaState[d] = c.state

\* Two drafts were given the same state at the same time: Known takes the one
\* for the other.
Coincides(c) == \E o \in fetched : o.doc # c.doc /\ o.time = c.time /\ o.state = c.state

\* When every interval ended in the present, the state of a draft is that of the
\* newest change that anyone has made to it and the script has been given, in
\* whichever order and however often it was, gaps included; with the same exception.
StateIsNewestChange ==
  Asleep => \A d \in Doc : \A c \in Newest(fetched \cup {r \in Logged : r.state = "changed"}, d) :
              Settled(d) => Coincides(c) \/ ianaState[d] = c.state

\* No change is logged twice, however often it is fetched.
LoggedOnce == \A c \in Change : logged[c] <= 1
=============================================================================
