---------------------------- MODULE FeedsProofs ----------------------------
(***************************************************************************)
(* The parts of MCDatatracker that exchange something with the world       *)
(* outside: the queue of scheduled mail, the changes that IANA publishes   *)
(* and the queue of the RFC Editor; for every value of their constants.    *)
(***************************************************************************)
EXTENDS MCDatatracker, WellFoundedInduction, SequenceTheorems, TLAPS

\* Nothing but the part a behaviour is about moves.
LEMMA PartStays == ASSUME [MCNext]_allVars PROVE part' = part
BY DEF MCNext, allVars, CharterMoves, MilestonesMove, IanaMoves, QueueMoves, NominationsMove,
       SessionsMove, MaterialsMove, MailMoves, ListsMove

(***************************************************************************)
(* sync/iana                                                               *)
(***************************************************************************)
\* The newest event of a draft, among those of one draft and time there is only one.
Events == changeLog \cup Ia!Logged
OneEach == \A c, o \in Events : c.doc = o.doc /\ c.time = o.time => c = o

\* What the script knows is in IANA's log; what was logged and is not of the
\* datatracker itself has been fetched.
IanaRows ==
  /\ clock \in Ia!Time /\ changeLog \subseteq Ia!Change
  /\ \A c \in changeLog : c.state \in Ia!IanaSet /\ c.time <= clock
  /\ ianaState \in [Doc -> Ia!State \cup {"none"}]
  /\ logged \in [Ia!Change -> 0..2]
  /\ fetched \subseteq changeLog /\ revising \subseteq Doc /\ overtaken \subseteq Doc
  /\ \A c \in Ia!Logged : c.state = "changed" \/ c \in fetched
  /\ OneEach /\ Ia!LoggedOnce

\* A run has changes left, and is about to log only what is not known yet.
IanaRun ==
  /\ sync \in [Job -> [pc : Ia!PC, todo : SUBSET Ia!Change, prev : Ia!State \cup {"none"}]]
  /\ \A j \in Job :
       /\ sync[j].todo \subseteq fetched
       /\ sync[j].pc # "idle" => sync[j].todo # {}
       /\ sync[j].pc = "idle" => sync[j].todo = {}
       /\ sync[j].pc = "record" => ~Ia!Known(Ia!At(j))

IanaBase == IanaRows /\ IanaRun

\* Draft d has the state of its newest event.
Consistent(d) == \A c \in Ia!Newest(Ia!Logged, d) : ianaState[d] = c.state

\* Unless an event is newer than change a, nothing new, or a itself, is the newest.
Alike(a) == \A c \in Ia!Newest(Ia!Logged, a.doc) : c.time > a.time \/ c.state = a.state

\* ... and the state of the draft is that of an event that is newer.
Deciding(a) == Alike(a) /\ \A c \in Ia!Newest(Ia!Logged, a.doc) : c.time > a.time => ianaState[a.doc] = c.state

\* A draft that was not overtaken has the state its upload has set and not logged,
\* or else that of its newest event, unless a run is about to decide on it.
DraftSound(d) ==
  IF d \in revising THEN ianaState[d] = "changed"
  ELSE Consistent(d) \/ \E j \in Job : sync[j].pc \in {"check", "set"} /\ d = Ia!At(j).doc

RunSound(j) ==
  /\ sync[j].pc = "record" /\ sync[j].prev = Ia!At(j).state => Alike(Ia!At(j))
  /\ sync[j].pc \in {"check", "set"} => Deciding(Ia!At(j))
  /\ sync[j].pc = "set" => \A r \in Ia!Logged : r.doc = Ia!At(j).doc => r.time <= Ia!At(j).time

IanaSound ==
  /\ \A d \in Doc : d \in overtaken \/ DraftSound(d)
  /\ \A j \in Job : Ia!Settled(Ia!At(j).doc) => RunSound(j)

\* The changes of draft d that count: those fetched and those of the datatracker
Heard == fetched \cup {r \in Ia!Logged : r.state = "changed"}

\* A run has everything that was fetched and is newer than what it has left; what it
\* has been through is in force unless something newer is known.
IanaCurrent ==
  /\ \A j \in Job : \A a \in sync[j].todo : \A c \in fetched : c.time > a.time => c \in sync[j].todo
  /\ \A c \in fetched :
       \/ (\E j \in Job : c \in sync[j].todo) \/ ~Ia!Settled(c.doc)
       \/ c \notin Ia!Newest(Heard, c.doc) \/ Ia!Coincides(c) \/ ianaState[c.doc] = c.state

IanaInv ==
  /\ IanaBase
  /\ failed \/ IanaSound
  /\ failed \/ late \/ IanaCurrent

\* The oldest of a set of changes
LEMMA OldestExists ==
  ASSUME NEW S \in SUBSET Ia!Change, S # {}, Last \in Nat
  PROVE  \E c \in S : \A o \in S : c.time <= o.time
<1> DEFINE T == {c.time : c \in S}
<1>1. T \subseteq Nat /\ T # {}
  BY DEF Ia!Change, Ia!Time
<1>2. PICK t \in T : \A o \in T : ~ (<<o, t>> \in OpToRel(<, Nat))
  BY <1>1, NatLessThanWellFounded, WFMin
<1>3. PICK c \in S : t = c.time
  BY <1>2
<1>4. ASSUME NEW o \in S PROVE c.time <= o.time
  <2>1. o.time \in T /\ o.time \in Nat /\ t \in Nat
    BY <1>1
  <2>2. ~ (o.time < t)
    BY <1>2, <2>1 DEF OpToRel
  <2> QED BY <1>3, <2>1, <2>2
<1> QED BY <1>3, <1>4

LEMMA AtOldest ==
  ASSUME Last \in Nat, IanaBase, NEW j \in Job, sync[j].pc # "idle"
  PROVE  /\ Ia!At(j) \in sync[j].todo /\ Ia!At(j) \in fetched /\ Ia!At(j) \in Ia!Change
         /\ \A o \in sync[j].todo : Ia!At(j).time <= o.time
<1>1. sync[j].todo # {} /\ sync[j].todo \in SUBSET Ia!Change /\ sync[j].todo \subseteq fetched
  BY DEF IanaBase, IanaRun
<1> QED BY <1>1, OldestExists DEF Ia!At

LEMMA IanaTimes ==
  ASSUME Last \in Nat, IanaBase
  PROVE  /\ \A c \in Events : c \in Ia!Change /\ c.time \in Nat /\ c.doc \in Doc
         /\ clock \in Nat
         /\ fetched \subseteq Events /\ Ia!Logged \subseteq Events
BY DEF IanaBase, IanaRows, Events, Ia!Logged, Ia!Change, Ia!Time

LEMMA IanaInit ==
  ASSUME Last \in Nat \ {0}, MCInit, part = "iana" PROVE IanaInv
<1>1. Ia!Init /\ failed = FALSE
  BY DEF MCInit
<1>2. Ia!Logged = {}
  BY <1>1 DEF Ia!Init, Ia!Logged
<1>3. IanaRows
  BY <1>1, <1>2 DEF Ia!Init, IanaRows, OneEach, Events, Ia!LoggedOnce, Ia!Time, Ia!State
<1>4. IanaRun
  BY <1>1 DEF Ia!Init, IanaRun, Ia!Resting, Ia!PC
<1>5. IanaSound
  BY <1>1, <1>2 DEF Ia!Init, IanaSound, DraftSound, RunSound, Consistent, Ia!Newest, Ia!Resting
<1>6. IanaCurrent
  BY <1>1 DEF Ia!Init, IanaCurrent, Ia!Resting
<1> QED BY <1>3, <1>4, <1>5, <1>6 DEF IanaInv, IanaBase

\* A run that is at work, under the name the proofs use: the only job.
OneJob == \A i, j \in Job : i = j

\* What no step but those that log or take up a change touches
LEMMA IanaKept ==
  ASSUME UNCHANGED <<ianaState, logged, sync, revising, fetched, overtaken>>
  PROVE  /\ Ia!Logged' = Ia!Logged /\ IanaRun' = IanaRun
         /\ IanaSound' = IanaSound /\ IanaCurrent' = IanaCurrent
<1>1. Ia!Logged' = Ia!Logged /\ (\A j : Ia!At(j)' = Ia!At(j))
  BY DEF Ia!Logged, Ia!At
<1>2. IanaRun' = IanaRun
  BY <1>1 DEF IanaRun, Ia!Known
<1>3. IanaSound' = IanaSound
  BY <1>1 DEF IanaSound, DraftSound, RunSound, Consistent, Alike, Deciding, Ia!Newest, Ia!Settled
<1>4. IanaCurrent' = IanaCurrent
  BY <1>1 DEF IanaCurrent, Heard, Ia!Newest, Ia!Coincides, Ia!Settled
<1> QED BY <1>1, <1>2, <1>3, <1>4

\* Logging something that was not logged before
LEMMA Counting ==
  ASSUME logged \in [Ia!Change -> 0..2], Ia!LoggedOnce,
         NEW c \in Ia!Change, c \notin Ia!Logged, logged' = Ia!Counted(c)
  PROVE  /\ logged' \in [Ia!Change -> 0..2] /\ Ia!LoggedOnce'
         /\ Ia!Logged' = Ia!Logged \cup {c}
<1>1. logged[c] = 0
  BY DEF Ia!Logged
<1>2. logged' = [logged EXCEPT ![c] = 1]
  BY <1>1 DEF Ia!Counted
<1> QED BY <1>2 DEF Ia!LoggedOnce, Ia!Logged

\* What is logged counts, the datatracker's own and what was fetched.
LEMMA LoggedIsHeard == ASSUME IanaBase PROVE Ia!Logged \subseteq Heard
BY DEF IanaBase, IanaRows, Heard

LEMMA IanaTick ==
  ASSUME Last \in Nat \ {0}, IanaInv, Ia!Tick, Works PROVE IanaInv'
<1>1. /\ Ia!Logged' = Ia!Logged /\ IanaRun' = IanaRun
      /\ IanaSound' = IanaSound /\ IanaCurrent' = IanaCurrent
  BY IanaKept DEF Ia!Tick
<1>2. clock \in Nat /\ clock' \in Ia!Time /\ clock <= clock'
  BY DEF Ia!Tick, Ia!Time, IanaInv, IanaBase, IanaRows
<1>3. IanaRows
  BY DEF IanaInv, IanaBase
<1>4. \A c \in changeLog' : c.state \in Ia!IanaSet /\ c.time <= clock'
  <2>1. \A c \in changeLog : c.time \in Nat
    BY <1>3 DEF IanaRows, Ia!Change, Ia!Time
  <2>2. clock' \in Nat
    BY <1>2 DEF Ia!Time
  <2> QED BY <1>2, <1>3, <2>1, <2>2 DEF IanaRows, Ia!Tick
<1>5. OneEach' /\ Ia!LoggedOnce'
  BY <1>1, <1>3 DEF IanaRows, OneEach, Events, Ia!LoggedOnce, Ia!Tick
<1>6. IanaRows'
  BY <1>1, <1>2, <1>3, <1>4, <1>5 DEF IanaRows, Ia!Tick
<1> QED BY <1>1, <1>6 DEF IanaInv, IanaBase, Works

\* Nobody works on a change.
LEMMA IanaIdle ==
  ASSUME IanaBase, Ia!Asleep
  PROVE  /\ \A j \in Job : sync[j].todo = {} /\ sync[j].pc = "idle"
         /\ IanaSound => \A d \in Doc : Ia!Settled(d) => Consistent(d)
BY DEF IanaBase, IanaRun, IanaSound, DraftSound, Ia!Settled, Ia!Asleep

LEMMA IanaDecides ==
  ASSUME Last \in Nat \ {0}, IanaInv, NEW d \in Doc, Ia!Decide(d), Works
  PROVE  IanaInv'
<1>1. IanaRows /\ IanaRun /\ IanaBase
  BY DEF IanaInv, IanaBase
<1>2. PICK s \in Ia!IanaSet : changeLog' = changeLog \cup {[doc |-> d, time |-> clock, state |-> s]}
  BY DEF Ia!Decide
<1> DEFINE n == [doc |-> d, time |-> clock, state |-> s]
<1>3. n \in Ia!Change /\ n.doc = d /\ n.time = clock /\ n.state = s /\ clock \in Nat
  BY <1>1 DEF IanaRows, Ia!Change, Ia!State, Ia!Time
<1>4. UNCHANGED <<clock, ianaState, logged, sync, revising, fetched, overtaken>> /\ Ia!Fresh(d)
  BY DEF Ia!Decide
<1>5. changeLog' = changeLog \cup {n}
  BY <1>2
<1> HIDE DEF n
<1>6. /\ Ia!Logged' = Ia!Logged /\ IanaRun' = IanaRun
      /\ IanaSound' = IanaSound /\ IanaCurrent' = IanaCurrent
  BY <1>4, IanaKept
<1>7. OneEach'
  <2>1. \A c \in Events : c.doc = d => c.time < clock /\ c.time \in Nat
    BY <1>1, <1>4, IanaTimes DEF Events, Ia!Fresh
  <2>2. Events' = Events \cup {n}
    BY <1>5, <1>6 DEF Events
  <2>3. OneEach
    BY <1>1 DEF IanaRows
  <2> QED BY <1>3, <2>1, <2>2, <2>3 DEF OneEach
<1>8. IanaRows'
  <2>1. Ia!LoggedOnce'
    BY <1>1, <1>4 DEF IanaRows, Ia!LoggedOnce
  <2>2. \A c \in changeLog' : c.state \in Ia!IanaSet /\ c.time <= clock'
    BY <1>1, <1>3, <1>4, <1>5 DEF IanaRows
  <2> QED BY <1>1, <1>3, <1>4, <1>5, <1>6, <1>7, <2>1, <2>2 DEF IanaRows
<1> QED BY <1>1, <1>4, <1>6, <1>8 DEF IanaInv, IanaBase, Works

LEMMA IanaRevises ==
  ASSUME Last \in Nat \ {0}, IanaInv, NEW d \in Doc, Ia!Revise(d), Works
  PROVE  IanaInv'
<1>1. IanaRows /\ IanaRun /\ IanaBase
  BY DEF IanaInv, IanaBase
<1>2. /\ UNCHANGED <<clock, changeLog, logged, sync, fetched>>
      /\ ianaState' = [ianaState EXCEPT ![d] = "changed"]
      /\ revising' = revising \cup {d} /\ overtaken' = overtaken \ {d}
  BY DEF Ia!Revise
<1>3. Ia!Logged' = Ia!Logged /\ (\A j : Ia!At(j)' = Ia!At(j))
  BY <1>2 DEF Ia!Logged, Ia!At
<1>4. ianaState' \in [Doc -> Ia!State \cup {"none"}] /\ ianaState'[d] = "changed"
      /\ \A e \in Doc \ {d} : ianaState'[e] = ianaState[e]
  BY <1>1, <1>2 DEF IanaRows, Ia!State
<1>5. IanaRows'
  BY <1>1, <1>2, <1>3, <1>4 DEF IanaRows, OneEach, Events, Ia!LoggedOnce
<1>6. IanaRun'
  BY <1>1, <1>2, <1>3 DEF IanaRun, Ia!Known
<1>7. ~Ia!Settled(d)' /\ \A e \in Doc \ {d} : Ia!Settled(e)' = Ia!Settled(e)
  BY <1>2 DEF Ia!Settled
<1>8. \A j \in Job : sync[j].pc # "idle" => Ia!At(j).doc \in Doc
  BY <1>1, AtOldest, IanaTimes DEF Events
<1>9. IanaSound => IanaSound'
  <2> SUFFICES ASSUME IanaSound PROVE IanaSound'
    OBVIOUS
  <2>1. ASSUME NEW e \in Doc PROVE e \in overtaken' \/ DraftSound(e)'
    <3>1. CASE e = d
      BY <1>2, <1>4, <3>1 DEF DraftSound
    <3>2. CASE e # d
      <4>1. e \in overtaken \/ DraftSound(e)
        BY DEF IanaSound
      <4> QED BY <1>2, <1>3, <1>4, <3>2, <4>1 DEF DraftSound, Consistent, Ia!Newest
    <3> QED BY <3>1, <3>2
  <2>2. ASSUME NEW j \in Job, Ia!Settled(Ia!At(j).doc)' PROVE RunSound(j)'
    <3>1. CASE sync[j].pc = "idle"
      BY <1>2, <3>1 DEF RunSound
    <3>2. CASE sync[j].pc # "idle"
      <4>1. Ia!At(j).doc \in Doc \ {d}
        BY <1>3, <1>7, <1>8, <2>2, <3>2
      <4>2. RunSound(j)
        BY <1>3, <1>7, <2>2, <4>1 DEF IanaSound
      <4> QED BY <1>2, <1>3, <1>4, <4>1, <4>2 DEF RunSound, Alike, Deciding, Ia!Newest
    <3> QED BY <3>1, <3>2
  <2> QED BY <2>1, <2>2 DEF IanaSound
<1>10. IanaCurrent => IanaCurrent'
  <2>1. Heard' = Heard /\ (\A c : Ia!Coincides(c)' = Ia!Coincides(c))
        /\ \A c \in fetched : c.doc \in Doc
    BY <1>1, <1>2, <1>3, IanaTimes DEF Heard, Ia!Coincides, Events
  <2>2. ASSUME IanaCurrent, NEW c \in fetched
        PROVE  \/ (\E j \in Job : c \in sync[j].todo) \/ ~Ia!Settled(c.doc)'
               \/ c \notin Ia!Newest(Heard, c.doc) \/ Ia!Coincides(c) \/ ianaState'[c.doc] = c.state
    BY <1>4, <1>7, <2>1, <2>2 DEF IanaCurrent
  <2> QED BY <1>2, <2>1, <2>2 DEF IanaCurrent, Ia!Newest
<1> QED BY <1>5, <1>6, <1>9, <1>10 DEF IanaInv, IanaBase, Works

LEMMA IanaLogsRevision ==
  ASSUME Last \in Nat \ {0}, IanaInv, NEW d \in Doc, Ia!LogRevision(d), Works
  PROVE  IanaInv'
<1>1. IanaRows /\ IanaRun /\ IanaBase
  BY DEF IanaInv, IanaBase
<1> DEFINE n == [doc |-> d, time |-> clock, state |-> "changed"]
<1>3. n \in Ia!Change /\ n.doc = d /\ n.time = clock /\ n.state = "changed" /\ clock \in Nat
  BY <1>1 DEF IanaRows, Ia!Change, Ia!State, Ia!Time
<1>4. /\ UNCHANGED <<clock, changeLog, ianaState, sync, fetched>> /\ Ia!Fresh(d)
      /\ d \in revising /\ revising' = revising \ {d} /\ logged' = Ia!Counted(n)
      /\ overtaken' = overtaken \cup {e \in {d} : \E j \in Job : sync[j].pc = "set" /\ Ia!At(j).doc = d}
  BY DEF Ia!LogRevision
<1> HIDE DEF n
<1>5. \A c \in Events : c.doc = d => c.time < clock /\ c.time \in Nat
  BY <1>1, <1>4, IanaTimes DEF Events, Ia!Fresh
<1>6. n \notin Ia!Logged
  BY <1>3, <1>5 DEF Events
<1>7. /\ logged' \in [Ia!Change -> 0..2] /\ Ia!LoggedOnce'
      /\ Ia!Logged' = Ia!Logged \cup {n}
  BY <1>1, <1>3, <1>4, <1>6, Counting DEF IanaRows
<1>8. Events' = Events \cup {n} /\ (\A j : Ia!At(j)' = Ia!At(j))
  BY <1>4, <1>7 DEF Events, Ia!At
<1>9. OneEach'
  BY <1>1, <1>3, <1>5, <1>8 DEF OneEach, IanaRows
<1>10. IanaRows'
  BY <1>1, <1>3, <1>4, <1>7, <1>9 DEF IanaRows
<1>11. \A j \in Job : sync[j].pc # "idle" =>
         Ia!At(j) \in fetched /\ Ia!At(j) \in Events /\ Ia!At(j).doc \in Doc /\ Ia!At(j).state \in Ia!IanaSet
  BY <1>1, AtOldest, IanaTimes DEF Events, IanaRows
<1>12. IanaRun'
  <2>1. ASSUME NEW j \in Job, sync[j].pc = "record" PROVE ~Ia!Known(Ia!At(j))'
    <3>1. ~Ia!Known(Ia!At(j)) /\ Ia!At(j).state # "changed"
      BY <1>1, <1>11, <2>1 DEF IanaRun, Ia!IanaSet
    <3> QED BY <1>3, <1>7, <1>8, <3>1 DEF Ia!Known
  <2> QED BY <1>1, <1>4, <1>8, <2>1 DEF IanaRun
<1>13. ASSUME NEW S, S \subseteq Events
       PROVE  /\ Ia!Newest(S \cup {n}, d) = {n}
              /\ \A e \in Doc \ {d} : Ia!Newest(S \cup {n}, e) = Ia!Newest(S, e)
  <2>1. \A c \in S : c.doc = d => c.time < clock /\ c.time \in Nat
    BY <1>5, <1>13
  <2> QED BY <1>3, <2>1 DEF Ia!Newest
<1>14. /\ Ia!Newest(Ia!Logged, d)' = {n}
       /\ \A e \in Doc \ {d} : Ia!Newest(Ia!Logged, e)' = Ia!Newest(Ia!Logged, e)
  <2>1. Ia!Logged \subseteq Events
    BY DEF Events
  <2> QED BY <1>7, <1>13, <2>1 DEF Ia!Newest
<1>15. \A e \in Doc \ {d} : Ia!Settled(e)' = Ia!Settled(e)
  BY <1>4 DEF Ia!Settled
<1>16. IanaSound => IanaSound'
  <2> SUFFICES ASSUME IanaSound PROVE IanaSound'
    OBVIOUS
  <2>0. d \in overtaken \/ ianaState[d] = "changed"
    BY <1>4 DEF IanaSound, DraftSound
  <2>1. ASSUME NEW e \in Doc PROVE e \in overtaken' \/ DraftSound(e)'
    <3>1. CASE e = d
      BY <1>3, <1>4, <1>14, <2>0, <3>1 DEF DraftSound, Consistent
    <3>2. CASE e # d
      <4>1. e \in overtaken \/ DraftSound(e)
        BY DEF IanaSound
      <4> QED BY <1>4, <1>8, <1>14, <3>2, <4>1 DEF DraftSound, Consistent
    <3> QED BY <3>1, <3>2
  <2>2. ASSUME NEW j \in Job, Ia!Settled(Ia!At(j).doc)' PROVE RunSound(j)'
    <3>1. CASE sync[j].pc = "idle"
      BY <1>4, <3>1 DEF RunSound
    <3>2. CASE sync[j].pc # "idle" /\ Ia!At(j).doc # d
      <4>1. Ia!At(j).doc \in Doc \ {d}
        BY <1>11, <3>2
      <4>2. RunSound(j)
        BY <1>8, <1>15, <2>2, <4>1 DEF IanaSound
      <4>3. \A r \in Ia!Logged' : r.doc = Ia!At(j).doc => r \in Ia!Logged
        BY <1>3, <1>7, <4>1
      <4> QED BY <1>4, <1>8, <1>14, <4>1, <4>2, <4>3 DEF RunSound, Alike, Deciding
    <3>3. CASE sync[j].pc # "idle" /\ Ia!At(j).doc = d
      <4>1. Ia!At(j).time < clock /\ sync[j].pc # "set" /\ d \notin overtaken /\ Ia!At(j).time \in Nat
        BY <1>4, <1>5, <1>8, <1>11, <2>2, <3>3 DEF Ia!Settled
      <4> QED BY <1>3, <1>4, <1>8, <1>14, <2>0, <3>3, <4>1 DEF RunSound, Alike, Deciding
    <3> QED BY <3>1, <3>2, <3>3
  <2> QED BY <2>1, <2>2 DEF IanaSound
<1>17. IanaCurrent => IanaCurrent'
  <2>1. Heard' = Heard \cup {n} /\ Heard \subseteq Events
    BY <1>1, <1>3, <1>4, <1>7, IanaTimes DEF Heard
  <2>2. ASSUME IanaCurrent, NEW c \in fetched
        PROVE  \/ (\E j \in Job : c \in sync[j].todo) \/ ~Ia!Settled(c.doc)'
               \/ c \notin Ia!Newest(Heard, c.doc)' \/ Ia!Coincides(c)' \/ ianaState'[c.doc] = c.state
    <3>1. c \in Events /\ c.doc \in Doc
      BY <1>1, IanaTimes
    <3>2. CASE c.doc = d
      <4>1. c # n
        BY <1>3, <1>5, <3>1, <3>2
      <4>2. Ia!Newest(Heard, d)' = {n}
        BY <1>13, <2>1 DEF Ia!Newest
      <4> QED BY <3>2, <4>1, <4>2
    <3>3. CASE c.doc # d
      <4>1. Ia!Newest(Heard, c.doc)' = Ia!Newest(Heard, c.doc)
        BY <1>13, <2>1, <3>1, <3>3 DEF Ia!Newest
      <4>2. \/ (\E j \in Job : c \in sync[j].todo) \/ ~Ia!Settled(c.doc)
            \/ c \notin Ia!Newest(Heard, c.doc) \/ Ia!Coincides(c) \/ ianaState[c.doc] = c.state
        BY <2>2 DEF IanaCurrent
      <4> QED BY <1>4, <1>15, <3>1, <3>3, <4>1, <4>2 DEF Ia!Coincides
    <3> QED BY <3>2, <3>3
  <2> QED BY <1>4, <2>2 DEF IanaCurrent
<1> QED BY <1>10, <1>12, <1>16, <1>17 DEF IanaInv, IanaBase, Works

LEMMA IanaFetches ==
  ASSUME Last \in Nat \ {0}, OneJob, IanaInv, NEW j \in Job, NEW from \in Ia!Time, NEW to \in Ia!Time,
         Ia!Fetch(j, from, to)
  PROVE  IanaBase' /\ (IanaSound => IanaSound') /\ (to = clock /\ IanaCurrent => IanaCurrent')
<1>1. IanaRows /\ IanaRun /\ IanaBase
  BY DEF IanaInv, IanaBase
<1> DEFINE got == {c \in changeLog : c.time \in from..to}
<1>2. /\ sync[j].pc = "idle" /\ got # {}
      /\ sync' = [sync EXCEPT ![j] = [pc |-> "look", todo |-> got, prev |-> "none"]]
      /\ fetched' = fetched \cup got
      /\ UNCHANGED <<clock, changeLog, ianaState, logged, revising, overtaken>>
  BY DEF Ia!Fetch
<1>3. got \subseteq changeLog /\ (\A c \in got : c.time >= from /\ c.time <= to)
      /\ (\A c \in changeLog : c.time >= from /\ c.time <= to => c \in got)
  BY <1>1, IanaTimes DEF Events, Ia!Time
<1> HIDE DEF got
<1>4. sync'[j] = [pc |-> "look", todo |-> got, prev |-> "none"] /\ (\A i \in Job : i = j)
  BY <1>1, <1>2 DEF IanaRun, OneJob
<1>5. Ia!Logged' = Ia!Logged
  BY <1>2 DEF Ia!Logged
<1>6. IanaRows'
  BY <1>1, <1>2, <1>3, <1>5 DEF IanaRows, OneEach, Events, Ia!LoggedOnce
<1>7. IanaRun'
  BY <1>1, <1>2, <1>3, <1>4 DEF IanaRun, IanaRows, Ia!PC
<1>8. IanaSound => IanaSound'
  <2>1. ASSUME NEW d \in Doc PROVE Consistent(d)' = Consistent(d)
    BY <1>2, <1>5 DEF Consistent, Ia!Newest
  <2>2. ASSUME IanaSound, NEW d \in Doc PROVE d \in overtaken' \/ DraftSound(d)'
    <3>1. d \in overtaken \/ DraftSound(d)
      BY <2>2 DEF IanaSound
    <3> QED BY <1>2, <1>4, <2>1, <3>1 DEF DraftSound
  <2>3. ASSUME NEW i \in Job PROVE RunSound(i)'
    BY <1>4 DEF RunSound
  <2> QED BY <2>2, <2>3 DEF IanaSound
<1>9. ASSUME to = clock, IanaCurrent PROVE IanaCurrent'
  <2>1. ASSUME NEW a \in got, NEW c \in fetched', c.time > a.time PROVE c \in got
    <3>0. a \in changeLog /\ c \in changeLog
      BY <1>1, <1>2, <1>3, <2>1 DEF IanaRows
    <3>1. a.time \in Nat /\ c.time \in Nat /\ c.time <= clock /\ from \in Nat /\ clock \in Nat
      BY <1>1, <3>0, IanaTimes DEF Events, IanaRows, Ia!Time
    <3> QED BY <1>3, <1>9, <2>1, <3>0, <3>1
  <2>2. Heard \subseteq Heard'
    BY <1>2, <1>5 DEF Heard
  <2>3. ASSUME NEW c \in fetched \ got
        PROVE  \/ ~Ia!Settled(c.doc)' \/ c \notin Ia!Newest(Heard, c.doc)' \/ Ia!Coincides(c)'
               \/ ianaState'[c.doc] = c.state
    <3>1. sync[j].todo = {}
      BY <1>1, <1>2 DEF IanaRun
    <3>2. \/ ~Ia!Settled(c.doc) \/ c \notin Ia!Newest(Heard, c.doc) \/ Ia!Coincides(c)
          \/ ianaState[c.doc] = c.state
      BY <1>4, <1>9, <2>3, <3>1 DEF IanaCurrent
    <3>3. Ia!Coincides(c) => Ia!Coincides(c)'
      BY <1>2 DEF Ia!Coincides
    <3>4. c \in Ia!Newest(Heard, c.doc)' => c \in Ia!Newest(Heard, c.doc)
      BY <2>2, <2>3 DEF Ia!Newest, Heard
    <3>5. Ia!Settled(c.doc)' = Ia!Settled(c.doc)
      BY <1>2 DEF Ia!Settled
    <3> QED BY <1>2, <3>2, <3>3, <3>4, <3>5
  <2> QED BY <1>2, <1>4, <2>1, <2>3 DEF IanaCurrent
<1> QED BY <1>6, <1>7, <1>8, <1>9 DEF IanaBase

\* A change is passed: the run goes on with the rest, or rests.
LEMMA IanaPasses ==
  ASSUME Last \in Nat \ {0}, OneJob, IanaBase, NEW j \in Job, sync[j].pc # "idle", Ia!Passed(j)
  PROVE  /\ sync'[j].todo = sync[j].todo \ {Ia!At(j)} /\ sync'[j].pc \in {"idle", "look"}
         /\ IanaRows' => IanaRun' \/ fetched' # fetched
<1>1. IanaRows /\ IanaRun /\ Ia!At(j) \in sync[j].todo
  BY AtOldest DEF IanaBase
<1> DEFINE rest == sync[j].todo \ {Ia!At(j)}
<1>2. sync' = [sync EXCEPT ![j] = IF rest = {} THEN Ia!Resting
                                  ELSE [pc |-> "look", todo |-> rest, prev |-> "none"]]
  BY DEF Ia!Passed
<1>3. rest \subseteq sync[j].todo /\ rest \subseteq Ia!Change
  BY <1>1 DEF IanaRun
<1> HIDE DEF rest
<1>4. /\ sync'[j] = IF rest = {} THEN Ia!Resting ELSE [pc |-> "look", todo |-> rest, prev |-> "none"]
      /\ \A i \in Job : i = j
  BY <1>1, <1>2 DEF IanaRun, OneJob
<1>5. sync'[j].todo = rest /\ sync'[j].pc \in {"idle", "look"}
      /\ (sync'[j].pc = "idle" <=> rest = {})
  BY <1>4 DEF Ia!Resting
<1>6. sync' \in [Job -> [pc : Ia!PC, todo : SUBSET Ia!Change, prev : Ia!State \cup {"none"}]]
  BY <1>1, <1>2, <1>3 DEF IanaRun, Ia!Resting, Ia!PC
<1>7. fetched' = fetched => IanaRun'
  BY <1>1, <1>3, <1>4, <1>5, <1>6 DEF IanaRun
<1> QED BY <1>5, <1>7 DEF rest

\* A step of the run that changes no more than how far it is
LEMMA IanaRowsStay ==
  ASSUME IanaRows, UNCHANGED <<clock, changeLog, ianaState, logged, revising, fetched, overtaken>>
  PROVE  /\ IanaRows' /\ Ia!Logged' = Ia!Logged /\ Heard' = Heard
         /\ \A d \in Doc : Consistent(d)' = Consistent(d)
         /\ \A d : Ia!Settled(d)' = Ia!Settled(d)
         /\ \A c : Ia!Coincides(c)' = Ia!Coincides(c)
<1>1. Ia!Logged' = Ia!Logged
  BY DEF Ia!Logged
<1>2. IanaRows'
  BY <1>1 DEF IanaRows, OneEach, Events, Ia!LoggedOnce
<1> QED BY <1>1, <1>2 DEF Heard, Consistent, Ia!Newest, Ia!Coincides, Ia!Settled

\* The changes left stay those newer than any of them; the one that is passed
\* is in force, or does not count.
LEMMA IanaCurrentPasses ==
  ASSUME Last \in Nat \ {0}, OneJob, IanaBase, IanaCurrent, NEW j \in Job, sync[j].pc # "idle",
         Ia!Passed(j), UNCHANGED <<clock, changeLog, ianaState, logged, revising, fetched, overtaken>>,
         \/ ~Ia!Settled(Ia!At(j).doc) \/ Ia!At(j) \notin Ia!Newest(Heard, Ia!At(j).doc)
         \/ Ia!Coincides(Ia!At(j)) \/ ianaState[Ia!At(j).doc] = Ia!At(j).state
  PROVE  IanaCurrent'
<1> DEFINE a == Ia!At(j)
<1>1. /\ a \in sync[j].todo /\ a \in fetched /\ a \in Ia!Change
      /\ \A o \in sync[j].todo : a.time <= o.time
  BY AtOldest
<1>2. sync'[j].todo = sync[j].todo \ {a} /\ (\A i \in Job : i = j)
  BY IanaPasses DEF OneJob
<1>3. \/ ~Ia!Settled(a.doc) \/ a \notin Ia!Newest(Heard, a.doc) \/ Ia!Coincides(a) \/ ianaState[a.doc] = a.state
  OBVIOUS
<1>4. /\ Heard' = Heard /\ (\A c : Ia!Coincides(c)' = Ia!Coincides(c))
      /\ \A d : Ia!Settled(d)' = Ia!Settled(d)
  BY IanaRowsStay DEF IanaBase
<1> HIDE DEF a
<1>5. ASSUME NEW b \in sync'[j].todo, NEW c \in fetched, c.time > b.time PROVE c \in sync'[j].todo
  <2>1. a.time \in Nat /\ b.time \in Nat /\ c.time \in Nat /\ a.time <= b.time
    BY <1>1, <1>2, <1>5, IanaTimes DEF Events, IanaBase, IanaRun, IanaRows
  <2> QED BY <1>2, <1>5, <2>1 DEF IanaCurrent
<1>6. ASSUME NEW c \in fetched, c \notin sync'[j].todo
      PROVE  \/ ~Ia!Settled(c.doc) \/ c \notin Ia!Newest(Heard, c.doc) \/ Ia!Coincides(c) \/ ianaState[c.doc] = c.state
  BY <1>2, <1>3, <1>6 DEF IanaCurrent
<1>7. \A i \in Job : \A b \in sync'[i].todo : \A c \in fetched : c.time > b.time => c \in sync'[i].todo
  BY <1>2, <1>5
<1>8. \A c \in fetched :
        \/ \E i \in Job : c \in sync'[i].todo
        \/ ~Ia!Settled(c.doc) \/ c \notin Ia!Newest(Heard, c.doc) \/ Ia!Coincides(c) \/ ianaState[c.doc] = c.state
  BY <1>6
<1> QED BY <1>4, <1>7, <1>8 DEF IanaCurrent, Ia!Newest

LEMMA IanaLooks ==
  ASSUME Last \in Nat \ {0}, OneJob, IanaInv, NEW j \in Job, Ia!Look(j), Works
  PROVE  IanaInv'
<1>1. IanaBase /\ IanaRows /\ IanaRun /\ (\A i \in Job : i = j) /\ sync[j].pc = "look"
  BY DEF IanaInv, IanaBase, OneJob, Ia!Look
<1> DEFINE a == Ia!At(j)
<1>2. a \in sync[j].todo /\ a \in fetched /\ a \in Ia!Change /\ a.doc \in Doc
      /\ a \in changeLog /\ a.state \in Ia!IanaSet
  BY <1>1, AtOldest, IanaTimes DEF Events, IanaRows
<1>3. UNCHANGED <<clock, changeLog, ianaState, logged, revising, fetched, overtaken>>
  BY DEF Ia!Look
<1>4. /\ IanaRows' /\ Ia!Logged' = Ia!Logged /\ Heard' = Heard
      /\ \A d \in Doc : Consistent(d)' = Consistent(d)
      /\ \A d : Ia!Settled(d)' = Ia!Settled(d)
      /\ \A c : Ia!Coincides(c)' = Ia!Coincides(c)
  BY <1>1, <1>3, IanaRowsStay
<1>5. IanaSound => \A d \in Doc : Ia!Settled(d) => Consistent(d)
  BY <1>1 DEF IanaSound, DraftSound, Ia!Settled
<1>b. ASSUME IanaSound, NEW d \in Doc PROVE d \in overtaken' \/ DraftSound(d)'
  <2>1. d \in overtaken \/ DraftSound(d)
    BY <1>b DEF IanaSound
  <2>2. d \in overtaken \/ (IF d \in revising THEN ianaState[d] = "changed" ELSE Consistent(d))
    BY <1>1, <2>1 DEF DraftSound
  <2> QED BY <1>3, <1>4, <2>2 DEF DraftSound
<1>6. CASE Ia!Known(a)
  <2>1. Ia!Passed(j)
    BY <1>6 DEF Ia!Look
  <2>2. IanaRun' /\ sync'[j].pc \in {"idle", "look"}
    BY <1>1, <1>3, <1>4, <2>1, IanaPasses
  <2>3. IanaSound => IanaSound'
    BY <1>1, <1>b, <2>2 DEF IanaSound, RunSound
  <2>4. ASSUME IanaSound, IanaCurrent PROVE IanaCurrent'
    <3>1. PICK r \in Ia!Logged : r.time = a.time /\ r.state = a.state
      BY <1>6 DEF Ia!Known
    <3>2. r \in fetched /\ r \in Events /\ a \in Events
      BY <1>1, <1>2, <3>1, IanaTimes DEF IanaRows, Ia!IanaSet
    <3>3. CASE r.doc # a.doc
      <4>1. Ia!Coincides(a)
        BY <3>1, <3>2, <3>3 DEF Ia!Coincides
      <4> QED BY <1>1, <1>3, <2>1, <2>4, <4>1, IanaCurrentPasses
    <3>4. CASE r.doc = a.doc
      <4>1. a \in Ia!Logged
        BY <1>1, <3>1, <3>2, <3>4 DEF IanaRows, OneEach
      <4>2. Ia!Settled(a.doc) /\ a \in Ia!Newest(Heard, a.doc) => ianaState[a.doc] = a.state
        BY <1>1, <1>2, <1>5, <2>4, <4>1, LoggedIsHeard DEF Consistent, Ia!Newest
      <4> QED BY <1>1, <1>3, <2>1, <2>4, <4>2, IanaCurrentPasses
    <3> QED BY <3>3, <3>4
  <2> QED BY <1>4, <2>2, <2>3, <2>4 DEF IanaInv, IanaBase, Works
<1>7. CASE ~Ia!Known(a)
  <2>1. sync' = [sync EXCEPT ![j].pc = "record", ![j].prev = ianaState[a.doc]]
    BY <1>7 DEF Ia!Look
  <2>2. /\ sync'[j].pc = "record" /\ sync'[j].todo = sync[j].todo
        /\ sync'[j].prev = ianaState[a.doc]
    BY <1>1, <2>1 DEF IanaRun
  <2>3. Ia!At(j)' = a
    BY <2>2 DEF Ia!At
  <2>4. sync' \in [Job -> [pc : Ia!PC, todo : SUBSET Ia!Change, prev : Ia!State \cup {"none"}]]
    <3>1. PICK q \in [pc : Ia!PC, todo : SUBSET Ia!Change, prev : Ia!State \cup {"none"}] : q = sync[j]
      BY <1>1 DEF IanaRun
    <3>2. ianaState[a.doc] \in Ia!State \cup {"none"}
      BY <1>1, <1>2 DEF IanaRows
    <3>3. PICK p : p = ianaState[a.doc]
      OBVIOUS
    <3>4. [q EXCEPT !.pc = "record", !.prev = p]
             \in [pc : Ia!PC, todo : SUBSET Ia!Change, prev : Ia!State \cup {"none"}]
      BY <3>2, <3>3 DEF Ia!PC
    <3>5. sync'[j] = [q EXCEPT !.pc = "record", !.prev = p] /\ DOMAIN sync' = Job
          /\ sync' = [i \in Job |-> sync'[i]]
      BY <1>1, <2>1, <3>1, <3>3 DEF IanaRun
    <3> QED BY <1>1, <3>4, <3>5
  <2>5. ~Ia!Known(Ia!At(j))'
    BY <1>4, <1>7, <2>3 DEF Ia!Known
  <2>6. IanaRun'
    BY <1>1, <1>3, <2>2, <2>3, <2>4, <2>5 DEF IanaRun
  <2>7. ASSUME IanaSound PROVE IanaSound'
    <3>1. ASSUME Ia!Settled(a.doc), ianaState[a.doc] = a.state PROVE Alike(a)
      <4>1. Consistent(a.doc)
        BY <1>2, <1>5, <2>7, <3>1
      <4> QED BY <3>1, <4>1 DEF Consistent, Alike
    <3>2. Alike(a) => Alike(a)'
      BY <1>4, <2>3 DEF Alike, Ia!Newest
    <3>3. ASSUME Ia!Settled(Ia!At(j).doc)' PROVE RunSound(j)'
      BY <1>4, <2>2, <2>3, <3>1, <3>2, <3>3 DEF RunSound
    <3> QED BY <1>1, <1>b, <2>7, <3>3 DEF IanaSound
  <2>8. IanaCurrent => IanaCurrent'
    BY <1>1, <1>3, <1>4, <2>2 DEF IanaCurrent, Ia!Newest
  <2> QED BY <1>4, <2>6, <2>7, <2>8 DEF IanaInv, IanaBase, Works
<1> QED BY <1>6, <1>7

LEMMA IanaRecords ==
  ASSUME Last \in Nat \ {0}, OneJob, IanaInv, NEW j \in Job, Ia!Record(j), Works
  PROVE  IanaInv'
<1>1. IanaBase /\ IanaRows /\ IanaRun /\ (\A i \in Job : i = j) /\ sync[j].pc = "record"
  BY DEF IanaInv, IanaBase, OneJob, Ia!Record
<1>a. PICK a : a = Ia!At(j)
  OBVIOUS
<1>2. a \in sync[j].todo /\ a \in fetched /\ a \in Ia!Change /\ a.doc \in Doc
      /\ a \in changeLog /\ a.state \in Ia!IanaSet
  BY <1>1, <1>a, AtOldest, IanaTimes DEF Events, IanaRows
<1>3. UNCHANGED <<clock, changeLog, ianaState, revising, fetched, overtaken>>
      /\ sync' = [sync EXCEPT ![j].pc = "check"]
      /\ logged' = IF sync[j].prev = a.state THEN logged ELSE Ia!Counted(a)
  BY <1>a DEF Ia!Record, Ia!GoesTo
<1>4. ~Ia!Known(a)
  BY <1>1, <1>a DEF IanaRun
<1>5. a \notin Ia!Logged
  BY <1>4 DEF Ia!Known
<1>6. sync'[j].pc = "check" /\ sync'[j].todo = sync[j].todo /\ Ia!At(j)' = a
  BY <1>1, <1>a, <1>3 DEF IanaRun, Ia!At
<1>7. IanaRun'
  BY <1>1, <1>3, <1>6 DEF IanaRun, Ia!PC
<1>8. IanaSound => \A d \in Doc : Ia!Settled(d) => Consistent(d)
  BY <1>1 DEF IanaSound, DraftSound, Ia!Settled
<1>b. \A d : Ia!Settled(d)' = Ia!Settled(d)
  BY <1>3 DEF Ia!Settled
<1>c. ASSUME IanaSound, NEW d \in Doc, \A e \in Doc \ {a.doc} : Consistent(e) => Consistent(e)'
      PROVE  d \in overtaken' \/ DraftSound(d)'
  <2>1. d \in overtaken \/ DraftSound(d)
    BY <1>c DEF IanaSound
  <2>2. d \in overtaken \/ (IF d \in revising THEN ianaState[d] = "changed" ELSE Consistent(d))
    BY <1>1, <2>1 DEF DraftSound
  <2>3. CASE d = a.doc
    BY <1>3, <1>6, <2>2, <2>3 DEF DraftSound
  <2>4. CASE d # a.doc
    BY <1>3, <1>c, <2>2, <2>4 DEF DraftSound
  <2> QED BY <2>3, <2>4
<1>d. ASSUME IanaSound, Ia!Settled(a.doc) => Deciding(a)',
             \A e \in Doc \ {a.doc} : Consistent(e) => Consistent(e)'
      PROVE  IanaSound'
  <2>1. RunSound(j)' \/ ~Ia!Settled(Ia!At(j).doc)'
    BY <1>6, <1>b, <1>d DEF RunSound
  <2> QED BY <1>1, <1>c, <1>d, <2>1 DEF IanaSound
<1>9. CASE sync[j].prev = a.state
  <2>1. /\ IanaRows' /\ Ia!Logged' = Ia!Logged /\ Heard' = Heard
        /\ \A d \in Doc : Consistent(d)' = Consistent(d)
        /\ \A c : Ia!Coincides(c)' = Ia!Coincides(c)
    BY <1>1, <1>3, <1>9, IanaRowsStay
  <2>2. ASSUME IanaSound PROVE IanaSound'
    <3>1. ASSUME Ia!Settled(a.doc) PROVE Deciding(a)'
      <4>1. Alike(a) /\ Consistent(a.doc)
        BY <1>1, <1>a, <1>2, <1>8, <1>9, <2>2, <3>1 DEF IanaSound, RunSound
      <4> QED BY <1>3, <2>1, <4>1 DEF Deciding, Alike, Consistent, Ia!Newest
    <3> QED BY <1>d, <2>1, <2>2, <3>1
  <2>3. IanaCurrent => IanaCurrent'
    BY <1>1, <1>3, <1>6, <1>b, <2>1 DEF IanaCurrent, Ia!Newest
  <2> QED BY <1>7, <2>1, <2>2, <2>3 DEF IanaInv, IanaBase, Works
<1>10. CASE sync[j].prev # a.state
  <2>1. /\ logged' \in [Ia!Change -> 0..2] /\ Ia!LoggedOnce'
        /\ Ia!Logged' = Ia!Logged \cup {a}
    BY <1>1, <1>2, <1>3, <1>5, <1>10, Counting DEF IanaRows
  <2>2. Events' = Events
    BY <1>2, <1>3, <2>1 DEF Events
  <2>3. IanaRows'
    BY <1>1, <1>2, <1>3, <2>1, <2>2 DEF IanaRows, OneEach
  <2>4. ASSUME IanaSound PROVE IanaSound'
    <3>1. ASSUME NEW d \in Doc \ {a.doc}, Consistent(d) PROVE Consistent(d)'
      <4>1. Ia!Newest(Ia!Logged, d)' = Ia!Newest(Ia!Logged, d)
        BY <2>1, <3>1 DEF Ia!Newest
      <4> QED BY <1>3, <3>1, <4>1 DEF Consistent
    <3>2. ASSUME Ia!Settled(a.doc), NEW c \in Ia!Newest(Ia!Logged, a.doc)', c # a
          PROVE  c.time > a.time /\ ianaState'[a.doc] = c.state
      <4>1. c \in Ia!Newest(Ia!Logged, a.doc) /\ c.doc = a.doc /\ c.time >= a.time
        BY <2>1, <3>2 DEF Ia!Newest
      <4>2. c \in Events /\ a \in Events
        BY <1>2, <4>1 DEF Events, Ia!Newest
      <4>3. c.time # a.time
        BY <1>1, <3>2, <4>1, <4>2 DEF IanaRows, OneEach
      <4>4. c.time \in Nat /\ a.time \in Nat
        BY <1>1, <4>2, IanaTimes
      <4>5. ianaState[a.doc] = c.state
        BY <1>2, <1>8, <2>4, <3>2, <4>1 DEF Consistent
      <4> QED BY <1>3, <4>1, <4>3, <4>4, <4>5
    <3>3. a.time \in Nat
      BY <1>1, <1>2, IanaTimes DEF Events
    <3>4. Ia!Settled(a.doc) => Deciding(a)'
      BY <3>2, <3>3 DEF Deciding, Alike
    <3> QED BY <1>d, <2>4, <3>1, <3>4
  <2>5. IanaCurrent => IanaCurrent'
    <3>1. Heard' = Heard
      BY <1>2, <1>3, <2>1 DEF Heard, Ia!IanaSet
    <3> QED BY <1>1, <1>3, <1>6, <1>b, <3>1 DEF IanaCurrent, Ia!Newest, Ia!Coincides
  <2> QED BY <1>7, <2>3, <2>4, <2>5 DEF IanaInv, IanaBase, Works
<1> QED BY <1>9, <1>10

LEMMA IanaChecks ==
  ASSUME Last \in Nat \ {0}, OneJob, IanaInv, NEW j \in Job, Ia!Check(j), Works
  PROVE  IanaInv'
<1>1. IanaBase /\ IanaRows /\ IanaRun /\ (\A i \in Job : i = j) /\ sync[j].pc = "check"
  BY DEF IanaInv, IanaBase, OneJob, Ia!Check
<1>a. PICK a : a = Ia!At(j)
  OBVIOUS
<1>2. a \in sync[j].todo /\ a \in fetched /\ a \in Ia!Change /\ a.doc \in Doc
  BY <1>1, <1>a, AtOldest, IanaTimes DEF Events
<1>3. UNCHANGED <<clock, changeLog, ianaState, logged, revising, fetched, overtaken>>
  BY DEF Ia!Check
<1>4. /\ IanaRows' /\ Ia!Logged' = Ia!Logged /\ Heard' = Heard
      /\ \A d \in Doc : Consistent(d)' = Consistent(d)
      /\ \A d : Ia!Settled(d)' = Ia!Settled(d)
      /\ \A c : Ia!Coincides(c)' = Ia!Coincides(c)
  BY <1>1, <1>3, IanaRowsStay
<1>5. IanaSound => /\ Ia!Settled(a.doc) => Deciding(a)
                   /\ \A d \in Doc \ {a.doc} : Ia!Settled(d) => Consistent(d)
  BY <1>1, <1>a DEF IanaSound, DraftSound, RunSound, Ia!Settled
<1>b. ASSUME IanaSound, NEW d \in Doc,
             (d = a.doc /\ Ia!Settled(d)) => (sync'[j].pc = "set" /\ Ia!At(j)' = a) \/ Consistent(d)
      PROVE  d \in overtaken' \/ DraftSound(d)'
  <2>1. d \in overtaken \/ DraftSound(d)
    BY <1>b DEF IanaSound
  <2>2. CASE ~Ia!Settled(d)
    BY <1>3, <2>1, <2>2 DEF DraftSound, Ia!Settled
  <2>3. CASE Ia!Settled(d) /\ d # a.doc
    BY <1>3, <1>4, <1>5, <1>b, <2>3 DEF DraftSound, Ia!Settled
  <2>4. CASE Ia!Settled(d) /\ d = a.doc
    BY <1>3, <1>4, <1>b, <2>4 DEF DraftSound, Ia!Settled
  <2> QED BY <2>2, <2>3, <2>4
<1>6. \A r \in Events : r.time \in Nat
  BY <1>1, IanaTimes
<1>7. CASE \E r \in Ia!Logged : r.doc = a.doc /\ r.time > a.time
  <2>1. PICK r \in Ia!Logged : r.doc = a.doc /\ r.time > a.time
    BY <1>7
  <2>2. Ia!Passed(j)
    BY <1>7, <1>a DEF Ia!Check
  <2>3. IanaRun' /\ sync'[j].pc \in {"idle", "look"}
    BY <1>1, <1>3, <1>4, <2>2, IanaPasses
  <2>4. a.time \in Nat /\ r.time \in Nat
    BY <1>2, <1>6, <2>1, <1>1, IanaTimes DEF Events
  <2>5. ASSUME IanaSound PROVE IanaSound'
    <3>1. ASSUME Ia!Settled(a.doc), NEW c \in Ia!Newest(Ia!Logged, a.doc) PROVE ianaState[a.doc] = c.state
      <4>1. c.time >= r.time /\ c.time \in Nat
        BY <1>6, <2>1, <3>1 DEF Ia!Newest, Events
      <4>2. c.time > a.time
        BY <2>1, <2>4, <4>1
      <4> QED BY <1>5, <2>5, <3>1, <4>2 DEF Deciding
    <3>2. Ia!Settled(a.doc) => Consistent(a.doc)
      BY <3>1 DEF Consistent
    <3>3. \A d \in Doc : d \in overtaken' \/ DraftSound(d)'
      BY <1>b, <2>5, <3>2
    <3>4. RunSound(j)'
      BY <2>3 DEF RunSound
    <3> QED BY <1>1, <3>3, <3>4 DEF IanaSound
  <2>6. a \notin Ia!Newest(Heard, a.doc)
    BY <1>1, <2>1, <2>4, LoggedIsHeard DEF Ia!Newest
  <2>7. IanaCurrent => IanaCurrent'
    BY <1>1, <1>a, <1>3, <2>2, <2>6, IanaCurrentPasses
  <2> QED BY <1>4, <2>3, <2>5, <2>7 DEF IanaInv, IanaBase, Works
<1>8. CASE ~ \E r \in Ia!Logged : r.doc = a.doc /\ r.time > a.time
  <2>1. sync' = [sync EXCEPT ![j].pc = "set"]
    BY <1>8, <1>a DEF Ia!Check, Ia!GoesTo
  <2>2. sync'[j].pc = "set" /\ sync'[j].todo = sync[j].todo /\ Ia!At(j)' = a
    BY <1>1, <1>a, <2>1 DEF IanaRun, Ia!At
  <2>3. IanaRun'
    BY <1>1, <1>3, <2>1, <2>2 DEF IanaRun, Ia!PC
  <2>4. \A r \in Ia!Logged : r.doc = a.doc => r.time <= a.time
    BY <1>1, <1>2, <1>6, <1>8, IanaTimes DEF Events
  <2>5. ASSUME IanaSound PROVE IanaSound'
    <3>1. Deciding(a) => Deciding(a)'
      BY <1>2, <1>3, <1>4 DEF Deciding, Alike, Ia!Newest
    <3>2. \A d \in Doc : d \in overtaken' \/ DraftSound(d)'
      BY <1>b, <2>2, <2>5
    <3>3. RunSound(j)' \/ ~Ia!Settled(Ia!At(j).doc)'
      BY <1>4, <1>5, <2>2, <2>4, <2>5, <3>1 DEF RunSound
    <3> QED BY <1>1, <3>2, <3>3 DEF IanaSound
  <2>6. IanaCurrent => IanaCurrent'
    BY <1>1, <1>3, <1>4, <2>2 DEF IanaCurrent, Ia!Newest
  <2> QED BY <1>4, <2>3, <2>5, <2>6 DEF IanaInv, IanaBase, Works
<1> QED BY <1>7, <1>8

LEMMA IanaSets ==
  ASSUME Last \in Nat \ {0}, OneJob, IanaInv, NEW j \in Job, Ia!Set(j), Works
  PROVE  IanaInv'
<1>1. IanaBase /\ IanaRows /\ IanaRun /\ (\A i \in Job : i = j) /\ sync[j].pc = "set"
  BY DEF IanaInv, IanaBase, OneJob, Ia!Set
<1>a. PICK a : a = Ia!At(j)
  OBVIOUS
<1>2. a \in sync[j].todo /\ a \in fetched /\ a \in Ia!Change /\ a.doc \in Doc
      /\ a \in Events /\ a \in Heard
  BY <1>1, <1>a, AtOldest, IanaTimes DEF Events, Heard
<1>3. /\ UNCHANGED <<clock, changeLog, logged, revising, fetched>> /\ Ia!Passed(j)
      /\ ianaState' = [ianaState EXCEPT ![a.doc] = a.state]
      /\ overtaken' = IF a.doc \in revising THEN overtaken \cup {a.doc}
                      ELSE overtaken \ {e \in {a.doc} : a \in Ia!Newest(Ia!Logged, a.doc)}
  BY <1>a DEF Ia!Set
<1>4. /\ ianaState'[a.doc] = a.state
      /\ \A d \in Doc : d # a.doc => ianaState'[d] = ianaState[d]
  BY <1>1, <1>2, <1>3 DEF IanaRows
<1>5. /\ Ia!Logged' = Ia!Logged /\ Heard' = Heard
      /\ \A d \in Doc \ {a.doc} : Ia!Settled(d)' = Ia!Settled(d)
  BY <1>3 DEF Ia!Logged, Heard, Ia!Settled
<1>6. IanaRows'
  <2>1. ianaState' \in [Doc -> Ia!State \cup {"none"}]
    BY <1>1, <1>2, <1>3 DEF IanaRows, Ia!Change
  <2>2. overtaken' \subseteq Doc
    BY <1>1, <1>2, <1>3 DEF IanaRows
  <2> QED BY <1>1, <1>3, <1>5, <2>1, <2>2 DEF IanaRows, OneEach, Events, Ia!LoggedOnce
<1>7. IanaRun' /\ sync'[j].pc \in {"idle", "look"} /\ sync'[j].todo = sync[j].todo \ {a}
  BY <1>1, <1>a, <1>3, <1>6, IanaPasses
<1>8. \A r \in Events : r.time \in Nat
  BY <1>1, IanaTimes
<1>9. ASSUME IanaSound PROVE IanaSound'
  <2>1. ASSUME NEW d \in Doc, d # a.doc PROVE d \in overtaken' \/ DraftSound(d)'
    <3>1. d \in overtaken \/ DraftSound(d)
      BY <1>9 DEF IanaSound
    <3>2. d \in overtaken \/ (IF d \in revising THEN ianaState[d] = "changed" ELSE Consistent(d))
      BY <1>1, <1>a, <2>1, <3>1 DEF DraftSound
    <3>3. Consistent(d) => Consistent(d)'
      BY <1>4, <1>5, <2>1 DEF Consistent, Ia!Newest
    <3> QED BY <1>3, <1>4, <2>1, <3>2, <3>3 DEF DraftSound
  <2>2. ASSUME a.doc \notin revising, a.doc \notin overtaken' PROVE Consistent(a.doc)'
    <3>1. ASSUME NEW c \in Ia!Newest(Ia!Logged, a.doc) PROVE c.state = a.state
      <4>1. CASE a \in Ia!Newest(Ia!Logged, a.doc)
        <5>1. c.time = a.time /\ c.doc = a.doc
          BY <1>2, <1>8, <3>1, <4>1 DEF Ia!Newest, Events
        <5> QED BY <1>1, <1>2, <3>1, <5>1 DEF IanaRows, OneEach, Ia!Newest, Events
      <4>2. CASE a \notin Ia!Newest(Ia!Logged, a.doc)
        <5>1. Ia!Settled(a.doc)
          BY <1>3, <2>2, <4>2 DEF Ia!Settled
        <5>2. Alike(a) /\ \A r \in Ia!Logged : r.doc = a.doc => r.time <= a.time
          BY <1>1, <1>a, <1>9, <5>1 DEF IanaSound, RunSound, Deciding
        <5>3. c.time <= a.time /\ c.time \in Nat /\ a.time \in Nat
          BY <1>2, <1>8, <3>1, <5>2 DEF Ia!Newest, Events
        <5>4. c.time > a.time \/ c.state = a.state
          BY <3>1, <5>2 DEF Alike
        <5> QED BY <5>3, <5>4
      <4> QED BY <4>1, <4>2
    <3> QED BY <1>4, <1>5, <3>1 DEF Consistent, Ia!Newest
  <2>3. a.doc \in overtaken' \/ DraftSound(a.doc)'
    BY <1>3, <2>2 DEF DraftSound
  <2>4. RunSound(j)'
    BY <1>7 DEF RunSound
  <2> QED BY <1>1, <2>1, <2>3, <2>4 DEF IanaSound
<1>10. ASSUME IanaCurrent PROVE IanaCurrent'
  <2>1. ASSUME NEW b \in sync'[j].todo, NEW c \in fetched, c.time > b.time PROVE c \in sync'[j].todo
    <3>1. a.time <= b.time
      BY <1>1, <1>a, <1>7, AtOldest
    <3>2. a.time \in Nat /\ b.time \in Nat /\ c.time \in Nat
      BY <1>1, <1>2, <1>7, <1>8 DEF Events, IanaRun, IanaRows
    <3> QED BY <1>7, <1>10, <2>1, <3>1, <3>2 DEF IanaCurrent
  <2>2. ASSUME NEW c \in fetched, c \notin sync'[j].todo
        PROVE  \/ ~Ia!Settled(c.doc)' \/ c \notin Ia!Newest(Heard, c.doc) \/ Ia!Coincides(c) \/ ianaState'[c.doc] = c.state
    <3>1. c \in Events /\ c \in changeLog /\ c.doc \in Doc /\ c.time \in Nat /\ a.time \in Nat
      BY <1>1, <1>2, IanaTimes DEF Events, IanaRows
    <3>2. CASE c = a
      BY <1>4, <3>2
    <3>3. CASE c # a /\ c.doc = a.doc
      <4>1. c \notin sync[j].todo
        BY <1>7, <2>2, <3>3
      <4>2. ~ (c.time > a.time)
        BY <1>2, <1>10, <3>1, <4>1 DEF IanaCurrent
      <4>3. c.time # a.time
        BY <1>1, <1>2, <3>1, <3>3 DEF IanaRows, OneEach
      <4> QED BY <1>2, <3>1, <3>3, <4>2, <4>3 DEF Ia!Newest
    <3>4. CASE c.doc # a.doc
      <4>1. c \notin sync[j].todo
        BY <1>7, <2>2, <3>4
      <4> QED BY <1>1, <1>4, <1>5, <1>10, <3>1, <3>4, <4>1 DEF IanaCurrent
    <3> QED BY <3>2, <3>3, <3>4
  <2>3. \A i \in Job : \A b \in sync'[i].todo : \A c \in fetched : c.time > b.time => c \in sync'[i].todo
    BY <1>1, <2>1
  <2>4. \A c \in fetched :
          \/ \E i \in Job : c \in sync'[i].todo
          \/ ~Ia!Settled(c.doc)' \/ c \notin Ia!Newest(Heard, c.doc) \/ Ia!Coincides(c) \/ ianaState'[c.doc] = c.state
    BY <2>2
  <2>5. \A c : Ia!Coincides(c)' = Ia!Coincides(c)
    BY <1>3 DEF Ia!Coincides
  <2> QED BY <1>3, <1>5, <2>3, <2>4, <2>5 DEF IanaCurrent, Ia!Newest
<1> QED BY <1>6, <1>7, <1>9, <1>10 DEF IanaInv, IanaBase, Works

LEMMA IanaDies ==
  ASSUME Last \in Nat \ {0}, OneJob, IanaInv, NEW j \in Job, Ia!Killed(j) PROVE IanaBase'
<1>1. IanaRows /\ IanaRun /\ (\A i \in Job : i = j)
  BY DEF IanaInv, IanaBase, OneJob
<1>2. UNCHANGED <<clock, changeLog, ianaState, logged, revising, fetched, overtaken>>
      /\ sync' = [sync EXCEPT ![j] = Ia!Resting]
  BY DEF Ia!Killed
<1>3. IanaRows'
  BY <1>1, <1>2, IanaRowsStay
<1>4. IanaRun'
  BY <1>1, <1>2 DEF IanaRun, Ia!Resting, Ia!PC
<1> QED BY <1>3, <1>4 DEF IanaBase

LEMMA IanaUploadDies ==
  ASSUME Last \in Nat \ {0}, IanaInv, NEW d \in Doc, Ia!UploadDies(d) PROVE IanaBase'
<1>1. IanaRows /\ IanaRun
  BY DEF IanaInv, IanaBase
<1>2. /\ UNCHANGED <<clock, changeLog, ianaState, logged, sync, fetched, overtaken>>
      /\ revising' = revising \ {d}
  BY DEF Ia!UploadDies
<1>3. Ia!Logged' = Ia!Logged /\ (\A j : Ia!At(j)' = Ia!At(j))
  BY <1>2 DEF Ia!Logged, Ia!At
<1>4. IanaRows'
  BY <1>1, <1>2, <1>3 DEF IanaRows, OneEach, Events, Ia!LoggedOnce
<1>5. IanaRun'
  BY <1>1, <1>2, <1>3 DEF IanaRun, Ia!Known
<1> QED BY <1>4, <1>5 DEF IanaBase

LEMMA IanaStep ==
  ASSUME Last \in Nat \ {0}, OneJob, IanaInv, part = "iana", [MCNext]_allVars PROVE IanaInv'
<1>1. CASE IanaMoves
  <2>1. CASE Ia!World /\ Works
    BY <2>1, IanaTick, IanaDecides, IanaRevises, IanaLogsRevision DEF Ia!World
  <2>2. ASSUME NEW j \in Job, Ia!FetchNow(j), Works PROVE IanaInv'
    <3>1. PICK from \in Ia!Time : Ia!Fetch(j, from, clock)
      BY <2>2 DEF Ia!FetchNow
    <3>2. clock \in Ia!Time
      BY DEF IanaInv, IanaBase, IanaRows
    <3> QED BY <2>2, <3>1, <3>2, IanaFetches DEF IanaInv, Works
  <2>3. ASSUME NEW j \in Job, Ia!Step(j), Works PROVE IanaInv'
    BY <2>3, IanaLooks, IanaRecords, IanaChecks, IanaSets DEF Ia!Step
  <2>4. ASSUME NEW j \in Job, Ia!FetchOld(j), late' = TRUE, UNCHANGED failed PROVE IanaInv'
    BY <2>4, IanaFetches DEF IanaInv, Ia!FetchOld
  <2>5. CASE Ia!Abort /\ Breaks
    BY <2>5, IanaDies, IanaUploadDies DEF IanaInv, Ia!Abort, Breaks
  <2> QED BY <1>1, <2>1, <2>2, <2>3, <2>4, <2>5 DEF IanaMoves
<1>2. CASE UNCHANGED allVars
  <2>1. UNCHANGED <<clock, changeLog, ianaState, logged, sync, revising, fetched, overtaken, failed, late>>
    BY <1>2 DEF allVars, ianaRows
  <2>2. IanaRows => IanaRows'
    BY <2>1, IanaRowsStay
  <2> QED BY <2>1, <2>2, IanaKept DEF IanaInv, IanaBase
<1> QED
  BY <1>1, <1>2 DEF MCNext, CharterMoves, MilestonesMove, QueueMoves, NominationsMove,
                    SessionsMove, MaterialsMove, MailMoves, ListsMove

IanaPart == part = "iana" => IanaInv

\* sync/iana: for any number of drafts and changes, with one run at a time, no
\* change is logged twice, wherever a run dies and however often it is fetched.
THEOREM ChangesLoggedOnce ==
  ASSUME Last \in Nat \ {0}, \A i, j \in Job : i = j
  PROVE  MCSpec => []LoggedOnce
<1>1. MCInit => IanaPart
  BY IanaInit DEF IanaPart
<1>2. IanaPart /\ [MCNext]_allVars => IanaPart'
  BY IanaStep, PartStays DEF IanaPart, OneJob
<1>3. IanaPart => LoggedOnce
  BY DEF IanaPart, IanaInv, IanaBase, IanaRows, LoggedOnce
<1> QED
  BY <1>1, <1>2, <1>3, PTL DEF MCSpec

\* sync/iana: under the same conditions, and with uploads and decisions of IANA at
\* any moment of a run, the state of a draft is that of its newest event until a run
\* or an upload dies, and that of the newest change fetched until the script is given
\* an interval in the past; except for a draft whose upload came between the check
\* and the set of the script, or that the script set between the two steps of the
\* upload, which is wrong until it is set again.
THEOREM StatesAreNewest ==
  ASSUME Last \in Nat \ {0}, \A i, j \in Job : i = j
  PROVE  MCSpec => []StateIsNewestUnlessFailed
<1>1. MCInit => IanaPart
  BY IanaInit DEF IanaPart
<1>2. IanaPart /\ [MCNext]_allVars => IanaPart'
  BY IanaStep, PartStays DEF IanaPart, OneJob
<1>3. IanaPart => StateIsNewestUnlessFailed
  <2> SUFFICES ASSUME IanaInv, ~failed, Ia!Asleep
               PROVE  /\ \A d \in Doc : \A c \in Ia!Newest(Ia!Logged, d) :
                           Ia!Settled(d) => ianaState[d] = c.state
                      /\ late \/ \A d \in Doc : \A c \in Ia!Newest(Heard, d) :
                                   Ia!Settled(d) => Ia!Coincides(c) \/ ianaState[d] = c.state
    BY DEF IanaPart, StateIsNewestUnlessFailed, Ia!StateIsNewestEvent, Ia!StateIsNewestChange, Heard
  <2>1. /\ \A j \in Job : sync[j].todo = {}
        /\ \A d \in Doc : Ia!Settled(d) => Consistent(d)
    BY IanaIdle DEF IanaInv
  <2>2. ASSUME ~late, NEW d \in Doc, NEW c \in Ia!Newest(Heard, d), Ia!Settled(d)
        PROVE  Ia!Coincides(c) \/ ianaState[d] = c.state
    <3>1. CASE c \in fetched
      BY <2>1, <2>2, <3>1 DEF IanaInv, IanaCurrent, Ia!Newest
    <3>2. CASE c \in Ia!Logged
      BY <2>1, <2>2, <3>2, LoggedIsHeard DEF IanaInv, Consistent, Ia!Newest
    <3> QED BY <2>2, <3>1, <3>2 DEF Ia!Newest, Heard
  <2> QED BY <2>1, <2>2 DEF Consistent
<1> QED
  BY <1>1, <1>2, <1>3, PTL DEF MCSpec

(***************************************************************************)
(* sync/rfceditor                                                          *)
(***************************************************************************)
\* The updates do not overlap.
OneUpdater == \A u, v \in Updater : u = v

Mirrored(e, d) == e.state = "unknown" \/ (rfcState[d] = e.state /\ Rf!QueueTag \cap tags[d] = e.tags)

RfcTypes ==
  /\ entry \in [Draft -> Rf!Entry] /\ rfcState \in [Draft -> Rf!State]
  /\ tags \in [Draft -> SUBSET (Rf!QueueTag \cup {"other"})]
  /\ events \in [Draft -> Seq(Rf!Mapped)]
  /\ updater \in [Updater -> [pc : Rf!PC, got : [Draft -> Rf!Entry], todo : SUBSET Draft, at : Nat]]

\* While the drafts in the queue are copied, those that have been done are as
\* the queue has them; then also those that were let go.
RunOK(u) ==
  LET r      == updater[u]
      listed == Rf!Listed(r.got)
  IN
  /\ r.pc \in {"draft", "set", "event", "tags"} => r.todo \subseteq listed
  /\ r.pc \in {"set", "event", "tags", "unset", "delete"} => r.todo # {}
  /\ r.pc \in {"set", "event", "tags"} => Rf!New(u).state \in Rf!Mapped
  /\ r.pc \in {"event", "tags"} => rfcState[Rf!At(u)] = Rf!New(u).state
  /\ r.pc \notin {"idle", "delete"} => \A d \in listed \ r.todo : Mirrored(r.got[d], d)
  /\ r.pc \in {"left", "unset", "done"} =>
       /\ r.todo \cap listed = {}
       /\ \A d \in Draft \ (listed \cup r.todo) : rfcState[d] = "none"
  /\ r.pc = "done" => r.todo = {}
  /\ r.pc = "delete" => r.at \in 1..Len(events[Rf!At(u)])

\* The log of draft d explains its state.
Fits(d) == rfcState[d] # "none" => events[d] # << >> /\ rfcState[d] = Rf!Latest(events[d])

\* Only the draft at hand may have a state that is not logged yet, or whose
\* event is about to be deleted.
RfcLog ==
  /\ \A d \in Draft : Fits(d) \/ \E u \in Updater : updater[u].pc \in {"event", "delete"} /\ d = Rf!At(u)
  /\ \A u \in Updater : updater[u].pc = "delete" =>
       LET d == Rf!At(u) IN
         IF updater[u].at < Len(events[d]) THEN Fits(d)
         ELSE rfcState[d] = IF updater[u].at = 1 THEN "none" ELSE events[d][updater[u].at - 1]

RfcInv ==
  /\ RfcTypes
  /\ \A u \in Updater : RunOK(u)
  /\ failed \/ RfcLog

\* A draft loses its tags of the queue before its state, unless its only change
\* was taken back.
Tagless(d) == d \in undone \/ Rf!QueueTag \cap tags[d] = {}
RfcTags ==
  /\ undone \subseteq Draft
  /\ \A d \in Draft : rfcState[d] = "none" => Tagless(d)
  /\ \A u \in Updater : updater[u].pc = "unset" => Tagless(Rf!At(u))

\* One element of a sequence taken out
TakenOut(s, i) == SubSeq(s, 1, i - 1) \o SubSeq(s, i + 1, Len(s))

LEMMA TakenOutEnds ==
  ASSUME NEW S, NEW s \in Seq(S), NEW i \in 1..Len(s), NEW t, t = TakenOut(s, i)
  PROVE  /\ t \in Seq(S) /\ Len(t) = Len(s) - 1
         /\ i < Len(s) => t # << >> /\ t[Len(t)] = s[Len(s)]
         /\ i = Len(s) /\ i # 1 => t # << >> /\ t[Len(t)] = s[i - 1]
<1> DEFINE a == SubSeq(s, 1, i - 1)
           b == SubSeq(s, i + 1, Len(s))
<1>0. Len(s) \in Nat /\ i \in Nat /\ \A k \in 1..Len(s) : s[k] \in S
  OBVIOUS
<1>1. /\ a \in Seq(S) /\ Len(a) = i - 1
      /\ \A k \in 1..(i - 1) : a[k] = s[k]
  <2>1. \A k \in 1..(i - 1) : s[k] \in S
    BY <1>0
  <2>2. /\ a \in Seq(S) /\ Len(a) = IF 1 <= i - 1 THEN (i - 1) - 1 + 1 ELSE 0
        /\ \A k \in 1..((i - 1) - 1 + 1) : a[k] = s[1 + k - 1]
    BY <2>1, <1>0, SubSeqProperties
  <2> HIDE DEF a
  <2> QED BY <2>2, <1>0
<1>2. /\ b \in Seq(S) /\ Len(b) = Len(s) - i
      /\ \A k \in 1..(Len(s) - i) : b[k] = s[i + k]
  <2>1. \A k \in (i + 1)..Len(s) : s[k] \in S
    BY <1>0
  <2>2. /\ b \in Seq(S) /\ Len(b) = IF i + 1 <= Len(s) THEN Len(s) - (i + 1) + 1 ELSE 0
        /\ \A k \in 1..(Len(s) - (i + 1) + 1) : b[k] = s[i + 1 + k - 1]
    BY <2>1, <1>0, SubSeqProperties
  <2> HIDE DEF b
  <2> QED BY <2>2, <1>0
<1>3. t = a \o b
  BY DEF TakenOut
<1> HIDE DEF a, b
<1>4. /\ t \in Seq(S) /\ Len(t) = Len(s) - 1
      /\ \A k \in 1..Len(s) - 1 : t[k] = IF k <= i - 1 THEN a[k] ELSE b[k - (i - 1)]
  <2>1. /\ t \in Seq(S) /\ Len(t) = Len(a) + Len(b)
        /\ \A k \in 1..Len(a) + Len(b) : t[k] = IF k <= Len(a) THEN a[k] ELSE b[k - Len(a)]
    <3>1. a \in Seq(S) /\ b \in Seq(S)
      BY <1>1, <1>2
    <3>2. /\ a \o b \in Seq(S) /\ Len(a \o b) = Len(a) + Len(b)
          /\ \A k \in 1..Len(a) + Len(b) : (a \o b)[k] = IF k <= Len(a) THEN a[k] ELSE b[k - Len(a)]
      BY <3>1, ConcatProperties, Zenon
    <3> QED BY <1>3, <3>2, Zenon
  <2>2. Len(a) + Len(b) = Len(s) - 1
    BY <1>0, <1>1, <1>2
  <2> QED BY <1>1, <2>1, <2>2
<1>5. t # << >> \/ Len(s) = 1
  <2>1. t = << >> => Len(s) - 1 = 0
    BY <1>4
  <2> QED BY <1>0, <2>1
<1>6. PICK n \in Nat : n = Len(s) /\ i <= n /\ 1 <= i
  BY <1>0
<1>7. ASSUME i < n PROVE t # << >> /\ t[n - 1] = s[n]
  <2>1. n - 1 \in 1..n - 1 /\ ~ (n - 1 <= i - 1) /\ n # 1 /\ (n - 1) - (i - 1) = n - i
        /\ n - i \in 1..n - i /\ i + (n - i) = n
    BY <1>0, <1>6, <1>7
  <2>2. t[n - 1] = b[n - i]
    BY <1>4, <1>6, <2>1, Zenon
  <2>3. b[n - i] = s[n]
    BY <1>2, <1>6, <2>1, Zenon
  <2> QED BY <1>5, <1>6, <2>1, <2>2, <2>3, Zenon
<1>8. ASSUME i = n, i # 1 PROVE t # << >> /\ t[n - 1] = s[i - 1]
  <2>1. n - 1 \in 1..n - 1 /\ n - 1 <= i - 1 /\ n # 1 /\ n - 1 = i - 1
    BY <1>0, <1>6, <1>8
  <2>2. t[n - 1] = a[i - 1]
    BY <1>4, <1>6, <2>1, Zenon
  <2>3. a[i - 1] = s[i - 1]
    BY <1>1, <2>1, Zenon
  <2> QED BY <1>5, <1>6, <2>1, <2>2, <2>3, Zenon
<1> QED BY <1>4, <1>6, <1>7, <1>8, Zenon

LEMMA RfcAt ==
  ASSUME RfcTypes, NEW u \in Updater, updater[u].todo # {}
  PROVE  Rf!At(u) \in updater[u].todo /\ Rf!At(u) \in Draft
BY DEF RfcTypes, Rf!At

LEMMA RfcInit == ASSUME MCInit, part = "rfc" PROVE RfcInv
<1>1. Rf!Init
  BY DEF MCInit
<1>2. Rf!Out \in Rf!Entry
  BY DEF Rf!Out, Rf!Entry, Rf!State
<1>3. RfcTypes
  BY <1>1, <1>2 DEF Rf!Init, RfcTypes, Rf!State, Rf!Resting, Rf!PC
<1>4. \A u \in Updater : RunOK(u)
  BY <1>1 DEF Rf!Init, RunOK, Rf!Resting
<1>5. RfcLog
  BY <1>1 DEF Rf!Init, RfcLog, Fits, Rf!Resting
<1> QED BY <1>3, <1>4, <1>5 DEF RfcInv

\* What others and the RFC Editor do at any time
LEMMA RfcOthers ==
  ASSUME RfcInv, Works, Rf!EditorActs \/ Rf!Others PROVE RfcInv'
<1>1. UNCHANGED <<rfcState, events, updater>>
  BY DEF Rf!EditorActs, Rf!EditorMoves, Rf!Others, Rf!Approve, Rf!TagOther
<1>2. \A u : Rf!At(u)' = Rf!At(u) /\ Rf!New(u)' = Rf!New(u)
  BY <1>1 DEF Rf!At, Rf!New
<1>3. RfcLog' = RfcLog
  BY <1>1, <1>2 DEF RfcLog, Fits
<1>4. CASE Rf!EditorActs
  <2>1. UNCHANGED tags /\ entry' \in [Draft -> Rf!Entry]
    BY <1>4 DEF Rf!EditorActs, Rf!EditorMoves, RfcInv, RfcTypes
  <2>2. RfcTypes'
    BY <1>1, <2>1 DEF RfcInv, RfcTypes
  <2>3. \A u \in Updater : RunOK(u)' = RunOK(u)
    BY <1>1, <1>2, <2>1 DEF RunOK, Mirrored
  <2> QED BY <1>3, <2>2, <2>3 DEF RfcInv, Works
<1>5. CASE Rf!Others
  <2>1. UNCHANGED entry /\ tags' \in [Draft -> SUBSET (Rf!QueueTag \cup {"other"})]
    BY <1>5 DEF Rf!Others, Rf!Approve, Rf!TagOther, RfcInv, RfcTypes
  <2>2. RfcTypes'
    BY <1>1, <2>1 DEF RfcInv, RfcTypes
  <2>3. \A d \in Draft : Rf!QueueTag \cap tags'[d] = Rf!QueueTag \cap tags[d]
    BY <1>5 DEF Rf!Others, Rf!Approve, Rf!TagOther, RfcInv, RfcTypes, Rf!QueueTag
  <2>4. \A e : \A d \in Draft : Mirrored(e, d)' = Mirrored(e, d)
    BY <1>1, <2>3 DEF Mirrored
  <2>5. \A got : Rf!Listed(got) \subseteq Draft
    BY DEF Rf!Listed
  <2>6. \A u \in Updater : RunOK(u)'
    BY <1>1, <1>2, <2>4, <2>5 DEF RunOK, RfcInv
  <2> QED BY <1>3, <2>2, <2>6 DEF RfcInv, Works
<1> QED BY <1>4, <1>5

\* A run goes on, at the same draft, with the rest, or with other drafts.
Goes(u, pc, S) ==
  \/ Rf!GoesTo(u, pc) /\ S = updater[u].todo
  \/ Rf!Passed(u, pc) /\ S = updater[u].todo \ {Rf!At(u)}
  \/ updater' = [updater EXCEPT ![u].pc = pc, ![u].todo = S]

LEMMA RfcGoes ==
  ASSUME RfcTypes, NEW u \in Updater, NEW pc \in Rf!PC, NEW S \in SUBSET Draft, Goes(u, pc, S)
  PROVE  /\ updater' \in [Updater -> [pc : Rf!PC, got : [Draft -> Rf!Entry], todo : SUBSET Draft, at : Nat]]
         /\ updater'[u].pc = pc /\ updater'[u].got = updater[u].got /\ updater'[u].at = updater[u].at
         /\ updater'[u].todo = S
         /\ S = updater[u].todo => Rf!At(u)' = Rf!At(u) /\ Rf!New(u)' = Rf!New(u)
<1>1. PICK r \in [pc : Rf!PC, got : [Draft -> Rf!Entry], todo : SUBSET Draft, at : Nat] : r = updater[u]
  BY DEF RfcTypes
<1>2. (updater'[u] = [r EXCEPT !.pc = pc] /\ S = r.todo) \/ updater'[u] = [r EXCEPT !.pc = pc, !.todo = S]
  BY <1>1 DEF RfcTypes, Goes, Rf!GoesTo, Rf!Passed
<1>3. \A v \in Updater \ {u} : updater'[v] = updater[v]
  BY DEF RfcTypes, Goes, Rf!GoesTo, Rf!Passed
<1>4. DOMAIN updater' = Updater /\ updater' = [v \in Updater |-> updater'[v]]
  BY DEF RfcTypes, Goes, Rf!GoesTo, Rf!Passed
<1>5. PICK n : n = updater'[u]
  OBVIOUS
<1>6. /\ n \in [pc : Rf!PC, got : [Draft -> Rf!Entry], todo : SUBSET Draft, at : Nat]
      /\ n.pc = pc /\ n.got = r.got /\ n.at = r.at /\ n.todo = S
  BY <1>1, <1>2, <1>5
<1>7. \A v \in Updater :
        updater'[v] \in [pc : Rf!PC, got : [Draft -> Rf!Entry], todo : SUBSET Draft, at : Nat]
  BY <1>3, <1>5, <1>6 DEF RfcTypes
<1>8. S = updater[u].todo => Rf!At(u)' = Rf!At(u) /\ Rf!New(u)' = Rf!New(u)
  BY <1>1, <1>5, <1>6 DEF Rf!At, Rf!New
<1> QED BY <1>1, <1>4, <1>5, <1>6, <1>7, <1>8

\* A step that leaves the log and the states alone, and works on no event
LEMMA RfcLogKept ==
  ASSUME RfcTypes, OneUpdater, NEW u \in Updater, RfcLog, UNCHANGED <<rfcState, events>>,
         updater[u].pc \notin {"event", "delete"}, updater'[u].pc # "delete"
  PROVE  RfcLog'
<1>1. \A d \in Draft : Fits(d) /\ Fits(d)'
  BY DEF RfcLog, OneUpdater, Fits
<1>2. \A v \in Updater : v = u
  BY DEF OneUpdater
<1> QED BY <1>1, <1>2 DEF RfcLog

LEMMA RfcFetches ==
  ASSUME OneUpdater, RfcInv, Works, NEW u \in Updater, Rf!Fetch(u) PROVE RfcInv'
<1>1. /\ updater[u].pc = "idle" /\ UNCHANGED <<entry, rfcState, tags, approved, received, events>>
      /\ updater' = [updater EXCEPT ![u] =
                       [pc |-> "draft", got |-> entry, todo |-> Rf!Listed(entry), at |-> 0]]
  BY DEF Rf!Fetch, Rf!queueRow
<1>2. Rf!Listed(entry) \subseteq Draft
  BY DEF Rf!Listed
<1>3. RfcTypes'
  BY <1>1, <1>2 DEF RfcInv, RfcTypes, Rf!PC
<1>4. updater'[u] = [pc |-> "draft", got |-> entry, todo |-> Rf!Listed(entry), at |-> 0]
  BY <1>1 DEF RfcInv, RfcTypes
<1>5. \A v \in Updater : RunOK(v)'
  BY <1>4 DEF RunOK, OneUpdater
<1>6. RfcLog => RfcLog'
  BY <1>1, <1>4, RfcLogKept DEF RfcInv
<1> QED BY <1>3, <1>5, <1>6 DEF RfcInv, Works

LEMMA RfcUndoes ==
  ASSUME OneUpdater, RfcInv, Works, NEW u \in Updater, NEW d \in Draft,
         NEW i \in 1..Len(events[d]), Rf!Undo(u, d, i)
  PROVE  RfcInv'
<1>1. /\ updater[u].pc = "idle" /\ UNCHANGED <<entry, tags, approved, received, events>>
      /\ updater' = [updater EXCEPT ![u] = [Rf!Resting EXCEPT !.pc = "delete", !.todo = {d}, !.at = i]]
      /\ rfcState' = IF i < Len(events[d]) THEN rfcState
                     ELSE [rfcState EXCEPT ![d] = IF i = 1 THEN "none" ELSE events[d][i - 1]]
  BY DEF Rf!Undo
<1>2. RfcTypes /\ i \in Nat /\ i <= Len(events[d]) /\ Len(events[d]) \in Nat /\ events[d] \in Seq(Rf!Mapped)
  BY DEF RfcInv, RfcTypes
<1>3. PICK n : n = [Rf!Resting EXCEPT !.pc = "delete", !.todo = {d}, !.at = i]
  OBVIOUS
<1>4. /\ n \in [pc : Rf!PC, got : [Draft -> Rf!Entry], todo : SUBSET Draft, at : Nat]
      /\ n.pc = "delete" /\ n.todo = {d} /\ n.at = i
  <2>1. Rf!Out \in Rf!Entry
    BY DEF Rf!Out, Rf!Entry, Rf!State
  <2> QED BY <1>2, <1>3, <2>1 DEF Rf!Resting, Rf!PC
<1>5. updater'[u] = n /\ updater' = [updater EXCEPT ![u] = n]
  BY <1>1, <1>2, <1>3 DEF RfcTypes
<1>6. rfcState' \in [Draft -> Rf!State]
  <2>1. i # 1 => events[d][i - 1] \in Rf!Mapped
    BY <1>2
  <2> QED BY <1>1, <1>2, <2>1 DEF RfcTypes, Rf!State
<1>7. RfcTypes'
  BY <1>1, <1>2, <1>4, <1>5, <1>6 DEF RfcTypes
<1>8. Rf!At(u)' = d
  BY <1>4, <1>5 DEF Rf!At
<1>9. \A v \in Updater : RunOK(v)'
  BY <1>1, <1>2, <1>4, <1>5, <1>8 DEF RunOK, OneUpdater
<1>10. ASSUME RfcLog PROVE RfcLog'
  <2>1. \A e \in Draft : Fits(e)
    BY <1>1, <1>10 DEF RfcLog, OneUpdater
  <2>2. \A e \in Draft \ {d} : Fits(e)'
    BY <1>1, <1>2, <2>1 DEF Fits, RfcTypes
  <2>3. i < Len(events[d]) => Fits(d)'
    BY <1>1, <2>1 DEF Fits
  <2>4. ~ (i < Len(events[d])) => rfcState'[d] = IF i = 1 THEN "none" ELSE events[d][i - 1]
    BY <1>1, <1>2 DEF RfcTypes
  <2>5. \A v \in Updater : updater'[v].pc = "delete" /\ updater'[v].at = i /\ Rf!At(v)' = d
    BY <1>4, <1>5, <1>8 DEF OneUpdater
  <2>6. \A e \in Draft : Fits(e)' \/ \E v \in Updater : updater'[v].pc \in {"event", "delete"} /\ e = Rf!At(v)'
    BY <2>2, <2>5
  <2> QED BY <1>1, <2>3, <2>4, <2>5, <2>6 DEF RfcLog
<1> QED BY <1>7, <1>9, <1>10 DEF RfcInv, Works

LEMMA RfcDeletes ==
  ASSUME OneUpdater, RfcInv, Works, NEW u \in Updater, Rf!Delete(u) PROVE RfcInv'
<1>0. RfcTypes /\ RunOK(u) /\ updater[u].pc = "delete" /\ \A v \in Updater : v = u
  BY DEF RfcInv, Rf!Delete, OneUpdater
<1>a. PICK d : d = Rf!At(u)
  OBVIOUS
<1>b. PICK i \in Nat : i = updater[u].at
  BY <1>0 DEF RfcTypes
<1>1. d \in Draft
  BY <1>0, <1>a, RfcAt DEF RunOK
<1>c. PICK s \in Seq(Rf!Mapped) : s = events[d]
  BY <1>0, <1>1 DEF RfcTypes
<1>2. i \in 1..Len(s)
  BY <1>0, <1>a, <1>b, <1>c DEF RunOK
<1>d. PICK t : t = TakenOut(s, i)
  OBVIOUS
<1>3. /\ events' = [events EXCEPT ![d] = t]
      /\ updater' = [updater EXCEPT ![u] = Rf!Resting]
      /\ UNCHANGED <<entry, rfcState, tags, approved, received>>
  BY <1>a, <1>b, <1>c, <1>d DEF Rf!Delete, TakenOut
<1>4. /\ t \in Seq(Rf!Mapped) /\ Len(t) = Len(s) - 1
      /\ i < Len(s) => t # << >> /\ t[Len(t)] = s[Len(s)]
      /\ i = Len(s) /\ i # 1 => t # << >> /\ t[Len(t)] = s[i - 1]
  BY <1>2, <1>d, TakenOutEnds
<1>5. updater'[u].pc = "idle" /\ events'[d] = t /\ \A e \in Draft \ {d} : events'[e] = events[e]
  BY <1>0, <1>1, <1>3 DEF RfcTypes, Rf!Resting
<1>6. RfcTypes'
  <2>1. Rf!Out \in Rf!Entry
    BY DEF Rf!Out, Rf!Entry, Rf!State
  <2>2. events' \in [Draft -> Seq(Rf!Mapped)]
    BY <1>0, <1>3, <1>4 DEF RfcTypes
  <2> QED BY <1>0, <1>3, <2>1, <2>2 DEF RfcTypes, Rf!Resting, Rf!PC
<1>7. RunOK(u)'
  BY <1>5 DEF RunOK
<1>8. ASSUME RfcLog PROVE RfcLog'
  <2>1. \A e \in Draft \ {d} : Fits(e)
    BY <1>0, <1>a, <1>8 DEF RfcLog
  <2>2. \A e \in Draft \ {d} : Fits(e)'
    BY <1>3, <1>5, <2>1 DEF Fits
  <2>3. Fits(d)'
    <3>1. CASE i < Len(s)
      <4>1. rfcState[d] # "none" => rfcState[d] = s[Len(s)]
        BY <1>0, <1>a, <1>b, <1>c, <1>8, <3>1 DEF RfcLog, Fits, Rf!Latest
      <4> QED BY <1>3, <1>4, <1>5, <3>1, <4>1 DEF Fits, Rf!Latest
    <3>2. CASE i = Len(s)
      <4>1. ~ (i < Len(s))
        BY <3>2
      <4>2. rfcState[d] = IF i = 1 THEN "none" ELSE s[i - 1]
        BY <1>0, <1>a, <1>b, <1>c, <1>8, <4>1, Zenon DEF RfcLog
      <4> QED BY <1>3, <1>4, <1>5, <3>2, <4>2 DEF Fits, Rf!Latest
    <3> QED BY <1>2, <3>1, <3>2
  <2> QED BY <1>0, <1>1, <1>5, <2>2, <2>3 DEF RfcLog
<1> QED BY <1>0, <1>6, <1>7, <1>8 DEF RfcInv, Works

LEMMA RfcDies ==
  ASSUME OneUpdater, RfcInv, Breaks, NEW u \in Updater, Rf!Killed(u) PROVE RfcInv'
<1>1. /\ updater' = [updater EXCEPT ![u] = Rf!Resting]
      /\ UNCHANGED <<entry, rfcState, tags, approved, received, events>>
  BY DEF Rf!Killed, Rf!queueRow
<1>2. RfcTypes'
  <2>1. Rf!Out \in Rf!Entry
    BY DEF Rf!Out, Rf!Entry, Rf!State
  <2> QED BY <1>1, <2>1 DEF RfcInv, RfcTypes, Rf!Resting, Rf!PC
<1>3. updater'[u].pc = "idle"
  BY <1>1 DEF RfcInv, RfcTypes, Rf!Resting
<1>4. \A v \in Updater : RunOK(v)'
  BY <1>3 DEF RunOK, OneUpdater
<1> QED BY <1>2, <1>4 DEF RfcInv, Breaks

\* A step that changes at most the row of one draft, which is still to be done,
\* leaves those that are done as they are.
LEMMA RfcTakesUp ==
  ASSUME OneUpdater, RfcInv, Works, NEW u \in Updater, Rf!TakeUp(u) PROVE RfcInv'
<1>0. RfcTypes /\ RunOK(u) /\ updater[u].pc = "draft" /\ (\A v \in Updater : v = u)
      /\ updater[u].todo # {} /\ UNCHANGED <<entry, rfcState, tags, approved, events>>
  BY DEF RfcInv, Rf!TakeUp, OneUpdater
<1>a. PICK d : d = Rf!At(u)
  OBVIOUS
<1>1. d \in Draft /\ d \in updater[u].todo
  BY <1>0, <1>a, RfcAt
<1>b. PICK e : e = updater[u].got[d]
  OBVIOUS
<1>2. e \in Rf!Entry /\ e.state # "none" /\ Rf!New(u) = e
  BY <1>0, <1>1, <1>a, <1>b DEF RfcTypes, RunOK, Rf!Listed, Rf!New
<1>3. CASE e.state = "unknown"
  <2>1. Rf!Passed(u, "draft")
    <3>1. rfcState[d] # "unknown"
      BY <1>0, <1>1 DEF RfcTypes, Rf!State, Rf!Mapped
    <3> QED BY <1>a, <1>2, <1>3, <3>1 DEF Rf!TakeUp
  <2>2. /\ updater' \in [Updater -> [pc : Rf!PC, got : [Draft -> Rf!Entry], todo : SUBSET Draft, at : Nat]]
        /\ updater'[u].pc = "draft" /\ updater'[u].got = updater[u].got
        /\ updater'[u].todo = updater[u].todo \ {d}
    <3>1. "draft" \in Rf!PC /\ updater[u].todo \ {d} \in SUBSET Draft
      BY <1>0 DEF RfcTypes, Rf!PC
    <3>2. Goes(u, "draft", updater[u].todo \ {d})
      BY <1>a, <2>1 DEF Goes
    <3> QED BY <1>0, <3>1, <3>2, RfcGoes
  <2>3. RunOK(u)'
    BY <1>0, <1>1, <1>b, <1>3, <2>2 DEF RunOK, Mirrored
  <2>4. RfcLog => RfcLog'
    BY <1>0, <2>2, RfcLogKept
  <2> QED BY <1>0, <2>2, <2>3, <2>4 DEF RfcInv, RfcTypes, Works
<1>4. ASSUME NEW pc \in {"set", "tags"}, Rf!GoesTo(u, pc), e.state # "unknown",
             pc = "tags" => rfcState[d] = e.state
      PROVE  RfcInv'
  <2>1. pc \in Rf!PC /\ updater[u].todo \in SUBSET Draft
    BY <1>0 DEF RfcTypes, Rf!PC
  <2>2. /\ updater' \in [Updater -> [pc : Rf!PC, got : [Draft -> Rf!Entry], todo : SUBSET Draft, at : Nat]]
        /\ updater'[u].pc = pc /\ updater'[u].got = updater[u].got
        /\ updater'[u].todo = updater[u].todo
        /\ Rf!At(u)' = d /\ Rf!New(u)' = e
    <3>1. Goes(u, pc, updater[u].todo)
      BY <1>4 DEF Goes
    <3> QED BY <1>0, <1>a, <1>2, <2>1, <3>1, RfcGoes
  <2>3. e.state \in Rf!Mapped
    BY <1>2, <1>4 DEF Rf!Entry, Rf!State
  <2>4. RunOK(u)'
    BY <1>0, <1>1, <1>4, <2>2, <2>3 DEF RunOK, Mirrored
  <2>5. RfcLog => RfcLog'
    BY <1>0, <1>4, <2>2, RfcLogKept
  <2> QED BY <1>0, <2>2, <2>4, <2>5 DEF RfcInv, RfcTypes, Works
<1>5. \/ e.state = "unknown"
      \/ e.state # "unknown" /\ e.state = rfcState[d] /\ Rf!GoesTo(u, "tags")
      \/ e.state # "unknown" /\ Rf!GoesTo(u, "set")
  BY <1>2, <1>a DEF Rf!TakeUp
<1> QED BY <1>3, <1>4, <1>5

LEMMA RfcSetsState ==
  ASSUME OneUpdater, RfcInv, Works, NEW u \in Updater, Rf!SetState(u) PROVE RfcInv'
<1>0. RfcTypes /\ RunOK(u) /\ updater[u].pc = "set" /\ (\A v \in Updater : v = u)
      /\ UNCHANGED <<entry, tags, approved, received, events>>
  BY DEF RfcInv, Rf!SetState, OneUpdater
<1>a. PICK d : d = Rf!At(u)
  OBVIOUS
<1>b. PICK e : e = Rf!New(u)
  OBVIOUS
<1>1. d \in Draft /\ d \in updater[u].todo /\ e.state \in Rf!Mapped /\ updater[u].todo # {}
  BY <1>0, <1>a, <1>b, RfcAt DEF RunOK
<1>2. "event" \in Rf!PC /\ updater[u].todo \in SUBSET Draft
  BY <1>0 DEF RfcTypes, Rf!PC
<1>3. /\ updater' \in [Updater -> [pc : Rf!PC, got : [Draft -> Rf!Entry], todo : SUBSET Draft, at : Nat]]
      /\ updater'[u].pc = "event" /\ updater'[u].got = updater[u].got
      /\ updater'[u].todo = updater[u].todo
      /\ Rf!At(u)' = d /\ Rf!New(u)' = e
  <2>1. Goes(u, "event", updater[u].todo)
    BY DEF Goes, Rf!SetState
  <2> QED BY <1>0, <1>a, <1>b, <1>2, <2>1, RfcGoes
<1>4. rfcState' = [rfcState EXCEPT ![d] = e.state]
  BY <1>a, <1>b DEF Rf!SetState
<1>5. rfcState' \in [Draft -> Rf!State] /\ rfcState'[d] = e.state
      /\ \A o \in Draft \ {d} : rfcState'[o] = rfcState[o]
  BY <1>0, <1>1, <1>4 DEF RfcTypes, Rf!State
<1>6. RunOK(u)'
  BY <1>0, <1>1, <1>3, <1>5 DEF RunOK, Mirrored, Rf!Listed
<1>7. ASSUME RfcLog PROVE RfcLog'
  <2>1. \A o \in Draft \ {d} : Fits(o)'
    BY <1>0, <1>5, <1>7 DEF RfcLog, Fits
  <2> QED BY <1>0, <1>3, <2>1 DEF RfcLog
<1> QED BY <1>0, <1>3, <1>5, <1>6, <1>7 DEF RfcInv, RfcTypes, Works

LEMMA RfcAddsEvent ==
  ASSUME OneUpdater, RfcInv, Works, NEW u \in Updater, Rf!AddEvent(u) PROVE RfcInv'
<1>0. RfcTypes /\ RunOK(u) /\ updater[u].pc = "event" /\ (\A v \in Updater : v = u)
      /\ UNCHANGED <<entry, rfcState, tags, approved, received>>
  BY DEF RfcInv, Rf!AddEvent, OneUpdater
<1>a. PICK d : d = Rf!At(u)
  OBVIOUS
<1>b. PICK e : e = Rf!New(u)
  OBVIOUS
<1>1. d \in Draft /\ d \in updater[u].todo /\ e.state \in Rf!Mapped /\ updater[u].todo # {}
      /\ rfcState[d] = e.state
  BY <1>0, <1>a, <1>b, RfcAt DEF RunOK
<1>2. "tags" \in Rf!PC /\ updater[u].todo \in SUBSET Draft
  BY <1>0 DEF RfcTypes, Rf!PC
<1>3. /\ updater' \in [Updater -> [pc : Rf!PC, got : [Draft -> Rf!Entry], todo : SUBSET Draft, at : Nat]]
      /\ updater'[u].pc = "tags" /\ updater'[u].got = updater[u].got
      /\ updater'[u].todo = updater[u].todo
      /\ Rf!At(u)' = d /\ Rf!New(u)' = e
  <2>1. Goes(u, "tags", updater[u].todo)
    BY DEF Goes, Rf!AddEvent
  <2> QED BY <1>0, <1>a, <1>b, <1>2, <2>1, RfcGoes
<1>c. PICK s \in Seq(Rf!Mapped) : s = events[d]
  BY <1>0, <1>1 DEF RfcTypes
<1>4. events' = [events EXCEPT ![d] = Append(s, e.state)]
  BY <1>a, <1>b, <1>c DEF Rf!AddEvent
<1>5. /\ Append(s, e.state) \in Seq(Rf!Mapped) /\ Append(s, e.state) # << >>
      /\ Append(s, e.state)[Len(Append(s, e.state))] = e.state
  BY <1>1, AppendProperties
<1>6. events' \in [Draft -> Seq(Rf!Mapped)] /\ events'[d] = Append(s, e.state)
      /\ \A o \in Draft \ {d} : events'[o] = events[o]
  BY <1>0, <1>1, <1>4, <1>5 DEF RfcTypes
<1>7. RunOK(u)'
  BY <1>0, <1>1, <1>3 DEF RunOK, Mirrored
<1>8. ASSUME RfcLog PROVE RfcLog'
  <2>1. \A o \in Draft \ {d} : Fits(o)'
    BY <1>0, <1>a, <1>6, <1>8 DEF RfcLog, Fits
  <2>2. Fits(d)'
    BY <1>0, <1>1, <1>5, <1>6 DEF Fits, Rf!Latest
  <2> QED BY <1>0, <1>3, <2>1, <2>2 DEF RfcLog
<1> QED BY <1>0, <1>3, <1>6, <1>7, <1>8 DEF RfcInv, RfcTypes, Works

LEMMA RfcSetsTags ==
  ASSUME OneUpdater, RfcInv, Works, NEW u \in Updater, Rf!SetTags(u) PROVE RfcInv'
<1>0. RfcTypes /\ RunOK(u) /\ updater[u].pc = "tags" /\ (\A v \in Updater : v = u)
      /\ UNCHANGED <<entry, rfcState, approved, received, events>>
  BY DEF RfcInv, Rf!SetTags, OneUpdater
<1>a. PICK d : d = Rf!At(u)
  OBVIOUS
<1>b. PICK e : e = updater[u].got[d]
  OBVIOUS
<1>1. /\ d \in Draft /\ d \in updater[u].todo /\ e = Rf!New(u) /\ e \in Rf!Entry
      /\ rfcState[d] = e.state
  BY <1>0, <1>a, <1>b, RfcAt DEF RunOK, Rf!New, RfcTypes
<1>2. "draft" \in Rf!PC /\ updater[u].todo \ {d} \in SUBSET Draft
  BY <1>0 DEF RfcTypes, Rf!PC
<1>3. /\ updater' \in [Updater -> [pc : Rf!PC, got : [Draft -> Rf!Entry], todo : SUBSET Draft, at : Nat]]
      /\ updater'[u].pc = "draft" /\ updater'[u].got = updater[u].got
      /\ updater'[u].todo = updater[u].todo \ {d}
  <2>1. Goes(u, "draft", updater[u].todo \ {d})
    BY <1>a DEF Goes, Rf!SetTags
  <2> QED BY <1>0, <1>a, <1>2, <2>1, RfcGoes
<1>4. tags' = [tags EXCEPT ![d] = e.tags]
  BY <1>a, <1>1 DEF Rf!SetTags
<1>5. e.tags \subseteq Rf!QueueTag
  BY <1>1 DEF Rf!Entry
<1>6. tags' \in [Draft -> SUBSET (Rf!QueueTag \cup {"other"})] /\ tags'[d] = e.tags
      /\ \A o \in Draft \ {d} : tags'[o] = tags[o]
  BY <1>0, <1>1, <1>4, <1>5 DEF RfcTypes
<1>7. Mirrored(e, d)' /\ \A o \in Draft \ {d} : \A x : Mirrored(x, o)' = Mirrored(x, o)
  BY <1>0, <1>1, <1>5, <1>6 DEF Mirrored
<1>8. RunOK(u)'
  BY <1>0, <1>1, <1>b, <1>3, <1>7 DEF RunOK, Rf!Listed
<1>9. RfcLog => RfcLog'
  BY <1>0, <1>3, RfcLogKept
<1> QED BY <1>0, <1>3, <1>6, <1>8, <1>9 DEF RfcInv, RfcTypes, Works

LEMMA RfcLooksForLeft ==
  ASSUME OneUpdater, RfcInv, Works, NEW u \in Updater, Rf!LookForLeft(u) PROVE RfcInv'
<1>0. RfcTypes /\ RunOK(u) /\ updater[u].pc = "draft" /\ (\A v \in Updater : v = u)
      /\ updater[u].todo = {} /\ UNCHANGED <<entry, rfcState, tags, approved, received, events>>
  BY DEF RfcInv, Rf!LookForLeft, Rf!queueRow, OneUpdater
<1>a. PICK S : S = Rf!Left(u)
  OBVIOUS
<1>1. "left" \in Rf!PC /\ S \in SUBSET Draft
  BY <1>a DEF Rf!PC, Rf!Left
<1>2. /\ updater' \in [Updater -> [pc : Rf!PC, got : [Draft -> Rf!Entry], todo : SUBSET Draft, at : Nat]]
      /\ updater'[u].pc = "left" /\ updater'[u].got = updater[u].got
      /\ updater'[u].todo = S
  <2>1. Goes(u, "left", S)
    BY <1>a DEF Goes, Rf!LookForLeft
  <2> QED BY <1>0, <1>a, <1>1, <2>1, RfcGoes
<1>3. RunOK(u)'
  BY <1>0, <1>a, <1>2 DEF RunOK, Mirrored, Rf!Left, Rf!Listed
<1>4. RfcLog => RfcLog'
  BY <1>0, <1>2, RfcLogKept
<1> QED BY <1>0, <1>2, <1>3, <1>4 DEF RfcInv, RfcTypes, Works

LEMMA RfcUntags ==
  ASSUME OneUpdater, RfcInv, Works, NEW u \in Updater, Rf!Untag(u) PROVE RfcInv'
<1>0. RfcTypes /\ RunOK(u) /\ updater[u].pc = "left" /\ (\A v \in Updater : v = u)
      /\ updater[u].todo # {} /\ UNCHANGED <<entry, rfcState, approved, received, events>>
  BY DEF RfcInv, Rf!Untag, OneUpdater
<1>a. PICK d : d = Rf!At(u)
  OBVIOUS
<1>1. d \in Draft /\ d \in updater[u].todo /\ d \notin Rf!Listed(updater[u].got)
  BY <1>0, <1>a, RfcAt DEF RunOK
<1>2. "unset" \in Rf!PC /\ updater[u].todo \in SUBSET Draft
  BY <1>0 DEF RfcTypes, Rf!PC
<1>3. /\ updater' \in [Updater -> [pc : Rf!PC, got : [Draft -> Rf!Entry], todo : SUBSET Draft, at : Nat]]
      /\ updater'[u].pc = "unset" /\ updater'[u].got = updater[u].got
      /\ updater'[u].todo = updater[u].todo
  <2>1. Goes(u, "unset", updater[u].todo)
    BY DEF Goes, Rf!Untag
  <2> QED BY <1>0, <1>2, <2>1, RfcGoes
<1>4. tags' = [tags EXCEPT ![d] = @ \ Rf!QueueTag]
  BY <1>a DEF Rf!Untag
<1>5. tags' \in [Draft -> SUBSET (Rf!QueueTag \cup {"other"})]
      /\ \A o \in Draft \ {d} : tags'[o] = tags[o]
  BY <1>0, <1>1, <1>4 DEF RfcTypes
<1>6. RunOK(u)'
  BY <1>0, <1>1, <1>3, <1>5 DEF RunOK, Mirrored, Rf!Listed
<1>7. RfcLog => RfcLog'
  BY <1>0, <1>3, RfcLogKept
<1> QED BY <1>0, <1>3, <1>5, <1>6, <1>7 DEF RfcInv, RfcTypes, Works

LEMMA RfcUnsets ==
  ASSUME OneUpdater, RfcInv, Works, NEW u \in Updater, Rf!Unset(u) PROVE RfcInv'
<1>0. RfcTypes /\ RunOK(u) /\ updater[u].pc = "unset" /\ (\A v \in Updater : v = u)
      /\ updater[u].todo # {} /\ UNCHANGED <<entry, tags, approved, received, events>>
  BY DEF RfcInv, Rf!Unset, OneUpdater, RunOK
<1>a. PICK d : d = Rf!At(u)
  OBVIOUS
<1>1. d \in Draft /\ d \in updater[u].todo /\ d \notin Rf!Listed(updater[u].got)
  BY <1>0, <1>a, RfcAt DEF RunOK
<1>2. "left" \in Rf!PC /\ updater[u].todo \ {d} \in SUBSET Draft
  BY <1>0 DEF RfcTypes, Rf!PC
<1>3. /\ updater' \in [Updater -> [pc : Rf!PC, got : [Draft -> Rf!Entry], todo : SUBSET Draft, at : Nat]]
      /\ updater'[u].pc = "left" /\ updater'[u].got = updater[u].got
      /\ updater'[u].todo = updater[u].todo \ {d}
  <2>1. Goes(u, "left", updater[u].todo \ {d})
    BY <1>a DEF Goes, Rf!Unset
  <2> QED BY <1>0, <1>a, <1>2, <2>1, RfcGoes
<1>4. rfcState' = [rfcState EXCEPT ![d] = "none"]
  BY <1>a DEF Rf!Unset
<1>5. rfcState' \in [Draft -> Rf!State] /\ rfcState'[d] = "none"
      /\ \A o \in Draft \ {d} : rfcState'[o] = rfcState[o]
  BY <1>0, <1>1, <1>4 DEF RfcTypes, Rf!State
<1>6. RunOK(u)'
  BY <1>0, <1>1, <1>3, <1>5 DEF RunOK, Mirrored, Rf!Listed
<1>7. ASSUME RfcLog PROVE RfcLog'
  <2>1. \A o \in Draft : Fits(o)'
    BY <1>0, <1>5, <1>7 DEF RfcLog, Fits
  <2> QED BY <1>0, <1>3, <2>1 DEF RfcLog
<1> QED BY <1>0, <1>3, <1>5, <1>6, <1>7 DEF RfcInv, RfcTypes, Works

LEMMA RfcEnds ==
  ASSUME OneUpdater, RfcInv, Works, NEW u \in Updater, Rf!Done(u) \/ Rf!Exit(u) PROVE RfcInv'
<1>0. RfcTypes /\ RunOK(u) /\ (\A v \in Updater : v = u)
      /\ UNCHANGED <<entry, rfcState, tags, approved, received, events>>
  BY DEF RfcInv, Rf!Done, Rf!Exit, Rf!queueRow, OneUpdater
<1>1. CASE Rf!Done(u)
  <2>1. "done" \in Rf!PC /\ updater[u].todo \in SUBSET Draft /\ updater[u].todo = {}
        /\ updater[u].pc = "left"
    BY <1>0, <1>1 DEF RfcTypes, Rf!PC, Rf!Done
  <2>2. /\ updater' \in [Updater -> [pc : Rf!PC, got : [Draft -> Rf!Entry], todo : SUBSET Draft, at : Nat]]
        /\ updater'[u].pc = "done" /\ updater'[u].got = updater[u].got /\ updater'[u].todo = {}
    <3>1. Goes(u, "done", updater[u].todo)
      BY <1>1 DEF Goes, Rf!Done
    <3> QED BY <1>0, <1>1, <2>1, <3>1, RfcGoes
  <2>3. RunOK(u)'
    BY <1>0, <2>1, <2>2 DEF RunOK, Mirrored, Rf!Listed
  <2>4. RfcLog => RfcLog'
    BY <1>0, <2>1, <2>2, RfcLogKept
  <2> QED BY <1>0, <2>2, <2>3, <2>4 DEF RfcInv, RfcTypes, Works
<1>2. CASE Rf!Exit(u)
  <2>1. updater' = [updater EXCEPT ![u] = Rf!Resting] /\ updater[u].pc = "done"
    BY <1>2 DEF Rf!Exit
  <2>2. updater'[u].pc = "idle"
    BY <1>0, <2>1 DEF RfcTypes, Rf!Resting
  <2>3. Rf!Out \in Rf!Entry
    BY DEF Rf!Out, Rf!Entry, Rf!State
  <2>4. RfcTypes'
    BY <1>0, <2>1, <2>3 DEF RfcTypes, Rf!Resting, Rf!PC
  <2>5. RunOK(u)'
    BY <2>2 DEF RunOK
  <2>6. RfcLog => RfcLog'
    BY <1>0, <2>1, <2>2, RfcLogKept
  <2> QED BY <1>0, <2>4, <2>5, <2>6 DEF RfcInv, Works
<1> QED BY <1>1, <1>2

LEMMA RfcStep ==
  ASSUME OneUpdater, RfcInv, part = "rfc", [MCNext]_allVars PROVE RfcInv'
<1>1. CASE QueueMoves
  <2>1. CASE Works /\ (Rf!EditorActs \/ Rf!Others)
    BY <2>1, RfcOthers
  <2>2. ASSUME NEW u \in Updater, Works, Rf!Start(u) PROVE RfcInv'
    BY <2>2, RfcFetches, RfcUndoes DEF Rf!Start
  <2>3. ASSUME NEW u \in Updater, Works, Rf!Step(u) PROVE RfcInv'
    BY <2>3, RfcTakesUp, RfcSetsState, RfcAddsEvent, RfcSetsTags, RfcLooksForLeft, RfcUntags,
       RfcUnsets, RfcEnds, RfcDeletes DEF Rf!Step
  <2>4. CASE Rf!Abort /\ Breaks
    BY <2>4, RfcDies DEF Rf!Abort
  <2> QED BY <1>1, <2>1, <2>2, <2>3, <2>4 DEF QueueMoves
<1>2. CASE UNCHANGED allVars
  <2>1. UNCHANGED <<entry, rfcState, tags, approved, received, events, updater, failed>>
    BY <1>2 DEF allVars, queueRows
  <2>2. \A u : Rf!At(u)' = Rf!At(u) /\ Rf!New(u)' = Rf!New(u)
    BY <2>1 DEF Rf!At, Rf!New
  <2>3. \A u \in Updater : RunOK(u)' = RunOK(u)
    BY <2>1, <2>2 DEF RunOK, Mirrored
  <2>4. RfcLog' = RfcLog
    BY <2>1, <2>2 DEF RfcLog, Fits
  <2> QED BY <2>1, <2>3, <2>4 DEF RfcInv, RfcTypes
<1> QED
  BY <1>1, <1>2 DEF MCNext, CharterMoves, MilestonesMove, IanaMoves, NominationsMove,
                    SessionsMove, MaterialsMove, MailMoves, ListsMove

\* The steps that leave states and tags alone
LEMMA RfcTagsKept ==
  ASSUME RfcTags, UNCHANGED <<rfcState, undone>>,
         \A d \in Draft : Rf!QueueTag \cap tags'[d] = Rf!QueueTag \cap tags[d],
         \A u \in Updater : updater'[u].pc = "unset" =>
           updater[u].pc = "unset" /\ Rf!At(u)' = Rf!At(u) /\ Rf!At(u) \in Draft
  PROVE  RfcTags'
BY DEF RfcTags, Tagless

LEMMA RfcTagsStep ==
  ASSUME OneUpdater, RfcInv, RfcTags, part = "rfc", [MCNext]_allVars PROVE RfcTags'
<1>0. RfcTypes /\ (\A u \in Updater : RunOK(u)) /\ (\A u, v \in Updater : u = v)
  BY DEF RfcInv, OneUpdater
<1>1. CASE UNCHANGED <<rfcState, tags, undone, updater>>
  <2>1. \A u : Rf!At(u)' = Rf!At(u)
    BY <1>1 DEF Rf!At
  <2> QED BY <1>1, <2>1 DEF RfcTags, Tagless
<1>2. CASE Rf!Others
  <2>1. UNCHANGED <<rfcState, undone, updater>>
    BY <1>2 DEF Rf!Others, Rf!Approve, Rf!TagOther
  <2>2. \A d \in Draft : Rf!QueueTag \cap tags'[d] = Rf!QueueTag \cap tags[d]
    BY <1>0, <1>2 DEF Rf!Others, Rf!Approve, Rf!TagOther, RfcTypes, Rf!QueueTag
  <2>3. \A u : Rf!At(u)' = Rf!At(u)
    BY <2>1 DEF Rf!At
  <2>4. \A u \in Updater : updater[u].pc = "unset" => Rf!At(u) \in Draft
    BY <1>0, RfcAt DEF RunOK
  <2> QED BY <2>1, <2>2, <2>3, <2>4, RfcTagsKept
<1>3. ASSUME NEW u \in Updater, UNCHANGED <<rfcState, tags, undone>>, NEW pc, pc # "unset",
             updater'[u].pc = pc
      PROVE  RfcTags'
  <2>1. \A v \in Updater : updater'[v].pc # "unset"
    BY <1>0, <1>3
  <2> QED BY <1>3, <2>1, RfcTagsKept
<1>4. ASSUME NEW u \in Updater, Rf!Fetch(u) PROVE RfcTags'
  <2>1. UNCHANGED <<rfcState, tags, undone>> /\ updater'[u].pc = "draft"
    BY <1>0, <1>4 DEF Rf!Fetch, Rf!queueRow, RfcTypes
  <2> QED BY <1>3, <2>1
<1>5. ASSUME NEW u \in Updater, NEW d \in Draft, NEW i \in 1..Len(events[d]), Rf!Undo(u, d, i) PROVE RfcTags'
  <2>1. /\ UNCHANGED <<tags, events>>
        /\ updater' = [updater EXCEPT ![u] = [Rf!Resting EXCEPT !.pc = "delete", !.todo = {d}, !.at = i]]
        /\ rfcState' = IF i < Len(events[d]) THEN rfcState
                       ELSE [rfcState EXCEPT ![d] = IF i = 1 THEN "none" ELSE events[d][i - 1]]
        /\ undone' = IF Len(events[d]) > 1 THEN undone
                     ELSE undone \cup {e \in {d} : Rf!QueueTag \cap tags[d] # {}}
    BY <1>5 DEF Rf!Undo
  <2>2. updater'[u].pc = "delete"
    BY <1>0, <2>1 DEF RfcTypes, Rf!Resting
  <2>3. PICK s \in Seq(Rf!Mapped) : s = events[d]
    BY <1>0 DEF RfcTypes
  <2>a. PICK l \in Nat : l = Len(s)
    BY <2>3
  <2>4. i \in Nat /\ i >= 1 /\ i <= l /\ \A k \in 1..l : s[k] \in Rf!Mapped
    BY <1>5, <2>3, <2>a
  <2>5. ASSUME NEW e \in Draft, rfcState'[e] = "none" PROVE Tagless(e)'
    <3>1. CASE e # d \/ i < l
      <4>1. rfcState[e] = "none"
        BY <1>0, <2>1, <2>3, <2>a, <2>5, <3>1 DEF RfcTypes
      <4> QED BY <2>1, <4>1 DEF RfcTags, Tagless
    <3>2. CASE e = d /\ ~ (i < l)
      <4>1. rfcState'[d] = IF i = 1 THEN "none" ELSE s[i - 1]
        BY <1>0, <2>1, <2>3, <2>a, <3>2 DEF RfcTypes
      <4>2. i = 1
        <5>1. i # 1 => s[i - 1] \in Rf!Mapped
          BY <2>4
        <5> QED BY <2>5, <3>2, <4>1, <5>1 DEF Rf!Mapped
      <4>3. ~ (l > 1)
        BY <2>4, <3>2, <4>2
      <4>4. undone' = undone \cup {x \in {d} : Rf!QueueTag \cap tags[d] # {}}
        BY <2>1, <2>3, <2>a, <4>3
      <4> QED BY <2>1, <3>2, <4>4 DEF Tagless
    <3> QED BY <3>1, <3>2
  <2>6. undone' \subseteq Draft
    BY <2>1 DEF RfcTags
  <2>7. \A v \in Updater : updater'[v].pc # "unset"
    BY <1>0, <2>2
  <2> QED BY <2>5, <2>6, <2>7 DEF RfcTags
<1>6. ASSUME NEW u \in Updater, Rf!TakeUp(u) PROVE RfcTags'
  <2>1. UNCHANGED <<rfcState, tags, undone>> /\ updater'[u].pc # "unset"
    BY <1>0, <1>6 DEF Rf!TakeUp, Rf!Passed, Rf!GoesTo, RfcTypes
  <2> QED BY <1>3, <2>1
<1>7. ASSUME NEW u \in Updater, Rf!SetState(u) PROVE RfcTags'
  <2>1. /\ UNCHANGED <<tags, undone>> /\ updater'[u].pc = "event"
        /\ rfcState' = [rfcState EXCEPT ![Rf!At(u)] = Rf!New(u).state]
    BY <1>0, <1>7 DEF Rf!SetState, Rf!GoesTo, RfcTypes
  <2>2. Rf!New(u).state # "none"
    BY <1>0, <1>7 DEF Rf!SetState, RunOK, Rf!Mapped
  <2>3. \A d \in Draft : rfcState'[d] = "none" => rfcState[d] = "none"
    BY <1>0, <2>1, <2>2 DEF RfcTypes
  <2>4. \A v \in Updater : updater'[v].pc # "unset"
    BY <1>0, <2>1
  <2> QED BY <2>1, <2>3, <2>4 DEF RfcTags, Tagless
<1>8. ASSUME NEW u \in Updater, Rf!AddEvent(u) \/ Rf!Done(u) \/ Rf!Exit(u) \/ Rf!LookForLeft(u)
                                 \/ Rf!Delete(u) \/ Rf!Killed(u) PROVE RfcTags'
  <2>1. UNCHANGED <<rfcState, tags, undone>> /\ updater'[u].pc # "unset"
    BY <1>0, <1>8 DEF Rf!AddEvent, Rf!Done, Rf!Exit, Rf!LookForLeft, Rf!Delete, Rf!Killed, Rf!GoesTo,
                      Rf!queueRow, RfcTypes, Rf!Resting
  <2> QED BY <1>3, <2>1
<1>9. ASSUME NEW u \in Updater, Rf!SetTags(u) PROVE RfcTags'
  <2>a. PICK d : d = Rf!At(u)
    OBVIOUS
  <2>1. /\ UNCHANGED rfcState /\ updater'[u].pc = "draft"
        /\ tags' = [tags EXCEPT ![d] = Rf!New(u).tags] /\ undone' = undone \ {d}
    BY <1>0, <1>9, <2>a DEF Rf!SetTags, Rf!Passed, RfcTypes
  <2>2. d \in Draft /\ rfcState[d] # "none"
    <3>1. rfcState[d] = Rf!New(u).state /\ Rf!New(u).state \in Rf!Mapped /\ updater[u].todo # {}
      BY <1>0, <1>9, <2>a DEF Rf!SetTags, RunOK
    <3> QED BY <1>0, <2>a, <3>1, RfcAt DEF Rf!Mapped
  <2>3. ASSUME NEW e \in Draft, rfcState'[e] = "none" PROVE Tagless(e)'
    BY <1>0, <2>1, <2>2, <2>3 DEF RfcTags, Tagless, RfcTypes
  <2>4. \A v \in Updater : updater'[v].pc # "unset"
    BY <1>0, <2>1
  <2> QED BY <2>1, <2>3, <2>4 DEF RfcTags
<1>10. ASSUME NEW u \in Updater, Rf!Untag(u) PROVE RfcTags'
  <2>a. PICK d : d = Rf!At(u)
    OBVIOUS
  <2>1. /\ UNCHANGED rfcState /\ updater'[u].todo = updater[u].todo /\ updater[u].todo # {}
        /\ tags' = [tags EXCEPT ![d] = @ \ Rf!QueueTag] /\ undone' = undone \ {d}
    BY <1>0, <1>10, <2>a DEF Rf!Untag, Rf!GoesTo, RfcTypes
  <2>2. d \in Draft /\ Rf!At(u)' = d
    BY <1>0, <2>a, <2>1, RfcAt DEF Rf!At
  <2>3. Rf!QueueTag \cap tags'[d] = {} /\ \A e \in Draft \ {d} : tags'[e] = tags[e]
    BY <1>0, <2>1, <2>2 DEF RfcTypes
  <2>4. \A e \in Draft : rfcState'[e] = "none" => Tagless(e)'
    BY <2>1, <2>3 DEF RfcTags, Tagless
  <2>5. \A v \in Updater : Tagless(Rf!At(v))'
    BY <1>0, <2>2, <2>3 DEF Tagless
  <2> QED BY <2>1, <2>4, <2>5 DEF RfcTags
<1>11. ASSUME NEW u \in Updater, Rf!Unset(u) PROVE RfcTags'
  <2>a. PICK d : d = Rf!At(u)
    OBVIOUS
  <2>1. /\ UNCHANGED <<tags, undone>> /\ updater'[u].pc = "left" /\ Tagless(d)
        /\ rfcState' = [rfcState EXCEPT ![d] = "none"]
    BY <1>0, <1>11, <2>a DEF Rf!Unset, Rf!Passed, RfcTypes, RfcTags
  <2>2. \A e \in Draft : rfcState'[e] = "none" => Tagless(e)
    BY <1>0, <2>1 DEF RfcTags, RfcTypes
  <2>3. \A v \in Updater : updater'[v].pc # "unset"
    BY <1>0, <2>1
  <2> QED BY <2>1, <2>2, <2>3 DEF RfcTags, Tagless
<1>12. CASE QueueMoves
  <2>1. Rf!EditorActs => UNCHANGED <<rfcState, tags, undone, updater>>
    BY DEF Rf!EditorActs, Rf!EditorMoves
  <2> QED BY <1>1, <1>2, <1>4, <1>5, <1>6, <1>7, <1>8, <1>9, <1>10, <1>11, <1>12, <2>1
          DEF QueueMoves, Rf!Start, Rf!Step, Rf!Abort
<1>13. CASE UNCHANGED allVars
  BY <1>1, <1>13 DEF allVars, queueRows
<1> QED
  BY <1>12, <1>13 DEF MCNext, CharterMoves, MilestonesMove, IanaMoves, NominationsMove,
                      SessionsMove, MaterialsMove, MailMoves, ListsMove

RfcPart == part = "rfc" => RfcInv /\ RfcTags

LEMMA RfcStarts == MCInit => RfcPart
<1> SUFFICES ASSUME MCInit, part = "rfc" PROVE RfcTags
  BY RfcInit DEF RfcPart
<1>1. Rf!Init
  BY DEF MCInit
<1> QED BY <1>1 DEF Rf!Init, RfcTags, Tagless, Rf!Resting

LEMMA RfcGoesOn == ASSUME OneUpdater PROVE RfcPart /\ [MCNext]_allVars => RfcPart'
BY RfcStep, RfcTagsStep, PartStays DEF RfcPart

\* sync/rfceditor: for any number of drafts, with one run or undo at a time, the
\* drafts are as the queue that was fetched had them when a run ends, in state and
\* tags, whatever earlier runs that died had left; but for the tags of a draft whose
\* only change was taken back, until the queue has it again.
THEOREM QueueIsMirrored ==
  ASSUME \A u, v \in Updater : u = v
  PROVE  MCSpec => []MirrorsQueue
<1>1. MCInit => RfcPart
  BY RfcStarts
<1>2. RfcPart /\ [MCNext]_allVars => RfcPart'
  BY RfcGoesOn DEF OneUpdater
<1>3. RfcPart => MirrorsQueue
  <2> SUFFICES ASSUME RfcInv, RfcTags, NEW u \in Updater, NEW d \in Draft, updater[u].pc = "done",
                      NEW e, e = updater[u].got[d]
               PROVE  IF e.state = "none" THEN rfcState[d] = "none" /\ Tagless(d)
                      ELSE e.state = "unknown" \/ (rfcState[d] = e.state /\ Rf!QueueTag \cap tags[d] = e.tags)
    BY DEF RfcPart, MirrorsQueue, Rf!MirrorsQueue, Tagless
  <2>1. RunOK(u)
    BY DEF RfcInv
  <2> QED BY <2>1 DEF RunOK, Mirrored, Rf!Listed, RfcTags
<1> QED
  BY <1>1, <1>2, <1>3, PTL DEF MCSpec

\* sync/rfceditor: under the same conditions, until one of them dies, the log
\* explains the state of each draft whenever none is at work.
THEOREM LogExplainsStates ==
  ASSUME \A u, v \in Updater : u = v
  PROVE  MCSpec => []StateIsLastEventUnlessFailed
<1>1. MCInit => RfcPart
  BY RfcStarts
<1>2. RfcPart /\ [MCNext]_allVars => RfcPart'
  BY RfcGoesOn DEF OneUpdater
<1>3. RfcPart => StateIsLastEventUnlessFailed
  BY DEF RfcPart, RfcInv, RfcLog, Fits, StateIsLastEventUnlessFailed, Rf!StateIsLastEvent, Rf!Asleep
<1> QED
  BY <1>1, <1>2, <1>3, PTL DEF MCSpec

(***************************************************************************)
(* message: the queue of scheduled mail                                    *)
(***************************************************************************)
\* A job that is at work has a row at hand, and one that is about to mark it
\* has handed it to the mail server before.
AtHand ==
  \A j \in Sender :
    /\ sender[j].pc # "idle" => sender[j].todo # {}
    /\ sender[j].pc = "mark" => accepted[Ma!At(j)] > 0 \/ Ma!At(j) \in reported

MailSound == Ma!TypeOK /\ AtHand /\ Ma!SentIsSettled

\* What is accepted or reported stays so.
Settled(m) == accepted[m] > 0 \/ m \in reported

\* A job that is at work is at one of the rows it has listed.
LEMMA MailAt ==
  ASSUME Ma!TypeOK, NEW j \in Sender, sender[j].todo # {}
  PROVE  Ma!At(j) \in sender[j].todo /\ Ma!At(j) \in Message
<1>1. sender[j].todo \subseteq Message
  BY DEF Ma!TypeOK
<1> QED
  BY <1>1 DEF Ma!At

\* The row at hand is a function of the rows still to send.
LEMMA MailAtKept ==
  ASSUME NEW j \in Sender, sender'[j].todo = sender[j].todo
  PROVE  Ma!At(j)' = Ma!At(j)
  BY DEF Ma!At

\* A step of one job leaves the others where they are.
LEMMA OneSenderMoves ==
  ASSUME Ma!TypeOK, AtHand, NEW j \in Sender,
         \A k \in Sender \ {j} : sender'[k] = sender[k],
         \A m \in Message : Settled(m) => Settled(m)',
         sender'[j].pc # "idle" => sender'[j].todo # {},
         sender'[j].pc = "mark" => Settled(Ma!At(j))'
  PROVE  AtHand'
<1> SUFFICES ASSUME NEW k \in Sender \ {j}
             PROVE  /\ sender'[k].pc # "idle" => sender'[k].todo # {}
                    /\ sender'[k].pc = "mark" => Settled(Ma!At(k))'
  BY DEF AtHand, Settled
<1>1. Ma!At(k)' = Ma!At(k)
  BY MailAtKept
<1>2. sender[k].pc = "mark" => Ma!At(k) \in Message /\ Settled(Ma!At(k))
  BY MailAt DEF AtHand, Settled
<1> QED
  BY <1>1, <1>2 DEF AtHand, Settled

\* Counting up to 2
LEMMA Counts ==
  ASSUME NEW n \in 0..2
  PROVE  /\ (IF n = 2 THEN 2 ELSE n + 1) \in 0..2
         /\ (IF n = 2 THEN 2 ELSE n + 1) > 0
  OBVIOUS

LEMMA MailSoundStep == MailSound /\ [Ma!NextOK \/ Ma!Abort]_Ma!mailVars => MailSound'
<1> SUFFICES ASSUME MailSound, [Ma!NextOK \/ Ma!Abort]_Ma!mailVars PROVE MailSound'
  OBVIOUS
<1> USE DEF MailSound
<1>a. ASSUME NEW m \in Message, Ma!Schedule(m) PROVE MailSound'
  <2>1. Ma!TypeOK'
    BY <1>a DEF Ma!Schedule, Ma!TypeOK, Ma!NoRow
  <2>2. AtHand'
    BY <1>a, MailAtKept DEF Ma!Schedule, AtHand
  <2>3. Ma!SentIsSettled'
    BY <1>a DEF Ma!Schedule, Ma!SentIsSettled, Ma!TypeOK, Ma!NoRow
  <2> QED BY <2>1, <2>2, <2>3
<1>b. ASSUME NEW m \in Message, Ma!Falls(m) PROVE MailSound'
  <2>1. Ma!TypeOK'
    BY <1>b DEF Ma!Falls, Ma!TypeOK
  <2>2. AtHand'
    BY <1>b, MailAtKept DEF Ma!Falls, AtHand
  <2>3. Ma!SentIsSettled'
    BY <1>b DEF Ma!Falls, Ma!SentIsSettled, Ma!TypeOK
  <2> QED BY <2>1, <2>2, <2>3
<1>c. ASSUME NEW j \in Sender, Ma!Run(j) PROVE MailSound'
  <2>1. PICK all \in BOOLEAN :
          /\ Ma!Waiting(all) # {}
          /\ sender' = [sender EXCEPT ![j] = [pc |-> "send", todo |-> Ma!Waiting(all)]]
    BY <1>c DEF Ma!Run
  <2>2. Ma!Waiting(all) \subseteq Message
    BY DEF Ma!Waiting
  <2>3. UNCHANGED <<queue, accepted, reported>>
    BY <1>c DEF Ma!Run
  <2>4. Ma!TypeOK'
    BY <2>1, <2>2, <2>3 DEF Ma!TypeOK
  <2>5. AtHand'
    BY <2>1, <2>3, OneSenderMoves DEF Ma!TypeOK, Settled
  <2>6. Ma!SentIsSettled'
    BY <2>3 DEF Ma!SentIsSettled
  <2> QED BY <2>4, <2>5, <2>6
<1>d. ASSUME NEW j \in Sender, NEW m \in Message, Ma!SendNow(j, m) PROVE MailSound'
  <2>1. Ma!TypeOK'
    BY <1>d DEF Ma!SendNow, Ma!TypeOK, Ma!NoRow
  <2>2. AtHand'
    BY <1>d, OneSenderMoves DEF Ma!SendNow, Ma!TypeOK, Settled
  <2>3. Ma!SentIsSettled'
    BY <1>d DEF Ma!SendNow, Ma!SentIsSettled, Ma!TypeOK, Ma!NoRow
  <2> QED BY <2>1, <2>2, <2>3
<1>e. ASSUME NEW j \in Sender, Ma!Hand(j) PROVE MailSound'
  <2>1. Ma!At(j) \in Message
    BY <1>e, MailAt DEF Ma!Hand, AtHand
  <2>2. /\ sender' = [sender EXCEPT ![j].pc = "mark"]
        /\ queue' = queue
    BY <1>e DEF Ma!Hand
  <2>3. /\ accepted' \in [Message -> 0..2]
        /\ reported' \subseteq Message
        /\ accepted'[Ma!At(j)] > 0 \/ Ma!At(j) \in reported'
        /\ \A m \in Message : Settled(m) => Settled(m)'
    <3>1. CASE /\ accepted' = [accepted EXCEPT ![Ma!At(j)] = IF @ = 2 THEN 2 ELSE @ + 1]
               /\ UNCHANGED reported
      BY <3>1, <2>1, Counts DEF Ma!TypeOK, Settled
    <3>2. CASE reported' = reported \cup {Ma!At(j)} /\ UNCHANGED accepted
      BY <3>2, <2>1 DEF Ma!TypeOK, Settled
    <3> QED BY <3>1, <3>2, <1>e DEF Ma!Hand
  <2>4. Ma!TypeOK'
    BY <2>2, <2>3 DEF Ma!TypeOK
  <2>5. AtHand'
    <3>1. Ma!At(j)' = Ma!At(j)
      BY <2>2, MailAtKept DEF Ma!TypeOK
    <3> QED
      BY <2>2, <2>3, <3>1, <1>e, OneSenderMoves DEF Ma!Hand, AtHand, Ma!TypeOK, Settled
  <2>6. Ma!SentIsSettled'
    BY <2>2, <2>3 DEF Ma!SentIsSettled, Settled
  <2> QED BY <2>4, <2>5, <2>6
<1>f. ASSUME NEW j \in Sender, Ma!Mark(j) PROVE MailSound'
  <2>1. Ma!At(j) \in Message /\ Settled(Ma!At(j))
    BY <1>f, MailAt DEF Ma!Mark, AtHand, Settled
  <2> DEFINE rest == sender[j].todo \ {Ma!At(j)}
  <2>2. /\ queue' = [queue EXCEPT ![Ma!At(j)].sent = TRUE]
        /\ sender' = [sender EXCEPT ![j] = IF rest = {} THEN Ma!Resting
                                           ELSE [pc |-> "send", todo |-> rest]]
        /\ UNCHANGED <<accepted, reported>>
    BY <1>f DEF Ma!Mark
  <2>3. rest \subseteq Message
    BY DEF Ma!TypeOK
  <2> HIDE DEF rest
  <2>4. Ma!TypeOK'
    <3>1. sender' \in [Sender -> [pc : {"idle", "send", "mark"}, todo : SUBSET Message]]
      BY <2>2, <2>3 DEF Ma!TypeOK, Ma!Resting
    <3>2. queue' \in [Message -> [at : {"none", "unset", "future", "past"}, sent : BOOLEAN]]
      BY <2>2, <2>1 DEF Ma!TypeOK
    <3> QED BY <3>1, <3>2, <2>2 DEF Ma!TypeOK
  <2>5. AtHand'
    BY <2>2, OneSenderMoves DEF Ma!TypeOK, Ma!Resting, Settled
  <2>6. Ma!SentIsSettled'
    BY <2>1, <2>2 DEF Ma!SentIsSettled, Settled, Ma!TypeOK
  <2> QED BY <2>4, <2>5, <2>6
<1>g. ASSUME NEW j \in Sender, Ma!Killed(j) PROVE MailSound'
  <2>1. /\ sender' = [sender EXCEPT ![j] = Ma!Resting]
        /\ UNCHANGED <<queue, accepted, reported>>
    BY <1>g DEF Ma!Killed
  <2>2. Ma!TypeOK'
    BY <2>1 DEF Ma!TypeOK, Ma!Resting
  <2>3. AtHand'
    BY <2>1, OneSenderMoves DEF Ma!TypeOK, Ma!Resting, Settled
  <2>4. Ma!SentIsSettled'
    BY <2>1 DEF Ma!SentIsSettled
  <2> QED BY <2>2, <2>3, <2>4
<1>h. CASE UNCHANGED Ma!mailVars
  BY <1>h, MailAtKept DEF Ma!mailVars, Ma!TypeOK, AtHand, Ma!SentIsSettled
<1> QED
  BY <1>a, <1>b, <1>c, <1>d, <1>e, <1>f, <1>g, <1>h DEF Ma!NextOK, Ma!Abort

\* While jobs do not overlap nor die: a message that was delivered is marked, or
\* about to be, and what a job has left is not marked.
MailOnce ==
  /\ Ma!OneAtWork
  /\ \A m \in Message :
       /\ accepted[m] <= 1
       /\ accepted[m] = 1 => \/ queue[m].sent
                             \/ \E j \in Sender : sender[j].pc = "mark" /\ m = Ma!At(j)
  /\ \A j \in Sender : sender[j].pc # "idle" => \A m \in sender[j].todo : ~queue[m].sent

MailInv == MailSound /\ (failed \/ MailOnce)

LEMMA MailInit == ASSUME MCInit, part = "mail" PROVE MailInv
<1>1. Ma!Init
  BY DEF MCInit
<1>2. MailSound
  BY <1>1 DEF Ma!Init, MailSound, Ma!TypeOK, AtHand, Ma!SentIsSettled, Ma!NoRow, Ma!Resting
<1>3. MailOnce
  BY <1>1 DEF Ma!Init, MailOnce, Ma!OneAtWork, Ma!Resting
<1> QED BY <1>2, <1>3 DEF MailInv

LEMMA MailOnceStep ==
  ASSUME MailSound, MailOnce, [Ma!NextOK]_Ma!mailVars, Ma!OneAtWork' PROVE MailOnce'
<1>0. Ma!TypeOK /\ AtHand /\ Ma!OneAtWork
  BY DEF MailSound, MailOnce
<1>a. ASSUME NEW m \in Message, Ma!Schedule(m) \/ Ma!Falls(m) PROVE MailOnce'
  <2>1. UNCHANGED <<accepted, sender>> /\ \A o \in Message : queue'[o].sent = queue[o].sent
    BY <1>0, <1>a DEF Ma!Schedule, Ma!Falls, Ma!TypeOK
  <2>2. \A j \in Sender : Ma!At(j)' = Ma!At(j) /\ sender[j].todo \subseteq Message
    BY <1>0, <2>1, MailAtKept DEF Ma!TypeOK
  <2> QED BY <2>1, <2>2 DEF MailOnce
<1>b. ASSUME NEW j \in Sender, Ma!Run(j) \/ \E m \in Message : Ma!SendNow(j, m) PROVE MailOnce'
  <2>1. PICK S \in SUBSET Message : /\ sender[j].pc = "idle" /\ accepted' = accepted
                                    /\ sender' = [sender EXCEPT ![j] = [pc |-> "send", todo |-> S]]
                                    /\ \A m \in S : ~queue'[m].sent
                                    /\ \A m \in Message : queue'[m].sent = queue[m].sent
    <3>1. CASE Ma!Run(j)
      <4>1. PICK all \in BOOLEAN : sender' = [sender EXCEPT ![j] = [pc |-> "send", todo |-> Ma!Waiting(all)]]
        BY <3>1 DEF Ma!Run
      <4>2. Ma!Waiting(all) \subseteq Message /\ \A m \in Ma!Waiting(all) : ~queue[m].sent
        BY DEF Ma!Waiting
      <4> QED BY <3>1, <4>1, <4>2 DEF Ma!Run
    <3>2. ASSUME NEW m \in Message, Ma!SendNow(j, m)
          PROVE  \E S \in SUBSET Message :
                   /\ sender[j].pc = "idle" /\ accepted' = accepted
                   /\ sender' = [sender EXCEPT ![j] = [pc |-> "send", todo |-> S]]
                   /\ \A o \in S : ~queue'[o].sent
                   /\ \A o \in Message : queue'[o].sent = queue[o].sent
      <4>1. sender[j].pc = "idle" /\ accepted' = accepted /\ queue[m] = Ma!NoRow
            /\ sender' = [sender EXCEPT ![j] = [pc |-> "send", todo |-> {m}]]
            /\ queue' = [queue EXCEPT ![m].at = "unset"]
        BY <3>2 DEF Ma!SendNow
      <4>2. ~queue[m].sent
        BY <4>1 DEF Ma!NoRow
      <4>3. \A o \in Message : queue'[o].sent = queue[o].sent
        BY <1>0, <4>1 DEF Ma!TypeOK
      <4>4. \A o \in {m} : ~queue'[o].sent
        BY <4>2, <4>3
      <4>5. {m} \in SUBSET Message
        OBVIOUS
      <4> QED BY <4>1, <4>3, <4>4, <4>5, Zenon
    <3> QED BY <1>b, <3>1, <3>2
  <2>2. sender'[j] = [pc |-> "send", todo |-> S] /\ \A k \in Sender \ {j} : sender'[k] = sender[k]
    BY <1>0, <2>1 DEF Ma!TypeOK
  <2>3. \A k \in Sender \ {j} : sender[k].pc = "idle"
    BY <2>2 DEF Ma!OneAtWork
  <2>4. \A m \in Message : accepted[m] = 1 => queue[m].sent
    BY <2>1, <2>3 DEF MailOnce
  <2> QED BY <2>1, <2>2, <2>3, <2>4 DEF MailOnce
<1>c. ASSUME NEW j \in Sender, Ma!Hand(j) PROVE MailOnce'
  <2>1. /\ sender' = [sender EXCEPT ![j].pc = "mark"] /\ queue' = queue /\ sender[j].pc = "send"
    BY <1>c DEF Ma!Hand
  <2>2. PICK m : m = Ma!At(j)
    OBVIOUS
  <2>3. m \in sender[j].todo /\ m \in Message
    BY <1>0, <2>1, <2>2, MailAt DEF AtHand
  <2>4. /\ sender'[j].pc = "mark" /\ sender'[j].todo = sender[j].todo /\ Ma!At(j)' = m
        /\ \A k \in Sender \ {j} : sender'[k] = sender[k] /\ sender[k].pc = "idle"
    BY <1>0, <2>1, <2>2, MailAtKept DEF Ma!TypeOK, Ma!OneAtWork
  <2>5. \A o \in Message : accepted[o] <= 1 /\ accepted[o] \in 0..2 /\ (accepted[o] = 1 => queue[o].sent)
    BY <1>0, <2>1, <2>4 DEF MailOnce, Ma!TypeOK
  <2>6. accepted[m] = 0
    BY <2>1, <2>3, <2>5 DEF MailOnce
  <2>7. \A o \in Message : /\ accepted'[o] <= 1
                           /\ accepted'[o] = 1 => queue[o].sent \/ o = m
    <3>1. accepted' = accepted \/ accepted' = [accepted EXCEPT ![m] = 1]
      BY <1>c, <2>2, <2>6 DEF Ma!Hand
    <3> QED BY <1>0, <2>3, <2>5, <3>1 DEF Ma!TypeOK
  <2> QED BY <2>1, <2>4, <2>7 DEF MailOnce
<1>d. ASSUME NEW j \in Sender, Ma!Mark(j) PROVE MailOnce'
  <2>1. PICK m : m = Ma!At(j)
    OBVIOUS
  <2>2. sender[j].pc = "mark" /\ accepted' = accepted /\ queue' = [queue EXCEPT ![m].sent = TRUE]
    BY <1>d, <2>1 DEF Ma!Mark
  <2>3. m \in sender[j].todo /\ m \in Message
    BY <1>0, <2>1, <2>2, MailAt DEF AtHand
  <2>4. /\ \A k \in Sender \ {j} : sender'[k] = sender[k] /\ sender[k].pc = "idle"
        /\ sender'[j].todo = sender[j].todo \ {m} /\ sender[j].todo \subseteq Message
    BY <1>0, <1>d, <2>1, <2>2 DEF Ma!Mark, Ma!TypeOK, Ma!OneAtWork, Ma!Resting
  <2>5. queue'[m].sent /\ \A o \in Message \ {m} : queue'[o].sent = queue[o].sent
    BY <1>0, <2>2, <2>3 DEF Ma!TypeOK
  <2>6. \A o \in Message : accepted[o] = 1 => queue'[o].sent
    BY <2>1, <2>4, <2>5 DEF MailOnce
  <2> QED BY <2>2, <2>4, <2>5, <2>6 DEF MailOnce
<1>e. CASE UNCHANGED Ma!mailVars
  <2>1. \A k \in Sender : Ma!At(k)' = Ma!At(k)
    BY <1>e, MailAtKept DEF Ma!mailVars
  <2> QED BY <1>e, <2>1 DEF MailOnce, Ma!mailVars, Ma!OneAtWork
<1> QED
  BY <1>a, <1>b, <1>c, <1>d, <1>e DEF Ma!NextOK

LEMMA MailStep == ASSUME MailInv, part = "mail", [MCNext]_allVars PROVE MailInv'
<1>1. CASE MailMoves
  <2>1. MailSound'
    BY <1>1, MailSoundStep DEF MailMoves, MailInv
  <2>2. ASSUME ~failed' PROVE MailOnce'
    <3>1. ~failed /\ Ma!NextOK /\ Ma!OneAtWork'
      BY <1>1, <2>2 DEF MailMoves
    <3> QED BY <3>1, MailOnceStep DEF MailInv
  <2> QED BY <2>1, <2>2 DEF MailInv
<1>2. CASE UNCHANGED allVars
  <2>1. UNCHANGED Ma!mailVars /\ failed' = failed
    BY <1>2 DEF allVars, mailRows, Ma!mailVars
  <2>2. MailOnce => MailOnce'
    <3>1. \A k \in Sender : Ma!At(k)' = Ma!At(k)
      BY <2>1, MailAtKept DEF Ma!mailVars
    <3> QED BY <2>1, <3>1 DEF MailOnce, Ma!mailVars, Ma!OneAtWork
  <2> QED BY <2>1, <2>2, MailSoundStep DEF MailInv
<1> QED
  BY <1>1, <1>2 DEF MCNext, CharterMoves, MilestonesMove, IanaMoves, QueueMoves, NominationsMove,
                    SessionsMove, MaterialsMove, ListsMove

MailPart == part = "mail" => MailInv

\* message: with any number of overlapping jobs that may die anywhere, a message
\* that is marked as sent was taken by the mail server or its refusal reported.
THEOREM MailSettled == MCSpec => []SentIsSettled
<1>1. MCInit => MailPart
  BY MailInit DEF MailPart
<1>2. MailPart /\ [MCNext]_allVars => MailPart'
  BY MailStep, PartStays DEF MailPart
<1>3. MailPart => SentIsSettled
  BY DEF MailPart, MailInv, MailSound, SentIsSettled
<1> QED
  BY <1>1, <1>2, <1>3, PTL DEF MCSpec

\* message: for any number of rows, as long as no two jobs overlap and none has
\* died, no message is delivered twice.
THEOREM MailDeliveredOnce == MCSpec => []DeliveredOnceUnlessFailed
<1>1. MCInit => MailPart
  BY MailInit DEF MailPart
<1>2. MailPart /\ [MCNext]_allVars => MailPart'
  BY MailStep, PartStays DEF MailPart
<1>3. MailPart => DeliveredOnceUnlessFailed
  BY DEF MailPart, MailInv, MailOnce, DeliveredOnceUnlessFailed, Ma!DeliveredOnce
<1> QED
  BY <1>1, <1>2, <1>3, PTL DEF MCSpec
=============================================================================
