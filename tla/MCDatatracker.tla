--------------------------- MODULE MCDatatracker ---------------------------
(***************************************************************************)
(* Nine parts of the datatracker that share no row.  A behaviour is about *)
(* one of them, part; the variables of the others do not matter and are    *)
(* off.                                                                    *)
(***************************************************************************)
EXTENDS Integers, Sequences, FiniteSets

CONSTANTS Req, MaxMajor, MaxMinor, Editor, Row, Text, Job, Doc, Last, MaxChanges,
          Updater, Draft, MaxEvents, Sender, Message, Clerk, Nominee, Position,
          User, MaxRows, MaxLoad, Chair, MaxSlides,
          Tracked, Visitor

VARIABLES
  part, failed, late,
  charter, type, group, ballots, text, saved, announced, work, shown,
  milestone, inHistory, editor,
  clock, changeLog, ianaState, logged, sync, revising, fetched, overtaken,
  entry, rfcState, tags, approved, received, events, updater, undone,
  queue, accepted, reported, sender,
  nominee, duplicated, answer, nominated, clerk,
  session, form, desk, raced,
  order, state, file, related, chair, uploads, harm,
  matches, tracked, rule, page, visitor, spoilt

Ch == INSTANCE Charter
Ms == INSTANCE Milestones
Ia == INSTANCE IanaSync
Rf == INSTANCE RfcQueue
Ma == INSTANCE MailQueue
No == INSTANCE Nominations
Se == INSTANCE SessionRequest
Mt == INSTANCE Materials
Co == INSTANCE CommunityList

charterRows     == <<charter, type, group, ballots, text, saved, announced, work, shown>>
milestoneRows   == <<milestone, inHistory, editor>>
ianaRows        == <<clock, changeLog, ianaState, logged, sync, revising, fetched, overtaken>>
queueRows       == <<entry, rfcState, tags, approved, received, events, updater, undone>>
mailRows        == <<queue, accepted, reported, sender>>
nominationRows  == <<nominee, duplicated, answer, nominated, clerk>>
sessionRows     == <<session, form, desk, raced>>
materialRows    == <<order, state, file, related, chair, uploads, harm>>
listRows        == <<matches, tracked, rule, page, visitor, spoilt>>

allVars == <<part, failed, late, charterRows, milestoneRows, ianaRows, queueRows,
             mailRows, nominationRows, sessionRows, materialRows, listRows>>

off  == "off"
Part == {"charter", "milestones", "iana", "rfc", "mail", "nominations", "sessions",
         "materials", "lists"}

\* The variables of a part that a behaviour is not about
CharterOff     == /\ charter = off /\ type = off /\ group = off /\ ballots = off /\ text = off
                  /\ saved = off /\ announced = off /\ work = off /\ shown = off
MilestonesOff  == /\ milestone = off /\ inHistory = off /\ editor = off
IanaOff        == /\ clock = off /\ changeLog = off /\ ianaState = off /\ logged = off /\ sync = off
                  /\ revising = off /\ fetched = off /\ overtaken = off
RfcOff         == /\ entry = off /\ rfcState = off /\ tags = off /\ approved = off /\ received = off
                  /\ events = off /\ updater = off /\ undone = off
MailOff        == /\ queue = off /\ accepted = off /\ reported = off /\ sender = off
NominationsOff == /\ nominee = off /\ duplicated = off /\ answer = off /\ nominated = off /\ clerk = off
SessionsOff    == /\ session = off /\ form = off /\ desk = off /\ raced = off
MaterialsOff   == /\ order = off /\ state = off /\ file = off /\ related = off /\ chair = off
                  /\ uploads = off /\ harm = off
ListsOff       == /\ matches = off /\ tracked = off /\ rule = off /\ page = off /\ visitor = off
                  /\ spoilt = off

MCInit ==
  /\ part \in Part /\ failed = FALSE /\ late = FALSE
  /\ IF part = "charter" THEN Ch!Init ELSE CharterOff
  /\ IF part = "milestones" THEN Ms!Init ELSE MilestonesOff
  /\ IF part = "iana" THEN Ia!Init ELSE IanaOff
  /\ IF part = "rfc" THEN Rf!Init ELSE RfcOff
  /\ IF part = "mail" THEN Ma!Init ELSE MailOff
  /\ IF part = "nominations" THEN No!Init ELSE NominationsOff
  /\ IF part = "sessions" THEN Se!Init ELSE SessionsOff
  /\ IF part = "materials" THEN Mt!Init ELSE MaterialsOff
  /\ IF part = "lists" THEN Co!Init ELSE ListsOff

Works   == UNCHANGED <<failed, late>>
Breaks  == ~failed /\ failed' = TRUE /\ UNCHANGED late

\* A bound of the model: an active group is proposed again before its charter is
\* worked on.
Proposing == group = "active" => charter.rev = Ch!Approved(1) \/ \A r \in Req : work'[r].op # "propose"

CharterMoves ==
  /\ part = "charter"
  /\ \/ Ch!NextOK /\ Works /\ Proposing
     \/ charter.rev.major = 0 /\ Ch!Abort /\ Breaks
  /\ UNCHANGED <<part, milestoneRows, ianaRows, queueRows, mailRows, nominationRows, sessionRows,
                 materialRows, listRows>>

MilestonesMove ==
  /\ part = "milestones"
  /\ (Ms!NextOK \/ Ms!Abort) /\ Works
  /\ UNCHANGED <<part, charterRows, ianaRows, queueRows, mailRows, nominationRows, sessionRows,
                 materialRows, listRows>>

\* A bound of the model: how often something happens to the drafts
Changes == Cardinality(changeLog \cup Ia!Logged) + Cardinality(revising)

\* The script is run by hand for an old period once, or something dies once; IANA
\* and the uploads do not wait for the script.
IanaMoves ==
  /\ part = "iana"
  /\ \/ Ia!World /\ Works /\ Changes' <= MaxChanges
     \/ (\E j \in Job : Ia!FetchNow(j) \/ Ia!Step(j)) /\ Works
     \/ ~failed /\ (\E j \in Job : Ia!FetchOld(j)) /\ late' = TRUE /\ UNCHANGED failed
     \/ ~late /\ Ia!Abort /\ Breaks
  /\ UNCHANGED <<part, charterRows, milestoneRows, queueRows, mailRows, nominationRows, sessionRows,
                 materialRows, listRows>>

QueueMoves ==
  /\ part = "rfc"
  /\ \/ Rf!EditorActs /\ Works
     \/ Rf!Others /\ Works
     \/ (\E u \in Updater : Rf!Start(u) \/ Rf!Step(u)) /\ Works
     \/ Rf!Abort /\ Breaks
  /\ UNCHANGED <<part, charterRows, milestoneRows, ianaRows, mailRows, nominationRows, sessionRows,
                 materialRows, listRows>>

\* Two jobs at the same time count as a failure.
MailMoves ==
  /\ part = "mail"
  /\ \/ Ma!NextOK /\ failed' = (failed \/ ~Ma!OneAtWork')
     \/ Ma!Abort /\ failed' = TRUE
  /\ UNCHANGED late
  /\ UNCHANGED <<part, charterRows, milestoneRows, ianaRows, queueRows, nominationRows, sessionRows,
                 materialRows, listRows>>

\* A nominee answers while no clerk is at work: an answer that comes between the
\* merge of the positions and the hiding of a duplicate is left out.
NominationsMove ==
  /\ part = "nominations"
  /\ \/ No!Idle /\ No!Reaction /\ Works
     \/ (\E c \in Clerk : No!Start(c) \/ No!Step(c)) /\ Works
     \/ No!Abort /\ Breaks
  /\ UNCHANGED <<part, charterRows, milestoneRows, ianaRows, queueRows, mailRows, sessionRows,
                 materialRows, listRows>>

\* A bound of the model: how much there is at once.  One request dies at most.
Load == Cardinality({i \in Se!Id : session[i].status # "none"})
          + Cardinality({i \in Se!Id : session[i].slots > 0}) + Cardinality({i \in Se!Id : session[i].slots > 1})
          + Cardinality({u \in User : form[u] # {}}) + Cardinality({u \in User : desk[u] # << >>})
          + (IF failed THEN 1 ELSE 0)

\* New requests are begun while there is not too much yet.
SessionsMove ==
  /\ part = "sessions"
  /\ \/ (\E u \in User : Se!Request(u)) /\ Works /\ Load' <= MaxLoad
     \/ (\E i \in Se!Id : Se!Place(i)) /\ Works /\ Load' <= MaxLoad
     \/ (\E u \in User : Se!Step(u)) /\ Works
     \/ (\E u \in User : Se!Die(u)) /\ Breaks
  /\ UNCHANGED <<part, charterRows, milestoneRows, ianaRows, queueRows, mailRows, nominationRows,
                 materialRows, listRows>>

\* One kind of harm at most; slides are moved while nothing is spoilt.
MaterialsMove ==
  /\ part = "materials" /\ Works
  /\ \E c \in Chair :
       \/ (Mt!Upload(c) \/ \E n \in Mt!Slide : Mt!Delete(c, n) \/ Mt!Replace(c, n))
          /\ Cardinality(harm') <= 1
       \/ (Mt!Move(c) \/ Mt!Reorder(c)) /\ harm' = {}
       \/ Mt!Step(c)
       \/ harm = {} /\ Mt!Abort(c)
  /\ UNCHANGED <<part, charterRows, milestoneRows, ianaRows, queueRows, mailRows, nominationRows,
                 sessionRows, listRows>>

ListsMove ==
  /\ part = "lists" /\ Co!Next /\ Works
  /\ UNCHANGED <<part, charterRows, milestoneRows, ianaRows, queueRows, mailRows, nominationRows,
                 sessionRows, materialRows>>

MCNext ==
  \/ CharterMoves \/ MilestonesMove \/ IanaMoves \/ QueueMoves
  \/ MailMoves \/ NominationsMove \/ SessionsMove \/ MaterialsMove
  \/ ListsMove

MCSpec == MCInit /\ [][MCNext]_allVars

(***************************************************************************)
(* The properties, with what each one takes for granted                    *)
(***************************************************************************)
\* The part at work keeps to its types.
TypesOK ==
  /\ part \in Part /\ failed \in BOOLEAN /\ late \in BOOLEAN
  /\ CASE part = "charter"     -> Ch!TypeOK
       [] part = "milestones"  -> Ms!TypeOK
       [] part = "iana"        -> Ia!TypeOK
       [] part = "rfc"         -> Rf!TypeOK
       [] part = "mail"        -> Ma!TypeOK
       [] part = "nominations" -> No!TypeOK
       [] part = "sessions"    -> Se!TypeOK
       [] part = "materials"   -> Mt!TypeOK
       [] part = "lists"       -> Co!TypeOK

\* views_charter: the texts of a charter can be shown, whatever died.
TextIsAnnounced == part = "charter" => Ch!TextIsAnnounced

\* views_charter: each number belongs to one text, and no ballot hangs, as long
\* as no request dies half way.
TextsAreFinalUnlessFailed == part = "charter" => failed \/ Ch!TextsAreFinal
NoHangingBallotUnlessFailed == part = "charter" => failed \/ Ch!NoHangingBallot

\* group/utils: the pages of a group show the text that was approved last.
GroupTextIsApprovedUnlessFailed == part = "charter" => failed \/ Ch!GroupTextIsApproved

\* views_charter: requests that do not die do what the pages promise, at once.
FollowsProcess ==
  /\ part = "charter" => Ch!Process!Init
  /\ [][part = "charter" => failed' \/ Ch!Process!Next]_shown

\* approve and milestones: no milestone of the charter is lost, wherever an
\* approval dies; what it announces is in force; no row changes unrecorded.
PlanIsKept   == part = "milestones" => Ms!PlanSurvives /\ Ms!PlanInForce
HistoryFirst == [][part = "milestones" => Ms!Recorded]_milestone

\* sync/iana: states follow the newest event and the newest change, each change
\* counts once.
StateIsNewestUnlessFailed ==
  part = "iana" => failed \/ (Ia!StateIsNewestEvent /\ (late \/ Ia!StateIsNewestChange))
LoggedOnce == part = "iana" => Ia!LoggedOnce

\* sync/rfceditor: a run that ends leaves the drafts as the queue has them, and
\* the log of a draft explains its state.
MirrorsQueue == part = "rfc" => Rf!MirrorsQueue
StateIsLastEventUnlessFailed == part = "rfc" => failed \/ Rf!StateIsLastEvent

\* message: what is marked as sent was sent or reported, and sent once unless
\* jobs overlapped or died.
SentIsSettled == part = "mail" => Ma!SentIsSettled
DeliveredOnceUnlessFailed == part = "mail" => failed \/ Ma!DeliveredOnce

\* nomcom: duplicates lead to a nominee on the list, which has all nominations
\* and every acceptance.
DuplicatesEnd == part = "nominations" => No!DuplicatesEnd
NothingIsHidden ==
  part = "nominations" => No!AcceptanceSurvives /\ (failed \/ No!NominationsAreListed)

\* secr/sreq and secr/meetings: what is on the agenda can meet, and a group has
\* no third session without approval.
OnAgendaCanMeet    == part = "sessions" => Se!OnAgendaCanMeet
TwoWithoutApproval == part = "sessions" => Se!TwoWithoutApproval

\* secr/proceedings: the slides of a group are strictly ordered, have their
\* files and never share a name, unless requests overlapped or died just there.
StrictlyOrdered == part = "materials" => Mt!StrictlyOrdered
SlidesAreKept   == part = "materials" => Mt!ShownHasFile /\ Mt!NamesAreUnique

\* community: the page that is kept for a list shows what is on the list,
\* unless it was rendered while the list was changed.
PageIsCurrent == part = "lists" => Co!PageIsCurrent
=============================================================================
