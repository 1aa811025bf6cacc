----------------------------- MODULE RfcQueue -----------------------------
(***************************************************************************)
(* The RFC Editor's queue: bin/rfc-editor-queue-updates and sync/rfceditor *)
(* copy it to the drafts, rfceditor_undo in sync/views takes a change back.*)
(***************************************************************************)
EXTENDS Integers, Sequences

CONSTANTS Updater,     \* processes: the script, which a notification starts too, and undo
          Draft,
          MaxEvents    \* bound of the model: no run is begun with more events

VARIABLES
  entry,       \* entry[d]: state and tags of d in the queue, at the RFC Editor
  rfcState,    \* rfcState[d]: the state of type draft-rfceditor
  tags,        \* tags[d]: tags of the queue, and "other" for those of others
  approved,   \* drafts the IESG has announced to the RFC Editor (state ann)
  received,    \* drafts with an rfc_editor_received_announcement event
  events,      \* events[d]: states of the StateDocEvents of that type, oldest first
  updater,     \* updater[u]: program counter and local variables
  undone       \* ghost: drafts without a state since their only event was taken back,
               \* whose tags of the queue nobody has looked at since

queueRow  == <<entry, rfcState, tags, approved, received, events, undone>>
queueVars == <<queueRow, updater>>

Mapped   == {"edit", "auth48"}                  \* state_mapping, two of twelve
State    == Mapped \cup {"none"}
QueueTag == {"iana", "ref"}                     \* tag_mapping
Entry    == [state : State \cup {"unknown"}, tags : SUBSET QueueTag]
Out      == [state |-> "none", tags |-> {}]     \* not in the queue

PC      == {"idle", "draft", "set", "event", "tags", "left", "untag", "unset", "done", "delete"}
Resting == [pc |-> "idle", got |-> [d \in Draft |-> Out], todo |-> {}, at |-> 0]

TypeOK ==
  /\ entry \in [Draft -> Entry] /\ rfcState \in [Draft -> State]
  /\ tags \in [Draft -> SUBSET (QueueTag \cup {"other"})]
  /\ approved \subseteq Draft /\ received \subseteq Draft /\ undone \subseteq Draft
  /\ \A d \in Draft : events[d] \in Seq(Mapped) /\ Len(events[d]) <= MaxEvents + 1
  /\ updater \in [Updater -> [pc : PC, got : [Draft -> Entry], todo : SUBSET Draft, at : 0..MaxEvents + 1]]

Init ==
  /\ entry = [d \in Draft |-> Out] /\ rfcState = [d \in Draft |-> "none"]
  /\ tags = [d \in Draft |-> {}] /\ approved = {} /\ undone = {}
  /\ received = {} /\ events = [d \in Draft |-> << >>]
  /\ updater = [u \in Updater |-> Resting]

(***************************************************************************)
(* What others do                                                          *)
(***************************************************************************)
\* The RFC Editor takes a draft up, moves it, or lets it go.
EditorMoves(d) ==
  /\ \E e \in Entry : /\ e # entry[d] /\ (e.state = "none" => e = Out)
                      /\ entry' = [entry EXCEPT ![d] = e]
  /\ UNCHANGED <<rfcState, tags, approved, received, events, updater, undone>>

Approve(d) ==
  /\ d \notin approved /\ approved' = approved \cup {d}
  /\ UNCHANGED <<entry, rfcState, tags, received, events, updater, undone>>

TagOther(d) ==
  /\ "other" \notin tags[d] /\ tags' = [tags EXCEPT ![d] = @ \cup {"other"}]
  /\ UNCHANGED <<entry, rfcState, approved, received, events, updater, undone>>

(***************************************************************************)
(* update_drafts_from_queue                                                *)
(***************************************************************************)
Listed(got) == {d \in Draft : got[d].state # "none"}
At(u)  == CHOOSE d \in updater[u].todo : TRUE
New(u) == updater[u].got[At(u)]
GoesTo(u, pc) == updater' = [updater EXCEPT ![u].pc = pc]
Passed(u, pc) == updater' = [updater EXCEPT ![u].pc = pc, ![u].todo = @ \ {At(u)}]

Fetch(u) ==
  /\ updater[u].pc = "idle" /\ \A d \in Draft : Len(events[d]) <= MaxEvents
  /\ updater' = [updater EXCEPT ![u] = [pc |-> "draft", got |-> entry, todo |-> Listed(entry), at |-> 0]]
  /\ UNCHANGED queueRow

\* The draft at hand: an unknown state is skipped, a first arrival noted.
TakeUp(u) ==
  /\ updater[u].pc = "draft" /\ updater[u].todo # {}
  /\ LET d == At(u) IN
       /\ received' = IF New(u).state # "unknown" /\ d \in approved /\ rfcState[d] = "none"
                      THEN received \cup {d} ELSE received
       /\ CASE New(u).state = "unknown"   -> Passed(u, "draft")
            [] New(u).state = rfcState[d] -> GoesTo(u, "tags")
            [] OTHER                      -> GoesTo(u, "set")
  /\ UNCHANGED <<entry, rfcState, tags, approved, events, undone>>

SetState(u) ==
  /\ updater[u].pc = "set" /\ GoesTo(u, "event")
  /\ rfcState' = [rfcState EXCEPT ![At(u)] = New(u).state]
  /\ UNCHANGED <<entry, tags, approved, received, events, undone>>

AddEvent(u) ==
  /\ updater[u].pc = "event" /\ GoesTo(u, "tags")
  /\ events' = [events EXCEPT ![At(u)] = Append(@, New(u).state)]
  /\ UNCHANGED <<entry, rfcState, tags, approved, received, undone>>

\* All tags are replaced, those of others with them.
SetTags(u) ==
  /\ updater[u].pc = "tags" /\ Passed(u, "draft")
  /\ tags' = [tags EXCEPT ![At(u)] = New(u).tags] /\ undone' = undone \ {At(u)}
  /\ UNCHANGED <<entry, rfcState, approved, received, events>>

\* Mutant: only drafts that were approved are looked for
LeftApproved(u) == {d \in approved \ Listed(updater[u].got) : rfcState[d] # "none"}

\* Then the drafts that have a state and are not in the queue any more.
Left(u) == {d \in Draft \ Listed(updater[u].got) : rfcState[d] # "none"}

LookForLeft(u) ==
  /\ updater[u].pc = "draft" /\ updater[u].todo = {}
  /\ updater' = [updater EXCEPT ![u].pc = "left", ![u].todo = Left(u)]
  /\ UNCHANGED queueRow

Untag(u) ==
  /\ updater[u].pc = "left" /\ updater[u].todo # {} /\ GoesTo(u, "unset")
  /\ tags' = [tags EXCEPT ![At(u)] = @ \ QueueTag] /\ undone' = undone \ {At(u)}
  /\ UNCHANGED <<entry, rfcState, approved, received, events>>

Unset(u) ==
  /\ updater[u].pc = "unset" /\ Passed(u, "left")
  /\ rfcState' = [rfcState EXCEPT ![At(u)] = "none"]
  /\ UNCHANGED <<entry, tags, approved, received, events, undone>>

Done(u) ==
  /\ updater[u].pc = "left" /\ updater[u].todo = {} /\ GoesTo(u, "done")
  /\ UNCHANGED queueRow

Exit(u) ==
  /\ updater[u].pc = "done" /\ updater' = [updater EXCEPT ![u] = Resting]
  /\ UNCHANGED queueRow

(***************************************************************************)
(* rfceditor_undo                                                          *)
(***************************************************************************)
Latest(s) == s[Len(s)]

\* Mutant: the state stays when there is no event before
UndoLater(u, d, i) ==
  /\ updater[u].pc = "idle"
  /\ updater' = [updater EXCEPT ![u] = [Resting EXCEPT !.pc = "delete", !.todo = {d}, !.at = i]]
  /\ rfcState' = IF i < Len(events[d]) \/ i = 1 THEN rfcState
                 ELSE [rfcState EXCEPT ![d] = events[d][i - 1]]
  /\ undone' = IF Len(events[d]) > 1 THEN undone ELSE undone \cup {e \in {d} : QueueTag \cap tags[d] # {}}
  /\ UNCHANGED <<entry, tags, approved, received, events>>

\* The newest event gives the state back to the one before it ...
Undo(u, d, i) ==
  /\ updater[u].pc = "idle"
  /\ updater' = [updater EXCEPT ![u] = [Resting EXCEPT !.pc = "delete", !.todo = {d}, !.at = i]]
  /\ rfcState' = IF i < Len(events[d]) THEN rfcState
                 ELSE [rfcState EXCEPT ![d] = IF i = 1 THEN "none" ELSE events[d][i - 1]]
  /\ undone' = IF Len(events[d]) > 1 THEN undone ELSE undone \cup {e \in {d} : QueueTag \cap tags[d] # {}}
  /\ UNCHANGED <<entry, tags, approved, received, events>>

\* ... then the event is deleted.
Delete(u) ==
  /\ updater[u].pc = "delete"
  /\ LET d == At(u) IN
       events' = [events EXCEPT ![d] = SubSeq(@, 1, updater[u].at - 1) \o SubSeq(@, updater[u].at + 1, Len(@))]
  /\ updater' = [updater EXCEPT ![u] = Resting]
  /\ UNCHANGED <<entry, rfcState, tags, approved, received, undone>>

Killed(u) ==
  /\ updater[u].pc # "idle" /\ updater' = [updater EXCEPT ![u] = Resting]
  /\ UNCHANGED queueRow

Asleep == \A u \in Updater : updater[u].pc = "idle"
Start(u) == Fetch(u) \/ \E d \in Draft : \E i \in 1..Len(events[d]) : Undo(u, d, i)
Step(u)  == \/ TakeUp(u) \/ SetState(u) \/ AddEvent(u) \/ SetTags(u) \/ LookForLeft(u)
            \/ Untag(u) \/ Unset(u) \/ Done(u) \/ Exit(u) \/ Delete(u)

EditorActs == \E d \in Draft : EditorMoves(d)
Others == \E d \in Draft : Approve(d) \/ TagOther(d)
NextOK == EditorActs \/ Others \/ \E u \in Updater : Start(u) \/ Step(u)
Abort  == \E u \in Updater : Killed(u)

Spec   == Init /\ [][NextOK \/ Abort]_queueVars
SpecOK == Init /\ [][NextOK]_queueVars

(***************************************************************************)
(* Properties                                                              *)
(***************************************************************************)

\* At the end of a run the drafts are as the queue that was fetched had them, in
\* their state and in their tags of the queue, whatever earlier runs that died had
\* left.  Excepted are the tags of a draft whose only change was taken back: it has
\* no state, so no run looks for it any more, and it keeps its tags until the queue
\* has it again.
MirrorsQueue ==
  \A u \in Updater, d \in Draft : updater[u].pc = "done" =>
    LET e == updater[u].got[d] IN
      CASE e.state = "none"    -> rfcState[d] = "none" /\ (d \in undone \/ QueueTag \cap tags[d] = {})
        [] e.state = "unknown" -> TRUE
        [] OTHER               -> rfcState[d] = e.state /\ QueueTag \cap tags[d] = e.tags

\* The log explains the state of a draft in the queue: it is that of its last
\* event, also after changes that were taken back.
StateIsLastEvent ==
  Asleep => \A d \in Draft : rfcState[d] # "none" => events[d] # << >> /\ rfcState[d] = Latest(events[d])
=============================================================================
