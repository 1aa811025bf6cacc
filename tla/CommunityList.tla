--------------------------- MODULE CommunityList ---------------------------
(***************************************************************************)
(* A list of tracked documents and its rendered page, which is kept with   *)
(* the list (community).  Handlers change the list and clear the page in   *)
(* two statements, some in one order, some in the other; a visitor who     *)
(* finds no page renders one and saves it.  One rule, one list.            *)
(***************************************************************************)
EXTENDS FiniteSets

CONSTANTS Tracked,     \* documents
          Visitor      \* requests and the job that updates the lists

VARIABLES
  matches,     \* the documents the rule would find now
  tracked,     \* added_ids
  rule,        \* the rule's row and its cached_ids
  page,        \* cached: the documents on the rendered page, or none
  visitor,     \* visitor[v]: program counter, document or rendered page
  spoilt       \* ghost: what is rendered or saved may be older than the list

listVars == <<matches, tracked, rule, page, visitor, spoilt>>

Viewing  == {"render", "keep"}
Changing == {"add", "forget", "ids", "clear", "resave", "refind", "reclear", "sweep"}

NoPage  == [docs |-> {}, made |-> FALSE]
NoRule  == [made |-> FALSE, ids |-> {}]
Idle    == [pc |-> "idle", docs |-> {}]
Pages   == [docs : SUBSET Tracked, made : BOOLEAN]

TypeOK ==
  /\ matches \subseteq Tracked /\ tracked \subseteq Tracked
  /\ rule \in [made : BOOLEAN, ids : SUBSET Tracked]
  /\ page \in Pages /\ spoilt \in BOOLEAN
  /\ visitor \in [Visitor -> [pc : {"idle"} \cup Changing \cup Viewing,
                              docs : SUBSET Tracked]]

Init ==
  /\ matches \in SUBSET Tracked
  /\ tracked = {} /\ rule = NoRule /\ page = NoPage
  /\ visitor = [v \in Visitor |-> Idle] /\ spoilt = FALSE

\* get_documents
Documents == tracked \cup rule.ids

At(v, pc) == visitor[v].pc = pc
Busy(pcs) == \E v \in Visitor : visitor[v].pc \in pcs
Goto(v, pc, docs) == visitor' = [visitor EXCEPT ![v] = [pc |-> pc, docs |-> docs]]

\* A change starts, and may spoil what is being rendered.
Change(v, pc) ==
  /\ At(v, "idle") /\ Goto(v, pc, {}) /\ spoilt' = (spoilt \/ Busy(Viewing))

\* CommunityList.update
Clear(v) == page' = NoPage /\ spoilt' = Busy(Viewing)

(***************************************************************************)
(* Requests that change the list                                           *)
(***************************************************************************)
\* add_track_document clears the page before it adds the document,
Track(v, d) ==
  /\ At(v, "idle") /\ Goto(v, "add", {d}) /\ Clear(v)
  /\ UNCHANGED <<matches, tracked, rule>>

Add(v) ==
  /\ At(v, "add") /\ Goto(v, "idle", {})
  /\ tracked' = tracked \cup visitor[v].docs
  /\ UNCHANGED <<matches, rule, page, spoilt>>

\* remove_track_document and remove_document the other way round.
Untrack(v, d) ==
  /\ Change(v, "clear") /\ tracked' = tracked \ {d}
  /\ UNCHANGED <<matches, rule, page>>

\* Rule.save: the row, its documents, then the page.
AddRule(v) ==
  /\ ~rule.made
  /\ Change(v, "ids") /\ rule' = [NoRule EXCEPT !.made = TRUE]
  /\ UNCHANGED <<matches, tracked, page>>

\* The statement fails when the rule was removed meanwhile.
FindIds(v) ==
  /\ visitor[v].pc \in {"ids", "refind"}
  /\ IF rule.made
     THEN /\ rule' = [rule EXCEPT !.ids = matches]
          /\ Goto(v, IF At(v, "ids") THEN "clear" ELSE "reclear", {})
     ELSE UNCHANGED rule /\ Goto(v, "idle", {})
  /\ UNCHANGED <<matches, tracked, page, spoilt>>

\* Mutant: the page is left alone after a change
UpdateNothing(v) ==
  /\ visitor[v].pc \in {"clear", "reclear"}
  /\ Goto(v, IF At(v, "clear") THEN "idle" ELSE "sweep", {})
  /\ UNCHANGED <<matches, tracked, rule, page, spoilt>>

Update(v) ==
  /\ visitor[v].pc \in {"clear", "reclear"} /\ Clear(v)
  /\ Goto(v, IF At(v, "clear") THEN "idle" ELSE "sweep", {})
  /\ UNCHANGED <<matches, tracked, rule>>

\* Rule.delete clears the page before the row goes.
RemoveRule(v) ==
  /\ rule.made /\ At(v, "idle") /\ Goto(v, "forget", {}) /\ Clear(v)
  /\ UNCHANGED <<matches, tracked, rule>>

Forget(v) ==
  /\ At(v, "forget") /\ Goto(v, "idle", {}) /\ rule' = NoRule
  /\ UNCHANGED <<matches, tracked, page, spoilt>>

\* The page of a document looks whether its reader tracks it.
Look(v) ==
  /\ At(v, "idle") /\ Clear(v)
  /\ UNCHANGED <<matches, tracked, rule, visitor>>

(***************************************************************************)
(* update_community_lists                                                  *)
(***************************************************************************)
\* Rules are listed that were not updated in the last hour.
UpdateLists(v) ==
  /\ \/ rule.made /\ Change(v, "resave")
     \/ Change(v, "sweep")
  /\ UNCHANGED <<matches, tracked, rule, page>>

\* Saving the row of a rule that was removed meanwhile inserts it again.
Resave(v) ==
  /\ At(v, "resave") /\ Goto(v, "refind", {})
  /\ rule' = [rule EXCEPT !.made = TRUE]
  /\ UNCHANGED <<matches, tracked, page, spoilt>>

Sweep(v) ==
  /\ At(v, "sweep") /\ Goto(v, "idle", {}) /\ Clear(v)
  /\ UNCHANGED <<matches, tracked, rule>>

(***************************************************************************)
(* Visitors of the page                                                    *)
(***************************************************************************)
\* CommunityListViewNode: if there is no page, one is rendered and kept.
View(v) ==
  /\ ~page.made /\ At(v, "idle") /\ Goto(v, "render", {})
  /\ spoilt' = (spoilt \/ Busy(Changing))
  /\ UNCHANGED <<matches, tracked, rule, page>>

Render(v) ==
  /\ At(v, "render") /\ Goto(v, "keep", Documents)
  /\ UNCHANGED <<matches, tracked, rule, page, spoilt>>

Keep(v) ==
  /\ At(v, "keep") /\ Goto(v, "idle", {})
  /\ page' = [docs |-> visitor[v].docs, made |-> TRUE]
  /\ UNCHANGED <<matches, tracked, rule, spoilt>>

Start(v) ==
  \/ AddRule(v) \/ RemoveRule(v) \/ Look(v) \/ UpdateLists(v) \/ View(v)
  \/ \E d \in Tracked : Track(v, d) \/ Untrack(v, d)
Step(v) ==
  \/ Add(v) \/ FindIds(v) \/ Update(v) \/ Forget(v)
  \/ Resave(v) \/ Sweep(v) \/ Render(v) \/ Keep(v)

\* A draft comes to match the rule, or does not any more.
World(d) ==
  /\ matches' = IF d \in matches THEN matches \ {d} ELSE matches \cup {d}
  /\ UNCHANGED <<tracked, rule, page, visitor, spoilt>>

\* A request dies.  The documents of a rule are cleared, then added.
Abort(v) ==
  /\ ~At(v, "idle") /\ Goto(v, "idle", {})
  /\ \/ UNCHANGED rule
     \/ At(v, "refind") /\ rule' = [rule EXCEPT !.ids = {}]
  /\ spoilt' = (spoilt \/ visitor[v].pc \in {"clear", "refind", "reclear"})
  /\ UNCHANGED <<matches, tracked, page>>

Next ==
  \/ \E v \in Visitor : Start(v) \/ Step(v) \/ Abort(v)
  \/ \E d \in Tracked : World(d)

Spec == Init /\ [][Next]_listVars

(***************************************************************************)
(* The property                                                            *)
(***************************************************************************)
\* CommunityList.cached: whatever requests that change the list overlap, and
\* wherever one dies that clears the page first, the page that is kept shows
\* the list once they are done; unless it was rendered while the list was
\* changed, and then until the page is cleared the next time.
PageIsCurrent ==
  ~spoilt /\ page.made /\ ~Busy(Changing) => page.docs = Documents
=============================================================================
