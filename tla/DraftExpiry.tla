---------------------------- MODULE DraftExpiry ----------------------------
(***************************************************************************)
(* The life of ONE Internet-Draft outside the IESG: its expiry by the      *)
(* nightly expire-ids job (ietf/doc/expire.py), its files in the           *)
(* repository and the archive, and everybody who moves either: postings,   *)
(* the Secretariat's action buttons (secr/drafts/views.py), resurrection,  *)
(* the 'replaces' and stream forms (doc/views_draft.py) and the RFC index  *)
(* (sync/rfceditor.py).                                                    *)
(*                                                                         *)
(* A request loads the document's row, then executes the statements Script *)
(* lists, each of which commits on its own; doc.save() writes the whole    *)
(* row back.  A Secretariat action waits on a confirmation page, with its  *)
(* input in the session, before it loads the row it changes; the session   *)
(* is cleared by a request that succeeds, so an action that fails can be   *)
(* confirmed again.                                                        *)
(***************************************************************************)
EXTENDS Integers

CONSTANTS Req,      \* processes that serve requests and run cron jobs
          MaxRev,   \* bound on the revisions: none is submitted beyond it
          Life,     \* INTERNET_DRAFT_DAYS_TO_EXPIRE
          Stream,   \* the streams it may belong to
          Iesg,     \* the draft-iesg states the IESG may move it to
          Button    \* the action buttons the Secretariat uses

ASSUME ExpiryAssumption ==
  /\ MaxRev \in Nat /\ Life \in Nat \ {0}
  /\ Stream # {} /\ Stream \subseteq {"ietf", "ise"}
  /\ Iesg \subseteq {"watching", "dead", "busy"}
  /\ Button \subseteq {"revise", "update", "restore", "replace", "extend", "withdraw"}

VARIABLES
  doc,       \* the row: revision, days left before it expires, stream
  status,    \* state of type draft
  iesg,      \* state of type draft-iesg; "busy" is any that blocks expiry
  ise,       \* state of type draft-stream-ise; "sent" is rfc-edit or pub
  review,    \* the tag rfc-rev
  replaced,  \* a RelatedDocument says that another draft replaces this one
  repo, archive, unknown,  \* revisions whose files each directory holds
  meeting,   \* "before" the second cut-off, "freeze" until its Monday, "after"
  session,   \* a Secretariat action that awaits its confirmation
  req        \* req[r]: the statement process r has come to, and its variables

row    == <<doc, status, iesg, ise, review, replaced>>
files  == <<repo, archive, unknown>>
vars   == <<row, files, meeting, session, req>>

Rev    == 0..MaxRev
Row    == [rev : Rev, left : -1..Life, stream : Stream]
Status == {"active", "expired", "repl", "rfc", "withdrawn"}

\* The statements of each kind of request that change the state: which one
\* comes first, and which one follows each.
First ==
 [expire |-> "move", post |-> "save", resurrect |-> "active", index |-> "move",
  makerfc |-> "archive", revise |-> "archive", update |-> "save", restore |-> "restore",
  replace |-> "repl", extend |-> "save", withdraw |-> "withdrawn"]

Script ==
 [expire    |-> [move |-> "dead", dead |-> "expired", expired |-> "save", save |-> "idle"],
  post      |-> [save |-> "active", active |-> "move", move |-> "publish", publish |-> "idle"],
  resurrect |-> [active |-> "save", save |-> "idle"],
  index     |-> [move |-> "rfc", rfc |-> "pub", pub |-> "save", save |-> "idle"],
  makerfc   |-> [archive |-> "save", save |-> "rfc", rfc |-> "idle"],
  revise    |-> [archive |-> "save", save |-> "promote", promote |-> "idle"],
  update    |-> [save |-> "active", active |-> "promote", promote |-> "idle"],
  restore   |-> [restore |-> "active", active |-> "save", save |-> "idle"],
  replace   |-> [repl |-> "save", save |-> "related", related |-> "archive", archive |-> "idle"],
  extend    |-> [save |-> "idle"],
  withdraw  |-> [withdrawn |-> "save", save |-> "idle"]]

NewRev    == {"post", "revise", "update"}
NewLife   == NewRev \cup {"resurrect", "restore", "extend"}

NoSession == [op |-> "none", rev |-> 0]
Idle == [pc |-> "idle", op |-> "none", old |-> 0,
         doc |-> [rev |-> 0, left |-> -1, stream |-> CHOOSE s \in Stream : TRUE]]

PC == Status \cup {"idle", "move", "archive", "restore", "save", "dead", "pub", "related",
                   "publish", "promote"}

Local == [pc : PC, op : DOMAIN Script \cup {"none"}, old : Rev, doc : Row]

TypeOK ==
  /\ doc \in Row /\ status \in Status
  /\ iesg \in {"none", "watching", "dead", "busy", "pub"}
  /\ ise \in {"none", "open", "sent"}
  /\ review \in BOOLEAN /\ replaced \in BOOLEAN /\ meeting \in {"before", "freeze", "after"}
  /\ repo \subseteq Rev /\ archive \subseteq Rev /\ unknown \subseteq Rev
  /\ session \in [op : Button \cup {"none"}, rev : Rev]
  /\ req \in [Req -> Local]

\* A draft whose first revision has just been posted.
Init ==
  /\ doc \in {[rev |-> 0, left |-> Life, stream |-> s] : s \in Stream}
  /\ status = "active" /\ replaced = FALSE /\ review = FALSE
  /\ iesg = "none" /\ ise = "none"
  /\ repo = {0} /\ archive = {} /\ unknown = {}
  /\ meeting = "before" /\ session = NoSession
  /\ req = [r \in Req |-> Idle]

(***************************************************************************)
(* Which drafts expire                                                     *)
(***************************************************************************)

\* expirable_draft(draft), as the search pages see it
ExpirableDraft ==
  /\ status = "active"
  /\ iesg \in {"none", "watching", "dead"}
  /\ ~(doc.stream = "ise" /\ ise = "sent")
  /\ ~review

\* Mutant: AD Watching blocks expiry
ExpirableDraftsUnwatched ==
  status = "active" /\ iesg \in {"none", "dead"} /\ ise # "sent" /\ ~review

\* expirable_drafts(), the query of the nightly job
ExpirableDrafts ==
  /\ status = "active"
  /\ iesg \in {"none", "watching", "dead"}
  /\ ise # "sent"
  /\ ~review

InDraftExpireFreeze == meeting = "freeze"

\* get_expired_drafts(): expires < today + 1
Due == doc.left <= 0 /\ ExpirableDrafts

(***************************************************************************)
(* Requests                                                                *)
(***************************************************************************)

\* Load the row and change the copy; rev is the revision being submitted.
Load(r, op, rev) ==
  /\ req[r].pc = "idle"
  /\ req' = [req EXCEPT ![r] =
       [pc |-> First[op], op |-> op, old |-> doc.rev,
        doc |-> [doc EXCEPT !.rev  = IF op \in NewRev THEN rev ELSE @,
                            !.left = IF op \in NewLife THEN Life ELSE @]]]
  /\ UNCHANGED <<row, files, meeting>>

\* bin/expire-ids: the freeze is checked and the drafts listed when it starts
Expire(r) ==
  ~InDraftExpireFreeze /\ Due /\ Load(r, "expire", doc.rev) /\ UNCHANGED session

\* post_submission of the next revision (module Submission)
Post(r) ==
  /\ doc.rev < MaxRev
  /\ Load(r, "post", doc.rev + 1) /\ UNCHANGED session

Resurrect(r) ==
  status = "expired" /\ Load(r, "resurrect", doc.rev) /\ UNCHANGED session

\* The RFC index names this draft.
RfcIndex(r) ==
  status # "rfc" /\ Load(r, "index", doc.rev) /\ UNCHANGED session

MakeRfc(r) ==
  status = "active" /\ Load(r, "makerfc", doc.rev) /\ UNCHANGED session

\* The buttons the Secretariat's page enables in each state.
Enabled(op) ==
  CASE op \in {"revise", "extend", "withdraw"} -> status = "active"
    [] op = "update"  -> status = "expired"
    [] op = "restore" -> status \in {"expired", "withdrawn"}
    [] op = "replace" -> status \in {"active", "expired"}

\* The form is valid: it and the upload are kept in the session.
OpenForm(op) ==
  /\ session = NoSession /\ Enabled(op)
  /\ op \in NewRev => doc.rev < MaxRev
  /\ session' = [op |-> op, rev |-> IF op \in NewRev THEN doc.rev + 1 ELSE doc.rev]
  /\ UNCHANGED <<row, files, meeting, req>>

Confirm(r) ==
  session # NoSession /\ Load(r, session.op, session.rev) /\ UNCHANGED session

Cancel ==
  session # NoSession /\ session' = NoSession /\ UNCHANGED <<row, files, meeting, req>>

(***************************************************************************)
(* Their statements                                                        *)
(***************************************************************************)
\* The last statement of an action clears the session, too.
Clear(r, next) == session' = IF next = "idle" /\ req[r].op \in Button THEN NoSession ELSE session

\* Mutant: do_revision promotes the files before it saves the new revision
StatementPromoteFirst(r, what) ==
  /\ req[r].pc = what
  /\ LET next == IF req[r].op = "revise"
                 THEN [archive |-> "promote", promote |-> "save", save |-> "idle"][what]
                 ELSE Script[req[r].op][what]
     IN /\ req' = [req EXCEPT ![r] = IF next = "idle" THEN Idle ELSE [@ EXCEPT !.pc = next]]
        /\ Clear(r, next)
  /\ UNCHANGED meeting

\* Process r executes the statement it has come to.
Statement(r, what) ==
  /\ req[r].pc = what
  /\ LET next == Script[req[r].op][what]
     IN /\ req' = [req EXCEPT ![r] = IF next = "idle" THEN Idle ELSE [@ EXCEPT !.pc = next]]
        /\ Clear(r, next)
  /\ UNCHANGED meeting

Save(r) ==
  /\ Statement(r, "save") /\ doc' = req[r].doc
  /\ UNCHANGED <<status, iesg, ise, review, replaced, files>>

\* doc.set_state of type draft
SetStatus(r, s) ==
  /\ Statement(r, s) /\ status' = s
  /\ UNCHANGED <<doc, iesg, ise, review, replaced, files>>

\* Only a draft the IESG has started on becomes dead.
SetDead(r) ==
  /\ Statement(r, "dead") /\ iesg' = IF iesg = "none" THEN "none" ELSE "dead"
  /\ UNCHANGED <<doc, status, ise, review, replaced, files>>

\* update_docs_from_rfc_index: every state that is set becomes pub.
SetPub(r) ==
  /\ Statement(r, "pub")
  /\ iesg' = IF iesg = "none" THEN "none" ELSE "pub"
  /\ ise'  = IF ise = "none" THEN "none" ELSE "sent"
  /\ UNCHANGED <<doc, status, review, replaced, files>>

Relate(r) ==
  /\ Statement(r, "related") /\ replaced' = TRUE
  /\ UNCHANGED <<doc, status, iesg, ise, review, files>>

\* move_draft_files_to_archive
Move(r) ==
  /\ Statement(r, "move")
  /\ repo' = repo \ {req[r].old} /\ archive' = archive \cup (repo \cap {req[r].old})
  /\ UNCHANGED <<row, unknown>>

\* archive_draft_files: shutil.move refuses to overwrite a file of a directory
Collides(r) == req[r].old \in repo \cap archive
Archive(r) ==
  /\ ~Collides(r) /\ Statement(r, "archive")
  /\ repo' = repo \ {req[r].old} /\ archive' = archive \cup (repo \cap {req[r].old})
  /\ UNCHANGED <<row, unknown>>

\* move_files_to_repository, and promote_files, which does not overwrite
Publish(r) ==
  /\ \/ Statement(r, "publish")
     \/ req[r].doc.rev \notin repo /\ Statement(r, "promote")
  /\ repo' = repo \cup {req[r].doc.rev}
  /\ UNCHANGED <<row, archive, unknown>>

\* do_resurrect: the last revision the archive holds
LastArchived == {v \in archive : \A w \in archive : w <= v}
Restore(r) ==
  /\ Statement(r, "restore")
  /\ LastArchived \ repo # {}
  /\ repo' = repo \cup LastArchived /\ archive' = archive \ LastArchived
  /\ UNCHANGED <<row, unknown>>

Step(r) ==
  \/ Save(r) \/ SetDead(r) \/ SetPub(r) \/ Relate(r)
  \/ \E s \in Status : SetStatus(r, s)
  \/ Move(r) \/ Archive(r) \/ Publish(r) \/ Restore(r)

Stops(r) == req' = [req EXCEPT ![r] = Idle] /\ UNCHANGED <<row, files, meeting, session>>

\* A statement that moves files raises.
Raises(r) ==
  /\ \/ req[r].pc = "archive" /\ Collides(r)
     \/ req[r].pc = "promote" /\ req[r].doc.rev \in repo
     \/ req[r].pc = "restore" /\ LastArchived \ repo = {}
  /\ Stops(r)

\* The process is killed, or a template or a file fails it.
Abort(r) == req[r].pc # "idle" /\ Stops(r)

(***************************************************************************)
(* Everything else, in one statement each                                  *)
(***************************************************************************)

\* The IESG takes the draft on, finishes with it or lets it drop.
IesgMoves ==
  /\ status # "expired" /\ iesg' \in Iesg
  /\ UNCHANGED <<doc, status, ise, review, replaced, files, meeting, session, req>>

\* change_stream_state and request_publication
StreamState ==
  /\ doc.stream = "ise" /\ ise' \in {"open", "sent"}
  /\ UNCHANGED <<doc, status, iesg, review, replaced, files, meeting, session, req>>

\* change_stream leaves the state of the old stream as it is.
ChangeStream ==
  /\ doc' \in {[doc EXCEPT !.stream = s] : s \in Stream \ {doc.stream}}
  /\ UNCHANGED <<status, iesg, ise, review, replaced, files, meeting, session, req>>

\* EditModelForm.save, review_by_rfc_editor
Review ==
  /\ review' = ~review
  /\ UNCHANGED <<doc, status, iesg, ise, replaced, files, meeting, session, req>>

\* The 'replaces' form of another draft adds this one, or drops it.
ReplacedBy ==
  /\ ~replaced /\ status # "rfc"
  /\ replaced' = TRUE /\ status' = "repl"
  /\ UNCHANGED <<doc, iesg, ise, review, files, meeting, session, req>>
NoLongerReplaced ==
  /\ replaced /\ replaced' = FALSE
  /\ \/ doc.left >= 0 /\ status' = "active"
     \/ doc.left <= 0 /\ status' = "expired"
  /\ UNCHANGED <<doc, iesg, ise, review, files, meeting, session, req>>

\* clean_up_draft_files, one file of the repository
Clean(v) ==
  /\ v \in repo
  /\ \/ /\ v # doc.rev
        /\ unknown' = unknown \cup {v} /\ UNCHANGED archive
     \/ /\ v = doc.rev
        /\ status \in {"rfc", "repl"} \/ (status \in {"expired", "withdrawn"} /\ doc.left < 0)
        /\ archive' = archive \cup {v} /\ UNCHANGED unknown
  /\ repo' = repo \ {v}
  /\ UNCHANGED <<row, meeting, session, req>>

\* Mutant: the calendar of the model is not bounded
AgeOn(d) == [d EXCEPT !.left = @ - 1]

\* A day passes for the row and for every copy of it.
Age(d)   == IF d.left = -1 THEN d ELSE [d EXCEPT !.left = @ - 1]
Tick ==
  /\ doc' = Age(doc)
  /\ req' = [r \in Req |-> [req[r] EXCEPT !.doc = Age(@)]]
  /\ UNCHANGED <<status, iesg, ise, review, replaced, files, meeting, session>>

\* The second cut-off, and the Monday of the only meeting of the calendar.
Meeting ==
  /\ \/ meeting = "before" /\ meeting' = "freeze"
     \/ meeting = "freeze" /\ meeting' = "after"
  /\ UNCHANGED <<row, files, session, req>>

Start(r) ==
  Expire(r) \/ Post(r) \/ Resurrect(r) \/ RfcIndex(r) \/ MakeRfc(r) \/ Confirm(r)

NextOK ==
  \/ \E r \in Req : Start(r) \/ Step(r) \/ Raises(r)
  \/ \E op \in Button : OpenForm(op)
  \/ Cancel
  \/ IesgMoves \/ StreamState \/ ChangeStream \/ Review
  \/ ReplacedBy \/ NoLongerReplaced
  \/ \E v \in Rev : Clean(v)
  \/ Tick \/ Meeting

Next == NextOK \/ \E r \in Req : Abort(r)

Spec   == Init /\ [][Next]_vars
SpecOK == Init /\ [][NextOK]_vars

\* Requests progress, the freeze ends, and the nightly job finds its turn and
\* is not killed each time before the same statement.
Fairness ==
  /\ \A r \in Req : WF_vars(Step(r) \/ Raises(r))
  /\ SF_vars(\E r \in Req : Expire(r))
  /\ SF_vars(\E r \in Req : req[r].op = "expire" /\ Move(r))
  /\ SF_vars(\E r \in Req : req[r].op = "expire" /\ SetDead(r))
  /\ SF_vars(\E r \in Req : req[r].op = "expire" /\ SetStatus(r, "expired"))
  /\ WF_vars(InDraftExpireFreeze /\ Meeting)

FairSpec == Spec /\ Fairness

(***************************************************************************)
(* Properties                                                              *)
(***************************************************************************)
Quiet == \A r \in Req : req[r].pc = "idle"

\* The text of the current revision is in the repository or the archive,
\* wherever the clean-up runs between the statements of the others: it is
\* never filed among the unknown ones.  When nothing has been killed.
CurrentKept == Quiet => doc.rev \in repo \cup archive

\* A draft that is past its date and that the search pages call expirable
\* does not stay so, although the job that expires it may die half way.  For
\* drafts that keep their stream: see InSync.
Overdue == ExpirableDraft /\ doc.left <= 0
Expires == Overdue ~> ~Overdue

\* expirable_draft is "the single draft version of the logic in
\* expirable_drafts"; the two "need to be kept in sync".
InSync == ExpirableDraft <=> ExpirableDrafts
=============================================================================
