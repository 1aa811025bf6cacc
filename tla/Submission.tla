---------------------------- MODULE Submission ----------------------------
(***************************************************************************)
(* The Internet-Draft submission tool (ietf/submit) for ONE draft name:    *)
(* no handler relates submissions of different names.                      *)
(*                                                                         *)
(* Django runs every ORM statement of a request as a transaction of its    *)
(* own (there is neither ATOMIC_REQUESTS nor a transaction middleware), so *)
(* a request is a sequence of steps: it loads the Submission row, decides  *)
(* on that copy, and then writes rows and files one after the other.  A    *)
(* web server or cron process is an element of Req; it works on one        *)
(* request at a time, other processes run between its steps, and Abort     *)
(* ends it anywhere (a restart, a timeout, an exception of a template or   *)
(* of the file system; what the mail server refuses does not end it).      *)
(*                                                                         *)
(* A draft's files (.txt, .xml, .pdf, .ps) move together and are one value *)
(* here: the submission whose upload wrote them.                           *)
(***************************************************************************)
EXTENDS Integers, FiniteSets

CONSTANTS Sub,          \* primary keys of Submission rows
          Req,          \* processes that serve requests and run cron jobs
          MaxRev,       \* the code's 99 (validate_submission_rev)
          GroupDraft,   \* the name belongs to a working group (deduce_group)
          Prior,        \* content that was posted before the behaviour starts
          None          \* "no file", "no submission"

ASSUME ConstantsAssumption ==
  /\ MaxRev \in Nat
  /\ GroupDraft \in BOOLEAN
  /\ Prior \notin Sub /\ None \notin Sub /\ Prior # None

VARIABLES
  subm,          \* subm[s]: the columns state and rev of the Submission row
  staging,       \* staging[v]: content of name-v.* in IDSUBMIT_STAGING_PATH
  repo,          \* ... in IDSUBMIT_REPOSITORY_PATH (INTERNET_DRAFT_PATH)
  archive,       \* ... in INTERNET_DRAFT_ARCHIVE_DIR
  doc,           \* the Document row: rev (-1: no row) and whose metadata it has
  marks,         \* its many-to-many rows: states and tags
  history,       \* revs for which a DocHistory row was saved
  events,        \* NewRevisionDocEvent rows (sub and via are ghosts)
  preapproved,   \* a Preapproval row exists for the name
  pages,         \* browser pages: submissions shown with the "Post" button
  cleared,       \* ghost: submissions whose author posted under a Preapproval
  req            \* req[r]: program counter and local variables of process r

vars == <<subm, staging, repo, archive, doc, marks, history, events,
          preapproved, pages, cleared, req>>
files == <<staging, repo, archive>>
document == <<doc, marks, history, events>>
rest == <<preapproved, pages, cleared>>

Workflow == INSTANCE SubmissionStates WITH state <- [s \in Sub |-> subm[s].state]
Live == Workflow!Live

Rev     == 0..MaxRev
Content == Sub \cup {Prior, None}
Row     == [state : Workflow!StateName \cup {"none"}, rev : Rev]
Entry   == {"approve", "confirm", "force"}      \* the ways into post_submission
Op      == {"none", "upload", "autopost", "edit", "cancel", "expire"} \cup Entry
Posting == {"get", "put", "states", "archive", "publish"}
PC      == {"idle", "store", "create", "rename", "save", "unlink"} \cup Posting
Local   == [pc : PC, sub : Sub \cup {None}, row : Row, prev : -1..MaxRev,
            rfc : BOOLEAN, op : Op]

NoRow  == [state |-> "none", rev |-> 0]
NoMark == [state |-> "none", stream |-> "none", iana |-> "none", needrev |-> FALSE]
Idle   == [pc |-> "idle", sub |-> None, row |-> NoRow, prev |-> -1,
           rfc |-> FALSE, op |-> "none"]

Marks == [state   : {"none", "active", "expired", "rfc"},
          stream  : {"none", "wg-doc", "later"},
          iana    : {"none", "reviewed", "changed"},  \* "reviewed": ok-act, ok-noact, not-ok
          needrev : BOOLEAN]

TypeOK ==
  /\ subm \in [Sub -> Row]
  /\ staging \in [Rev -> Content]
  /\ repo \in [Rev -> Content]
  /\ archive \in [Rev -> Content]
  /\ doc \in [rev : -1..MaxRev, meta : Content]
  /\ marks \in Marks
  /\ history \subseteq Rev
  /\ events \subseteq [rev : Rev, sub : Sub \cup {Prior}, via : Entry \cup {"none"}]
  /\ preapproved \in BOOLEAN
  /\ pages \subseteq Sub
  /\ cleared \subseteq Sub
  /\ req \in [Req -> Local]

\* Either a new name, or a draft whose revision 00 is out, has expired or
\* has become an RFC.
Init ==
  /\ subm = [s \in Sub |-> NoRow]
  /\ staging = [v \in Rev |-> None]
  /\ archive = [v \in Rev |-> None]
  /\ history = {} /\ pages = {} /\ cleared = {}
  /\ preapproved = FALSE
  /\ req = [r \in Req |-> Idle]
  /\ \/ /\ doc = [rev |-> -1, meta |-> None]
        /\ marks = NoMark
        /\ repo = [v \in Rev |-> None]
        /\ events = {}
     \/ /\ doc = [rev |-> 0, meta |-> Prior]
        /\ marks \in {m \in Marks : m.state # "none"}
        /\ repo = [v \in Rev |-> IF v = 0 THEN Prior ELSE None]
        /\ events = {[rev |-> 0, sub |-> Prior, via |-> "none"]}

(***************************************************************************)
(* Helpers                                                                 *)
(***************************************************************************)
Exists == doc.rev >= 0
Expected == doc.rev + 1                 \* the revision validate_submission_rev expects
RevValid(v) == v = Expected

\* get_object_or_404(Submission, pk=s) and the decision taken on the copy
Load(r, s, local) ==
  /\ req[r].pc = "idle"
  /\ subm[s].state # "none"
  /\ req' = [req EXCEPT ![r] = local]
  /\ UNCHANGED <<subm, files, document>>

Goto(r, pc) == req' = [req EXCEPT ![r].pc = pc]
Finish(r)   == req' = [req EXCEPT ![r] = Idle]
Work(op, s, row, prev, pc) ==
  [pc |-> pc, sub |-> s, row |-> row, prev |-> prev, rfc |-> FALSE, op |-> op]

(***************************************************************************)
(* upload_submission: UploadForm.clean, then the files, then the row.      *)
(* The cut-off and the daily thresholds only refuse more.                  *)
(***************************************************************************)
UploadCheck(r, s, v) ==
  /\ req[r].pc = "idle"
  /\ subm[s].state = "none"
  /\ \A q \in Req : req[q].sub # s       \* a primary key is given out once
  /\ \A t \in Sub : subm[t].rev = v => subm[t].state \notin Live
  /\ req' = [req EXCEPT ![r] = Work("upload", s, [state |-> "uploaded", rev |-> v], -1, "store")]
  /\ UNCHANGED <<subm, files, document, rest>>

UploadStore(r) ==
  /\ req[r].pc = "store"
  /\ staging' = [staging EXCEPT ![req[r].row.rev] = req[r].sub]
  /\ Goto(r, "create")
  /\ UNCHANGED <<subm, repo, archive, document, rest>>

UploadCreate(r) ==
  /\ req[r].pc = "create"
  /\ subm' = [subm EXCEPT ![req[r].sub] = req[r].row]
  /\ Finish(r)
  /\ UNCHANGED <<files, document, rest>>

(***************************************************************************)
(* submission_status and edit_submission                                   *)
(***************************************************************************)

\* GET: the page offers "Post" when validate_submission finds no error.
ViewStatus(s) ==
  /\ subm[s].state = "uploaded"
  /\ staging[subm[s].rev] # None
  /\ RevValid(subm[s].rev)
  /\ pages' = pages \cup {s}
  /\ UNCHANGED <<subm, files, document, preapproved, cleared, req>>

NeedsGroupApproval(row) == GroupDraft /\ row.rev = 0 /\ ~preapproved

\* Mutant: the group is not asked.
AutopostStateUnasked(row) == IF Exists THEN "aut-appr" ELSE "auth"

AutopostState(row) ==
  IF NeedsGroupApproval(row) THEN "grp-appr"
  ELSE IF Exists THEN "aut-appr" ELSE "auth"

\* POST action=autopost: decided on the state alone, the page may be stale.
Autopost(r, s) ==
  /\ subm[s].state = "uploaded"
  /\ s \in pages
  /\ Load(r, s, Work("autopost", s, [subm[s] EXCEPT !.state = AutopostState(subm[s])], -1, "save"))
  /\ cleared' = IF preapproved THEN cleared \cup {s} ELSE cleared
  /\ UNCHANGED <<preapproved, pages>>

\* EditSubmissionForm only accepts the expected revision.
Edit(r, s, v) ==
  /\ subm[s].state = "uploaded"
  /\ RevValid(v)
  /\ Load(r, s, Work("edit", s, [state |-> "manual", rev |-> v], subm[s].rev,
                     IF v # subm[s].rev THEN "rename" ELSE "save"))
  /\ UNCHANGED rest

\* rename_submission_files: os.rename replaces the target; no source is an error.
EditRename(r) ==
  /\ req[r].pc = "rename"
  /\ IF staging[req[r].prev] # None
     THEN /\ staging' = [staging EXCEPT ![req[r].row.rev] = staging[req[r].prev],
                                        ![req[r].prev] = None]
          /\ Goto(r, "save")
     ELSE Finish(r) /\ UNCHANGED staging
  /\ UNCHANGED <<subm, repo, archive, document, rest>>

\* Mutant: every submission that is not canceled yet can be canceled.
CancelAny(r, s) ==
  /\ subm[s].state # "cancel"
  /\ Load(r, s, Work("cancel", s, [subm[s] EXCEPT !.state = "cancel"], -1, "save"))
  /\ UNCHANGED rest

\* POST action=cancel; cancel_submission saves the row, then removes the files.
Cancel(r, s) ==
  /\ "cancel" \in Workflow!NextStates(subm[s].state)
  /\ Load(r, s, Work("cancel", s, [subm[s] EXCEPT !.state = "cancel"], -1, "save"))
  /\ UNCHANGED rest

CancelUnlink(r) ==
  /\ req[r].pc = "unlink"
  /\ staging' = [staging EXCEPT ![req[r].row.rev] = None]
  /\ Finish(r)
  /\ UNCHANGED <<subm, repo, archive, document, rest>>

\* Mutant: only submissions nobody has acted on expire.
ExpireUploaded(r, s) ==
  /\ subm[s].state = "uploaded"
  /\ Load(r, s, Work("expire", s, [subm[s] EXCEPT !.state = "cancel"], -1, "save"))
  /\ UNCHANGED rest

\* bin/expire-submissions: expirable_submissions, then expire_submission,
\* which leaves the staged files where they are.  Any submission may have
\* reached the age limit.
Expire(r, s) ==
  /\ subm[s].state \in Live
  /\ Load(r, s, Work("expire", s, [subm[s] EXCEPT !.state = "cancel"], -1, "save"))
  /\ UNCHANGED rest

\* submission.save(): the whole row, from the copy loaded earlier.
SaveRow(r) ==
  /\ req[r].pc = "save"
  /\ subm' = [subm EXCEPT ![req[r].sub] = req[r].row]
  /\ pages' = pages \ {req[r].sub}
  /\ IF req[r].op = "cancel"
     THEN Goto(r, "unlink") ELSE Finish(r)
  /\ UNCHANGED <<files, document, preapproved, cleared>>

(***************************************************************************)
(* The three ways into post_submission                                     *)
(***************************************************************************)
Post(r, s, op) == Load(r, s, Work(op, s, subm[s], -1, "get")) /\ UNCHANGED rest

Approve(r, s)   == subm[s].state = "grp-appr" /\ Post(r, s, "approve")
Confirm(r, s)   == subm[s].state \in {"auth", "aut-appr"} /\ Post(r, s, "confirm")
ForcePost(r, s) == "posted" \in Workflow!NextStates(subm[s].state) /\ Post(r, s, "force")

(***************************************************************************)
(* post_submission, in the order of its statements                         *)
(***************************************************************************)

\* Mutants: no history row, or one even for a Document that does not exist.
PostGetWith(r, saved) ==
  /\ req[r].pc = "get"
  /\ history' = history \cup saved
  /\ req' = [req EXCEPT ![r].pc = "put", ![r].prev = doc.rev,
                        ![r].rfc = (marks.state = "rfc")]
  /\ UNCHANGED <<subm, files, doc, marks, events, rest>>
PostGetNoHistory(r)  == PostGetWith(r, {})
PostGetAnyHistory(r) == PostGetWith(r, {doc.rev})

\* Document.objects.get, save_document_in_history, prev_rev, was_rfc
PostGet(r) ==
  /\ req[r].pc = "get"
  /\ history' = history \cup ({doc.rev} \cap Rev)
  /\ req' = [req EXCEPT ![r].pc = "put", ![r].prev = doc.rev,
                        ![r].rfc = (marks.state = "rfc")]
  /\ UNCHANGED <<subm, files, doc, marks, events, rest>>

\* draft.save() with the new revision and metadata
PostPut(r) ==
  /\ req[r].pc = "put"
  /\ doc' = [rev |-> req[r].row.rev, meta |-> req[r].sub]
  /\ Goto(r, "states")
  /\ UNCHANGED <<subm, files, marks, history, events, rest>>

\* Mutant: the event is left to the end of the request and never written.
PostStatesSilent(r) ==
  /\ req[r].pc = "states"
  /\ marks' = [marks EXCEPT !.state = "active", !.iana = IF @ = "reviewed" THEN "changed" ELSE @]
  /\ Goto(r, "archive")
  /\ UNCHANGED <<subm, files, doc, history, events, rest>>

\* set_state active, the NewRevisionDocEvent, wg-doc, IANA review "changed"
PostStates(r) ==
  /\ req[r].pc = "states"
  /\ marks' = [marks EXCEPT
       !.state = "active",
       !.stream = IF GroupDraft /\ req[r].row.rev = 0 THEN "wg-doc" ELSE @,
       !.iana = IF @ = "reviewed" THEN "changed" ELSE @]
  /\ events' = events \cup {[rev |-> req[r].row.rev, sub |-> req[r].sub, via |-> req[r].op]}
  /\ Goto(r, "archive")
  /\ UNCHANGED <<subm, files, doc, history, rest>>

\* Mutant: the files of the previous revision stay where they are.
PostArchiveNothing(r) ==
  /\ req[r].pc = "archive"
  /\ marks' = IF req[r].rfc THEN marks ELSE [marks EXCEPT !.needrev = FALSE]
  /\ Goto(r, "publish")
  /\ UNCHANGED <<subm, files, doc, history, events, rest>>

\* move_draft_files_to_archive(draft, prev_rev), then the need-rev tag
PostArchive(r) ==
  /\ req[r].pc = "archive"
  /\ LET old == req[r].prev
     IN IF old \in Rev /\ old # req[r].row.rev /\ repo[old] # None
        THEN /\ archive' = [archive EXCEPT ![old] = repo[old]]
             /\ repo' = [repo EXCEPT ![old] = None]
        ELSE UNCHANGED <<repo, archive>>
  /\ marks' = IF req[r].rfc THEN marks ELSE [marks EXCEPT !.needrev = FALSE]
  /\ Goto(r, "publish")
  /\ UNCHANGED <<subm, staging, doc, history, events, rest>>

\* Mutant: missing files are skipped instead of raising ValueError.
PostPublishLenient(r) ==
  /\ req[r].pc = "publish"
  /\ LET v == req[r].row.rev
     IN IF staging[v] # None
        THEN /\ repo' = [repo EXCEPT ![v] = staging[v]]
             /\ staging' = [staging EXCEPT ![v] = None]
        ELSE UNCHANGED <<staging, repo>>
  /\ req' = [req EXCEPT ![r].pc = "save", ![r].row.state = "posted"]
  /\ UNCHANGED <<subm, archive, document, rest>>

\* move_files_to_repository: a missing source is tolerated only when the
\* target is already there, otherwise ValueError ends the request.
PostPublish(r) ==
  /\ req[r].pc = "publish"
  /\ LET v == req[r].row.rev
     IN /\ IF staging[v] # None
           THEN /\ repo' = [repo EXCEPT ![v] = staging[v]]
                /\ staging' = [staging EXCEPT ![v] = None]
           ELSE UNCHANGED <<staging, repo>>
        /\ IF staging[v] # None \/ repo[v] # None
           THEN req' = [req EXCEPT ![r].pc = "save", ![r].row.state = "posted"]
           ELSE Finish(r)
  /\ UNCHANGED <<subm, archive, document, rest>>

(***************************************************************************)
(* Preapprovals and failures                                               *)
(***************************************************************************)
SomePosted == \E s \in Sub : subm[s].state = "posted"

AddPreapproval ==
  /\ GroupDraft /\ ~preapproved /\ ~SomePosted
  /\ preapproved' = TRUE
  /\ UNCHANGED <<subm, files, document, pages, cleared, req>>

CancelPreapproval ==
  /\ preapproved /\ ~SomePosted
  /\ preapproved' = FALSE
  /\ UNCHANGED <<subm, files, document, pages, cleared, req>>

Abort(r) ==
  /\ req[r].pc # "idle"
  /\ Finish(r)
  /\ UNCHANGED <<subm, files, document, rest>>

PostStep(r) == PostGet(r) \/ PostPut(r) \/ PostStates(r) \/ PostArchive(r) \/ PostPublish(r)

Step(r) == \/ UploadStore(r) \/ UploadCreate(r) \/ EditRename(r)
           \/ SaveRow(r) \/ CancelUnlink(r) \/ PostStep(r)

Start(r, s) ==
  \/ \E v \in Rev : UploadCheck(r, s, v) \/ Edit(r, s, v)
  \/ Autopost(r, s) \/ Cancel(r, s) \/ Expire(r, s)
  \/ Approve(r, s) \/ Confirm(r, s) \/ ForcePost(r, s)

NextOK ==
  \/ \E r \in Req : Step(r)
  \/ \E r \in Req, s \in Sub : Start(r, s)
  \/ \E s \in Sub : ViewStatus(s)
  \/ AddPreapproval \/ CancelPreapproval

Next == NextOK \/ \E r \in Req : Abort(r)

Spec == Init /\ [][Next]_vars

\* A running process gets on with its request; the daily cron job reaches
\* every row again and again and is not stopped half way each time.
Fairness ==
  /\ \A r \in Req : WF_vars(Step(r))
  /\ \A s \in Sub :
       /\ SF_vars(\E r \in Req : Expire(r, s))
       /\ SF_vars(\E r \in Req : req[r].op = "expire" /\ req[r].sub = s /\ SaveRow(r))

FairSpec == Spec /\ Fairness

\* Nothing fails: for statements about what a whole request achieves.
SpecOK == Init /\ [][NextOK]_vars

(***************************************************************************)
(* Properties that hold for any number of overlapping and aborted requests *)
(***************************************************************************)

\* A submission shown as posted has been published completely, whatever ran
\* beside post_submission: its files are in the repository (or the archive,
\* if a later posting moved them), its new-revision event is recorded, the
\* Document is an active draft again, and an IANA review of an earlier
\* revision no longer counts as done.
PostedIsComplete ==
  \A s \in Sub : subm[s].state = "posted" =>
    /\ repo[subm[s].rev] # None \/ archive[subm[s].rev] # None
    /\ \E e \in events : e.sub = s /\ e.rev = subm[s].rev
    /\ marks.state = "active" /\ marks.iana # "reviewed"

\* No file reaches the public repository or the archive before the event
\* that announces its revision, even when requests die between the two.
PublishedIsAnnounced ==
  \A v \in Rev : repo[v] # None \/ archive[v] # None => \E e \in events : e.rev = v

\* Revision 00 of a working group draft is never published on the authors'
\* confirmation alone: its author pressed "Post" under a preapproval, or a
\* chair or the Secretariat posted it.
GroupApproval ==
  \A e \in events : GroupDraft /\ e.rev = 0 /\ e.via = "confirm" => e.sub \in cleared

(***************************************************************************)
(* Properties that need one request at a time (Req a singleton)            *)
(***************************************************************************)

\* The rows follow DraftSubmissionStateName.next_states.
FollowsWorkflow == Workflow!Spec

\* save_document_in_history: whenever the revision of the Document changes,
\* the one it had is in DocHistory.
HistoryComplete == [][doc'.rev # doc.rev /\ Exists => doc.rev \in history]_doc

\* When nothing fails, a posting leaves only the current revision's files in
\* the repository: superseded ones have been moved to the archive.
OnlyCurrentInRepository ==
  (\A r \in Req : req[r].pc = "idle") => \A v \in Rev : repo[v] # None => v = doc.rev

(***************************************************************************)
(* Liveness                                                                *)
(***************************************************************************)

\* No submission is left in process: it is posted or canceled in the end,
\* by expire-submissions if by nobody else.
Settles == \A s \in Sub : (subm[s].state \in Live) ~> (subm[s].state \notin Live)

(***************************************************************************)
(* What the tool tells its users and the code does not keep (see README)   *)
(***************************************************************************)

\* "This submission has been canceled, modification is no longer possible."
CanceledIsFinal ==
  [][\A s \in Sub : subm[s].state = "cancel" => subm'[s].state = "cancel"]_subm

\* "one of the addressees above [the authors of previous revisions] will have
\* to send a confirmation": a confirmation that updates an existing Document
\* answers a mail to the authors of that Document.
PreviousAuthorsAsked ==
  [][\A r \in Req : PostPut(r) /\ Exists /\ req[r].op = "confirm"
                     => req[r].row.state = "aut-appr"]_vars

=============================================================================
