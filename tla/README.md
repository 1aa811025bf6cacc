# IETF Datatracker: models, checks and proofs

The Datatracker (`src/ietf/`) is the Django application with which the IETF
runs its documents: authors submit Internet-Drafts, working groups and the IESG
move them through their states, ballots and last calls decide on them, the RFC
Editor and IANA synchronise theirs, and cron jobs expire what nobody looks
after.  This directory holds TLA+ models of that program, the TLC runs that
check them on small instances and TLAPS proofs of what matters most.

`django/`, `south/`, `docutils/`, `html5lib/`, `form_utils/`, `static/` and
`vzic/` are third-party code and out of scope.

Contents: [How the program executes](#how-the-program-executes-and-how-that-is-modelled) ·
[Inventory](#inventory) · [Plan](#plan) · [Submission](#submission) ·
[IesgEvaluation](#iesgevaluation) · [DraftExpiry](#draftexpiry) ·
[Charter](#charter) · [Milestones](#milestones) · [IanaSync](#ianasync) ·
[RfcQueue](#rfcqueue) · [MailQueue](#mailqueue) · [Nominations](#nominations) ·
[SessionRequest](#sessionrequest) · [Materials](#materials) ·
[CommunityList](#communitylist) · [Runs](#runs) · [Proofs](#proofs) · [What is not modelled](#what-is-not-modelled) ·
[Running](#running-the-checks)

## How the program executes, and how that is modelled

The application sets neither `ATOMIC_REQUESTS` nor a transaction middleware
(`src/ietf/settings.py`), so with Django 1.6 every ORM statement commits on its
own.  Requests and cron jobs run in several processes at once.  A handler loads
a row, decides on that copy, and then writes rows, many-to-many tables and
files one after the other; `save()` writes back every column of the copy.  An
exception (a missing file, a template, a `None`), a timeout or a restart ends it
between two writes; a mail that is refused does not, `utils/mail.py` logs it and
reports it.  Hence the shape of the models:

* the state is what the database and the file system hold;
* where the interleaving matters, a process (an element of `Req`, `Editor`,
  `Job`, `Sender`, ...) has a program counter and local copies, there is one action per write or group of writes no
  other handler looks between, and `Abort` abandons the request anywhere;
* where it does not, one action is one handler, whole;
* `Spec` has every behaviour, `SpecOK` those in which nothing dies half way, and
  `FairSpec` adds the scheduling the deployment provides.  Taking `Req` to be a
  singleton means "requests do not overlap"; larger sets mean that they may.

Permissions are not modelled: a user who may call a handler is given, and the
models let every such user act at any time.

## Inventory

What the system consists of, the state each part keeps, its operations, how it
meets the others and what makes it correct.  `PROJECT.json` lists every
component with its status and every hazard with its line.

| Component | State | Operations | Meets | What makes it correct |
|---|---|---|---|---|
| Draft submission (`submit`) | `Submission` rows, staged files, preapprovals; on posting: `Document`, states, tags, history, events, repository, archive | upload, edit, autopost, confirm, approve, force, cancel, expire, preapprove | documents, repository, IANA review, cron | what is shown as posted is published completely; the workflow of the name table is followed; working groups approve their 00; nothing stays in process for ever |
| IESG processing (`doc/views_draft`, `views_ballot`, `lastcall`, `utils`, `iesg`) | draft-iesg and IANA states, tags, events, ballots and positions, last call, telechat date | start, change state, request / make / expire last call, issue / clear / vote / defer / undefer / approve a ballot | telechat agenda, RFC Editor, IANA, cron | one state; open positions are on the active ballot; a decision closes its ballot; last calls run their full time and end |
| Expiry and files (`doc/expire`, `secr/drafts`, replaces and streams, RFC index) | draft row and states, expiry date, repository, archive, `unknown_ids`, pending confirmations in the session | nightly expiry and clean-up, six action buttons, resurrect, replace, change stream, Make RFC | submission, IESG, RFC Editor | the current text is never lost; what is overdue expires; both versions of the expiry rule agree |
| Charters (`doc/views_charter`, `utils_charter`) | charter row, text files, history, events, charter ballots, group state | submit a text, change state, start, abandon, approve, edit | group, milestones, telechat | every text that is shown was announced; a number belongs to one text; an effort that ends leaves no ballot; approval is complete |
| Milestones (`group/milestones`, the end of charter approval) | milestones and their history | propose, accept, reject, edit, delete, reset, replace at approval | charters | no milestone of the charter is lost; what is announced is in force; history precedes every change |
| IANA (`sync/iana`) | IANA states, log of changes | fetch an interval, apply the newest change per document | submission, IESG | states follow the newest change; each is logged once |
| RFC Editor's queue (`sync/rfceditor`, `sync/views`) | RFC Editor state, tags, events | copy the queue, undo a change | IESG, expiry | a run that ends leaves the drafts as the queue has them; the log explains the state |
| Conflict reviews and status changes | further document types with ballots and last calls | as IESG processing | telechat, last call job | as IESG processing and charters |
| Stream workflows and shepherds (`doc/views_draft`) | stream state, tags, reminders, adopting group | adopt, change state, request publication | expiry | states belong to the stream |
| Groups (`group`) | groups, roles, history | create, edit, conclude | charters, milestones | history precedes every change |
| Nominations (`nomcom`) | nominees, positions, nominations, encrypted feedback | nominate, accept / decline, merge | mail, cron reminders | duplicates lead to a nominee on the list; merging loses neither nomination nor acceptance |
| Session requests and schedules (`secr/sreq`, `secr/meetings`, `meeting`) | sessions, slots of the agenda, the form of a user; constraints, rooms, other schedules | request, confirm, edit, approve, withdraw; schedule, remove, notify, place | each other | what is on the agenda may meet; a third session is approved |
| Meeting materials (`secr/proceedings`, `doc/views_material`) | slides: rows, states, files, relations | upload, replace, delete, move | sessions | slides are ordered, have their files and share no name |
| Liaisons, IPR | statements, disclosures | post, approve | mail | approved once |
| Mail queue (`message`) | messages, send times | schedule, send what is due, send now | cron | every mail that is marked was sent or its refusal reported; once |
| Community lists (`community`) | tracked documents, rules and what they find, rendered page | track, untrack, add or remove a rule, render, nightly update | documents | the kept page shows the list |
| Accounts, search, automatic placement, telechat tool, other Secretariat tools, small applications | rows of their own | forms over single rows, or read-only | all | no sequence of requests to get wrong |

The components meet in the `Document` row, its many-to-many states and tags,
its events, and the directories of draft files; nothing sends messages between
processes other than through these.  The hard behaviours are therefore

* overlapping requests that write back rows they read earlier, and
  check-then-create without a lock;
* requests that die between two writes, and retries of what was half done;
* decisions kept across pages (the session of `secr/drafts`, the "Post" button,
  the addressee of a confirmation) and used when the world has moved on;
* cron jobs that meet requests half way, and must finish what nobody else does;
* files and rows that change in separate statements, in an order that matters.

## Plan

Done, in this order, because it follows a draft through the system:

1. `SubmissionStates` (abstract: the workflow table), `Submission` (the tool,
   shown to implement it), `SubmissionProofs`, `MCSubmission`;
2. `IesgEvaluation`, `IesgEvaluationProofs`, `MCIesgEvaluation`;
3. `DraftExpiry`, `DraftExpiryProofs`, `MCDraftExpiry`.

4. `CharterProcess` (abstract: what the chartering pages promise), `Charter`
   (shown to implement it), `CharterProofs`, `Milestones`: approval moves
   revision, group state and milestones;
5. the feeds: `IanaSync`, `RfcQueue`, `MailQueue`, and `FeedsProofs` about the
   three;
6. groups of requests that keep something between two pages or share a cached
   value: `Nominations`, `NominationsProofs`, `SessionRequest` and `Materials` (with
   `Ascending`, the one operator they share), `CommunityList`,
   `CommunityListProofs`;
7. `MCDatatracker`, which checks the nine parts of 4 to 6 in one run, and
   `DatatrackerProofs`, which states what is proved of them as its properties and
   holds the proofs of the parts that have no proof module of their own:
   `Milestones`, `SessionRequest`, `Materials`.  Every invariant and action
   property of that run is a theorem now.

Next, the most important first:

8. proofs of what survives when requests do overlap, for the parts whose
   theorems assume one process: the weaker properties first stated and checked
   with two processes (each text in force was announced as part of some plan, an
   acceptance is with some nominee, a state is that of some event in the log);
9. `DraftExpiry` with two overlapping processes (`expire_draft` saving its row
   over a posting), and the life of a row it writes back;
10. conflict reviews and status changes as a second instance of the ballot and
    last call of `IesgEvaluation`, with the numbering of `Charter`;
11. composition: a draft that is submitted, evaluated and expired, `Submission`
    and `DraftExpiry` sharing the repository and the archive; `Charter` and
    `Milestones` in one approval.

Where the same instance answers several questions they stay in one run, so that
the number of runs remains a dozen.  Modules are written to be proved about: no
`RECURSIVE` operators, named assumptions on constants, an action per operation,
scripts as functions from program counter to program counter.

## Submission

One draft name (no handler relates submissions of different names), any number
of `Submission` rows.

| TLA+ | Code |
|---|---|
| `subm[s]` | state and rev of the row; `"none"` before it exists |
| `staging`, `repo`, `archive` | what `name-rev.*` holds in the three directories: the submission whose upload wrote it (the four file types move together) |
| `doc`, `marks`, `history`, `events` | `Document.rev`, the states and the need-rev tag, `DocHistory` revisions, `NewRevisionDocEvent`s |
| `pages` | browser pages that show the "Post" button |
| `preapproved`, `cleared` | a `Preapproval` exists; ghost: who posted under one |
| `UploadCheck/Store/Create` | `UploadForm.clean`, `save_files`, `submission.save()` in `upload_submission` |
| `Autopost`, `Edit`, `Cancel`, `Approve`, `ForcePost`, `Confirm` | the branches of `submission_status`, `edit_submission`, `confirm_submission`; their decision on the loaded copy |
| `SaveRow`, `EditRename`, `CancelUnlink` | the writes that follow |
| `PostGet`, `PostPut`, `PostStates`, `PostArchive`, `PostPublish` | `post_submission`, in the order of its statements, then `SaveRow` |
| `Expire` | `bin/expire-submissions`; any submission may have reached the age limit |

`SubmissionStates` is the name table `DraftSubmissionStateName` with its
`next_states`: the abstract specification.  `FollowsWorkflow == Workflow!Spec`
says that the rows of the tool implement it, under the mapping from a row to
its state.

Checked: what is shown as posted has its files, its event, an active draft and
no stale IANA review, even for overlapping requests (`PostedIsComplete`); files
never precede the event that announces them, even when requests die
(`PublishedIsAnnounced`); revision 00 of a working group is not published on a
confirmation alone (`GroupApproval`); the workflow (`FollowsWorkflow`); history
before every change of revision (`HistoryComplete`); only the current revision
in the repository unless a request has died (`OnlyCurrentUnlessFailed`);
nothing stays in process (`Settles`).

Not kept by the code, each shown by a run: a cancel during a posting is
overwritten by the posting's last save (`SubmissionCanceledIsFinal`, against the
text shown to the user), and a submission confirmed by its own authors updates a
Document that appeared meanwhile (`SubmissionPrevAuthors`, against the text of
the status page).  Also seen while modelling, with no line of the repository
that promises otherwise: an edit can create a second live submission of one
revision (`EditSubmissionForm` does not look for others); a posting that dies
after publishing leaves files in the repository and a row that can still be
canceled; two overlapping postings save the same history row and lose one
revision of it.

## IesgEvaluation

One active draft in the hands of the IESG.

| TLA+ | Code |
|---|---|
| `iesg` (a set) | the draft-iesg members of `Document.states` |
| `tag`, `iana` | one of `IESG_SUBSTATE_TAGS`; the draft-iana-review state |
| `started`, `log` | the `started_iesg_process` event; the state the latest state event names |
| `ballot`, `votes` | `BallotDocEvent`s in order; the latest position per ballot and Area Director |
| `verdict` | how many ballot events precede the IESG's decision |
| `lastcall`, `telechat` | the latest `sent_last_call` expiry; the latest `scheduled_for_telechat` date |
| `promise` | ghost: the expiry date that was mailed out |
| `Plan` | for each handler, its writes in order |
| `Remove`, `Add`, `Log`, `Started`, `Iana`, `LastCall`, `Telechat`, `Create`, `Yes`, `Close`, `Verdict`, `CheckDefer` | the writes: `set_state` in its two halves, `add_state_change_event`, `update_telechat`, `create_ballot_if_not_open`, ... |
| `EditInfo` ... `ApproveBallot` | the handlers' decisions: `edit_info`, `to_iesg`, `change_state`, `lastcalltext`, `make_last_call`, `expire_last_call`, `ballot_writeupnotes`, `clear_ballot`, `defer_ballot`, `undefer_ballot`, `approve_ballot` |
| `EditPosition` | `edit_position`, which takes the ballot from the URL: any, also a closed one |

Checked for requests that do not overlap and may die anywhere: one state
(`OneState`); positions on a ballot that has not been closed are on the one
`active_ballot()` finds (`PositionsShown`); a decision is recorded only when no ballot is open
(`ApprovalEndsBallot`).  Checked until a request dies: the history names the
state (`HistoryUnlessFailed`), IANA has been asked about a draft in Last Call or
with a recorded last call (`IanaUnlessFailed`; an evaluation reached without one,
by `undefer_ballot` for instance, is not covered), no last call is cut short (`LastCallUncutUnlessFailed`).  Checked although
requests die: a recorded last call ends (`LastCallEnds`).

Not kept: two overlapping requests open two ballots, and the positions on the first
one are no longer on the ballot that `active_ballot()`, the default ballot page
and the summaries show; its own page still lists them (`IesgTwoBallots`, against
the comment in `doc/models.py`).  Also seen: two overlapping `set_state`s leave
two states; the nightly job that meets `make_last_call` between the state and
the event ends the new last call at once; deferring a ballot moves a draft that
is scheduled later to an earlier telechat.

## DraftExpiry

One draft outside the IESG: its life, its files, and everybody who moves them.

| TLA+ | Code |
|---|---|
| `doc` | the row: revision, days left until `expires`, stream |
| `status`, `iesg`, `ise`, `review`, `replaced` | states of type draft, draft-iesg (`"busy"`: any that blocks expiry) and draft-stream-ise, tag rfc-rev, a `replaces` relation |
| `repo`, `archive`, `unknown` | revisions whose files each directory holds |
| `session` | what the Secretariat's form keeps until it is confirmed |
| `Script`, `First` | for each kind of request its writes in order: `expire_draft`, `post_submission`, `resurrect`, `update_docs_from_rfc_index`, `makerfc` and `do_revision`, `do_update`, `do_resurrect`, `do_replace`, `do_extend`, `do_withdraw` |
| `Load` | the row is read, and the copy changed that `save()` will write |
| `Enabled`, `OpenForm`, `Confirm`, `Cancel` | the buttons `view` shows, a form that was valid, `confirm` |
| `Save`, `SetStatus`, `SetDead`, `SetPub`, `Relate`, `Move`, `Archive`, `Publish`, `Restore`, `Raises` | the writes; `archive_draft_files`, `promote_files` and the restoring of files raise where they would overwrite or find nothing |
| `Clean(v)` | `clean_up_draft_files` for one file, between any two statements |
| `ExpirableDraft`, `ExpirableDrafts` | the two versions of the rule in `expire.py` |

`Clear` belongs to the last statement of an action: a request that dies earlier
leaves its form in the session, to be confirmed again (a death between that last
statement and the clearing is left out).

Checked: until a request dies, the text of the current revision is in the
repository or the archive whenever no request is under way, although the
clean-up runs between their statements (`CurrentKeptUnlessFailed`; the order
"save the row, then promote the files" matters: with the clean-up in between,
the other order files the new text as unknown).  A draft that is past its date
and expirable does not stay so, although the job may die after each of its
statements (`Expires`).

Not kept: `expirable_draft` and `expirable_drafts` "need to be kept in sync" and
differ for a draft that has left a stream (`DraftExpiryInSync`).  `Expires` is
therefore checked for a draft that keeps its stream.  Also seen: a revision
posted between a Secretariat form and its confirmation makes the revision number
decrease; dropping a "replaces" relation turns a published RFC active; the
clean-up in the middle of a posting files the superseded revision as unknown.

## Charter

One charter and its group.  Each handler is a sequence of statements, `Script`,
and `Dies` ends a request between any two.

| TLA+ | Code |
|---|---|
| `charter`, `group`, `type`, `ballots` | `Document.rev` and state, `Group.state` and type, the charter's open ballots |
| `text[v]` | how often `charter-<name>-<v>.txt` was written |
| `saved`, `announced` | revisions of the `DocHistory` rows and of the `NewRevisionDocEvent`s |
| `NextRev`, `Restored`, `NextApproved`, `GroupText` | `next_revision` with the search in `submit`, the end of `change_state` and `initcharter`, `next_approved_revision`, `get_charter_text` |
| `Submit`, `ChangeState`, `StartProcess`, `Abandon`, `Approve`, `EditRow`, `Propose` | `submit`, the options of `change_state`, `approve`, `edit_ad`, `edit_notify`, `announcement_text`, `group/edit` |
| `SaveHistory` ... `Renumber` | the statements |

A revision 01-02 is a pair of numbers, an approved one has minor -1: they are
then ordered as their strings are.  `CharterProcess` is the abstract
specification, in which every button acts at once on what the pages show;
`FollowsProcess == Process!Spec` says that requests which neither overlap nor die
implement it, under the ghost `shown`, which follows the rows when nobody is at
work.

Checked: the text of the current revision was announced, wherever a request
dies (`TextIsAnnounced`); until one dies, no number is given to two texts
although abandoned efforts take the revision back (`TextsAreFinal`), no ballot
outlives its effort (`NoHangingBallot`), and the group's pages show the text
approved last (`GroupTextIsApproved`).

Two notes on the buttons.  `Abandon` is possible only while a charter is being
worked on: the page offers it only then (`doc/document_charter.html` 91), although
the handler itself does not check that.  `Propose` takes any group, as `group/edit`
does.

Not kept: `approve` does not look at the error page which
`fix_charter_revision_after_approval` returns when there is no text, so that a
charter is approved without an approved revision (`CopyFails`, and the abstract
specification allows it); its page can be sent again and then bumps the revision
and deletes all milestones.

## Milestones

| TLA+ | Code |
|---|---|
| `milestone[i]` | state and content of the `GroupMilestone` row with id `i` |
| `inHistory` | rows whose newest `GroupMilestoneHistory` has what the row holds |
| `Edit`, `Add`, `Reset` | the three branches of `edit_milestones` / `save_milestone_form`, `reset_charter_milestones` |
| `Approve`, `TakeOver`, `Retire`, `Conclude` | the end of `approve` in `doc/views_charter`: keep the row the group has already, promote the others, delete the rest, announce |
| `Discard`, `Copy` | the two loops of `reset_charter_milestones` |
| `SaveHistory`, `SaveRow` | the pair of statements around every change; the many-to-many documents of a milestone are written with its row |

Checked: while a charter is approved, and wherever that dies, each of its
milestones is in the charter or in force, as often as it was; what the
announcement says is in force is, with the rows the group had (`PlanIsKept`);
nothing changes before its history is written (`HistoryFirst`).

Not kept: a form with an id that is no longer on the page makes a new milestone
(`Add`); two overlapping saves write rows back over each other, so there is one
process.

## IanaSync

| TLA+ | Code |
|---|---|
| `changeLog`, `clock` | what IANA's server answers, for an interval |
| `logged[c]` | how many `StateDocEvent`s there are for a change |
| `Fetch`, `At`, `Known`, `Look`, `Record`, `Check`, `Set` | `bin/iana-changes-updates`, `fetch_changes_json`, and the loop of `update_history_with_changes` |
| `Revise`, `LogRevision`, `UploadDies` | an upload that asks for another review (`post_submission`): the state, then the event |
| `revising`, `overtaken` | uploads between these two; ghost: drafts whose upload met the script as below |

IANA decides and users upload at any time, between any two statements of the
script.

Checked: each change is logged once however often it is fetched
(`LoggedOnce`); a state is that of the newest event and of the newest change
that was fetched (`StateIsNewestUnlessFailed`), for intervals that overlap or
leave gaps.  Taken for granted there: neither script nor upload dies half way;
the script is not run by hand for an old interval (`late`, for the second half
only); two documents do not get the same state in the same second
(`Coincides`); and a draft has not been overtaken.  That is a race the code leaves
open: the script checks for newer events (line 203 of `sync/iana.py`) and then
sets the state (205), the upload sets the state and then adds its event, so
either may write the state of what the other knows to be older.  Such a draft
is exempt until something sets it right: the script, by setting what is the newest
event, or the next upload.  Without these the code does not keep it: a run that
dies there loses the change for ever, because its event hides it from the next
run; the filter for duplicates ignores the document.

## RfcQueue

| TLA+ | Code |
|---|---|
| `entry`, `rfcState`, `tags`, `events`, `received` | the queue at the RFC Editor, draft-rfceditor state, tags, state events, "received" events |
| `Fetch`, `TakeUp`, `SetState`, `AddEvent`, `SetTags`, `LookForLeft`, `Untag`, `Unset` | `bin/rfc-editor-queue-updates` and `update_drafts_from_queue` |
| `Undo`, `Delete` | `rfceditor_undo` in `sync/views` |

Checked: when a run ends, state and tags are those of the queue it has read, and
drafts that left it have neither, also after a run that died (`MirrorsQueue`).
Excepted are the tags of a draft whose only change was taken back (ghost `undone`):
that unsets its state (`sync/views.py` 136), and a run looks only for drafts that
have one (`sync/rfceditor.py` 187), so it keeps the tags until the queue has it
again.  Also checked:
a state is the one its newest event names, also after events were taken back
(`StateIsLastEventUnlessFailed`).  Not kept: tags of others on a draft in the
queue are dropped (`SetTags`); a draft that enters the queue before it is
approved never gets its "received" event; a run that dies between state and
event leaves no event.

## MailQueue

`queue[m]` is the `SendQueue` row of a message, `accepted` and `reported` what
the mail server did with it.  `Run`, `Hand` and `Mark` are
`bin/send-scheduled-mail`, `send_scheduled_message_from_send_queue` and the
wrapper `smtp_error_logging`, `SendNow` is `announcement_from_form`.  Checked
with two overlapping senders that die anywhere: what is marked was taken or its
refusal reported (`SentIsSettled`); with one sender that does not die nothing is
delivered twice (`DeliveredOnceUnlessFailed`; the code does not keep it
otherwise).  Messages have an addressee and a content type the code knows:
others are marked as sent without being sent.

## Nominations

`nominee`, `duplicated`, `answer` and `nominated` are the `Nominee` rows, their
`duplicated` column, the `NomineePosition` states and whom a `Nomination`
names.  `Nominate`, `Store` are `NominateForm.save` with
`get_or_create_nominee`; `Reply` and `SetAnswer` the link in the mail and the
chair's list; `Merge` ... `Finish` the form that merges nominees, row by row.
In the run nominees answer while no clerk is at work: an answer that arrives
between the merge of the positions and the hiding of its nominee is left out.

Checked: the loop that follows duplicates always ends, also when only the first
address of a merge was looked at (`DuplicatesEnd`); nobody who accepted is
hidden, wherever a merge dies, and nominations belong to someone on the list
(`NothingIsHidden`).  With one clerk: two who merge two nominees into each other
at the same time make a cycle, and the next request that follows it never ends.

## SessionRequest

| TLA+ | Code |
|---|---|
| `session[i]` | the `Session` row with id `i` and how many slots it has in the official schedule |
| `form[u]` | what the browser session of user `u` keeps between `new` and `confirm` |
| `desk[u]` | the writes a request of `u` has still to do |
| `New`, `Confirm`, `Discard`, `Edit`, `Cancel`, `NoSession`, `Approve` | the handlers of `secr/sreq`: what they read, and the writes that follow from it |
| `Schedule`, `Remove`, `Notify` | those of `secr/meetings`; a scheduling page may be sent long after it was loaded |
| `Place` | the agenda editor, `scheduledsessions_post` |
| `Withdraw`, `Drop`, `Assign`, `Free`, `Take`, `SaveStatus`, `WriteBack`, `NewRow`, `Delete`, `Ask`, `Forget` | the writes, one row or slot at a time |
| `Die` | a request dies before any of them |

Checked with two users whose requests overlap write by write and die anywhere:

* slots and status agree (`OnAgendaCanMeet`): what is in the agenda has a status of
  those that meet.  `cancel` saves "deleted" and then takes the slots away,
  scheduling creates the slot and then saves the status; in between the row is
  about to be put right by the request at work, which the property asks for.
  Excepted (ghost `odd`, until the two agree again) are a row whose request died just
  there, a row the agenda editor was made to place (it takes any id), and one that
  got back a status that had changed since it was read.  Note what is not claimed:
  the scheduling page makes any row it is given "sched", also one that was withdrawn
  or waits for approval;
* a group waits with two sessions at most that nobody approved
  (`TwoWithoutApproval`).  Excepted (ghost `raced`, until there are two again) is
  what the code does not check: a form that is confirmed although the group has
  sessions by then (two chairs made a first request, or a confirmation died before it
  forgot its form and is sent again), an edit that adds sessions although others did
  so after it had counted, and a status that is written back after it changed.

Also seen: `edit` counts rows that were withdrawn; two rows waiting for approval
make `approve` fail; a scheduling page that is sent late brings a withdrawn
session back; removing a combined session frees one of its slots.

## Materials

Slides of one group at one meeting.  `order`, `state`, `file`, `related` are the
`Document` row's order, its state, its file and the relation to the session.
`Upload` (with `Save`, `WriteFile`, `Activate`, `Relate`), `Delete`, `Replace`,
`Move` and `Reorder` are `upload_unified`, `delete_material`, `replace_slide`,
`move_slide` and `ajax_order_slide`; `NextNumber` and `NextOrders` the two
functions that choose numbers.

Checked with two chairs: orders are strict whatever was deleted, so that a slide
can be moved past its neighbour (`StrictlyOrdered`); a slide that is shown has
its file, and no upload writes over another one (`SlidesAreKept`).  The ghost
`harm` names what the code does not keep: two uploads at the same time can take
one number, moves that overlap or die leave equal orders, after which a move
changes nothing, and a deletion that dies leaves a slide without a file.  `Save` is
`get_or_create` with the `save` that follows: the moment in which a new row has no
order yet is left out.

## CommunityList

| TLA+ | Code |
|---|---|
| `tracked`, `rule`, `page` | `added_ids`, a `Rule` with its `cached_ids`, `CommunityList.cached` |
| `matches` | what the rule would find now; changes at any time (external) |
| `Track`/`Add`, `Untrack`/`Update` | `add_track_document` clears the page before the change, `remove_document` after it |
| `AddRule`, `FindIds`, `Update`; `RemoveRule`, `Forget` | `Rule.save` and `Rule.delete` |
| `UpdateLists`, `Resave`, `Sweep` | `update_community_lists` |
| `View`, `Render`, `Keep` | `CommunityListViewNode` |

Checked: once the requests that change the list are done, the kept page shows
it (`PageIsCurrent`), unless it was rendered while the list was changed or a
request died between a change and its clearing (ghost `spoilt`, until the page
is cleared again): a page that was rendered too early and kept is a race the code
leaves open, what is excluded is a handler that clears too early or never.  Not kept otherwise; the job also inserts a rule again that
was removed while it was at work.

## Runs

Processes that die may die at every step of the runs marked †, except as said
under the bounds.

| Run | Instance | Shows |
|---|---|---|
| `SubmissionSerial` † | 2 submissions, 1 process, revisions 0..1, working-group name | the safety properties above, one request at a time |
| `SubmissionOverlap` | 2 submissions, 2 processes, an active draft | `PostedIsComplete` under every interleaving |
| `SubmissionSettles` † | 2 submissions, 1 process, fairness | `Settles` |
| `SubmissionCanceledIsFinal`, `SubmissionPrevAuthors` | as above | counterexamples |
| `IesgSerial` † | 1 Area Director, positions yes and discuss, a ballot issued, closed and issued again, two telechats | `OneState`, `PositionsShown`, `ApprovalEndsBallot` |
| `IesgLastCall` † | 2 days, one telechat, fairness, no ballot | the last call properties |
| `IesgTwoBallots` | 2 Area Directors, 2 processes | counterexample |
| `DraftExpiry` † | revisions 0..1, one day of life, all buttons, two streams, the IESG idle | `CurrentKeptUnlessFailed` |
| `DraftExpires` † | ISE draft, the IESG watching or busy, no buttons, fairness | `Expires` |
| `DraftExpiryInSync` | two streams | counterexample |
| `Datatracker` † | the nine parts of `MCDatatracker`, each with its own constants: *charter* 1 process, revisions up to 02-01; *milestones* 1 process, 3 rows, 2 texts; *IANA* 1 job, 2 documents, times 1..3, 4 changes; *RFC Editor* 1 job, 1 draft, 2 events; *mail* 2 senders, 2 messages; *nominations* 1 clerk, 3 nominees, 1 position; *sessions* 2 users, 3 rows, a load of 4; *materials* 2 chairs, 3 slides; *lists* 2 documents, 2 requests | all properties of the modules from `Charter` to `CommunityList` |

Why these bounds are enough.  *Submission*: two submissions are what one
revision can be fought over by; revisions 0 and 1 give a first version, an
update, a superseded revision to archive and a rename; nothing compares more
than two revisions.  `MaxRev` stands for the code's 99.  *IesgEvaluation*: a
ballot event is a creation or a closing; no request that writes one starts when
there are two already, so there are up to three: an open, a closed and a
reissued ballot, and reopening repeats these.  A position on an old ballot needs
one Area Director.  Two days separate "expires later" from "expires
today".  `change_state` treats the states it may choose by hand (`Picked`) alike, except
that it asks IANA for a review when Last Call or the evaluation starts: the last
call run picks `lc`, the other leaves the states to the other handlers, its
draft being deferred by the button (which needs two telechats).  There, a `VIEW`
leaves out the ghost `promise`, which no guard reads, and the IANA state, which
decides nothing but its own next value.
*DraftExpiry*: one day of life separates valid, due and past (the code
distinguishes `< today + 1` and `< today`); two revisions are the current and
the superseded one, and the safety run was repeated once with three revisions of one
stream and a dead IESG state (27 million states, not part of the project).  The
IESG's states only delay the job, so the safety run leaves them out and the
liveness run has one that blocks expiry and one that does not.  The model has one meeting, whose
freeze ends;
a calendar of several would only repeat it.  The theorems remove these bounds
where they apply.

*Datatracker*: a behaviour is about one `part`, whose variables are the only ones
that move: the parts share no row, so that running them side by side would
multiply states without adding a behaviour of any of them.  The ghost `failed`
says that a request has died (one does so in a behaviour about charters, IANA, the RFC Editor's queue,
nominations or sessions), `late` that the IANA script was run for an old interval,
which happens only where nothing dies.  Two approvals of a charter (major 0, 1, 2) with a minor each give a
number that could be taken twice; requests about a charter die while it has not
been approved yet (`major = 0`), at every statement of the first approval, and an active
group is proposed again only while its charter is the first one approved
(`Proposing`).  Three
rows are two of the charter, one of which the group has
already, or one and the one it replaces.  Two documents and three times are
what the filter for duplicates can confuse and what can arrive late and out of
order; `MaxChanges` bounds how often something happens to them, so that each
can be decided and uploaded, or one both twice.  Three nominees are a cycle or a chain.  Three sessions are what a group
can ask for; requests are begun while rows, slots, pending forms, requests at work
and a death add up to `MaxLoad` at most, so that two requests meet over two
rows, or over one that has its slots.  Three slides are two that change places and one that was deleted;
at most one kind of harm is done in a behaviour, and slides are moved while there
is none.  `CommunityList` was checked once with three requests (1.1 million
states, not part of the project).

Stuttering: deadlock is checked where the system cannot stop; `Submission` and
`IesgEvaluation` may stop because revisions, ballots and days are bounded.

Fairness.  `WF` of a process' steps: a worker that has begun a request goes on
with it (or dies).  `SF` of the cron jobs' first steps: the job runs every day,
so it finds a state that keeps coming back; a weak condition would not do,
since users may move the row to and fro between the runs.  `SF` of the writes
of the job: it is not killed every night before the same statement.  `WF` of
the day and of the end of the freeze: the calendar goes on.  Nothing is assumed
of users: nobody has to confirm, approve, vote or press a button.

## Proofs

All proofs are checked by TLAPS; the assumptions are the named `ASSUME`s on the
constants, each as weak as the code justifies (`MaxRev \in Nat`, the sets of
identifiers are arbitrary), or are stated with the theorem.  These are of two
kinds.  Bounds of the model leave room for something to happen: `MaxMajor` and
`Last` are at least 1, there is a nominee and a text, a group has finitely many
milestone rows, slides and sessions are counted by natural numbers.  And for the
properties that overlapping requests really break there is one process (one
`Req`, editor, job, updater or clerk), which is what the runs have; nothing of
the kind is assumed of mail, sessions, materials and community lists.  A theorem
about a property "`... UnlessFailed`" has the invariant `failed \/ Inv`: it says
nothing any more once a request has died.

* `SubmissionProofs`.  `TypeCorrect`, `PostedComplete`, `PublishedAnnounced`,
  `GroupApproved` hold for any number of submissions, revisions and overlapping
  requests that may die anywhere.  The three properties are not inductive: when a
  process is about to save the row as posted, that its files are there rests on
  what it did several steps ago.  `IInv` adds `LocalInv`: only a posting that has
  published carries "posted", whoever is about to archive or publish has
  announced its revision, and a row waiting for confirmation of a 00 was cleared.
  For requests that do not overlap, `SerialInv` adds `Fresh` (the loaded row is
  still the row in the database); from it `WorkflowFollowed`, the refinement of
  `SubmissionStates` (initial states map to initial states, every step to a step
  of the table or a stutter), and `HistoryKept`.  `OnlyCurrentLeft` (until a
  request dies) needs `RepoInv`, which says where files may be between the save
  of the new revision, the archiving of the old one and the publication.
* `IesgEvaluationProofs`.  `TypeCorrect` for any number of overlapping, dying
  requests.  For requests that do not overlap, wherever they die:
  `OneStateAtATime`, `EveryPositionShown`, `DecisionClosesBallot`, from
  `SerialInv`: ballots are created and closed in turn, and what the only process
  has read (`Sees`) is still true when it acts.  That the latest of a set of
  ballots exists needs well-founded induction over a finite set.  Until a request
  dies, `HistoryTrue`, `IanaIsAsked` and the action property `LastCallsUncut`,
  from `FineInv`: at every statement of every plan it says whether the state in
  the log is the one in the row, whether IANA has been asked or is about to be,
  and whether the announced day is recorded; `PlanOrder` is the lemma about the
  plans themselves.
* `DraftExpiryProofs`.  `TypeCorrect` for any number of overlapping, dying
  requests; it needs `Knows`, that every process is at a statement of the script
  of its request.  `CurrentIsKept`: for requests that neither overlap nor die,
  `CurrentKept`, from `KInv`: before a process has saved a new revision, the row
  is the one it loaded and its text is kept; from then on it is about to publish
  the very revision the row names.  The clean-up, days, meetings and everybody
  else may come between its statements.  `CurrentIsKeptUnlessFailed` is the same
  for the property the run checks.

* `CharterProofs`.  `TypeCorrect` and `TextsAreAnnounced`, for any number of
  revisions and of overlapping, dying requests.  `CharterInv` says of
  every revision in play, one a request has in hand or the charter can go back
  to, that the approved revision below it is announced: a submission at its
  write has announced its number, and an approved text that is copied before it
  is announced has a number the charter gets only afterwards.  That the newest of
  a set of texts exists needs well-founded induction.
  For requests that neither overlap nor die, `PromisesKept` and the refinement
  `FollowsTheProcess`: `SerialInv` compares the row with the one the request
  began with (`shown`), column by column, by the statements of its script that
  are behind it (`Behind`); so between two statements the state is known exactly,
  and the whole request is one step of `CharterProcess`, or none.
* `NominationsProofs`.  `TypeCorrect` and `FollowingDuplicatesEnds`, for any
  number of nominees and positions and for merges that do not overlap, wherever
  they die: the nominee a merge keeps is on
  the list and not among those it hides, so that hiding closes no cycle and the
  loop that looks for the primary nominee ends (`PrimaryIsListed`).  `KeptInv` adds
  that an acceptance a merge has come across is still with the nominee who gave
  it or already with the primary one, wherever the merge dies; `PlacedInv`, until
  one dies, that those who are hidden, or will be, have given their nominations
  away.
* `FeedsProofs`, about the three feeds as parts of `MCDatatracker`.
  *Mail*: `MailSettled`, for any number of messages and of overlapping, dying
  jobs; the invariant adds `AtHand`, that what a job is about to mark was taken,
  or its refusal reported, a step before.  `MailDeliveredOnce` until jobs overlap
  or one dies: a delivered message is marked or about to be, and what a job has
  left to send is not marked (`MailOnce`).
  *IANA*: `ChangesLoggedOnce` and `StatesAreNewest`.  `IanaInv`: a job is about to
  log only what is not known yet; the state of every draft that is not at hand, not
  being uploaded and not overtaken is that of its newest event, and the change at
  hand has been compared with all of them, unless an upload came after that, which
  leaves the draft overtaken; what a job was through is in force unless something newer is known, and
  everything newer than what it has left is left as well.
  *RFC Editor*: `QueueIsMirrored`, wherever earlier runs died, and
  `LogExplainsStates`.  `RunOK` follows a run through its two loops: which drafts
  are already as the fetched queue has them; by `RfcTags` a draft without a state has
  no tag of the queue unless it is `undone`; `RfcLog` has the one draft whose
  state and log may differ, by an event that is about to be written or deleted.
* `CommunityListProofs`.  `TypeCorrect` and `KeptPageIsCurrent`, for any number of
  documents and of overlapping, dying requests.  `ListInv` adds, as long as
  nothing is spoilt: nobody renders while the list is changed, so that what was
  rendered is what is on the list; a page that is older than the list is about
  to be cleared; and a handler that has cleared the page before its change
  finds none.
* `DatatrackerProofs`, for every value of the constants of `MCDatatracker`.  A step
  of the composition about one part is a step of that part's module
  (`CharterMove`, ...), every other step leaves its variables alone.  So
  `CharterTextsAnnounced`, `CharterTextsAreFinal`, `CharterLeavesNoBallot`,
  `CharterShownIsApproved`, the refinement `CharterRefines`, `PagesAreCurrent`,
  `DuplicatesAreFollowed` and `NothingHidden` follow from the modules above.  The
  rest has its invariants here.
  *Sessions*: `AgendaCanMeet` and `ThirdIsApproved`, for any number of users, rows
  and any order of pages, requests overlapping and dying write by write.
  `SesInv`: each row whose slots and status disagree is about to be put right by
  the next write of some request, or is `odd`; at most two rows wait unless
  `raced`; and every request that is going to create a row that needs no approval
  has seen one row at most (`SesWrite`), so that a third one is created only where
  others came in between.  Each of the writes keeps this whatever the other
  requests have still to do.
  *Materials*: `SlidesAreOrdered` and `SlidesKeepFiles`, for any number of slides
  and chairs.  `MtBase` bounds the orders by the next number; by `MtNumbers` every
  number a request has in hand is fresh for it, no two uploads have the same one,
  and a shown slide without a file is being deleted; `MtOrders` says that one
  request at most writes orders and that what it has still to save, put over
  what is saved (`Gets`), keeps orders apart.  That an exchange or a reordering
  starts like this is proved for any listing; and it stays so with every save.
  *Milestones*: `CharterPlanIsKept` and the action property `RowsAreRecorded`, for
  any finite number of rows.  `EdOK`: the copies a request has of the rows it has
  still to deal with are the rows, and a row it is about to save is in the
  history.  `ApOK`: the rows its agenda leads to satisfy `PlanOK`, which counts,
  text by text: as many rows were kept as charter rows dropped, and none was
  moved while there was one to keep.  So when both sets are empty each text is in
  force as often as the plan and the rows of before require.
  *Types*: `TypesAreKept`, from the invariants of all nine parts together, and
  what they leave out: the number of events of a draft (`RfcShort`) and that a
  chair at rest has nothing to save (`MtEmpty`).

Each inductive invariant was first checked by TLC on the instances above.

Only model-checked: the liveness properties (`Settles`, `LastCallEnds`,
`Expires`), which rest on fairness; and the counterexamples.  Every other
property of the runs is a theorem.

## What is not modelled

In the modules: mails, texts, comments and author lists; upload limits and the
parsers (they only refuse); ballot write-ups and approval texts; the returning
item flag; events `requested_last_call` and `sent_ballot_announcement`, which no
handler here reads back; a last call announcement dated other than today;
`change_state`'s refusal of expired drafts (the draft of `IesgEvaluation` is
active).  A refusal of the RFC Editor's
server in `approve_ballot` ends the request before it has changed anything, and
is no step.  In `DraftExpiry` the free edits of `EditModelForm` are reduced to
the rfc-rev tag; the IAB's and the IRTF's states behave as the ISE's; an
extension is to the full life; what the RFC index changes of title, pages and
relations is left out; the Secretariat has one pending form at a time; and
users who post a submission are the one operation `Post`, whose details are in
`Submission`.  "add", "announce", "authors", "email" and "approvals" of
`secr/drafts` move no revision or file this module follows.

In the later modules: the announcements and write-ups of charters; feedback,
questionnaires, reminders and the encryption of nominations (an external
program); conflicts, lengths and resources of sessions; rooms, timeslots and
schedules other than the official one; agenda, minutes, recordings, interim
meetings and the generated proceedings; IANA's protocols page and review mails,
which only add events; subscriptions to and the display of community lists.

Conflict reviews and status changes have no module yet: they use the ballots of
`IesgEvaluation` and number their texts as `Charter` does.  The other components
that have none are in the inventory; `PROJECT.json` gives the reason for each:
most are forms over single rows or only read, and the automatic placement is a
randomised search whose result people look at.  The hazards that no property
covers have a note which says what was seen of them.

## Running the checks

    tlc -workers 2 -config SubmissionSerial.cfg MCSubmission.tla
    tlapm SubmissionProofs.tla

Each configuration is checked with the MC module of the component it is named
after (`Datatracker.cfg` with `MCDatatracker`).  `PROJECT.json` maps every definition to the lines it models and gives,
for every property, a mutation of the code under which it fails; mutants are
marked as such in the modules.
