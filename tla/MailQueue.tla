----------------------------- MODULE MailQueue -----------------------------
(***************************************************************************)
(* The queue of scheduled mail: bin/send-scheduled-mail and message/utils. *)
(* A job lists the rows to send once, then sends them one by one; another  *)
(* job, or the page that sends what it has queued itself, may do the same  *)
(* meanwhile.                                                              *)
(***************************************************************************)
EXTENDS Integers, FiniteSets

CONSTANTS Sender,      \* cron jobs and requests
          Message

VARIABLES
  queue,       \* queue[m]: send_at and sent_at of the SendQueue row of m
  accepted,    \* accepted[m]: how often the mail server took m, up to 2
  reported,    \* messages whose refusal was logged and reported to the secretariat
  sender       \* sender[j]: program counter, rows still to send, the one at hand

mailVars == <<queue, accepted, reported, sender>>

NoRow == [at |-> "none", sent |-> FALSE]
Resting == [pc |-> "idle", todo |-> {}]

TypeOK ==
  /\ queue \in [Message -> [at : {"none", "unset", "future", "past"}, sent : BOOLEAN]]
  /\ accepted \in [Message -> 0..2]
  /\ reported \subseteq Message
  /\ sender \in [Sender -> [pc : {"idle", "send", "mark"}, todo : SUBSET Message]]

Init ==
  /\ queue = [m \in Message |-> NoRow]
  /\ accepted = [m \in Message |-> 0]
  /\ reported = {}
  /\ sender = [j \in Sender |-> Resting]

\* A row made in the admin pages, to be sent at a time or at the next
\* opportunity.
Schedule(m) ==
  /\ queue[m] = NoRow
  /\ \E t \in {"unset", "future"} : queue' = [queue EXCEPT ![m].at = t]
  /\ UNCHANGED <<accepted, reported, sender>>

Falls(m) ==
  /\ queue[m].at = "future" /\ queue' = [queue EXCEPT ![m].at = "past"]
  /\ UNCHANGED <<accepted, reported, sender>>

\* Mutant: what has been sent is listed again
WaitingAgain(all) == {m \in Message : queue[m].at = "past" \/ (all /\ queue[m].at # "none")}

\* The rows a job finds: "all" or "specific".
Waiting(all) ==
  {m \in Message : /\ ~queue[m].sent
                   /\ queue[m].at = "past" \/ (all /\ queue[m].at # "none")}

Run(j) ==
  /\ sender[j].pc = "idle"
  /\ \E all \in BOOLEAN :
       /\ Waiting(all) # {}
       /\ sender' = [sender EXCEPT ![j] = [pc |-> "send", todo |-> Waiting(all)]]
  /\ UNCHANGED <<queue, accepted, reported>>

\* announcement_from_form queues a message and sends it in the same request.
SendNow(j, m) ==
  /\ sender[j].pc = "idle" /\ queue[m] = NoRow
  /\ queue' = [queue EXCEPT ![m].at = "unset"]
  /\ sender' = [sender EXCEPT ![j] = [pc |-> "send", todo |-> {m}]]
  /\ UNCHANGED <<accepted, reported>>

\* The row a job is at.  Rows come in the order of their time, any here.
At(j) == CHOOSE m \in sender[j].todo : TRUE

\* send_mail_text or send_mail_mime: the server takes the message, or
\* smtp_error_logging swallows what send_smtp raises.  Either way it returns.
Hand(j) ==
  /\ sender[j].pc = "send"
  /\ \/ /\ accepted' = [accepted EXCEPT ![At(j)] = IF @ = 2 THEN 2 ELSE @ + 1]
        /\ UNCHANGED reported
     \/ reported' = reported \cup {At(j)} /\ UNCHANGED accepted
  /\ sender' = [sender EXCEPT ![j].pc = "mark"]
  /\ UNCHANGED queue

\* Mutant: all rows of the run are marked with the first one
MarkAll(j) ==
  /\ sender[j].pc = "mark"
  /\ queue' = [m \in Message |-> IF m \in sender[j].todo THEN [queue[m] EXCEPT !.sent = TRUE] ELSE queue[m]]
  /\ LET rest == sender[j].todo \ {At(j)}
     IN sender' = [sender EXCEPT ![j] = IF rest = {} THEN Resting
                                        ELSE [pc |-> "send", todo |-> rest]]
  /\ UNCHANGED <<accepted, reported>>

\* sent_at is set and the row saved; the loop goes on.
Mark(j) ==
  /\ sender[j].pc = "mark"
  /\ queue' = [queue EXCEPT ![At(j)].sent = TRUE]
  /\ LET rest == sender[j].todo \ {At(j)}
     IN sender' = [sender EXCEPT ![j] = IF rest = {} THEN Resting
                                        ELSE [pc |-> "send", todo |-> rest]]
  /\ UNCHANGED <<accepted, reported>>

Killed(j) ==
  /\ sender[j].pc # "idle" /\ sender' = [sender EXCEPT ![j] = Resting]
  /\ UNCHANGED <<queue, accepted, reported>>

NextOK ==
  \/ \E m \in Message : Schedule(m) \/ Falls(m)
  \/ \E j \in Sender : Run(j) \/ Hand(j) \/ Mark(j) \/ \E m \in Message : SendNow(j, m)
Abort == \E j \in Sender : Killed(j)

OneAtWork == \A i, j \in Sender : i # j => sender[i].pc = "idle" \/ sender[j].pc = "idle"

Spec   == Init /\ [][NextOK \/ Abort]_mailVars
SpecOK == Init /\ [][NextOK]_mailVars

(***************************************************************************)
(* Properties                                                              *)
(***************************************************************************)
\* No message is lost without a word: one that is marked as sent was taken by
\* the mail server, or its refusal was reported, whoever else was sending and
\* wherever a job died.
SentIsSettled ==
  \A m \in Message : queue[m].sent => accepted[m] > 0 \/ m \in reported

\* No message is delivered twice.
DeliveredOnce == \A m \in Message : accepted[m] <= 1
=============================================================================
