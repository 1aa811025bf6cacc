---------------------------- MODULE Nominations ----------------------------
(***************************************************************************)
(* Nominees of one nominating committee: nomcom/forms, nomcom/utils and    *)
(* nomcom/views.  A nominee is an email address; merging makes one address *)
(* a duplicate of another, and what was said of it moves over.             *)
(***************************************************************************)
EXTENDS Integers, FiniteSets

CONSTANTS Clerk,       \* processes that serve requests
          Nominee,     \* email addresses
          Position

VARIABLES
  nominee,     \* addresses that have a Nominee row
  duplicated,  \* duplicated[n]: the nominee n is a duplicate of, if there is one
  answer,      \* answer[n][p]: state of the NomineePosition row, or "none"
  nominated,   \* nominated[n]: positions of the nominations that name n
  clerk        \* clerk[c]: program counter and local variables

nomRow  == <<nominee, duplicated, answer, nominated>>
nomVars == <<nomRow, clerk>>

Answer == {"none", "pending", "accepted", "declined"}
PC     == {"idle", "name", "next", "move", "merge"}
NoOne  == CHOOSE n \in Nominee : TRUE
Resting == [pc |-> "idle", primary |-> NoOne, all |-> {}, todo |-> {}, at |-> NoOne,
            left |-> {}, found |-> [n \in Nominee |-> [p \in Position |-> "none"]]]

TypeOK ==
  /\ nominee \subseteq Nominee
  /\ duplicated \in [Nominee -> SUBSET Nominee]
  /\ answer \in [Nominee -> [Position -> Answer]]
  /\ nominated \in [Nominee -> SUBSET Position]
  /\ clerk \in [Clerk -> [pc : PC, primary : Nominee, all : SUBSET Nominee, todo : SUBSET Nominee,
                          at : Nominee, left : SUBSET Position,
                          found : [Nominee -> [Position -> Answer]]]]

Init ==
  /\ nominee = {} /\ duplicated = [n \in Nominee |-> {}]
  /\ answer = [n \in Nominee |-> [p \in Position |-> "none"]]
  /\ nominated = [n \in Nominee |-> {}]
  /\ clerk = [c \in Clerk |-> Resting]

NotDuplicated(n) == n \in nominee /\ duplicated[n] = {}

\* Ghost: the answers that are on the list
OnList == [n \in Nominee |-> IF NotDuplicated(n) THEN answer[n] ELSE [p \in Position |-> "none"]]

\* What the loop "while nominee.duplicated" passes, from n on
Passes(n) ==
  {x \in Nominee : \A S \in SUBSET Nominee :
                     n \in S /\ (\A y \in S : duplicated[y] \subseteq S) => x \in S}

\* ... and where it ends, if it ends.
Primary(n) == CHOOSE x \in Passes(n) : duplicated[x] = {}

GoesTo(c, pc) == clerk' = [clerk EXCEPT ![c].pc = pc]

(***************************************************************************)
(* A nomination                                                            *)
(***************************************************************************)
\* get_or_create_nominee: the rows of the nominee, with mails to the nominee
Nominate(c, n, p) ==
  LET who == IF n \in nominee THEN Primary(n) ELSE n IN
    /\ clerk[c].pc = "idle"
    /\ nominee' = nominee \cup {n}
    /\ answer' = IF answer[who][p] # "none" THEN answer
                 ELSE [answer EXCEPT ![who][p] = "pending"]
    /\ clerk' = [clerk EXCEPT ![c] = [Resting EXCEPT !.pc = "name", !.primary = who, !.left = {p}]]
    /\ UNCHANGED <<duplicated, nominated>>

\* ... then NominateForm.save stores the nomination.
Store(c) ==
  /\ clerk[c].pc = "name"
  /\ nominated' = [nominated EXCEPT ![clerk[c].primary] = @ \cup clerk[c].left]
  /\ clerk' = [clerk EXCEPT ![c] = Resting]
  /\ UNCHANGED <<nominee, duplicated, answer>>

(***************************************************************************)
(* Answers                                                                 *)
(***************************************************************************)
\* process_nomination_status: the link in the mail, also one for a nominee
\* that is a duplicate by now.
Reply(n, p) ==
  /\ answer[n][p] = "pending"
  /\ \E a \in {"accepted", "declined"} : answer' = [answer EXCEPT ![n][p] = a]
  /\ UNCHANGED <<nominee, duplicated, nominated, clerk>>

\* private_index: the chair sets the state of a row on the list.
SetAnswer(n, p) ==
  /\ NotDuplicated(n) /\ answer[n][p] # "none"
  /\ \E a \in Answer \ {"none", answer[n][p]} : answer' = [answer EXCEPT ![n][p] = a]
  /\ UNCHANGED <<nominee, duplicated, nominated, clerk>>

(***************************************************************************)
(* MergeForm                                                               *)
(***************************************************************************)
\* Mutant: the primary address is not checked
SecondaryOnly(primary, secondary) ==
  /\ primary \in nominee /\ primary \notin secondary
  /\ \E n \in secondary : NotDuplicated(n)

\* clean: both must be nominees that are no duplicates, but only the first of
\* the secondary addresses is looked at.
Valid(primary, secondary) ==
  /\ NotDuplicated(primary) /\ primary \notin secondary
  /\ \E n \in secondary : NotDuplicated(n)

Merge(c, primary, secondary) ==
  /\ clerk[c].pc = "idle" /\ Valid(primary, secondary)
  /\ LET who == secondary \cap nominee
     IN clerk' = [clerk EXCEPT ![c] = [Resting EXCEPT !.pc = "next", !.primary = Primary(primary),
                                                      !.all = who, !.todo = who, !.found = OnList]]
  /\ UNCHANGED nomRow

\* The loop over the secondary nominees, in the order of their rows
Take(c) ==
  /\ clerk[c].pc = "next" /\ clerk[c].todo # {}
  /\ LET n == CHOOSE x \in clerk[c].todo : TRUE
     IN clerk' = [clerk EXCEPT ![c].pc = "move", ![c].at = n, ![c].todo = @ \ {n},
                               ![c].left = {p \in Position : answer[n][p] # "none"}]
  /\ UNCHANGED nomRow

\* Mutant: the nominations stay with the nominee that will be hidden
MoveNothing(c) == clerk[c].pc = "move" /\ GoesTo(c, "merge") /\ UNCHANGED nomRow

\* Nominations and feedback move in a statement each.
MoveNominations(c) ==
  /\ clerk[c].pc = "move" /\ GoesTo(c, "merge")
  /\ LET n == clerk[c].at
     IN nominated' = [nominated EXCEPT ![clerk[c].primary] = @ \cup nominated[n],
                                       ![n] = IF n = clerk[c].primary THEN @ ELSE {}]
  /\ UNCHANGED <<nominee, duplicated, answer>>

\* Mutant: the later answer wins
Later(mine, theirs) == IF theirs = "pending" THEN mine ELSE theirs

\* The answer of both
Joint(mine, theirs) ==
  CASE "accepted" \in {mine, theirs}             -> "accepted"
    [] mine = "pending" /\ theirs = "declined"   -> "declined"
    [] OTHER                                     -> mine

\* A row moves if the primary nominee has none for that position; otherwise the
\* primary's gets the answer of both and the other one stays where it is.
MergePosition(c) ==
  /\ clerk[c].pc = "merge" /\ clerk[c].left # {}
  /\ LET n == clerk[c].at
         m == clerk[c].primary
         p == CHOOSE q \in clerk[c].left : TRUE
     IN /\ answer' = IF answer[m][p] = "none"
                     THEN [answer EXCEPT ![m][p] = answer[n][p], ![n][p] = "none"]
                     ELSE [answer EXCEPT ![m][p] = Joint(@, answer[n][p])]
        /\ clerk' = [clerk EXCEPT ![c].left = @ \ {p}]
  /\ UNCHANGED <<nominee, duplicated, nominated>>

\* The nominee becomes a duplicate when everything of it has moved.
Hide(c) ==
  /\ clerk[c].pc = "merge" /\ clerk[c].left = {} /\ GoesTo(c, "next")
  /\ duplicated' = [duplicated EXCEPT ![clerk[c].at] = {clerk[c].primary}]
  /\ UNCHANGED <<nominee, answer, nominated>>

Finish(c) ==
  /\ clerk[c].pc = "next" /\ clerk[c].todo = {}
  /\ duplicated' = [n \in Nominee |-> IF n \in clerk[c].all THEN {clerk[c].primary} ELSE duplicated[n]]
  /\ clerk' = [clerk EXCEPT ![c] = Resting]
  /\ UNCHANGED <<nominee, answer, nominated>>

Killed(c) ==
  /\ clerk[c].pc # "idle" /\ clerk' = [clerk EXCEPT ![c] = Resting]
  /\ UNCHANGED nomRow

Idle  == \A c \in Clerk : clerk[c].pc = "idle"
Start(c) == \/ \E n \in Nominee, p \in Position : Nominate(c, n, p)
            \/ \E n \in Nominee, S \in SUBSET Nominee : Merge(c, n, S)
Step(c)  == \/ Store(c) \/ Take(c) \/ MoveNominations(c) \/ MergePosition(c) \/ Hide(c) \/ Finish(c)
Reaction == \E n \in Nominee, p \in Position : Reply(n, p) \/ SetAnswer(n, p)

NextOK == Reaction \/ \E c \in Clerk : Start(c) \/ Step(c)
Abort  == \E c \in Clerk : Killed(c)

Spec   == Init /\ [][NextOK \/ Abort]_nomVars
SpecOK == Init /\ [][NextOK]_nomVars

(***************************************************************************)
(* Properties                                                              *)
(***************************************************************************)

\* Whoever is nominated, "while nominee.duplicated" comes to an end: every group
\* of nominees has one that is no duplicate of another in the group.
DuplicatesEnd ==
  \A S \in SUBSET Nominee : S # {} => \E n \in S : duplicated[n] \cap S = {}

\* A nomination belongs to a nominee on the list, and the list has a row for it.
NominationsAreListed ==
  Idle => \A n \in Nominee : \A p \in nominated[n] : NotDuplicated(n) /\ answer[n][p] # "none"

\* Merging hides no acceptance: while it lasts, and wherever it dies, a nominee
\* on the list has accepted each position that one of the two had accepted.
AcceptanceSurvives ==
  \A c \in Clerk : clerk[c].pc \in {"next", "move", "merge"} =>
    \A n \in clerk[c].all \cup {clerk[c].primary}, p \in Position :
      clerk[c].found[n][p] = "accepted" =>
        \E m \in {n, clerk[c].primary} : duplicated[m] = {} /\ answer[m][p] = "accepted"
=============================================================================
