------------------------- MODULE NominationsProofs -------------------------
(***************************************************************************)
(* Whoever follows duplicates arrives at a nominee on the list, for any    *)
(* number of nominees and positions, when requests that merge nominees do  *)
(* not overlap; they may die anywhere.  Merging hides no acceptance; and   *)
(* no nomination, if the request lives.                                    *)
(***************************************************************************)
EXTENDS Nominations, TLAPS

Local == [pc : PC, primary : Nominee, all : SUBSET Nominee, todo : SUBSET Nominee,
          at : Nominee, left : SUBSET Position,
          found : [Nominee -> [Position -> Answer]]]

\* A merge hides other nominees than the one they are merged into, and that one
\* is on the list.
Merging(q) ==
  q.pc \in {"next", "move", "merge"} =>
    /\ duplicated[q.primary] = {} /\ q.primary \notin q.all
    /\ q.todo \subseteq q.all
    /\ q.pc \in {"move", "merge"} => q.at \in q.all

NomInv == TypeOK /\ DuplicatesEnd /\ \A c \in Clerk : Merging(clerk[c])

\* The nominees passed from n on are closed under "duplicate of".
LEMMA PassesClosed ==
  ASSUME TypeOK, NEW n \in Nominee
  PROVE  n \in Passes(n) /\ \A y \in Passes(n) : duplicated[y] \subseteq Passes(n)
<1>1. n \in Passes(n)
  BY DEF Passes
<1>2. ASSUME NEW y \in Passes(n), NEW z \in duplicated[y] PROVE z \in Passes(n)
  <2>1. y \in Nominee /\ z \in Nominee
    BY <1>2 DEF Passes, TypeOK
  <2>2. ASSUME NEW S \in SUBSET Nominee, n \in S, \A x \in S : duplicated[x] \subseteq S
        PROVE  z \in S
    BY <1>2, <2>2 DEF Passes
  <2> QED BY <2>1, <2>2 DEF Passes
<1> QED BY <1>1, <1>2

\* "while nominee.duplicated" ends, at a nominee that is no duplicate.
LEMMA PrimaryIsListed ==
  ASSUME TypeOK, DuplicatesEnd, NEW n \in Nominee
  PROVE  Primary(n) \in Nominee /\ duplicated[Primary(n)] = {}
<1>1. Passes(n) \in SUBSET Nominee /\ Passes(n) # {}
  BY PassesClosed DEF Passes
<1>2. PICK x \in Passes(n) : duplicated[x] \cap Passes(n) = {}
  BY <1>1 DEF DuplicatesEnd
<1>3. duplicated[x] = {}
  BY <1>2, PassesClosed
<1> QED BY <1>1, <1>2, <1>3 DEF Primary

\* A nominee on the list is its own primary.
LEMMA PrimaryOfListed ==
  ASSUME NEW n \in Nominee, duplicated[n] = {}
  PROVE  Primary(n) = n
<1>1. \A y \in {n} : duplicated[y] \subseteq {n}
  OBVIOUS
<1>2. Passes(n) \subseteq {n}
  BY <1>1 DEF Passes
<1>3. n \in Passes(n)
  BY DEF Passes
<1> QED BY <1>2, <1>3 DEF Primary

\* Hiding some nominees behind one that is on the list makes no cycle.
LEMMA HidingEnds ==
  ASSUME TypeOK, DuplicatesEnd, NEW m \in Nominee, duplicated[m] = {},
         NEW H \in SUBSET Nominee, m \notin H,
         duplicated' = [n \in Nominee |-> IF n \in H THEN {m} ELSE duplicated[n]]
  PROVE  DuplicatesEnd' /\ duplicated'[m] = {}
<1>1. duplicated'[m] = {}
  OBVIOUS
<1>2. ASSUME NEW S \in SUBSET Nominee, S # {}
      PROVE  \E n \in S : duplicated'[n] \cap S = {}
  <2>1. CASE m \in S
    BY <1>1, <2>1
  <2>2. CASE m \notin S /\ \E n \in S : n \in H
    BY <2>2
  <2>3. CASE S \cap H = {}
    <3>1. PICK n \in S : duplicated[n] \cap S = {}
      BY <1>2 DEF DuplicatesEnd
    <3>2. duplicated'[n] = duplicated[n]
      BY <2>3
    <3> QED BY <3>1, <3>2
  <2> QED BY <2>1, <2>2, <2>3
<1> QED BY <1>1, <1>2 DEF DuplicatesEnd

\* A clerk that goes on without changing who is a duplicate of whom
LEMMA GoesOn ==
  ASSUME NomInv, NEW c \in Clerk, NEW q \in Local, clerk' = [clerk EXCEPT ![c] = q],
         UNCHANGED duplicated, Merging(q)
  PROVE  /\ DuplicatesEnd'
         /\ \A d \in Clerk : Merging(clerk[d])'
         /\ clerk' \in [Clerk -> Local]
<1>1. clerk \in [Clerk -> Local]
  BY DEF NomInv, TypeOK, Local
<1>2. DuplicatesEnd'
  BY DEF NomInv, DuplicatesEnd
<1>3. ASSUME NEW d \in Clerk PROVE Merging(clerk[d])'
  <2>1. CASE d = c
    <3>1. clerk'[d] = q
      BY <1>1, <2>1
    <3> QED BY <3>1 DEF Merging
  <2>2. CASE d # c
    <3>1. clerk'[d] = clerk[d]
      BY <1>1, <2>2
    <3>2. Merging(clerk[d])
      BY DEF NomInv
    <3> QED BY <3>1, <3>2 DEF Merging
  <2> QED BY <2>1, <2>2
<1> QED BY <1>1, <1>2, <1>3

\* A clerk that rests does not merge.
LEMMA RestingIsLocal ==
  ASSUME Nominee # {} PROVE Resting \in Local /\ Merging(Resting)
BY DEF Resting, Local, PC, NoOne, Answer, Merging

LEMMA NomInit == Nominee # {} /\ Init => NomInv
<1> SUFFICES ASSUME Nominee # {}, Init PROVE NomInv
  OBVIOUS
<1>1. TypeOK
  BY RestingIsLocal DEF Init, TypeOK, Local, Answer
<1>2. DuplicatesEnd
  BY DEF Init, DuplicatesEnd
<1>3. \A c \in Clerk : Merging(clerk[c])
  BY RestingIsLocal DEF Init
<1> QED BY <1>1, <1>2, <1>3 DEF NomInv

LEMMA NomStep ==
  ASSUME NomInv, [NextOK \/ Abort]_nomVars, Nominee # {}, \A c, d \in Clerk : c = d
  PROVE  NomInv'
<1>t. /\ TypeOK /\ DuplicatesEnd /\ clerk \in [Clerk -> Local]
      /\ \A c \in Clerk : Merging(clerk[c])
  BY DEF NomInv, TypeOK, Local
<1>a. ASSUME NEW n \in Nominee, NEW p \in Position, Reply(n, p) \/ SetAnswer(n, p)
      PROVE  NomInv'
  <2>1. UNCHANGED <<nominee, duplicated, nominated, clerk>>
    BY <1>a DEF Reply, SetAnswer
  <2>2. PICK a \in Answer : answer' = [answer EXCEPT ![n][p] = a]
    BY <1>a DEF Reply, SetAnswer, Answer
  <2>3. answer' \in [Nominee -> [Position -> Answer]]
    BY <1>t, <2>2 DEF TypeOK
  <2> QED BY <1>t, <2>1, <2>3 DEF NomInv, TypeOK, DuplicatesEnd, Merging
<1>b. ASSUME NEW c \in Clerk, NEW n \in Nominee, NEW p \in Position, Nominate(c, n, p)
      PROVE  NomInv'
  <2> DEFINE who == IF n \in nominee THEN Primary(n) ELSE n
             q   == [Resting EXCEPT !.pc = "name", !.primary = who, !.left = {p}]
  <2>1. who \in Nominee
    BY <1>t, PrimaryIsListed
  <2>2. /\ clerk' = [clerk EXCEPT ![c] = q] /\ UNCHANGED <<duplicated, nominated>>
        /\ nominee' = nominee \cup {n}
        /\ answer' = IF answer[who][p] # "none" THEN answer
                     ELSE [answer EXCEPT ![who][p] = "pending"]
    BY <1>b DEF Nominate
  <2> HIDE DEF who
  <2>3. q \in Local /\ q.pc = "name"
    BY <2>1, RestingIsLocal DEF Resting, Local, PC
  <2>4. Merging(q)
    BY <2>3 DEF Merging
  <2>5. answer' \in [Nominee -> [Position -> Answer]]
    BY <1>t, <2>1, <2>2 DEF TypeOK, Answer
  <2> HIDE DEF q
  <2>6. /\ DuplicatesEnd' /\ \A d \in Clerk : Merging(clerk[d])'
        /\ clerk' \in [Clerk -> Local]
    BY <2>2, <2>3, <2>4, GoesOn
  <2> QED BY <1>t, <2>2, <2>5, <2>6 DEF NomInv, TypeOK, Local
<1>c. ASSUME NEW c \in Clerk, NEW n \in Nominee, NEW S \in SUBSET Nominee, Merge(c, n, S)
      PROVE  NomInv'
  <2> DEFINE all == S \cap nominee
             q   == [Resting EXCEPT !.pc = "next", !.primary = Primary(n),
                                    !.all = all, !.todo = all, !.found = OnList]
  <2>1. clerk' = [clerk EXCEPT ![c] = q] /\ UNCHANGED nomRow
    BY <1>c DEF Merge
  <2>2. duplicated[n] = {} /\ n \notin S
    BY <1>c DEF Merge, Valid, NotDuplicated
  <2>3. Primary(n) = n
    BY <2>2, PrimaryOfListed
  <2>4. OnList \in [Nominee -> [Position -> Answer]]
    BY <1>t DEF OnList, TypeOK, Answer
  <2>5. q \in Local /\ q.primary = n /\ q.all = all /\ q.todo = all /\ q.pc = "next"
    BY <1>t, <2>3, <2>4, RestingIsLocal DEF Resting, Local, PC, TypeOK
  <2>6. Merging(q)
    BY <2>2, <2>5 DEF Merging
  <2> HIDE DEF q
  <2>7. /\ DuplicatesEnd' /\ \A d \in Clerk : Merging(clerk[d])'
        /\ clerk' \in [Clerk -> Local]
    BY <2>1, <2>5, <2>6, GoesOn DEF nomRow
  <2> QED BY <1>t, <2>1, <2>7 DEF NomInv, TypeOK, Local, nomRow
<1>d. ASSUME NEW c \in Clerk, Store(c) PROVE NomInv'
  <2>1. /\ clerk' = [clerk EXCEPT ![c] = Resting] /\ UNCHANGED <<nominee, duplicated, answer>>
        /\ nominated' = [nominated EXCEPT ![clerk[c].primary] = @ \cup clerk[c].left]
    BY <1>d DEF Store
  <2>2. nominated' \in [Nominee -> SUBSET Position]
    BY <1>t, <2>1 DEF TypeOK, Local
  <2>3. /\ DuplicatesEnd' /\ \A d \in Clerk : Merging(clerk[d])'
        /\ clerk' \in [Clerk -> Local]
    BY <2>1, GoesOn, RestingIsLocal
  <2> QED BY <1>t, <2>1, <2>2, <2>3 DEF NomInv, TypeOK, Local
<1>e. ASSUME NEW c \in Clerk, Take(c) PROVE NomInv'
  <2> DEFINE x == CHOOSE y \in clerk[c].todo : TRUE
             q == [clerk[c] EXCEPT !.pc = "move", !.at = x, !.todo = @ \ {x},
                                   !.left = {p \in Position : answer[x][p] # "none"}]
  <2>1. x \in clerk[c].todo
    BY <1>e DEF Take
  <2>2. clerk' = [clerk EXCEPT ![c] = q] /\ UNCHANGED nomRow /\ clerk[c].pc = "next"
    BY <1>e, <1>t DEF Take
  <2> HIDE DEF x
  <2>3. clerk[c] \in Local /\ Merging(clerk[c])
    BY <1>t
  <2>4. q \in Local
    BY <2>1, <2>3 DEF Local, PC
  <2>5. /\ q.primary = clerk[c].primary /\ q.all = clerk[c].all /\ q.pc = "move"
        /\ q.todo = clerk[c].todo \ {x} /\ q.at = x
    BY <2>3 DEF Local
  <2>6. Merging(q)
    BY <2>1, <2>2, <2>3, <2>5 DEF Merging
  <2> HIDE DEF q
  <2>7. /\ DuplicatesEnd' /\ \A d \in Clerk : Merging(clerk[d])'
        /\ clerk' \in [Clerk -> Local]
    BY <2>2, <2>4, <2>6, GoesOn DEF nomRow
  <2> QED BY <1>t, <2>2, <2>7 DEF NomInv, TypeOK, Local, nomRow
<1>f. ASSUME NEW c \in Clerk, MoveNominations(c) PROVE NomInv'
  <2> DEFINE q == [clerk[c] EXCEPT !.pc = "merge"]
             n == clerk[c].at
             m == clerk[c].primary
  <2>1. /\ clerk' = [clerk EXCEPT ![c] = q] /\ clerk[c].pc = "move"
        /\ UNCHANGED <<nominee, duplicated, answer>>
    BY <1>f, <1>t DEF MoveNominations, GoesTo
  <2>2. nominated' = [nominated EXCEPT ![m] = @ \cup nominated[n],
                                       ![n] = IF n = m THEN @ ELSE {}]
    BY <1>f DEF MoveNominations
  <2>3. clerk[c] \in Local /\ Merging(clerk[c])
    BY <1>t
  <2>4. n \in Nominee /\ m \in Nominee
    BY <2>3 DEF Local
  <2>5. nominated' \in [Nominee -> SUBSET Position]
    BY <1>t, <2>2, <2>4 DEF TypeOK
  <2>6. q \in Local /\ q.primary = m /\ q.all = clerk[c].all /\ q.at = n
                    /\ q.todo = clerk[c].todo /\ q.pc = "merge"
    BY <2>3 DEF Local, PC
  <2>7. Merging(q)
    BY <2>1, <2>3, <2>6 DEF Merging
  <2> HIDE DEF q
  <2>8. /\ DuplicatesEnd' /\ \A d \in Clerk : Merging(clerk[d])'
        /\ clerk' \in [Clerk -> Local]
    BY <2>1, <2>6, <2>7, GoesOn
  <2> QED BY <1>t, <2>1, <2>5, <2>8 DEF NomInv, TypeOK, Local
<1>g. ASSUME NEW c \in Clerk, MergePosition(c) PROVE NomInv'
  <2> DEFINE n == clerk[c].at
             m == clerk[c].primary
             p == CHOOSE x \in clerk[c].left : TRUE
             q == [clerk[c] EXCEPT !.left = @ \ {p}]
  <2>1. clerk[c] \in Local /\ Merging(clerk[c])
    BY <1>t
  <2>2. n \in Nominee /\ m \in Nominee /\ p \in Position
    BY <1>g, <2>1 DEF MergePosition, Local
  <2>3. /\ clerk' = [clerk EXCEPT ![c] = q] /\ clerk[c].pc = "merge"
        /\ UNCHANGED <<nominee, duplicated, nominated>>
        /\ answer' = IF answer[m][p] = "none"
                     THEN [answer EXCEPT ![m][p] = answer[n][p], ![n][p] = "none"]
                     ELSE [answer EXCEPT ![m][p] = Joint(@, answer[n][p])]
    BY <1>g, <1>t DEF MergePosition
  <2> HIDE DEF p
  <2>4. answer[m][p] \in Answer /\ answer[n][p] \in Answer
    BY <1>t, <2>2 DEF TypeOK
  <2>5. Joint(answer[m][p], answer[n][p]) \in Answer
    BY <2>4 DEF Joint, Answer
  <2>6. answer' \in [Nominee -> [Position -> Answer]]
    <3> HIDE DEF n, m
    <3>1. "none" \in Answer
      BY DEF Answer
    <3>2. CASE answer[m][p] = "none"
      <4> DEFINE first == [answer EXCEPT ![m][p] = answer[n][p]]
      <4>1. first \in [Nominee -> [Position -> Answer]]
        BY <1>t, <2>2, <2>4 DEF TypeOK
      <4>2. answer' = [first EXCEPT ![n][p] = "none"]
        BY <2>3, <3>2
      <4> HIDE DEF first
      <4> QED BY <2>2, <3>1, <4>1, <4>2
    <3>3. CASE answer[m][p] # "none"
      <4>1. answer' = [answer EXCEPT ![m][p] = Joint(@, answer[n][p])]
        BY <2>3, <3>3
      <4> QED BY <1>t, <2>2, <2>5, <4>1 DEF TypeOK
    <3> QED BY <3>2, <3>3
  <2>7. q \in Local /\ q.primary = m /\ q.all = clerk[c].all /\ q.at = n
                    /\ q.todo = clerk[c].todo /\ q.pc = clerk[c].pc
    BY <2>1 DEF Local, PC
  <2>8. Merging(q)
    BY <2>1, <2>3, <2>7 DEF Merging
  <2> HIDE DEF q
  <2>9. /\ DuplicatesEnd' /\ \A d \in Clerk : Merging(clerk[d])'
        /\ clerk' \in [Clerk -> Local]
    BY <2>3, <2>7, <2>8, GoesOn
  <2> QED BY <1>t, <2>3, <2>6, <2>9 DEF NomInv, TypeOK, Local
<1>h. ASSUME NEW c \in Clerk, Hide(c) PROVE NomInv'
  <2> DEFINE q == [clerk[c] EXCEPT !.pc = "next"]
             m == clerk[c].primary
             n == clerk[c].at
  <2>1. clerk[c] \in Local /\ Merging(clerk[c])
    BY <1>t
  <2>2. /\ clerk' = [clerk EXCEPT ![c] = q] /\ clerk[c].pc = "merge"
        /\ UNCHANGED <<nominee, answer, nominated>>
        /\ duplicated' = [duplicated EXCEPT ![n] = {m}]
    BY <1>h, <1>t DEF Hide, GoesTo
  <2>3. /\ duplicated[m] = {} /\ m \in Nominee /\ n \in Nominee /\ m \notin {n}
        /\ m \notin clerk[c].all /\ clerk[c].todo \subseteq clerk[c].all
    BY <2>1, <2>2 DEF Merging, Local
  <2>4. duplicated' = [x \in Nominee |-> IF x \in {n} THEN {m} ELSE duplicated[x]]
    BY <1>t, <2>2 DEF TypeOK
  <2>5. DuplicatesEnd' /\ duplicated'[m] = {}
    <3> DEFINE H == {n}
    <3>1. H \in SUBSET Nominee /\ m \notin H
      BY <2>3
    <3>2. duplicated' = [x \in Nominee |-> IF x \in H THEN {m} ELSE duplicated[x]]
      BY <2>4
    <3> HIDE DEF H
    <3> QED BY <1>t, <2>3, <3>1, <3>2, HidingEnds
  <2>6. clerk'[c] = q /\ \A d \in Clerk : d = c
    BY <1>t, <2>2
  <2>7. q \in Local /\ q.primary = m /\ q.all = clerk[c].all
                    /\ q.todo = clerk[c].todo /\ q.pc = "next"
    BY <2>1 DEF Local, PC
  <2>8. \A d \in Clerk : Merging(clerk[d])'
    BY <2>3, <2>5, <2>6, <2>7 DEF Merging
  <2>9. clerk' \in [Clerk -> Local] /\ duplicated' \in [Nominee -> SUBSET Nominee]
    BY <1>t, <2>2, <2>3, <2>7 DEF TypeOK
  <2> QED BY <1>t, <2>2, <2>5, <2>8, <2>9 DEF NomInv, TypeOK, Local
<1>i. ASSUME NEW c \in Clerk, Finish(c) PROVE NomInv'
  <2> DEFINE m == clerk[c].primary
  <2>1. clerk[c] \in Local /\ Merging(clerk[c])
    BY <1>t
  <2>2. /\ clerk' = [clerk EXCEPT ![c] = Resting] /\ clerk[c].pc = "next"
        /\ UNCHANGED <<nominee, answer, nominated>>
        /\ duplicated' = [n \in Nominee |-> IF n \in clerk[c].all THEN {m} ELSE duplicated[n]]
    BY <1>i DEF Finish
  <2>3. duplicated[m] = {} /\ m \in Nominee /\ m \notin clerk[c].all /\ clerk[c].all \in SUBSET Nominee
    BY <2>1, <2>2 DEF Merging, Local
  <2>4. DuplicatesEnd'
    BY <1>t, <2>2, <2>3, HidingEnds
  <2>5. \A d \in Clerk : clerk'[d] = Resting
    BY <1>t, <2>2
  <2>6. \A d \in Clerk : Merging(clerk[d])'
    BY <2>5 DEF Merging, Resting
  <2>7. clerk' \in [Clerk -> Local] /\ duplicated' \in [Nominee -> SUBSET Nominee]
    BY <1>t, <2>2, <2>3, RestingIsLocal DEF TypeOK
  <2> QED BY <1>t, <2>2, <2>4, <2>6, <2>7 DEF NomInv, TypeOK, Local
<1>j. ASSUME NEW c \in Clerk, Killed(c) PROVE NomInv'
  <2>1. clerk' = [clerk EXCEPT ![c] = Resting] /\ UNCHANGED nomRow
    BY <1>j DEF Killed
  <2>2. /\ DuplicatesEnd' /\ \A d \in Clerk : Merging(clerk[d])'
        /\ clerk' \in [Clerk -> Local]
    BY <2>1, GoesOn, RestingIsLocal DEF nomRow
  <2> QED BY <1>t, <2>1, <2>2 DEF NomInv, TypeOK, Local, nomRow
<1>k. CASE UNCHANGED nomVars
  BY <1>t, <1>k DEF nomVars, nomRow, NomInv, TypeOK, DuplicatesEnd, Merging
<1> QED
  BY <1>a, <1>b, <1>c, <1>d, <1>e, <1>f, <1>g, <1>h, <1>i, <1>j, <1>k
     DEF NextOK, Abort, Start, Step, Reaction

(***************************************************************************)
(* What merging keeps                                                      *)
(***************************************************************************)
\* Duplicates are nominees, and of nominees; so are those that are merged.
OnlyNominees == \A n \in Nominee : duplicated[n] # {} => n \in nominee /\ duplicated[n] \subseteq nominee

Mergers == {"next", "move", "merge"}
Members(q) == q.pc \in Mergers => q.all \subseteq nominee /\ q.primary \in nominee

\* An acceptance that was on the list is with the nominee that had it, or with
\* the primary; that of a position which is done is with the primary.
AnswersKept(q) ==
  /\ q.pc \in Mergers =>
       \A n \in q.all \cup {q.primary}, p \in Position :
         q.found[n][p] = "accepted" =>
           \E m \in {n, q.primary} : duplicated[m] = {} /\ answer[m][p] = "accepted"
  /\ q.pc = "move" => q.left = {p \in Position : answer[q.at][p] # "none"}
  /\ q.pc = "merge" => \A p \in q.left : answer[q.at][p] # "none"
  /\ q.pc \in {"move", "merge"} =>
       \A p \in Position \ q.left : q.found[q.at][p] = "accepted" => answer[q.primary][p] = "accepted"

KeptInv == NomInv /\ OnlyNominees /\ \A c \in Clerk : Members(clerk[c]) /\ AnswersKept(clerk[c])

\* As long as nothing dies: nominations are with nominees on the list, which have
\* a row for them, or will have as soon as the merge is done.
Listed ==
  \A n \in Nominee : \A p \in nominated[n] :
    /\ NotDuplicated(n)
    /\ answer[n][p] = "none" =>
         \E c \in Clerk : clerk[c].pc = "merge" /\ n = clerk[c].primary /\ p \in clerk[c].left

\* Those that are hidden, or will be, have given theirs away.
Placed(q) ==
  /\ q.pc = "name" => NotDuplicated(q.primary) /\ \A p \in q.left : answer[q.primary][p] # "none"
  /\ q.pc \in {"next", "merge"} => \A n \in q.all \ q.todo : nominated[n] = {}
  /\ q.pc = "move" => \A n \in q.all \ (q.todo \cup {q.at}) : nominated[n] = {}
  /\ q.pc = "merge" => nominated[q.at] = {}

PlacedInv == Listed /\ \A c \in Clerk : Placed(clerk[c])

\* With one clerk, what holds of it holds of all.
OneClerk == \A c, d \in Clerk : c = d

LEMMA OnlyClerk ==
  ASSUME OneClerk, NEW c \in Clerk, NomInv', OnlyNominees', Members(clerk[c])', AnswersKept(clerk[c])',
         PlacedInv => Listed' /\ Placed(clerk[c])'
  PROVE  KeptInv' /\ (PlacedInv => PlacedInv')
<1>1. \A d \in Clerk : d = c
  BY DEF OneClerk
<1> QED BY <1>1 DEF KeptInv, PlacedInv

LEMMA KeptInit == Nominee # {} /\ Init => KeptInv /\ PlacedInv
BY NomInit DEF Init, KeptInv, OnlyNominees, Members, AnswersKept, Mergers, PlacedInv, Listed,
               Placed, Resting

LEMMA ReactionKeeps ==
  ASSUME KeptInv, OneClerk, Nominee # {}, Idle, Reaction PROVE KeptInv' /\ (PlacedInv => PlacedInv')
<1>1. NomInv'
  BY NomStep DEF KeptInv, NextOK, OneClerk
<1>2. UNCHANGED <<nominee, duplicated, nominated, clerk>>
  BY DEF Reaction, Reply, SetAnswer
<1>3. PICK n \in Nominee, p \in Position, a \in Answer \ {"none"} :
        answer' = [answer EXCEPT ![n][p] = a]
  <2>1. PICK n \in Nominee, p \in Position : Reply(n, p) \/ SetAnswer(n, p)
    BY DEF Reaction
  <2>2. PICK a \in Answer \ {"none"} : answer' = [answer EXCEPT ![n][p] = a]
    BY <2>1 DEF Reply, SetAnswer, Answer
  <2> QED BY <2>2
<1>4. \A x \in Nominee, y \in Position : answer'[x][y] = "none" => answer[x][y] = "none"
  BY <1>3 DEF KeptInv, NomInv, TypeOK
<1>5. \A c \in Clerk : /\ Members(clerk[c])' /\ AnswersKept(clerk[c])'
                       /\ PlacedInv => Placed(clerk[c])'
  BY <1>2 DEF Idle, Members, AnswersKept, Mergers, Placed
<1>6. PlacedInv => Listed'
  <2>1. nominated \in [Nominee -> SUBSET Position]
    BY DEF KeptInv, NomInv, TypeOK
  <2> QED BY <1>2, <1>4, <2>1 DEF PlacedInv, Listed, NotDuplicated
<1> QED BY <1>1, <1>2, <1>5, <1>6 DEF KeptInv, OnlyNominees, PlacedInv

LEMMA NominateKeeps ==
  ASSUME KeptInv, OneClerk, Nominee # {}, NEW c \in Clerk, NEW n \in Nominee, NEW p \in Position,
         Nominate(c, n, p)
  PROVE  KeptInv' /\ (PlacedInv => PlacedInv')
<1>1. NomInv'
  BY NomStep DEF KeptInv, NextOK, Start, OneClerk
<1>2. /\ TypeOK /\ DuplicatesEnd /\ OnlyNominees
  BY DEF KeptInv, NomInv
<1>3. PICK who : who = IF n \in nominee THEN Primary(n) ELSE n
  OBVIOUS
<1>4. /\ clerk[c].pc = "idle" /\ UNCHANGED <<duplicated, nominated>>
      /\ nominee' = nominee \cup {n}
      /\ answer' = IF answer[who][p] # "none" THEN answer ELSE [answer EXCEPT ![who][p] = "pending"]
      /\ clerk' = [clerk EXCEPT ![c] = [Resting EXCEPT !.pc = "name", !.primary = who, !.left = {p}]]
  BY <1>3 DEF Nominate
<1>5. who \in Nominee /\ duplicated[who] = {} /\ who \in nominee'
  <2>1. CASE n \in nominee
    <3>1. \A y \in nominee : duplicated[y] \subseteq nominee
      BY <1>2 DEF OnlyNominees, TypeOK
    <3>2. nominee \in SUBSET Nominee
      BY <1>2 DEF TypeOK
    <3>3. Passes(n) \subseteq nominee
      BY <2>1, <3>1, <3>2 DEF Passes
    <3>4. Primary(n) \in Passes(n) /\ duplicated[Primary(n)] = {} /\ Primary(n) \in Nominee
      <4>1. PICK x \in Passes(n) : duplicated[x] = {}
        <5>1. Passes(n) \in SUBSET Nominee /\ Passes(n) # {}
          BY <1>2, PassesClosed DEF Passes
        <5>2. PICK x \in Passes(n) : duplicated[x] \cap Passes(n) = {}
          BY <1>2, <5>1 DEF DuplicatesEnd
        <5> QED BY <1>2, <5>2, PassesClosed
      <4> QED BY <1>2, <4>1, PrimaryIsListed DEF Primary
    <3> QED BY <1>3, <1>4, <2>1, <3>3, <3>4
  <2>2. CASE n \notin nominee
    BY <1>2, <1>3, <1>4, <2>2 DEF OnlyNominees
  <2> QED BY <2>1, <2>2
<1>6. \A x \in Nominee, y \in Position : answer'[x][y] = "none" => answer[x][y] = "none"
  BY <1>2, <1>4, <1>5 DEF TypeOK
<1>7. answer'[who][p] # "none"
  BY <1>2, <1>4, <1>5 DEF TypeOK
<1>8. PICK r : r = [Resting EXCEPT !.pc = "name", !.primary = who, !.left = {p}]
  OBVIOUS
<1>9. r.pc = "name" /\ r.primary = who /\ r.left = {p}
  BY <1>8 DEF Resting
<1>10. clerk'[c] = r
  BY <1>2, <1>4, <1>8 DEF TypeOK
<1>11. OnlyNominees' /\ Members(clerk[c])' /\ AnswersKept(clerk[c])'
  BY <1>2, <1>4, <1>9, <1>10 DEF OnlyNominees, Members, AnswersKept, Mergers
<1>12. ASSUME PlacedInv PROVE Listed' /\ Placed(clerk[c])'
  <2>1. Placed(clerk[c])'
    BY <1>4, <1>5, <1>7, <1>9, <1>10 DEF Placed, NotDuplicated
  <2>2. \A d \in Clerk : d = c
    BY DEF OneClerk
  <2>3. \A x \in Nominee : \A y \in nominated[x] : y \in Position
    BY <1>2 DEF TypeOK
  <2>4. Listed'
    BY <1>4, <1>6, <1>12, <2>2, <2>3 DEF PlacedInv, Listed, NotDuplicated
  <2> QED BY <2>1, <2>4
<1> QED BY <1>1, <1>11, <1>12, OnlyClerk

LEMMA StoreKeeps ==
  ASSUME KeptInv, OneClerk, Nominee # {}, NEW c \in Clerk, Store(c)
  PROVE  KeptInv' /\ (PlacedInv => PlacedInv')
<1>1. NomInv'
  BY NomStep DEF KeptInv, NextOK, Step, OneClerk
<1>2. TypeOK
  BY DEF KeptInv, NomInv
<1>3. PICK q \in Local : q = clerk[c]
  BY <1>2 DEF TypeOK, Local
<1>4. /\ q.pc = "name" /\ UNCHANGED <<nominee, duplicated, answer>>
      /\ nominated' = [nominated EXCEPT ![q.primary] = @ \cup q.left]
      /\ clerk'[c] = Resting
  BY <1>2, <1>3 DEF Store, TypeOK
<1>5. OnlyNominees' /\ Members(clerk[c])' /\ AnswersKept(clerk[c])'
  BY <1>4 DEF KeptInv, OnlyNominees, Members, AnswersKept, Mergers, Resting
<1>6. ASSUME PlacedInv PROVE Listed' /\ Placed(clerk[c])'
  <2>1. Placed(clerk[c])'
    BY <1>4 DEF Placed, Resting
  <2>2. NotDuplicated(q.primary) /\ \A p \in q.left : answer[q.primary][p] # "none"
    BY <1>3, <1>4, <1>6 DEF PlacedInv, Placed
  <2>3. \A x \in Nominee : \A p \in nominated[x] : NotDuplicated(x) /\ answer[x][p] # "none"
    BY <1>3, <1>4, <1>6 DEF PlacedInv, Listed, OneClerk
  <2>4. \A x \in Nominee : \A p \in nominated'[x] : p \in nominated[x] \/ (x = q.primary /\ p \in q.left)
    BY <1>2, <1>3, <1>4 DEF TypeOK, Local
  <2>5. Listed'
    BY <1>4, <2>2, <2>3, <2>4 DEF Listed, NotDuplicated
  <2> QED BY <2>1, <2>5
<1> QED BY <1>1, <1>5, <1>6, OnlyClerk

LEMMA MergeKeeps ==
  ASSUME KeptInv, OneClerk, Nominee # {}, NEW c \in Clerk, NEW n \in Nominee, NEW S \in SUBSET Nominee,
         Merge(c, n, S)
  PROVE  KeptInv' /\ (PlacedInv => PlacedInv')
<1>1. NomInv'
  BY NomStep DEF KeptInv, NextOK, Start, OneClerk
<1>2. TypeOK /\ OnlyNominees
  BY DEF KeptInv, NomInv
<1>3. duplicated[n] = {} /\ n \in nominee /\ n \notin S /\ Primary(n) = n
  BY PrimaryOfListed DEF Merge, Valid, NotDuplicated
<1>4. PICK all : all = S \cap nominee
  OBVIOUS
<1>5. PICK r : r = [Resting EXCEPT !.pc = "next", !.primary = n, !.all = all, !.todo = all, !.found = OnList]
  OBVIOUS
<1>6. r.pc = "next" /\ r.primary = n /\ r.all = all /\ r.todo = all /\ r.found = OnList
  BY <1>5 DEF Resting
<1>7. clerk'[c] = r /\ UNCHANGED <<nominee, duplicated, answer, nominated>> /\ clerk[c].pc = "idle"
  BY <1>2, <1>3, <1>4, <1>5 DEF Merge, nomRow, TypeOK
<1>8. Members(clerk[c])' /\ OnlyNominees'
  BY <1>2, <1>3, <1>4, <1>6, <1>7 DEF Members, OnlyNominees
<1>9. AnswersKept(clerk[c])'
  <2>1. ASSUME NEW x \in all \cup {n}, NEW p \in Position, OnList[x][p] = "accepted"
        PROVE  duplicated[x] = {} /\ answer[x][p] = "accepted"
    BY <1>4, <2>1 DEF OnList, NotDuplicated
  <2> QED BY <1>6, <1>7, <2>1 DEF AnswersKept
<1>10. ASSUME PlacedInv PROVE Listed' /\ Placed(clerk[c])'
  <2>1. \A d \in Clerk : d = c
    BY DEF OneClerk
  <2> QED BY <1>6, <1>7, <1>10, <2>1 DEF PlacedInv, Listed, Placed, NotDuplicated
<1> QED BY <1>1, <1>8, <1>9, <1>10, OnlyClerk

LEMMA TakeKeeps ==
  ASSUME KeptInv, OneClerk, Nominee # {}, NEW c \in Clerk, Take(c)
  PROVE  KeptInv' /\ (PlacedInv => PlacedInv')
<1>1. NomInv'
  BY NomStep DEF KeptInv, NextOK, Step, OneClerk
<1>2. TypeOK /\ OnlyNominees
  BY DEF KeptInv, NomInv
<1>3. PICK q \in Local : q = clerk[c]
  BY <1>2 DEF TypeOK, Local
<1>4. PICK x : x = CHOOSE y \in q.todo : TRUE
  OBVIOUS
<1>5. /\ q.pc = "next" /\ x \in q.todo /\ UNCHANGED <<nominee, duplicated, answer, nominated>>
      /\ clerk'[c] = [q EXCEPT !.pc = "move", !.at = x, !.todo = @ \ {x},
                               !.left = {p \in Position : answer[x][p] # "none"}]
  <2>1. q.pc = "next" /\ q.todo # {} /\ UNCHANGED nomRow
    BY <1>3 DEF Take
  <2>2. clerk' = [clerk EXCEPT ![c] = [clerk[c] EXCEPT !.pc = "move", !.at = x, !.todo = @ \ {x},
                                            !.left = {p \in Position : answer[x][p] # "none"}]]
    BY <1>2, <1>3, <1>4 DEF Take, TypeOK
  <2>3. x \in q.todo
    BY <1>4, <2>1
  <2> QED BY <1>2, <1>3, <2>1, <2>2, <2>3 DEF TypeOK, nomRow
<1>6. PICK r : r = clerk'[c]
  OBVIOUS
<1>7. /\ r.pc = "move" /\ r.primary = q.primary /\ r.all = q.all /\ r.at = x
      /\ r.todo = q.todo \ {x} /\ r.found = q.found
      /\ r.left = {p \in Position : answer[x][p] # "none"}
  BY <1>3, <1>5, <1>6 DEF Local
<1>8. Members(q) /\ AnswersKept(q) /\ Merging(q)
  BY <1>3 DEF KeptInv, NomInv
<1>9. OnlyNominees' /\ Members(clerk[c])'
  BY <1>2, <1>5, <1>6, <1>7, <1>8 DEF OnlyNominees, Members, Mergers
<1>10. AnswersKept(clerk[c])'
  <2>1. \A n \in q.all \cup {q.primary}, p \in Position : q.found[n][p] = "accepted" =>
          \E m \in {n, q.primary} : duplicated[m] = {} /\ answer[m][p] = "accepted"
    BY <1>5, <1>8 DEF AnswersKept, Mergers
  <2>2. x \in q.all
    BY <1>5, <1>8 DEF Merging
  <2>3. \A p \in Position : answer[x][p] = "none" /\ q.found[x][p] = "accepted"
                              => answer[q.primary][p] = "accepted"
    BY <2>1, <2>2
  <2> QED BY <1>5, <1>6, <1>7, <2>1, <2>3 DEF AnswersKept
<1>11. ASSUME PlacedInv PROVE Listed' /\ Placed(clerk[c])'
  <2>1. \A d \in Clerk : d = c
    BY DEF OneClerk
  <2>2. Listed'
    BY <1>3, <1>5, <1>11, <2>1 DEF PlacedInv, Listed, NotDuplicated
  <2>3. \A n \in q.all \ q.todo : nominated[n] = {}
    BY <1>3, <1>5, <1>11 DEF PlacedInv, Placed
  <2> QED BY <1>5, <1>6, <1>7, <2>2, <2>3 DEF Placed
<1> QED BY <1>1, <1>9, <1>10, <1>11, OnlyClerk

LEMMA MoveKeeps ==
  ASSUME KeptInv, OneClerk, Nominee # {}, NEW c \in Clerk, MoveNominations(c)
  PROVE  KeptInv' /\ (PlacedInv => PlacedInv')
<1>1. NomInv'
  BY NomStep DEF KeptInv, NextOK, Step, OneClerk
<1>2. TypeOK /\ OnlyNominees
  BY DEF KeptInv, NomInv
<1>3. PICK q \in Local : q = clerk[c]
  BY <1>2 DEF TypeOK, Local
<1>8. Members(q) /\ AnswersKept(q) /\ Merging(q)
  BY <1>3 DEF KeptInv, NomInv
<1>4. q.pc = "move" /\ q.at \in q.all /\ q.primary \notin q.all
  BY <1>3, <1>8 DEF MoveNominations, Merging
<1>5. /\ UNCHANGED <<nominee, duplicated, answer>>
      /\ nominated' = [nominated EXCEPT ![q.primary] = @ \cup nominated[q.at], ![q.at] = {}]
      /\ clerk'[c] = [q EXCEPT !.pc = "merge"]
  BY <1>2, <1>3, <1>4 DEF MoveNominations, GoesTo, TypeOK
<1>6. PICK r : r = clerk'[c]
  OBVIOUS
<1>7. /\ r.pc = "merge" /\ r.primary = q.primary /\ r.all = q.all /\ r.at = q.at
      /\ r.todo = q.todo /\ r.found = q.found /\ r.left = q.left
  BY <1>3, <1>5, <1>6 DEF Local
<1>9. OnlyNominees' /\ Members(clerk[c])' /\ AnswersKept(clerk[c])'
  BY <1>2, <1>4, <1>5, <1>6, <1>7, <1>8 DEF OnlyNominees, Members, AnswersKept, Mergers
<1>10. ASSUME PlacedInv PROVE Listed' /\ Placed(clerk[c])'
  <2>1. \A d \in Clerk : d = c
    BY DEF OneClerk
  <2>2. \A n \in Nominee : \A p \in nominated[n] : NotDuplicated(n) /\ answer[n][p] # "none"
    BY <1>3, <1>4, <1>10, <2>1 DEF PlacedInv, Listed
  <2>3. /\ nominated'[q.at] = {} /\ nominated'[q.primary] = nominated[q.primary] \cup nominated[q.at]
        /\ \A n \in Nominee \ {q.at, q.primary} : nominated'[n] = nominated[n]
        /\ q.at \in Nominee /\ q.primary \in Nominee
    BY <1>2, <1>3, <1>4, <1>5 DEF TypeOK, Local
  <2>4. \A p \in nominated[q.at] : p \in q.left
    BY <1>2, <1>4, <1>8, <2>2, <2>3 DEF AnswersKept, TypeOK
  <2>5. NotDuplicated(q.primary)
    BY <1>4, <1>8 DEF NotDuplicated, Merging, Members, Mergers
  <2>6. Listed'
    <3>1. ASSUME NEW n \in Nominee, NEW p \in nominated'[n]
          PROVE  NotDuplicated(n) /\ (answer[n][p] = "none" => n = q.primary /\ p \in q.left)
      <4>1. CASE n = q.at
        BY <2>3, <3>1, <4>1
      <4>2. CASE n = q.primary
        BY <2>2, <2>3, <2>4, <2>5, <3>1, <4>2
      <4>3. CASE n \notin {q.at, q.primary}
        BY <2>2, <2>3, <3>1, <4>3
      <4> QED BY <4>1, <4>2, <4>3
    <3>2. clerk'[c].pc = "merge" /\ clerk'[c].primary = q.primary /\ clerk'[c].left = q.left
      BY <1>6, <1>7
    <3> QED BY <1>5, <3>1, <3>2 DEF Listed, NotDuplicated
  <2>7. \A n \in q.all \ (q.todo \cup {q.at}) : nominated[n] = {}
    BY <1>3, <1>4, <1>10 DEF PlacedInv, Placed
  <2>8. \A n \in q.all \ q.todo : nominated'[n] = {}
    BY <1>3, <1>4, <2>3, <2>7 DEF Local
  <2> QED BY <1>6, <1>7, <2>3, <2>6, <2>8 DEF Placed
<1> QED BY <1>1, <1>9, <1>10, OnlyClerk

LEMMA MergePositionKeeps ==
  ASSUME KeptInv, OneClerk, Nominee # {}, NEW c \in Clerk, MergePosition(c)
  PROVE  KeptInv' /\ (PlacedInv => PlacedInv')
<1>1. NomInv'
  BY NomStep DEF KeptInv, NextOK, Step, OneClerk
<1>2. TypeOK /\ OnlyNominees
  BY DEF KeptInv, NomInv
<1>3. PICK q \in Local : q = clerk[c]
  BY <1>2 DEF TypeOK, Local
<1>4. Members(q) /\ AnswersKept(q) /\ Merging(q)
  BY <1>3 DEF KeptInv, NomInv
<1>a. PICK n \in Nominee : n = q.at
  BY <1>3 DEF Local
<1>b. PICK m \in Nominee : m = q.primary
  BY <1>3 DEF Local
<1>5. q.pc = "merge" /\ n \in q.all /\ m \notin q.all /\ n # m /\ q.left # {} /\ q.left \subseteq Position
  BY <1>3, <1>4, <1>a, <1>b DEF MergePosition, Merging, Local
<1>c. PICK p : p = CHOOSE x \in q.left : TRUE
  OBVIOUS
<1>6. p \in q.left /\ p \in Position
  BY <1>5, <1>c
<1>7. /\ UNCHANGED <<nominee, duplicated, nominated>>
      /\ answer' = IF answer[m][p] = "none"
                   THEN [answer EXCEPT ![m][p] = answer[n][p], ![n][p] = "none"]
                   ELSE [answer EXCEPT ![m][p] = Joint(@, answer[n][p])]
      /\ clerk' = [clerk EXCEPT ![c].left = @ \ {p}]
  BY <1>3, <1>a, <1>b, <1>c DEF MergePosition
<1>8. PICK r : r = clerk'[c]
  OBVIOUS
<1>9. /\ r.pc = "merge" /\ r.primary = m /\ r.all = q.all /\ r.at = n
      /\ r.todo = q.todo /\ r.found = q.found /\ r.left = q.left \ {p}
  <2>1. clerk'[c] = [q EXCEPT !.left = @ \ {p}]
    BY <1>2, <1>3, <1>7 DEF TypeOK
  <2> QED BY <1>3, <1>5, <1>8, <1>a, <1>b, <2>1 DEF Local
<1>10. answer[n][p] # "none" /\ answer[n][p] \in Answer /\ answer[m][p] \in Answer
  BY <1>2, <1>4, <1>5, <1>6, <1>a DEF AnswersKept, TypeOK
\* The primary nominee has a row afterwards, and has accepted if one of the two had.
<1>11. /\ answer'[m][p] # "none"
       /\ answer[m][p] = "accepted" \/ answer[n][p] = "accepted" => answer'[m][p] = "accepted"
       /\ \A x \in Nominee, y \in Position :
            (x # m /\ x # n) \/ y # p => answer'[x][y] = answer[x][y]
  <2>1. CASE answer[m][p] = "none"
    <3> DEFINE first == [answer EXCEPT ![m][p] = answer[n][p]]
    <3>1. /\ first \in [Nominee -> [Position -> Answer]] /\ first[m][p] = answer[n][p]
          /\ \A x \in Nominee, y \in Position : x # m \/ y # p => first[x][y] = answer[x][y]
      BY <1>2, <1>6, <1>10 DEF TypeOK
    <3>2. answer' = [first EXCEPT ![n][p] = "none"]
      BY <1>7, <2>1
    <3> HIDE DEF first
    <3>3. \A x \in Nominee, y \in Position : x # n \/ y # p => answer'[x][y] = first[x][y]
      BY <1>6, <3>1, <3>2
    <3> QED BY <1>5, <1>6, <1>10, <2>1, <3>1, <3>3
  <2>2. CASE answer[m][p] # "none"
    <3>1. answer' = [answer EXCEPT ![m][p] = Joint(answer[m][p], answer[n][p])]
      BY <1>7, <2>2
    <3>2. /\ Joint(answer[m][p], answer[n][p]) # "none"
          /\ answer[m][p] = "accepted" \/ answer[n][p] = "accepted"
               => Joint(answer[m][p], answer[n][p]) = "accepted"
      BY <1>10, <2>2 DEF Joint, Answer
    <3> QED BY <1>2, <1>6, <3>1, <3>2 DEF TypeOK
  <2> QED BY <2>1, <2>2
<1>12. OnlyNominees' /\ Members(clerk[c])'
  BY <1>2, <1>4, <1>5, <1>7, <1>8, <1>9, <1>b DEF OnlyNominees, Members, Mergers
<1>13. AnswersKept(clerk[c])'
  <2>0. duplicated[m] = {}
    BY <1>4, <1>5, <1>b DEF Merging
  <2>1. \A x \in q.all \cup {m}, y \in Position : q.found[x][y] = "accepted" =>
          (duplicated[x] = {} /\ answer[x][y] = "accepted") \/ answer[m][y] = "accepted"
    BY <1>4, <1>5, <1>b DEF AnswersKept, Mergers
  <2>2. q.all \subseteq Nominee
    BY <1>3 DEF Local
  <2>3. ASSUME NEW x \in q.all \cup {m}, NEW y \in Position, q.found[x][y] = "accepted"
        PROVE  (duplicated[x] = {} /\ answer'[x][y] = "accepted") \/ answer'[m][y] = "accepted"
    <3>1. CASE y # p \/ (x # m /\ x # n)
      <4>1. answer[m][y] = "accepted" => answer'[m][y] = "accepted"
        BY <1>11, <2>3
      <4> QED BY <1>11, <2>1, <2>2, <2>3, <3>1, <4>1
    <3>2. CASE y = p /\ x \in {m, n}
      BY <1>11, <2>1, <2>3, <3>2
    <3> QED BY <3>1, <3>2
  <2>4. \A y \in q.left \ {p} : answer'[n][y] # "none"
    BY <1>4, <1>5, <1>11, <1>a DEF AnswersKept
  <2>5. ASSUME NEW y \in Position \ (q.left \ {p}), q.found[n][y] = "accepted"
        PROVE  answer'[m][y] = "accepted"
    <3>1. CASE y = p
      BY <1>5, <1>6, <1>11, <2>1, <2>5, <3>1
    <3>2. CASE y # p
      BY <1>4, <1>5, <1>11, <1>a, <1>b, <2>5, <3>2 DEF AnswersKept
    <3> QED BY <3>1, <3>2
  <2>6. ASSUME NEW x \in q.all \cup {m}, NEW y \in Position, q.found[x][y] = "accepted"
        PROVE  \E z \in {x, m} : duplicated'[z] = {} /\ answer'[z][y] = "accepted"
    BY <1>7, <2>0, <2>3, <2>6
  <2>7. clerk'[c] = r
    BY <1>8
  <2> QED BY <1>9, <2>4, <2>5, <2>6, <2>7 DEF AnswersKept
<1>14. ASSUME PlacedInv PROVE Listed' /\ Placed(clerk[c])'
  <2>1. \A d \in Clerk : d = c
    BY DEF OneClerk
  <2>2. nominated[n] = {} /\ \A x \in q.all \ q.todo : nominated[x] = {}
    BY <1>3, <1>5, <1>14, <1>a DEF PlacedInv, Placed
  <2>3. \A x \in Nominee : \A y \in nominated[x] :
          NotDuplicated(x) /\ y \in Position /\ (answer[x][y] = "none" => x = m /\ y \in q.left)
    BY <1>2, <1>3, <1>14, <1>b, <2>1 DEF PlacedInv, Listed, TypeOK
  <2>4. \A x \in Nominee : \A y \in nominated[x] : answer'[x][y] = "none" => x = m /\ y \in q.left \ {p}
    BY <1>11, <2>2, <2>3
  <2>5. Listed'
    BY <1>7, <1>8, <1>9, <2>3, <2>4 DEF Listed, NotDuplicated
  <2> QED BY <1>7, <1>8, <1>9, <2>2, <2>5 DEF Placed
<1> QED BY <1>1, <1>12, <1>13, <1>14, OnlyClerk

LEMMA HideKeeps ==
  ASSUME KeptInv, OneClerk, Nominee # {}, NEW c \in Clerk, Hide(c)
  PROVE  KeptInv' /\ (PlacedInv => PlacedInv')
<1>1. NomInv'
  BY NomStep DEF KeptInv, NextOK, Step, OneClerk
<1>2. TypeOK /\ OnlyNominees
  BY DEF KeptInv, NomInv
<1>3. PICK q \in Local : q = clerk[c]
  BY <1>2 DEF TypeOK, Local
<1>4. Members(q) /\ AnswersKept(q) /\ Merging(q)
  BY <1>3 DEF KeptInv, NomInv
<1>5. /\ q.pc = "merge" /\ q.left = {} /\ q.at \in q.all /\ q.primary \notin q.all
      /\ q.at \in Nominee /\ q.primary \in Nominee /\ duplicated[q.primary] = {}
  BY <1>3, <1>4 DEF Hide, Merging, Local
<1>6. /\ UNCHANGED <<nominee, answer, nominated>> /\ duplicated' = [duplicated EXCEPT ![q.at] = {q.primary}]
      /\ clerk'[c] = [q EXCEPT !.pc = "next"]
  BY <1>2, <1>3 DEF Hide, GoesTo, TypeOK
<1>7. duplicated'[q.at] = {q.primary} /\ \A x \in Nominee \ {q.at} : duplicated'[x] = duplicated[x]
  BY <1>2, <1>5, <1>6 DEF TypeOK
<1>8. PICK r : r = clerk'[c]
  OBVIOUS
<1>9. /\ r.pc = "next" /\ r.primary = q.primary /\ r.all = q.all
      /\ r.todo = q.todo /\ r.found = q.found
  BY <1>3, <1>6, <1>8 DEF Local
<1>10. q.all \subseteq nominee /\ q.primary \in nominee
  BY <1>4, <1>5 DEF Members, Mergers
<1>11. OnlyNominees' /\ Members(clerk[c])'
  BY <1>2, <1>5, <1>6, <1>7, <1>8, <1>9, <1>10 DEF OnlyNominees, Members
<1>12. AnswersKept(clerk[c])'
  <2>1. ASSUME NEW x \in q.all \cup {q.primary}, NEW p \in Position, q.found[x][p] = "accepted"
        PROVE  (duplicated'[x] = {} /\ answer[x][p] = "accepted") \/ answer[q.primary][p] = "accepted"
    <3>1. (duplicated[x] = {} /\ answer[x][p] = "accepted") \/ answer[q.primary][p] = "accepted"
      BY <1>4, <1>5, <2>1 DEF AnswersKept, Mergers
    <3>2. x = q.at => answer[q.primary][p] = "accepted"
      BY <1>4, <1>5, <2>1 DEF AnswersKept
    <3> QED BY <1>2, <1>5, <1>7, <1>10, <3>1, <3>2 DEF TypeOK
  <2>2. duplicated'[q.primary] = {}
    BY <1>5, <1>7
  <2> QED BY <1>6, <1>8, <1>9, <2>1, <2>2 DEF AnswersKept
<1>13. ASSUME PlacedInv PROVE Listed' /\ Placed(clerk[c])'
  <2>1. \A d \in Clerk : d = c
    BY DEF OneClerk
  <2>2. nominated[q.at] = {} /\ \A x \in q.all \ q.todo : nominated[x] = {}
    BY <1>3, <1>5, <1>13 DEF PlacedInv, Placed
  <2>3. \A x \in Nominee : \A p \in nominated[x] : NotDuplicated(x) /\ answer[x][p] # "none"
    BY <1>3, <1>5, <1>13, <2>1 DEF PlacedInv, Listed
  <2>4. Listed'
    BY <1>6, <1>7, <2>2, <2>3 DEF Listed, NotDuplicated
  <2> QED BY <1>6, <1>8, <1>9, <2>2, <2>4 DEF Placed
<1> QED BY <1>1, <1>11, <1>12, <1>13, OnlyClerk

LEMMA FinishKeeps ==
  ASSUME KeptInv, OneClerk, Nominee # {}, NEW c \in Clerk, Finish(c)
  PROVE  KeptInv' /\ (PlacedInv => PlacedInv')
<1>1. NomInv'
  BY NomStep DEF KeptInv, NextOK, Step, OneClerk
<1>2. TypeOK /\ OnlyNominees
  BY DEF KeptInv, NomInv
<1>3. PICK q \in Local : q = clerk[c]
  BY <1>2 DEF TypeOK, Local
<1>4. Members(q) /\ Merging(q)
  BY <1>3 DEF KeptInv, NomInv
<1>5. /\ q.pc = "next" /\ q.todo = {} /\ UNCHANGED <<nominee, answer, nominated>>
      /\ duplicated' = [n \in Nominee |-> IF n \in q.all THEN {q.primary} ELSE duplicated[n]]
      /\ clerk'[c] = Resting
  BY <1>2, <1>3 DEF Finish, TypeOK
<1>6. OnlyNominees'
  BY <1>2, <1>4, <1>5 DEF OnlyNominees, Members, Mergers
<1>7. Members(clerk[c])' /\ AnswersKept(clerk[c])'
  BY <1>5 DEF Members, AnswersKept, Mergers, Resting
<1>8. ASSUME PlacedInv PROVE Listed' /\ Placed(clerk[c])'
  <2>1. \A d \in Clerk : d = c
    BY DEF OneClerk
  <2>2. \A x \in q.all : nominated[x] = {}
    BY <1>3, <1>5, <1>8 DEF PlacedInv, Placed
  <2>3. \A x \in Nominee : \A p \in nominated[x] : NotDuplicated(x) /\ answer[x][p] # "none"
    BY <1>3, <1>5, <1>8, <2>1 DEF PlacedInv, Listed
  <2>4. Listed'
    BY <1>5, <2>2, <2>3 DEF Listed, NotDuplicated
  <2>5. Placed(clerk[c])'
    BY <1>5 DEF Placed, Resting
  <2> QED BY <2>4, <2>5
<1> QED BY <1>1, <1>6, <1>7, <1>8, OnlyClerk

\* Requests that do not overlap, and answers while none is served
LEMMA KeptStep ==
  ASSUME KeptInv, OneClerk, Nominee # {}, (Idle /\ Reaction) \/ \E c \in Clerk : Start(c) \/ Step(c)
  PROVE  KeptInv' /\ (PlacedInv => PlacedInv')
BY ReactionKeeps, NominateKeeps, StoreKeeps, MergeKeeps, TakeKeeps, MoveKeeps, MergePositionKeeps,
   HideKeeps, FinishKeeps DEF Start, Step

\* A request that dies hides no acceptance, but may leave nominations behind.
LEMMA DeathKeeps ==
  ASSUME KeptInv, OneClerk, Nominee # {}, Abort PROVE KeptInv'
<1>1. NomInv'
  BY NomStep DEF KeptInv, OneClerk
<1>2. PICK c \in Clerk : clerk' = [clerk EXCEPT ![c] = Resting] /\ UNCHANGED <<nominee, duplicated>>
  BY DEF Abort, Killed, nomRow
<1>3. clerk'[c] = Resting /\ \A d \in Clerk : d = c
  BY <1>2 DEF KeptInv, NomInv, TypeOK, OneClerk
<1> QED BY <1>1, <1>2, <1>3 DEF KeptInv, OnlyNominees, Members, AnswersKept, Mergers, Resting

LEMMA KeptShows == ASSUME KeptInv PROVE AcceptanceSurvives
BY DEF KeptInv, AnswersKept, Mergers, AcceptanceSurvives

LEMMA PlacedShows == ASSUME PlacedInv PROVE NominationsAreListed
BY DEF PlacedInv, Listed, NominationsAreListed, Idle

\* nomcom: the variables keep to their types.
THEOREM TypeCorrect ==
  ASSUME Nominee # {}, \A c, d \in Clerk : c = d
  PROVE  Spec => []TypeOK
<1>1. Init => NomInv
  BY NomInit
<1>2. NomInv /\ [NextOK \/ Abort]_nomVars => NomInv'
  BY NomStep
<1>3. NomInv => TypeOK
  BY DEF NomInv
<1> QED
  BY <1>1, <1>2, <1>3, PTL DEF Spec

\* get_or_create_nominee and MergeForm: whichever nominees are merged, and
\* wherever a merge dies, following duplicates ends at a nominee on the list, as
\* long as no two merges overlap.
THEOREM FollowingDuplicatesEnds ==
  ASSUME Nominee # {}, \A c, d \in Clerk : c = d
  PROVE  Spec => []DuplicatesEnd
<1>1. Init => NomInv
  BY NomInit
<1>2. NomInv /\ [NextOK \/ Abort]_nomVars => NomInv'
  BY NomStep
<1>3. NomInv => DuplicatesEnd
  BY DEF NomInv
<1> QED
  BY <1>1, <1>2, <1>3, PTL DEF Spec
=============================================================================
