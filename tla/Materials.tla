----------------------------- MODULE Materials -----------------------------
(***************************************************************************)
(* The slides of a group at a meeting: the material pages of               *)
(* secr/proceedings.  A request reads what it needs first and then writes  *)
(* rows, file, state and relation one after the other; several chairs use  *)
(* the pages.  The agenda and the minutes, one document each, and the      *)
(* proceedings page, built again from the rows, are left out.              *)
(***************************************************************************)
EXTENDS Ascending

CONSTANTS Chair, MaxSlides

Slide == 0..(MaxSlides - 1)   \* the number that ends a slide's name

VARIABLES
  order,       \* order[n] of the Document, 0: there is none
  state,       \* state[n], "none" until it is set
  file,        \* slides whose file is on the disk
  related,     \* the materials of the group's sessions, deleted ones included
  chair,       \* chair[c]: program counter, slide, orders still to save
  uploads,     \* ghost: uploads[n] is how many uploads wrote the file of n
  harm         \* ghost: what requests that overlap or die may have spoilt

materialVars == <<order, state, file, related, chair, uploads, harm>>

Resting == [pc |-> "idle", slide |-> 0, todo |-> << >>]
Saving  == [slide : Slide, order : 1..(2 * MaxSlides + 1)]

TypeOK ==
  /\ order \in [Slide -> 0..(2 * MaxSlides + 1)]
  /\ state \in [Slide -> {"none", "active", "deleted"}]
  /\ file \subseteq Slide /\ related \subseteq Slide
  /\ \A c \in Chair :
       /\ chair[c].pc \in {"idle", "save", "file", "state", "relate", "hide", "orders"}
       /\ chair[c].slide \in Slide /\ chair[c].todo \in Seq(Saving)
  /\ uploads \in [Slide -> Nat]
  /\ harm \subseteq {"orders", "numbers", "files"}

Init ==
  /\ order = [n \in Slide |-> 0] /\ state = [n \in Slide |-> "none"]
  /\ file = {} /\ related = {}
  /\ chair = [c \in Chair |-> Resting]
  /\ uploads = [n \in Slide |-> 0] /\ harm = {}

Live == {n \in related : state[n] # "deleted"}

\* The slides that are shown, in their order; equal orders come in any order.
Listings ==
  {s \in [1..Cardinality(Live) -> Live] :
     \A i, j \in DOMAIN s : i < j => s[i] # s[j] /\ order[s[i]] <= order[s[j]]}

Highest(S) == CHOOSE k \in S : \A l \in S : l <= k

(***************************************************************************)
(* Requests                                                                *)
(***************************************************************************)
\* Mutant: the number of a deleted slide is free again
FreeNumber == IF Live = {} THEN 0 ELSE Highest(Live) + 1

\* get_next_slide_num looks at every document, deleted or not.
NextNumber ==
  LET made == {n \in Slide : order[n] > 0}
  IN IF made = {} THEN 0 ELSE Highest(made) + 1

\* Mutant: slides are counted
CountedOrders == {Cardinality(Live) + 1}

\* get_next_order_num looks at everything related; the agenda has order 1.
NextOrders ==
  IF related = {} THEN {1, 2} ELSE {Highest({order[n] : n \in related}) + 1}

Others(c) == {d \in Chair \ {c} : chair[d].pc # "idle"}

\* Request c starts with slide n; its overlap with others is remembered.
Enter(c, pc, n, todo) ==
  /\ chair[c].pc = "idle"
  /\ chair' = [chair EXCEPT ![c] = [pc |-> pc, slide |-> n, todo |-> todo]]
  /\ harm' = harm
       \cup {h \in {"orders"} : pc # "hide" /\ \E d \in Others(c) : chair[d].pc # "hide"}
       \cup {h \in {"numbers"} : pc = "save" /\ \E d \in Others(c) : chair[d].pc = "save"
                                                                /\ chair[d].slide = n}

\* upload_unified
Upload(c) ==
  /\ NextNumber \in Slide
  /\ \E o \in NextOrders :
       Enter(c, "save", NextNumber, <<[slide |-> NextNumber, order |-> o]>>)
  /\ UNCHANGED <<order, state, file, related, uploads>>

\* delete_material removes the file first.
Delete(c, n) ==
  /\ n \in related
  /\ file' = file \ {n} /\ Enter(c, "hide", n, << >>)
  /\ UNCHANGED <<order, state, related, uploads>>

\* replace_slide writes the file and saves the row as it was read, on any
\* slide that is still related.
Replace(c, n) ==
  /\ n \in related
  /\ file' = file \cup {n}
  /\ Enter(c, "orders", n, <<[slide |-> n, order |-> order[n]]>>)
  /\ UNCHANGED <<order, state, related, uploads>>

\* move_slide: a slide and the one before or after it exchange their orders.
Move(c) ==
  /\ \E s \in Listings : \E i, j \in DOMAIN s :
       /\ j \in {i - 1, i + 1}
       /\ Enter(c, "orders", s[i], <<[slide |-> s[i], order |-> order[s[j]]],
                                     [slide |-> s[j], order |-> order[s[i]]]>>)
  /\ UNCHANGED <<order, state, file, related, uploads>>

\* ajax_order_slide: the slide is put at a place, the orders become 1, 2, ...
Reorder(c) ==
  /\ \E s \in Listings : \E i, place \in DOMAIN s :
       LET rest == SubSeq(s, 1, i - 1) \o SubSeq(s, i + 1, Len(s))
           list == SubSeq(rest, 1, place - 1) \o <<s[i]>> \o SubSeq(rest, place, Len(rest))
           new  == Ascending({k \in DOMAIN list : order[list[k]] # k})
           todo == [j \in DOMAIN new |-> [slide |-> list[new[j]], order |-> new[j]]]
       IN todo # << >> /\ Enter(c, "orders", s[i], todo)
  /\ UNCHANGED <<order, state, file, related, uploads>>

Start(c) ==
  \/ Upload(c) \/ Move(c) \/ Reorder(c)
  \/ \E n \in Slide : Delete(c, n) \/ Replace(c, n)

(***************************************************************************)
(* Steps                                                                   *)
(***************************************************************************)
Goto(c, pc) == chair' = [chair EXCEPT ![c] = IF pc = "idle" THEN Resting
                                             ELSE [@ EXCEPT !.pc = pc, !.todo = << >>]]
At(c, pc) == chair[c].pc = pc

\* Mutant: the sessions are given the slide with its row
SaveRelated(c) ==
  /\ At(c, "save") /\ Goto(c, "file")
  /\ LET x == Head(chair[c].todo) IN order' = [order EXCEPT ![x.slide] = x.order]
  /\ related' = related \cup {chair[c].slide}
  /\ UNCHANGED <<state, file, uploads, harm>>

\* get_or_create and save, in one step (in between the row exists, without its
\* order and shown nowhere): the document may be another upload's.
Save(c) ==
  /\ At(c, "save") /\ Goto(c, "file")
  /\ LET x == Head(chair[c].todo) IN order' = [order EXCEPT ![x.slide] = x.order]
  /\ UNCHANGED <<state, file, related, uploads, harm>>

WriteFile(c) ==
  /\ At(c, "file") /\ Goto(c, "state")
  /\ file' = file \cup {chair[c].slide}
  /\ uploads' = [uploads EXCEPT ![chair[c].slide] = @ + 1]
  /\ UNCHANGED <<order, state, related, harm>>

Activate(c) ==
  /\ At(c, "state") /\ Goto(c, "relate")
  /\ state' = [state EXCEPT ![chair[c].slide] = "active"]
  /\ UNCHANGED <<order, file, related, uploads, harm>>

Relate(c) ==
  /\ At(c, "relate") /\ Goto(c, "idle")
  /\ related' = related \cup {chair[c].slide}
  /\ UNCHANGED <<order, state, file, uploads, harm>>

Hide(c) ==
  /\ At(c, "hide") /\ Goto(c, "idle")
  /\ state' = [state EXCEPT ![chair[c].slide] = "deleted"]
  /\ UNCHANGED <<order, file, related, uploads, harm>>

\* One save of a row, as it was read.
SaveOrder(c) ==
  /\ At(c, "orders")
  /\ LET x == Head(chair[c].todo)  more == Tail(chair[c].todo)
     IN /\ order' = [order EXCEPT ![x.slide] = x.order]
        /\ chair' = [chair EXCEPT ![c] = IF more = << >> THEN Resting ELSE [@ EXCEPT !.todo = more]]
  /\ UNCHANGED <<state, file, related, uploads, harm>>

Step(c) ==
  \/ Save(c) \/ WriteFile(c) \/ Activate(c) \/ Relate(c) \/ Hide(c) \/ SaveOrder(c)

\* A request dies.
Abort(c) ==
  /\ chair[c].pc # "idle"
  /\ chair' = [chair EXCEPT ![c] = Resting]
  /\ harm' = harm \cup {h \in {"orders"} : At(c, "orders")} \cup {h \in {"files"} : At(c, "hide")}
  /\ UNCHANGED <<order, state, file, related, uploads>>

Next == \E c \in Chair : Start(c) \/ Step(c) \/ Abort(c)

Spec == Init /\ [][Next]_materialVars

(***************************************************************************)
(* Properties                                                              *)
(***************************************************************************)
\* move_slide, ajax_order_slide, get_next_order_num: the slides that are
\* shown are strictly ordered, so that a slide can always be moved past its
\* neighbour, whatever was deleted before; unless requests that write orders
\* overlapped or one of them died.
StrictlyOrdered ==
  (\A c \in Chair : At(c, "idle")) /\ "orders" \notin harm =>
    \A n, k \in Live : n # k => order[n] # order[k]

\* upload_unified, delete_material: the file of a slide that is shown is
\* there, however requests overlap and wherever an upload dies; unless the
\* slide is being deleted, a deletion died or two uploads took one number.
ShownHasFile ==
  harm \cap {"files", "numbers"} = {} =>
    \A n \in Live \ file : \E c \in Chair : At(c, "hide") /\ chair[c].slide = n

\* get_next_slide_num: "in the case of slides the name will always be
\* unique": no upload writes over the file of another one, deleted or not,
\* unless two took the same number at the same time.
NamesAreUnique == "numbers" \notin harm => \A n \in Slide : uploads[n] <= 1
=============================================================================
