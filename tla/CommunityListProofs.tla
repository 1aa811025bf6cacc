------------------------ MODULE CommunityListProofs ------------------------
(***************************************************************************)
(* The page that is kept for a list shows what is on it, for any number of *)
(* documents and of overlapping requests that may die anywhere, unless it  *)
(* was rendered while the list was changed.                                *)
(***************************************************************************)
EXTENDS CommunityList, TLAPS

PC == {"idle"} \cup Changing \cup Viewing

\* A rule that is not there finds nothing.
NoIds == ~rule.made => rule.ids = {}

\* As long as nothing is spoilt, nobody renders while the list is changed,
Apart == spoilt \/ ~Busy(Viewing) \/ ~Busy(Changing)

\* what was rendered is what is on the list,
RenderedIsCurrent == spoilt \/ \A v \in Visitor : At(v, "keep") => visitor[v].docs = Documents

\* a page that is older than the list is about to be cleared,
OldIsCleared ==
  spoilt \/ (page.made => page.docs = Documents \/ Busy({"clear", "reclear"}))

\* and a handler that has cleared the page before its change finds none.
NoneYet == spoilt \/ ~Busy({"add", "forget"}) \/ ~page.made

ListInv == TypeOK /\ NoIds /\ Apart /\ RenderedIsCurrent /\ OldIsCleared /\ NoneYet

\* One visitor goes on, the others stay where they are.
LEMMA Goes ==
  ASSUME TypeOK, NEW v \in Visitor, NEW pc \in PC, NEW docs \in SUBSET Tracked, Goto(v, pc, docs)
  PROVE  /\ visitor' \in [Visitor -> [pc : PC, docs : SUBSET Tracked]]
         /\ visitor'[v] = [pc |-> pc, docs |-> docs]
         /\ \A w \in Visitor \ {v} : visitor'[w] = visitor[w]
BY DEF TypeOK, Goto, PC

\* Who is busy after that
LEMMA BusyGoes ==
  ASSUME TypeOK, NEW v \in Visitor, NEW pc \in PC, NEW docs \in SUBSET Tracked, Goto(v, pc, docs),
         NEW S
  PROVE  /\ Busy(S)' => pc \in S \/ Busy(S)
         /\ Busy(S) => Busy(S)' \/ visitor[v].pc \in S
         /\ pc \in S => Busy(S)'
<1>1. visitor'[v] = [pc |-> pc, docs |-> docs]
  BY Goes
<1>2. \A w \in Visitor \ {v} : visitor'[w] = visitor[w]
  BY Goes
<1>3. visitor'[v].pc = pc
  BY <1>1
<1> QED BY <1>2, <1>3 DEF Busy

\* Who has a rendered page in hand after that
LEMMA KeepGoes ==
  ASSUME TypeOK, NEW v \in Visitor, NEW pc \in PC, NEW docs \in SUBSET Tracked, Goto(v, pc, docs),
         NEW w \in Visitor, At(w, "keep")'
  PROVE  IF w = v THEN pc = "keep" /\ visitor'[w].docs = docs
                  ELSE At(w, "keep") /\ visitor'[w].docs = visitor[w].docs
<1>1. visitor'[v] = [pc |-> pc, docs |-> docs]
  BY Goes
<1>2. w # v => visitor'[w] = visitor[w]
  BY Goes
<1> QED BY <1>1, <1>2 DEF At

LEMMA NoneKeeps ==
  ASSUME ~Busy(Viewing), NEW w \in Visitor PROVE ~At(w, "keep")
BY DEF Busy, Viewing, At

\* A request that clears the page leaves none, and spoils nothing where nobody
\* renders: what it changes before or after does not matter.
LEMMA Clears ==
  ASSUME ListInv, NEW v \in Visitor, NEW pc \in PC \ Viewing, NEW docs \in SUBSET Tracked,
         Goto(v, pc, docs), Clear(v)
  PROVE  Apart' /\ RenderedIsCurrent' /\ OldIsCleared' /\ NoneYet'
<1>1. TypeOK /\ page' = NoPage /\ spoilt' = Busy(Viewing)
  BY DEF ListInv, Clear
<1>2. spoilt' \/ ~Busy(Viewing)'
  BY <1>1, BusyGoes
<1>3. \A w \in Visitor : visitor'[w].pc = "keep" => Busy(Viewing)'
  BY DEF Busy, Viewing
<1> QED
  BY <1>1, <1>2, <1>3 DEF Apart, RenderedIsCurrent, OldIsCleared, NoneYet, NoPage, At

\* A request that goes on without touching the page or the documents.
LEMMA GoesOn ==
  ASSUME ListInv, NEW v \in Visitor, NEW pc \in PC, NEW docs \in SUBSET Tracked,
         Goto(v, pc, docs), UNCHANGED page, Documents' = Documents, spoilt' \in BOOLEAN,
         ~spoilt' => /\ ~spoilt
                     /\ pc \notin {"keep", "add", "forget"}
                     /\ visitor[v].pc \notin {"clear", "reclear"}
                     /\ pc \in Viewing => ~Busy(Changing) \/ visitor[v].pc \in Viewing
                     /\ pc \in Changing => ~Busy(Viewing) \/ visitor[v].pc \in Changing
  PROVE  Apart' /\ RenderedIsCurrent' /\ OldIsCleared' /\ NoneYet'
<1> SUFFICES ASSUME ~spoilt' PROVE Apart' /\ RenderedIsCurrent' /\ OldIsCleared' /\ NoneYet'
  BY DEF Apart, RenderedIsCurrent, OldIsCleared, NoneYet
<1>1. TypeOK /\ ~spoilt
  BY DEF ListInv
<1>2. Apart'
  <2>1. visitor[v].pc \in Viewing => Busy(Viewing)
    BY DEF Busy
  <2>2. visitor[v].pc \in Changing => Busy(Changing)
    BY DEF Busy
  <2>3. Viewing \cap Changing = {}
    BY DEF Viewing, Changing
  <2> QED BY <1>1, <2>1, <2>2, <2>3, BusyGoes DEF ListInv, Apart
<1>3. RenderedIsCurrent'
  BY <1>1, KeepGoes DEF ListInv, RenderedIsCurrent
<1>4. OldIsCleared'
  BY <1>1, BusyGoes DEF ListInv, OldIsCleared
<1>5. NoneYet'
  BY <1>1, BusyGoes DEF ListInv, NoneYet
<1> QED BY <1>2, <1>3, <1>4, <1>5

\* Initially nothing is rendered.
LEMMA ListInit == Init => ListInv
<1> SUFFICES ASSUME Init PROVE ListInv
  OBVIOUS
<1>1. TypeOK /\ NoIds
  BY DEF Init, TypeOK, NoIds, NoRule, NoPage, Pages, Idle
<1>2. \A v \in Visitor : visitor[v].pc = "idle"
  BY DEF Init, Idle
<1>3. ~Busy(Viewing) /\ ~Busy({"add", "forget"})
  BY <1>2 DEF Busy, Viewing
<1>4. ~page.made
  BY DEF Init, NoPage
<1> QED
  BY <1>1, <1>2, <1>3, <1>4 DEF ListInv, Apart, RenderedIsCurrent, OldIsCleared, NoneYet, At

LEMMA ListStep == ListInv /\ [Next]_listVars => ListInv'
<1> SUFFICES ASSUME ListInv, [Next]_listVars PROVE ListInv'
  OBVIOUS
<1>t. TypeOK
  BY DEF ListInv
<1>a. ASSUME NEW v \in Visitor, NEW d \in Tracked, Track(v, d) PROVE ListInv'
  <2>1. Goto(v, "add", {d}) /\ Clear(v) /\ UNCHANGED <<matches, tracked, rule>>
    BY <1>a DEF Track
  <2>2. "add" \in PC \ Viewing /\ {d} \in SUBSET Tracked
    BY DEF PC, Changing, Viewing
  <2>3. Apart' /\ RenderedIsCurrent' /\ OldIsCleared' /\ NoneYet'
    BY <2>1, <2>2, Clears
  <2>4. TypeOK' /\ NoIds'
    BY <1>t, <2>1, <2>2, Goes DEF ListInv, TypeOK, NoIds, PC, Clear, NoPage, Pages, Busy
  <2> QED BY <2>3, <2>4 DEF ListInv
<1>b. ASSUME NEW v \in Visitor, Add(v) PROVE ListInv'
  <2>1. /\ visitor[v].pc = "add" /\ Goto(v, "idle", {})
        /\ tracked' = tracked \cup visitor[v].docs
        /\ UNCHANGED <<matches, rule, page, spoilt>>
    BY <1>b DEF Add, At
  <2>2. "idle" \in PC /\ {} \in SUBSET Tracked
    BY DEF PC
  <2>3. TypeOK' /\ NoIds'
    BY <1>t, <2>1, <2>2, Goes DEF ListInv, TypeOK, NoIds, PC
  <2>4. Busy({"add", "forget"}) /\ Busy(Changing)
    BY <2>1 DEF Busy, Changing
  <2>5. Apart' /\ NoneYet'
    BY <1>t, <2>1, <2>2, <2>4, BusyGoes DEF ListInv, Apart, NoneYet, Viewing, Changing
  <2>6. spoilt \/ (~page.made /\ ~Busy(Viewing))
    BY <2>4 DEF ListInv, Apart, NoneYet
  <2>7. RenderedIsCurrent'
    BY <1>t, <2>1, <2>2, <2>6, KeepGoes, NoneKeeps DEF RenderedIsCurrent
  <2>8. OldIsCleared'
    BY <2>1, <2>6 DEF OldIsCleared
  <2> QED BY <2>3, <2>5, <2>7, <2>8 DEF ListInv
<1>c. ASSUME NEW v \in Visitor, NEW d \in Tracked, Untrack(v, d) PROVE ListInv'
  <2>1. /\ visitor[v].pc = "idle" /\ Goto(v, "clear", {})
        /\ spoilt' = (spoilt \/ Busy(Viewing)) /\ tracked' = tracked \ {d}
        /\ UNCHANGED <<matches, rule, page>>
    BY <1>c DEF Untrack, Change, At
  <2>2. "clear" \in PC /\ {} \in SUBSET Tracked
    BY DEF PC, Changing
  <2>3. TypeOK' /\ NoIds'
    BY <1>t, <2>1, <2>2, Goes DEF ListInv, TypeOK, NoIds, PC, Busy
  <2>4. spoilt' \/ (~spoilt /\ ~Busy(Viewing))
    BY <2>1
  <2>5. Apart'
    <3>1. Busy(Viewing)' => Busy(Viewing)
      BY <1>t, <2>1, <2>2, BusyGoes DEF Viewing
    <3> QED BY <2>4, <3>1 DEF Apart
  <2>6. NoneYet'
    <3>1. Busy({"add", "forget"})' => Busy({"add", "forget"})
      BY <1>t, <2>1, <2>2, BusyGoes
    <3> QED BY <2>1, <2>4, <3>1 DEF ListInv, NoneYet
  <2>7. OldIsCleared'
    BY <1>t, <2>1, <2>2, BusyGoes DEF OldIsCleared
  <2>8. RenderedIsCurrent'
    <3>1. \A w \in Visitor : At(w, "keep")' => Busy(Viewing)
      BY <1>t, <2>1, <2>2, KeepGoes, NoneKeeps
    <3> QED BY <2>4, <3>1 DEF RenderedIsCurrent
  <2> QED BY <2>3, <2>5, <2>6, <2>7, <2>8 DEF ListInv
<1>d. ASSUME NEW v \in Visitor, AddRule(v) PROVE ListInv'
  <2>1. /\ visitor[v].pc = "idle" /\ Goto(v, "ids", {})
        /\ spoilt' = (spoilt \/ Busy(Viewing))
        /\ ~rule.made /\ rule' = [made |-> TRUE, ids |-> {}]
        /\ UNCHANGED <<matches, tracked, page>>
    BY <1>d DEF AddRule, Change, At, NoRule
  <2>2. "ids" \in PC /\ {} \in SUBSET Tracked
    BY DEF PC, Changing
  <2>3. TypeOK' /\ NoIds'
    BY <1>t, <2>1, <2>2, Goes DEF ListInv, TypeOK, NoIds, PC, Busy
  <2>4. Documents' = Documents /\ spoilt' \in BOOLEAN
    BY <1>t, <2>1 DEF ListInv, NoIds, Documents, TypeOK, Busy
  <2>5. Apart' /\ RenderedIsCurrent' /\ OldIsCleared' /\ NoneYet'
    BY <1>t, <2>1, <2>2, <2>4, GoesOn DEF Viewing, Changing
  <2> QED BY <2>3, <2>5 DEF ListInv
<1>e. ASSUME NEW v \in Visitor, FindIds(v) PROVE ListInv'
  <2>0. UNCHANGED <<matches, tracked, page, spoilt>> /\ visitor[v].pc \in {"ids", "refind"}
    BY <1>e DEF FindIds
  <2>1. CASE ~rule.made
    <3>1. Goto(v, "idle", {}) /\ UNCHANGED rule
      BY <2>1, <1>e DEF FindIds
    <3>2. "idle" \in PC /\ {} \in SUBSET Tracked
      BY DEF PC
    <3>3. TypeOK' /\ NoIds'
      BY <1>t, <2>0, <3>1, <3>2, Goes DEF ListInv, TypeOK, NoIds, PC
    <3>4. Documents' = Documents /\ spoilt' \in BOOLEAN
      BY <1>t, <2>0, <3>1 DEF Documents, TypeOK
    <3>5. Apart' /\ RenderedIsCurrent' /\ OldIsCleared' /\ NoneYet'
      BY <1>t, <2>0, <3>1, <3>2, <3>4, GoesOn DEF Viewing, Changing
    <3> QED BY <3>3, <3>5 DEF ListInv
  <2>2. CASE rule.made
    <3>1. PICK pc \in {"clear", "reclear"} : Goto(v, pc, {})
      BY <2>2, <1>e DEF FindIds
    <3>2. pc \in PC /\ {} \in SUBSET Tracked
      BY DEF PC, Changing
    <3>3. rule' = [rule EXCEPT !.ids = matches]
      BY <2>2, <1>e DEF FindIds
    <3>4. TypeOK' /\ NoIds'
      BY <1>t, <2>0, <2>2, <3>1, <3>2, <3>3, Goes DEF ListInv, TypeOK, NoIds, PC
    <3>5. Busy(Changing)
      BY <2>0 DEF Busy, Changing
    <3>6. Apart' /\ NoneYet'
      BY <1>t, <2>0, <3>1, <3>2, <3>5, BusyGoes DEF ListInv, Apart, NoneYet, Viewing
    <3>7. OldIsCleared'
      BY <1>t, <3>1, <3>2, BusyGoes DEF OldIsCleared
    <3>8. RenderedIsCurrent'
      BY <1>t, <2>0, <3>1, <3>2, <3>5, KeepGoes, NoneKeeps DEF ListInv, Apart, RenderedIsCurrent
    <3> QED BY <3>4, <3>6, <3>7, <3>8 DEF ListInv
  <2> QED BY <2>1, <2>2
<1>f. ASSUME NEW v \in Visitor, Update(v) PROVE ListInv'
  <2>1. PICK pc \in {"idle", "sweep"} : Goto(v, pc, {})
    BY <1>f DEF Update
  <2>2. Clear(v) /\ UNCHANGED <<matches, tracked, rule>>
    BY <1>f DEF Update
  <2>3. pc \in PC \ Viewing /\ {} \in SUBSET Tracked
    BY DEF PC, Changing, Viewing
  <2>4. Apart' /\ RenderedIsCurrent' /\ OldIsCleared' /\ NoneYet'
    BY <2>1, <2>2, <2>3, Clears
  <2>5. TypeOK' /\ NoIds'
    BY <1>t, <2>1, <2>2, <2>3, Goes DEF ListInv, TypeOK, NoIds, PC, Clear, NoPage, Pages, Busy
  <2> QED BY <2>4, <2>5 DEF ListInv
<1>g. ASSUME NEW v \in Visitor, RemoveRule(v) PROVE ListInv'
  <2>1. Goto(v, "forget", {}) /\ Clear(v) /\ UNCHANGED <<matches, tracked, rule>>
    BY <1>g DEF RemoveRule
  <2>2. "forget" \in PC \ Viewing /\ {} \in SUBSET Tracked
    BY DEF PC, Changing, Viewing
  <2>3. Apart' /\ RenderedIsCurrent' /\ OldIsCleared' /\ NoneYet'
    BY <2>1, <2>2, Clears
  <2>4. TypeOK' /\ NoIds'
    BY <1>t, <2>1, <2>2, Goes DEF ListInv, TypeOK, NoIds, PC, Clear, NoPage, Pages, Busy
  <2> QED BY <2>3, <2>4 DEF ListInv
<1>h. ASSUME NEW v \in Visitor, Forget(v) PROVE ListInv'
  <2>1. /\ visitor[v].pc = "forget" /\ Goto(v, "idle", {})
        /\ rule' = [made |-> FALSE, ids |-> {}]
        /\ UNCHANGED <<matches, tracked, page, spoilt>>
    BY <1>h DEF Forget, At, NoRule
  <2>2. "idle" \in PC /\ {} \in SUBSET Tracked
    BY DEF PC
  <2>3. TypeOK' /\ NoIds'
    BY <1>t, <2>1, <2>2, Goes DEF ListInv, TypeOK, NoIds, PC
  <2>4. Busy({"add", "forget"}) /\ Busy(Changing)
    BY <2>1 DEF Busy, Changing
  <2>5. Apart' /\ NoneYet'
    BY <1>t, <2>1, <2>2, <2>4, BusyGoes DEF ListInv, Apart, NoneYet, Viewing, Changing
  <2>6. spoilt \/ (~page.made /\ ~Busy(Viewing))
    BY <2>4 DEF ListInv, Apart, NoneYet
  <2>7. RenderedIsCurrent'
    BY <1>t, <2>1, <2>2, <2>6, KeepGoes, NoneKeeps DEF RenderedIsCurrent
  <2>8. OldIsCleared'
    BY <2>1, <2>6 DEF OldIsCleared
  <2> QED BY <2>3, <2>5, <2>7, <2>8 DEF ListInv
<1>i. ASSUME NEW v \in Visitor, Look(v) PROVE ListInv'
  <2>1. visitor[v].pc = "idle" /\ Clear(v) /\ UNCHANGED <<matches, tracked, rule, visitor>>
    BY <1>i DEF Look, At
  <2>2. TypeOK' /\ NoIds'
    BY <1>t, <2>1 DEF ListInv, TypeOK, NoIds, Clear, NoPage, Pages, Busy
  <2>3. Apart' /\ RenderedIsCurrent' /\ OldIsCleared' /\ NoneYet'
    BY <2>1 DEF Apart, RenderedIsCurrent, OldIsCleared, NoneYet, Clear, NoPage, Busy, Viewing, At
  <2> QED BY <2>2, <2>3 DEF ListInv
<1>j. ASSUME NEW v \in Visitor, UpdateLists(v) PROVE ListInv'
  <2>1. PICK pc \in {"resave", "sweep"} : Change(v, pc)
    BY <1>j DEF UpdateLists
  <2>2. /\ visitor[v].pc = "idle" /\ Goto(v, pc, {})
        /\ spoilt' = (spoilt \/ Busy(Viewing)) /\ UNCHANGED <<matches, tracked, rule, page>>
    BY <1>j, <2>1 DEF UpdateLists, Change, At
  <2>3. pc \in PC /\ {} \in SUBSET Tracked
    BY DEF PC, Changing
  <2>4. TypeOK' /\ NoIds'
    BY <1>t, <2>2, <2>3, Goes DEF ListInv, TypeOK, NoIds, PC, Busy
  <2>5. Documents' = Documents /\ spoilt' \in BOOLEAN
    BY <1>t, <2>2 DEF Documents, TypeOK, Busy
  <2>6. Apart' /\ RenderedIsCurrent' /\ OldIsCleared' /\ NoneYet'
    BY <1>t, <2>2, <2>3, <2>5, GoesOn DEF Viewing, Changing
  <2> QED BY <2>4, <2>6 DEF ListInv
<1>k. ASSUME NEW v \in Visitor, Resave(v) PROVE ListInv'
  <2>1. /\ visitor[v].pc = "resave" /\ Goto(v, "refind", {})
        /\ rule' = [rule EXCEPT !.made = TRUE]
        /\ UNCHANGED <<matches, tracked, page, spoilt>>
    BY <1>k DEF Resave, At
  <2>2. "refind" \in PC /\ {} \in SUBSET Tracked
    BY DEF PC, Changing
  <2>3. TypeOK' /\ NoIds'
    BY <1>t, <2>1, <2>2, Goes DEF ListInv, TypeOK, NoIds, PC
  <2>4. Documents' = Documents /\ spoilt' \in BOOLEAN
    BY <1>t, <2>1 DEF Documents, TypeOK
  <2>5. Apart' /\ RenderedIsCurrent' /\ OldIsCleared' /\ NoneYet'
    BY <1>t, <2>1, <2>2, <2>4, GoesOn DEF Viewing, Changing
  <2> QED BY <2>3, <2>5 DEF ListInv
<1>l. ASSUME NEW v \in Visitor, Sweep(v) PROVE ListInv'
  <2>1. Goto(v, "idle", {}) /\ Clear(v) /\ UNCHANGED <<matches, tracked, rule>>
    BY <1>l DEF Sweep
  <2>2. "idle" \in PC \ Viewing /\ {} \in SUBSET Tracked
    BY DEF PC, Viewing
  <2>3. Apart' /\ RenderedIsCurrent' /\ OldIsCleared' /\ NoneYet'
    BY <2>1, <2>2, Clears
  <2>4. TypeOK' /\ NoIds'
    BY <1>t, <2>1, <2>2, Goes DEF ListInv, TypeOK, NoIds, PC, Clear, NoPage, Pages, Busy
  <2> QED BY <2>3, <2>4 DEF ListInv
<1>m. ASSUME NEW v \in Visitor, View(v) PROVE ListInv'
  <2>1. /\ visitor[v].pc = "idle" /\ Goto(v, "render", {})
        /\ spoilt' = (spoilt \/ Busy(Changing)) /\ UNCHANGED <<matches, tracked, rule, page>>
    BY <1>m DEF View, At
  <2>2. "render" \in PC /\ {} \in SUBSET Tracked
    BY DEF PC, Viewing
  <2>3. TypeOK' /\ NoIds'
    BY <1>t, <2>1, <2>2, Goes DEF ListInv, TypeOK, NoIds, PC, Busy
  <2>4. Documents' = Documents /\ spoilt' \in BOOLEAN
    BY <1>t, <2>1 DEF Documents, TypeOK, Busy
  <2>5. Apart' /\ RenderedIsCurrent' /\ OldIsCleared' /\ NoneYet'
    BY <1>t, <2>1, <2>2, <2>4, GoesOn DEF Viewing, Changing
  <2> QED BY <2>3, <2>5 DEF ListInv
<1>n. ASSUME NEW v \in Visitor, Render(v) PROVE ListInv'
  <2>1. /\ visitor[v].pc = "render" /\ Goto(v, "keep", Documents)
        /\ UNCHANGED <<matches, tracked, rule, page, spoilt>>
    BY <1>n DEF Render, At
  <2>2. "keep" \in PC /\ Documents \in SUBSET Tracked
    BY <1>t DEF PC, Viewing, Documents, TypeOK
  <2>3. TypeOK' /\ NoIds'
    BY <1>t, <2>1, <2>2, Goes DEF ListInv, TypeOK, NoIds, PC
  <2>4. Busy(Viewing) /\ Documents' = Documents
    BY <2>1 DEF Busy, Viewing, Documents
  <2>5. Apart' /\ NoneYet' /\ OldIsCleared'
    BY <1>t, <2>1, <2>2, <2>4, BusyGoes DEF ListInv, Apart, NoneYet, OldIsCleared, Changing
  <2>6. RenderedIsCurrent'
    BY <1>t, <2>1, <2>2, <2>4, KeepGoes DEF ListInv, RenderedIsCurrent
  <2> QED BY <2>3, <2>5, <2>6 DEF ListInv
<1>o. ASSUME NEW v \in Visitor, Keep(v) PROVE ListInv'
  <2>1. /\ visitor[v].pc = "keep" /\ Goto(v, "idle", {})
        /\ page' = [docs |-> visitor[v].docs, made |-> TRUE]
        /\ UNCHANGED <<matches, tracked, rule, spoilt>>
    BY <1>o DEF Keep, At
  <2>2. "idle" \in PC /\ {} \in SUBSET Tracked
    BY DEF PC
  <2>3. TypeOK' /\ NoIds'
    BY <1>t, <2>1, <2>2, Goes DEF ListInv, TypeOK, NoIds, PC, Pages
  <2>4. Busy(Viewing) /\ Documents' = Documents
    BY <2>1 DEF Busy, Viewing, Documents
  <2>5. Apart'
    BY <1>t, <2>1, <2>2, <2>4, BusyGoes DEF ListInv, Apart, Changing, Viewing
  <2>6. spoilt \/ ~Busy({"add", "forget"})
    BY <2>4 DEF ListInv, Apart, Busy, Changing
  <2>7. NoneYet'
    BY <1>t, <2>1, <2>2, <2>6, BusyGoes DEF NoneYet
  <2>8. RenderedIsCurrent' /\ OldIsCleared'
    BY <1>t, <2>1, <2>2, <2>4, KeepGoes DEF ListInv, RenderedIsCurrent, OldIsCleared, At
  <2> QED BY <2>3, <2>5, <2>7, <2>8 DEF ListInv
<1>p. ASSUME NEW v \in Visitor, Abort(v) PROVE ListInv'
  <2>1. /\ Goto(v, "idle", {})
        /\ spoilt' = (spoilt \/ visitor[v].pc \in {"clear", "refind", "reclear"})
        /\ UNCHANGED <<matches, tracked, page>>
        /\ \/ UNCHANGED rule
           \/ visitor[v].pc = "refind" /\ rule' = [rule EXCEPT !.ids = {}]
    BY <1>p DEF Abort, At
  <2>2. "idle" \in PC /\ {} \in SUBSET Tracked
    BY DEF PC
  <2>3. TypeOK' /\ NoIds'
    <3>1. CASE UNCHANGED rule
      BY <1>t, <2>1, <2>2, <3>1, Goes DEF ListInv, TypeOK, NoIds, PC
    <3>2. CASE rule' = [rule EXCEPT !.ids = {}]
      BY <1>t, <2>1, <2>2, <3>2, Goes DEF ListInv, TypeOK, NoIds, PC
    <3> QED BY <2>1, <3>1, <3>2
  <2>4. CASE spoilt'
    BY <2>3, <2>4 DEF ListInv, Apart, RenderedIsCurrent, OldIsCleared, NoneYet
  <2>5. CASE ~spoilt'
    <3>1. Documents' = Documents /\ spoilt' \in BOOLEAN /\ ~spoilt
      BY <1>t, <2>1, <2>5 DEF Documents, TypeOK
    <3>2. Apart' /\ RenderedIsCurrent' /\ OldIsCleared' /\ NoneYet'
      BY <1>t, <2>1, <2>2, <2>5, <3>1, GoesOn DEF Viewing, Changing
    <3> QED BY <2>3, <3>2 DEF ListInv
  <2> QED BY <2>4, <2>5
<1>q. ASSUME NEW d \in Tracked, World(d) PROVE ListInv'
  BY <1>q DEF World, ListInv, TypeOK, NoIds, Apart, RenderedIsCurrent, OldIsCleared, NoneYet,
              Documents, Busy, At
<1>r. CASE UNCHANGED listVars
  BY <1>r DEF listVars, ListInv, TypeOK, NoIds, Apart, RenderedIsCurrent, OldIsCleared, NoneYet,
              Documents, Busy, At
<1> QED
  BY <1>a, <1>b, <1>c, <1>d, <1>e, <1>f, <1>g, <1>h, <1>i, <1>j, <1>k, <1>l, <1>m, <1>n, <1>o,
     <1>p, <1>q, <1>r DEF Next, Start, Step

\* community: the variables keep to their types.
THEOREM TypeCorrect == Spec => []TypeOK
<1>1. ListInv => TypeOK
  BY DEF ListInv
<1> QED
  BY ListInit, ListStep, <1>1, PTL DEF Spec

\* CommunityList.cached: the page that is kept shows the list.
THEOREM KeptPageIsCurrent == Spec => []PageIsCurrent
<1>1. ListInv => PageIsCurrent
  BY DEF ListInv, PageIsCurrent, OldIsCleared, Busy, Changing
<1> QED
  BY ListInit, ListStep, <1>1, PTL DEF Spec
=============================================================================
