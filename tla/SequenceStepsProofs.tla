------------------------ MODULE SequenceStepsProofs ------------------------
(***************************************************************************)
(* Theorems about SequenceSteps, for any texts and handlers and any number  *)
(* of steps and requests.                                                   *)
(*                                                                         *)
(* A first invariant says what a handler holds of the rows it is about; the *)
(* shared subject and the positions each rest on one that says how far the  *)
(* one handler that rearranges has come.                                    *)
(***************************************************************************)
EXTENDS SequenceSteps, FiniteSetTheorems, TLAPS

-----------------------------------------------------------------------------
(* Contents and patches.                                                    *)

LEMMA PatchedContent ==
    ASSUME NEW content \in Content, NEW patch \in Patches
    PROVE  /\ Patched(content, patch) \in Content
           /\ "subject" \notin DOMAIN patch =>
                  Patched(content, patch).subject = content.subject
<1>1. PICK F \in SUBSET Fields \ {{}} : patch \in [F -> Texts]
  BY DEF Patches
<1>2. \A f \in DOMAIN patch : patch[f] \in Texts
  BY <1>1
<1> QED
  BY <1>2 DEF Patched, Content, Fields

LEMMA NewSubject ==
    ASSUME NEW content \in Content, NEW other \in Content
    PROVE  [content EXCEPT !.subject = other.subject] \in Content
BY DEF Content, Fields

LEMMA NumberedSteps ==
    ASSUME MaxSteps \in Nat
    PROVE  /\ Steps \subseteq Nat
           /\ IsFiniteSet(Steps)
           /\ IsFiniteSet(Live)
           /\ Cardinality(Live) \in Nat
<1>1. Steps \subseteq Nat /\ IsFiniteSet(Steps)
  BY FS_Interval DEF Steps
<1>2. Live \in SUBSET Steps
  BY DEF Live
<1> QED
  BY <1>1, <1>2, FS_Subset, FS_CardinalityType

-----------------------------------------------------------------------------
(* The history.                                                             *)

\* What a handler holds at each point fits what it is about.
HandlerFits(r) ==
    /\ r.pc = "insert" => r.by \in {"create", "duplicate"}
    /\ r.pc = "update" => r.by = "update"
    /\ r.pc = "remove" => r.by = "remove"
    /\ r.pc = "siblings" => r.by \in {"update", "remove", "duplicate"}
    /\ r.pc = "writes" => r.by \in {"update", "remove", "duplicate", "reorder"}
    /\ r.pc \in {"count", "version"} => r.by \in {"create", "update", "duplicate"}
    /\ r.by = "update" => r.patch \in Patches
    /\ r.by \in {"create", "update", "duplicate"} => r.content \in Content
    /\ r.pc \in {"update", "remove", "count", "version"} \/ r.by = "update" =>
           r.step \in Steps /\ step[r.step].state # "none"
    /\ \A w \in r.pending : step[w.id].state # "none"

\* The content that a handler is about to record is one its step has had.
HoldsSnapshot(r) ==
    r.pc \in {"count", "version"} \/ (r.by = "update" /\ r.pc \in {"siblings", "writes"}) =>
        r.content \in held[r.step]

HistoryInv ==
    /\ StepsTypeOK
    /\ \A s \in Slots : HandlerFits(edit[s]) /\ HoldsSnapshot(edit[s])
    /\ \A x \in Steps : step[x].state # "none" => step[x].content \in held[x]
    /\ RecordedWasHeld

LEMMA HistoryInit ==
    ASSUME MaxSteps \in Nat, Init
    PROVE  HistoryInv
<1>1. PICK t \in Texts, n \in 0 .. MaxSteps, recorded \in BOOLEAN :
        LET text == [f \in Fields |-> t] IN
        /\ \/ stepPolicy = "FLEXIBLE"
           \/ stepPolicy = "FIXED_3" /\ n = 3 /\ recorded
        /\ step = [x \in Steps |->
               IF x <= n THEN [state |-> "live", position |-> x, content |-> text] ELSE NoRow]
        /\ versions = [x \in Steps |-> IF x <= n /\ recorded THEN <<text>> ELSE <<>>]
        /\ held = [x \in Steps |-> IF x <= n THEN {text} ELSE {}]
        /\ edit = [s \in Slots |-> Idle]
        /\ edits = 0
        /\ disturbed = FALSE
  BY Zenon DEF Init
<1> DEFINE text == [f \in Fields |-> t]
<1>2. text \in Content
  BY DEF Content
<1>3. Steps \subseteq Nat
  BY NumberedSteps
<1>4. step \in [Steps -> Rows] /\ \A x \in Steps : step[x].state # "none" => step[x].content = text /\ x <= n
  BY <1>1, <1>2, <1>3 DEF Rows, NoRow
<1>5. versions \in [Steps -> Seq(Content)]
  <2>1. <<text>> \in Seq(Content) /\ <<>> \in Seq(Content)
    BY <1>2
  <2> HIDE DEF text
  <2> QED
    BY <1>1, <2>1 DEF text
<1>6. held \in [Steps -> SUBSET Content]
  <2> HIDE DEF text
  <2> QED
    BY <1>1, <1>2 DEF text
<1>7. Idle \in Handlers
  BY DEF Idle, Handlers, Points, Callers
<1>8. StepsTypeOK
  BY <1>1, <1>2, <1>4, <1>5, <1>6, <1>7 DEF StepsTypeOK
<1>9. ASSUME NEW s \in Slots
      PROVE  HandlerFits(edit[s]) /\ HoldsSnapshot(edit[s])
  BY <1>1 DEF HandlerFits, HoldsSnapshot, Idle
<1>10. \A x \in Steps : step[x].state # "none" => step[x].content \in held[x]
  <2> HIDE DEF text
  <2> QED
    BY <1>1, <1>4 DEF text
<1>11. RecordedWasHeld
  <2>1. ASSUME NEW x \in Steps, NEW i \in 1 .. Len(versions[x])
        PROVE  versions[x][i] \in held[x]
    <3>1. CASE x <= n /\ recorded
      <4>1. versions[x] = <<text>> /\ held[x] = {text}
        BY <1>1, <3>1
      <4> QED
        BY <4>1
    <3>2. CASE ~(x <= n /\ recorded)
      <4>1. versions[x] = <<>>
        BY <1>1, <3>2
      <4> QED
        BY <4>1
    <3> QED
      BY <3>1, <3>2
  <2> QED
    BY <2>1 DEF RecordedWasHeld
<1> QED
  BY <1>8, <1>9, <1>10, <1>11 DEF HistoryInv

\* What one handler does leaves what the others hold as it is.
LEMMA OthersFit ==
    ASSUME HistoryInv, NEW s \in Slots, NEW r \in Handlers,
           edit' = [edit EXCEPT ![s] = r],
           \A x \in Steps : /\ step[x].state # "none" => step'[x].state # "none"
                            /\ held[x] \subseteq held'[x],
           HandlerFits(r)', HoldsSnapshot(r)'
    PROVE  \A t \in Slots : HandlerFits(edit[t])' /\ HoldsSnapshot(edit[t])'
<1>1. edit \in [Slots -> Handlers]
  BY DEF HistoryInv, StepsTypeOK
<1>2. edit'[s] = r
  BY <1>1
<1>3. ASSUME NEW t \in Slots, t # s
      PROVE  HandlerFits(edit[t])' /\ HoldsSnapshot(edit[t])'
  <2>1. edit'[t] = edit[t] /\ edit[t] \in Handlers
    BY <1>1, <1>3
  <2>2. HandlerFits(edit[t]) /\ HoldsSnapshot(edit[t])
    BY DEF HistoryInv
  <2>3. \A w \in edit[t].pending : w.id \in Steps
    BY <2>1 DEF Handlers, Writes
  <2>4. HandlerFits(edit[t])'
    BY <2>1, <2>2, <2>3 DEF HandlerFits
  <2>5. HoldsSnapshot(edit[t])'
    BY <2>1, <2>2 DEF HoldsSnapshot, HandlerFits
  <2> QED
    BY <2>4, <2>5
<1> QED
  BY <1>2, <1>3

\* A step that writes no row.
LEMMA HistoryWithoutWrites ==
    ASSUME HistoryInv, NEW s \in Slots, NEW r \in Handlers,
           edit' = [edit EXCEPT ![s] = r],
           UNCHANGED <<rows, held>>, edits' \in Nat, disturbed' \in BOOLEAN,
           HandlerFits(r), HoldsSnapshot(r)
    PROVE  HistoryInv'
<1>1. step' = step /\ versions' = versions /\ held' = held /\ stepPolicy' = stepPolicy
  BY DEF rows
<1>2. StepsTypeOK'
  BY <1>1 DEF HistoryInv, StepsTypeOK
<1>3. HandlerFits(r)' /\ HoldsSnapshot(r)'
  BY <1>1 DEF HandlerFits, HoldsSnapshot
<1>4. \A t \in Slots : HandlerFits(edit[t])' /\ HoldsSnapshot(edit[t])'
  BY <1>1, <1>3, OthersFit
<1>5. RecordedWasHeld'
  BY <1>1 DEF HistoryInv, RecordedWasHeld
<1> QED
  BY <1>1, <1>2, <1>4, <1>5 DEF HistoryInv

-----------------------------------------------------------------------------
(* Every step keeps the history.                                            *)

LEMMA HistoryBegin ==
    ASSUME HistoryInv, NEW s \in Slots, NEW r \in Handlers, Begin(s, r),
           HandlerFits(r), HoldsSnapshot(r)
    PROVE  HistoryInv'
<1>1. edits' \in Nat /\ disturbed' \in BOOLEAN
  BY DEF Begin, HistoryInv, StepsTypeOK
<1>2. edit' = [edit EXCEPT ![s] = r] /\ UNCHANGED <<rows, held>>
  BY DEF Begin, Continue
<1> QED
  BY <1>1, <1>2, HistoryWithoutWrites

LEMMA HistoryIdle ==
    /\ Idle \in Handlers
    /\ HandlerFits(Idle)
    /\ HoldsSnapshot(Idle)
BY DEF Idle, Handlers, Points, Callers, HandlerFits, HoldsSnapshot

LEMMA HistoryBegins ==
    ASSUME MaxSteps \in Nat, HistoryInv, NEW s \in Slots,
           BeginCreate(s) \/ BeginUpdate(s) \/ BeginRemove(s) \/ BeginDuplicate(s)
               \/ BeginReorder(s)
    PROVE  HistoryInv'
<1>1. CASE BeginCreate(s)
  <2>1. PICK content \in Content :
            Begin(s, [Idle EXCEPT !.pc = "insert", !.by = "create", !.content = content,
                                  !.position = Cardinality(Live) + 1])
    BY <1>1 DEF BeginCreate
  <2> DEFINE r == [Idle EXCEPT !.pc = "insert", !.by = "create", !.content = content,
                               !.position = Cardinality(Live) + 1]
  <2>2. r \in Handlers
    <3>1. Cardinality(Live) + 1 \in Nat
      BY NumberedSteps
    <3> QED
      BY <3>1 DEF Idle, Handlers, Points, Callers
  <2>3. HandlerFits(r) /\ HoldsSnapshot(r)
    BY DEF Idle, HandlerFits, HoldsSnapshot
  <2> QED
    BY <2>1, <2>2, <2>3, HistoryBegin
<1>2. CASE BeginUpdate(s)
  <2>1. PICK x \in Live, patch \in Patches :
            Begin(s, [Idle EXCEPT !.pc = "update", !.by = "update", !.step = x,
                                  !.position = step[x].position, !.patch = patch,
                                  !.content = step[x].content])
    BY <1>2 DEF BeginUpdate
  <2> DEFINE r == [Idle EXCEPT !.pc = "update", !.by = "update", !.step = x,
                               !.position = step[x].position, !.patch = patch,
                               !.content = step[x].content]
  <2>2. x \in Steps /\ step[x].state # "none" /\ step[x].position \in Nat
           /\ step[x].content \in Content
    BY DEF Live, HistoryInv, StepsTypeOK, Rows
  <2>3. r \in Handlers
    BY <2>2 DEF Idle, Handlers, Points, Callers
  <2>4. HandlerFits(r) /\ HoldsSnapshot(r)
    BY <2>2 DEF Idle, HandlerFits, HoldsSnapshot
  <2> QED
    BY <2>1, <2>3, <2>4, HistoryBegin
<1>3. CASE BeginRemove(s)
  <2>1. PICK x \in Live :
            Begin(s, [Idle EXCEPT !.pc = "remove", !.by = "remove", !.step = x])
    BY <1>3 DEF BeginRemove
  <2> DEFINE r == [Idle EXCEPT !.pc = "remove", !.by = "remove", !.step = x]
  <2>2. x \in Steps /\ step[x].state # "none"
    BY DEF Live
  <2>3. r \in Handlers
    BY <2>2 DEF Idle, Handlers, Points, Callers
  <2>4. HandlerFits(r) /\ HoldsSnapshot(r)
    BY <2>2 DEF Idle, HandlerFits, HoldsSnapshot
  <2> QED
    BY <2>1, <2>3, <2>4, HistoryBegin
<1>4. CASE BeginDuplicate(s)
  <2>1. PICK x \in Live :
            Begin(s, [Idle EXCEPT !.pc = "siblings", !.by = "duplicate", !.step = x,
                                  !.position = step[x].position + 1,
                                  !.content = step[x].content])
    BY <1>4 DEF BeginDuplicate
  <2> DEFINE r == [Idle EXCEPT !.pc = "siblings", !.by = "duplicate", !.step = x,
                               !.position = step[x].position + 1,
                               !.content = step[x].content]
  <2>2. x \in Steps /\ step[x].position + 1 \in Nat /\ step[x].content \in Content
    BY DEF Live, HistoryInv, StepsTypeOK, Rows
  <2>3. r \in Handlers
    BY <2>2 DEF Idle, Handlers, Points, Callers
  <2>4. HandlerFits(r) /\ HoldsSnapshot(r)
    BY <2>2 DEF Idle, HandlerFits, HoldsSnapshot
  <2> QED
    BY <2>1, <2>3, <2>4, HistoryBegin
<1>5. CASE BeginReorder(s)
  <2>1. PICK rank \in Orders(Live) :
            Begin(s, [Idle EXCEPT !.pc = "writes", !.by = "reorder",
                          !.pending = {[id |-> x, at |-> rank[x], position |-> rank[x]] :
                                          x \in Live}])
    BY <1>5 DEF BeginReorder
  <2> DEFINE writes == {[id |-> x, at |-> rank[x], position |-> rank[x]] : x \in Live}
             r == [Idle EXCEPT !.pc = "writes", !.by = "reorder", !.pending = writes]
  <2>2. writes \subseteq Writes /\ \A w \in writes : step[w.id].state # "none"
    BY NumberedSteps DEF Orders, Writes, Live
  <2> HIDE DEF writes
  <2>3. r \in Handlers
    BY <2>2 DEF Idle, Handlers, Points, Callers
  <2>4. HandlerFits(r) /\ HoldsSnapshot(r)
    BY <2>2 DEF Idle, HandlerFits, HoldsSnapshot
  <2> QED
    BY <2>1, <2>3, <2>4, HistoryBegin DEF writes
<1> QED
  BY <1>1, <1>2, <1>3, <1>4, <1>5

LEMMA HistoryFails ==
    ASSUME HistoryInv, NEW s \in Slots, HandlerFails(s)
    PROVE  HistoryInv'
<1>1. edit' = [edit EXCEPT ![s] = Idle] /\ UNCHANGED <<rows, held>>
  BY DEF HandlerFails, Finish, Continue
<1>2. edits' \in Nat /\ disturbed' \in BOOLEAN
  BY DEF HandlerFails, HistoryInv, StepsTypeOK
<1> QED
  BY <1>1, <1>2, HistoryIdle, HistoryWithoutWrites

LEMMA HistoryInsert ==
    ASSUME MaxSteps \in Nat, HistoryInv, NEW s \in Slots, InsertStep(s)
    PROVE  HistoryInv'
<1>1. PICK x \in Steps :
        /\ At(s, "insert")
        /\ step[x].state = "none"
        /\ step' = [step EXCEPT ![x] = [state |-> "live", position |-> edit[s].position,
                                        content |-> edit[s].content]]
        /\ held' = [held EXCEPT ![x] = @ \cup {edit[s].content}]
        /\ edit' = [edit EXCEPT ![s] = [edit[s] EXCEPT !.pc = "count", !.step = x]]
        /\ UNCHANGED <<stepPolicy, versions, edits, disturbed>>
  BY DEF InsertStep, Continue
<1>2. edit[s] \in Handlers /\ edit[s].pc = "insert" /\ HandlerFits(edit[s])
  BY <1>1 DEF HistoryInv, StepsTypeOK, At
<1>3. edit[s].content \in Content /\ edit[s].by \in {"create", "duplicate"} /\ edit[s].position \in Nat
  BY <1>2 DEF HandlerFits, Handlers
<1>4. PICK r \in Handlers : r = [edit[s] EXCEPT !.pc = "count", !.step = x]
  BY <1>2 DEF Handlers, Points
<1>5. step \in [Steps -> Rows] /\ held \in [Steps -> SUBSET Content]
        /\ versions \in [Steps -> Seq(Content)] /\ edit \in [Slots -> Handlers]
  BY DEF HistoryInv, StepsTypeOK
<1>6. /\ step' \in [Steps -> Rows]
      /\ held' \in [Steps -> SUBSET Content]
      /\ \A y \in Steps : held[y] \subseteq held'[y]
      /\ \A y \in Steps \ {x} : step'[y] = step[y]
      /\ step'[x].state = "live" /\ step'[x].content = edit[s].content
      /\ edit[s].content \in held'[x]
  BY <1>1, <1>3, <1>5 DEF Rows
<1>7. StepsTypeOK'
  <2>1. \A y \in Steps : step'[y].state # "none" => step'[y].content \in Content
    BY <1>3, <1>6 DEF HistoryInv, StepsTypeOK
  <2> QED
    BY <1>1, <1>4, <1>5, <1>6, <2>1 DEF HistoryInv, StepsTypeOK
<1>8. HandlerFits(r)'
  <2>1. \A w \in edit[s].pending : w.id \in Steps /\ step[w.id].state # "none"
    BY <1>2 DEF HandlerFits, Handlers, Writes
  <2> QED
    BY <1>2, <1>3, <1>4, <1>6, <2>1 DEF HandlerFits, Handlers
<1>9. HoldsSnapshot(r)'
  BY <1>2, <1>4, <1>6 DEF HoldsSnapshot, Handlers
<1>10. \A t \in Slots : HandlerFits(edit[t])' /\ HoldsSnapshot(edit[t])'
  <2>1. \A y \in Steps : /\ step[y].state # "none" => step'[y].state # "none"
                         /\ held[y] \subseteq held'[y]
    BY <1>1, <1>6
  <2> QED
    BY <1>1, <1>4, <1>8, <1>9, <2>1, OthersFit
<1>11. \A y \in Steps : step'[y].state # "none" => step'[y].content \in held'[y]
  BY <1>6 DEF HistoryInv
<1>12. RecordedWasHeld'
  BY <1>1, <1>6 DEF HistoryInv, RecordedWasHeld
<1> QED
  BY <1>7, <1>10, <1>11, <1>12 DEF HistoryInv

LEMMA HistoryCount ==
    ASSUME HistoryInv, NEW s \in Slots, CountVersions(s)
    PROVE  HistoryInv'
<1> DEFINE r == [edit[s] EXCEPT !.pc = "version", !.count = Len(versions[edit[s].step])]
<1>1. edit' = [edit EXCEPT ![s] = r] /\ UNCHANGED <<rows, edits, held, disturbed>>
  BY DEF CountVersions, Continue
<1>2. edit[s] \in Handlers /\ edit[s].pc = "count" /\ HandlerFits(edit[s]) /\ HoldsSnapshot(edit[s])
  BY DEF CountVersions, HistoryInv, StepsTypeOK, At
<1>3. Len(versions[edit[s].step]) \in Nat
  BY <1>2 DEF HandlerFits, HistoryInv, StepsTypeOK
<1>4. r \in Handlers
  BY <1>2, <1>3 DEF Handlers, Points
<1>5. HandlerFits(r) /\ HoldsSnapshot(r)
  BY <1>2 DEF HandlerFits, HoldsSnapshot, Handlers
<1>6. edits' \in Nat /\ disturbed' \in BOOLEAN /\ UNCHANGED <<rows, held>>
  BY <1>1 DEF HistoryInv, StepsTypeOK
<1> QED
  BY <1>1, <1>4, <1>5, <1>6, HistoryWithoutWrites

LEMMA HistoryVersion ==
    ASSUME HistoryInv, NEW s \in Slots, CreateVersion(s)
    PROVE  HistoryInv'
<1> DEFINE x == edit[s].step
           c == edit[s].content
<1>1. /\ versions' = [versions EXCEPT ![x] = Append(@, c)]
      /\ edit' = [edit EXCEPT ![s] = Idle]
      /\ UNCHANGED <<stepPolicy, step, edits, held, disturbed>>
  BY DEF CreateVersion, Finish, Continue
<1>2. edit[s].pc = "version" /\ HandlerFits(edit[s]) /\ HoldsSnapshot(edit[s])
  BY DEF CreateVersion, HistoryInv, At
<1>3. x \in Steps /\ c \in Content /\ c \in held[x]
  BY <1>2 DEF HandlerFits, HoldsSnapshot
<1>4. versions \in [Steps -> Seq(Content)] /\ edit \in [Slots -> Handlers]
  BY DEF HistoryInv, StepsTypeOK
<1> HIDE DEF x, c
<1>5. versions[x] \in Seq(Content) /\ Append(versions[x], c) \in Seq(Content)
  BY <1>3, <1>4
<1>6. StepsTypeOK'
  BY <1>1, <1>4, <1>5, HistoryIdle DEF HistoryInv, StepsTypeOK
<1>7. \A t \in Slots : HandlerFits(edit[t])' /\ HoldsSnapshot(edit[t])'
  <2>1. HandlerFits(Idle)' /\ HoldsSnapshot(Idle)'
    BY DEF HandlerFits, HoldsSnapshot, Idle
  <2>2. \A y \in Steps : /\ step[y].state # "none" => step'[y].state # "none"
                         /\ held[y] \subseteq held'[y]
    BY <1>1
  <2> QED
    BY <1>1, <2>1, <2>2, HistoryIdle, OthersFit
<1>8. RecordedWasHeld'
  <2>1. ASSUME NEW y \in Steps, NEW i \in 1 .. Len(versions'[y])
        PROVE  versions'[y][i] \in held[y]
    <3>1. CASE y # x
      BY <1>1, <1>4, <2>1, <3>1 DEF HistoryInv, RecordedWasHeld
    <3>2. CASE y = x
      <4>1. versions'[y] = Append(versions[x], c)
        BY <1>1, <1>3, <1>4, <3>2
      <4>2. CASE i \in 1 .. Len(versions[x])
        <5>1. versions'[y][i] = versions[x][i]
          BY <1>5, <4>1, <4>2
        <5> QED
          BY <1>3, <3>2, <4>2, <5>1 DEF HistoryInv, RecordedWasHeld
      <4>3. CASE i = Len(versions[x]) + 1
        <5>1. versions'[y][i] = c
          BY <1>5, <4>1, <4>3
        <5> QED
          BY <1>3, <3>2, <5>1
      <4>4. Len(versions'[y]) = Len(versions[x]) + 1
        BY <1>5, <4>1
      <4> QED
        BY <1>5, <2>1, <4>2, <4>3, <4>4
    <3> QED
      BY <3>1, <3>2
  <2> QED
    BY <1>1, <2>1 DEF RecordedWasHeld
<1>9. \A y \in Steps : step'[y].state # "none" => step'[y].content \in held'[y]
  BY <1>1 DEF HistoryInv
<1> QED
  BY <1>6, <1>7, <1>8, <1>9 DEF HistoryInv

\* A step that writes rows of sequence_steps.
LEMMA HistoryWithWrites ==
    ASSUME HistoryInv, NEW s \in Slots, NEW r \in Handlers,
           edit' = [edit EXCEPT ![s] = r],
           UNCHANGED <<stepPolicy, versions, edits, disturbed>>,
           step' \in [Steps -> Rows], held' \in [Steps -> SUBSET Content],
           \A y \in Steps :
               /\ step[y].state # "none" => step'[y].state # "none"
               /\ step'[y].state # "none" => /\ step'[y].content \in Content
                                             /\ step'[y].content \in held'[y]
               /\ held[y] \subseteq held'[y],
           HandlerFits(r)', HoldsSnapshot(r)'
    PROVE  HistoryInv'
<1>1. StepsTypeOK'
  BY DEF HistoryInv, StepsTypeOK
<1>2. \A t \in Slots : HandlerFits(edit[t])' /\ HoldsSnapshot(edit[t])'
  BY OthersFit
<1>3. RecordedWasHeld'
  BY DEF HistoryInv, RecordedWasHeld, StepsTypeOK
<1> QED
  BY <1>1, <1>2, <1>3 DEF HistoryInv

LEMMA HistoryUpdate ==
    ASSUME HistoryInv, NEW s \in Slots, UpdateStep(s)
    PROVE  HistoryInv'
<1>1. edit[s] \in Handlers /\ edit[s].pc = "update" /\ HandlerFits(edit[s])
  BY DEF UpdateStep, HistoryInv, StepsTypeOK, At
<1>2. PICK x \in Steps : x = edit[s].step
  BY <1>1 DEF HandlerFits
<1>3. /\ step[x].state # "none" /\ step[x] \in Rows /\ step[x].content \in Content
      /\ edit[s].by = "update" /\ edit[s].patch \in Patches
  BY <1>1, <1>2 DEF HandlerFits, HistoryInv, StepsTypeOK
<1>4. PICK c \in Content : c = Patched(step[x].content, edit[s].patch)
  BY <1>3, PatchedContent
<1>5. PICK r : r = [edit[s] EXCEPT !.pc = IF Cascades(edit[s]) THEN "siblings" ELSE "count",
                                   !.content = c]
  OBVIOUS
<1>6. /\ step' = [step EXCEPT ![x].content = c]
      /\ held' = [held EXCEPT ![x] = @ \cup {c}]
      /\ edit' = [edit EXCEPT ![s] = r]
      /\ UNCHANGED <<stepPolicy, versions, edits, disturbed>>
  BY <1>2, <1>4, <1>5 DEF UpdateStep, Continue
<1>7. step \in [Steps -> Rows] /\ held \in [Steps -> SUBSET Content]
  BY DEF HistoryInv, StepsTypeOK
<1>8. /\ step' \in [Steps -> Rows]
      /\ held' \in [Steps -> SUBSET Content]
      /\ \A y \in Steps : step'[y].state = step[y].state /\ held[y] \subseteq held'[y]
      /\ \A y \in Steps \ {x} : step'[y] = step[y]
      /\ step'[x].content = c /\ c \in held'[x]
  BY <1>3, <1>6, <1>7 DEF Rows
<1>9. /\ r \in Handlers
      /\ r.pc \in {"siblings", "count"} /\ r.by = "update" /\ r.step = x /\ r.content = c
      /\ r.patch = edit[s].patch /\ r.pending = edit[s].pending
  BY <1>1, <1>2, <1>3, <1>5 DEF Handlers, Points
<1>10. HandlerFits(r)'
  <2>1. \A w \in edit[s].pending : w.id \in Steps /\ step[w.id].state # "none"
    BY <1>1 DEF HandlerFits, Handlers, Writes
  <2> QED
    BY <1>3, <1>8, <1>9, <2>1 DEF HandlerFits
<1>11. HoldsSnapshot(r)'
  BY <1>8, <1>9 DEF HoldsSnapshot
<1>12. \A y \in Steps : step'[y].state # "none" => /\ step'[y].content \in Content
                                                  /\ step'[y].content \in held'[y]
  BY <1>8 DEF HistoryInv, StepsTypeOK
<1> QED
  BY <1>6, <1>8, <1>9, <1>10, <1>11, <1>12, HistoryWithWrites

LEMMA HistoryRemove ==
    ASSUME HistoryInv, NEW s \in Slots, RemoveStep(s)
    PROVE  HistoryInv'
<1>1. edit[s] \in Handlers /\ edit[s].pc = "remove" /\ HandlerFits(edit[s])
  BY DEF RemoveStep, HistoryInv, StepsTypeOK, At
<1>2. PICK x \in Steps : x = edit[s].step
  BY <1>1 DEF HandlerFits
<1>3. step[x].state # "none" /\ step[x] \in Rows /\ edit[s].by = "remove"
  BY <1>1, <1>2 DEF HandlerFits, HistoryInv, StepsTypeOK
<1>4. PICK r : r = [edit[s] EXCEPT !.pc = "siblings"]
  OBVIOUS
<1>5. /\ step' = [step EXCEPT ![x].state = "deleted"]
      /\ edit' = [edit EXCEPT ![s] = r]
      /\ UNCHANGED <<stepPolicy, versions, edits, held, disturbed>>
  BY <1>2, <1>4 DEF RemoveStep, Continue
<1>6. step \in [Steps -> Rows] /\ held \in [Steps -> SUBSET Content]
  BY DEF HistoryInv, StepsTypeOK
<1>7. /\ step' \in [Steps -> Rows]
      /\ \A y \in Steps : /\ step'[y].content = step[y].content
                          /\ step'[y].state = "none" <=> step[y].state = "none"
  BY <1>3, <1>5, <1>6 DEF Rows
<1>8. /\ r \in Handlers
      /\ r.pc = "siblings" /\ r.by = "remove" /\ r.pending = edit[s].pending
  BY <1>1, <1>3, <1>4 DEF Handlers, Points
<1>9. HandlerFits(r)'
  <2>1. \A w \in edit[s].pending : w.id \in Steps /\ step[w.id].state # "none"
    BY <1>1 DEF HandlerFits, Handlers, Writes
  <2> QED
    BY <1>7, <1>8, <2>1 DEF HandlerFits
<1>10. HoldsSnapshot(r)'
  BY <1>8 DEF HoldsSnapshot
<1>11. \A y \in Steps :
         /\ step[y].state # "none" => step'[y].state # "none"
         /\ step'[y].state # "none" => /\ step'[y].content \in Content
                                       /\ step'[y].content \in held'[y]
         /\ held[y] \subseteq held'[y]
  BY <1>5, <1>7 DEF HistoryInv, StepsTypeOK
<1>12. UNCHANGED <<stepPolicy, versions, edits, disturbed>> /\ held' \in [Steps -> SUBSET Content]
  BY <1>5, <1>6
<1> QED
  BY <1>5, <1>7, <1>8, <1>9, <1>10, <1>11, <1>12, HistoryWithWrites

\* After a list of siblings, or after one of the updates of them: q is the handler r that
\* has p still to write.
Follows(q, r, p) ==
    \/ p # {} /\ q = [r EXCEPT !.pending = p, !.pc = "writes"]
    \/ p = {} /\ r.by = "update" /\ q = [r EXCEPT !.pending = p, !.pc = "count"]
    \/ p = {} /\ r.by = "duplicate" /\ q = [r EXCEPT !.pending = p, !.pc = "insert"]
    \/ p = {} /\ r.by \in {"remove", "reorder"} /\ q = Idle

LEMMA Proceeding ==
    ASSUME NEW s \in Slots, NEW r \in Handlers, NEW p \in SUBSET Writes,
           r.by \in {"update", "remove", "duplicate", "reorder"},
           Proceed(s, [r EXCEPT !.pending = p])
    PROVE  \E q \in Handlers : Follows(q, r, p) /\ edit' = [edit EXCEPT ![s] = q]
<1>1. PICK h : h = [r EXCEPT !.pending = p]
  OBVIOUS
<1>2. h \in Handlers /\ h.pending = p /\ h.by = r.by
  BY <1>1 DEF Handlers
<1>3. PICK q : q = IF h.pending = {} THEN Afterwards(h) ELSE [h EXCEPT !.pc = "writes"]
  OBVIOUS
<1>4. edit' = [edit EXCEPT ![s] = q]
  BY <1>1, <1>3 DEF Proceed, Continue
<1>5. /\ [h EXCEPT !.pc = "writes"] \in Handlers
      /\ [h EXCEPT !.pc = "count"] \in Handlers
      /\ [h EXCEPT !.pc = "insert"] \in Handlers
  BY <1>2 DEF Handlers, Points
<1>6. /\ [h EXCEPT !.pc = "writes"] = [r EXCEPT !.pending = p, !.pc = "writes"]
      /\ [h EXCEPT !.pc = "count"] = [r EXCEPT !.pending = p, !.pc = "count"]
      /\ [h EXCEPT !.pc = "insert"] = [r EXCEPT !.pending = p, !.pc = "insert"]
  BY <1>1
<1>7. q \in Handlers /\ Follows(q, r, p)
  BY <1>2, <1>3, <1>5, <1>6, HistoryIdle DEF Follows, Afterwards
<1> QED
  BY <1>4, <1>7

\* Such a handler is about what it was about, unless it has ended.
LEMMA Following ==
    ASSUME NEW r \in Handlers, NEW q \in Handlers, NEW p \in SUBSET Writes, Follows(q, r, p)
    PROVE  \/ q = Idle
           \/ /\ q.by = r.by /\ q.step = r.step /\ q.content = r.content
              /\ q.patch = r.patch /\ q.position = r.position /\ q.pending = p
              /\ \/ q.pc = "writes" /\ p # {}
                 \/ q.pc = "count" /\ q.by = "update" /\ p = {}
                 \/ q.pc = "insert" /\ q.by = "duplicate" /\ p = {}
BY DEF Follows, Handlers

\* What the list of siblings gives a handler to write.
ToWrite(r, rank) ==
    CASE r.by = "update"    -> Others(rank, r.step)
      [] r.by = "remove"    -> Renumbered(rank)
      [] r.by = "duplicate" -> Shifted(rank, r.position)

\* Whatever is to be written to siblings is written to steps in the list.
LEMMA SiblingWrites ==
    ASSUME MaxSteps \in Nat, StepsTypeOK, NEW rank \in Orders(Live), NEW x, NEW p
    PROVE  /\ Others(rank, x) \subseteq Writes
           /\ Renumbered(rank) \subseteq Writes
           /\ Shifted(rank, p) \subseteq Writes
           /\ \A w \in Others(rank, x) \cup Renumbered(rank) \cup Shifted(rank, p) : w.id \in Live
<1>1. \A y \in Live : /\ y \in Steps /\ rank[y] \in Nat
                      /\ step[y].position \in Nat /\ step[y].position + 1 \in Nat
  BY NumberedSteps DEF Live, Orders, StepsTypeOK, Rows
<1>2. Others(rank, x) \subseteq Writes /\ \A w \in Others(rank, x) : w.id \in Live
  BY <1>1 DEF Others, Writes
<1>3. Renumbered(rank) \subseteq Writes /\ \A w \in Renumbered(rank) : w.id \in Live
  BY <1>1 DEF Renumbered, Writes
<1>4. Shifted(rank, p) \subseteq Writes /\ \A w \in Shifted(rank, p) : w.id \in Live
  BY <1>1 DEF Shifted, Writes
<1> QED
  BY <1>2, <1>3, <1>4

LEMMA ReadEffect ==
    ASSUME MaxSteps \in Nat, HistoryInv, NEW s \in Slots, ReadSiblings(s)
    PROVE  \E rank \in Listings, q \in Handlers :
             /\ edit[s] \in Handlers /\ edit[s].pc = "siblings"
             /\ edit[s].by \in {"update", "remove", "duplicate"}
             /\ ToWrite(edit[s], rank) \subseteq Writes
             /\ \A w \in ToWrite(edit[s], rank) : w.id \in Live
             /\ Follows(q, edit[s], ToWrite(edit[s], rank))
             /\ edit' = [edit EXCEPT ![s] = q]
             /\ UNCHANGED <<rows, edits, held, disturbed>>
<1>1. PICK rank \in Listings :
        /\ At(s, "siblings")
        /\ Proceed(s, [edit[s] EXCEPT !.pending =
               CASE edit[s].by = "update"    -> Others(rank, edit[s].step)
                 [] edit[s].by = "remove"    -> Renumbered(rank)
                 [] edit[s].by = "duplicate" -> Shifted(rank, edit[s].position)])
        /\ UNCHANGED <<rows, edits, held, disturbed>>
  BY DEF ReadSiblings
<1>2. edit[s] \in Handlers /\ edit[s].pc = "siblings" /\ HandlerFits(edit[s])
  BY <1>1 DEF HistoryInv, StepsTypeOK, At
<1>3. edit[s].by \in {"update", "remove", "duplicate"}
  BY <1>2 DEF HandlerFits
<1>4. PICK p : p = ToWrite(edit[s], rank)
  OBVIOUS
<1>5. p \subseteq Writes /\ \A w \in p : w.id \in Live
  <2>1. rank \in Orders(Live) /\ StepsTypeOK
    BY DEF Listings, HistoryInv
  <2> QED
    BY <1>3, <1>4, <2>1, SiblingWrites DEF ToWrite
<1>6. Proceed(s, [edit[s] EXCEPT !.pending = p])
  BY <1>1, <1>4 DEF ToWrite
<1>7. PICK q \in Handlers : Follows(q, edit[s], p) /\ edit' = [edit EXCEPT ![s] = q]
  BY <1>2, <1>3, <1>5, <1>6, Proceeding
<1> QED
  BY <1>1, <1>2, <1>3, <1>4, <1>5, <1>7

LEMMA HistorySiblings ==
    ASSUME MaxSteps \in Nat, HistoryInv, NEW s \in Slots, ReadSiblings(s)
    PROVE  HistoryInv'
<1>1. PICK rank \in Listings, q \in Handlers :
        /\ edit[s] \in Handlers /\ edit[s].pc = "siblings"
        /\ edit[s].by \in {"update", "remove", "duplicate"}
        /\ ToWrite(edit[s], rank) \subseteq Writes
        /\ \A w \in ToWrite(edit[s], rank) : w.id \in Live
        /\ Follows(q, edit[s], ToWrite(edit[s], rank))
        /\ edit' = [edit EXCEPT ![s] = q]
        /\ UNCHANGED <<rows, edits, held, disturbed>>
  BY ReadEffect
<1>2. HandlerFits(edit[s]) /\ HoldsSnapshot(edit[s])
  BY DEF HistoryInv
<1>3. PICK p \in SUBSET Writes : p = ToWrite(edit[s], rank)
  BY <1>1
<1>4. HandlerFits(q) /\ HoldsSnapshot(q)
  <2>1. CASE q = Idle
    BY <2>1, HistoryIdle
  <2>2. CASE /\ q.by = edit[s].by /\ q.step = edit[s].step /\ q.content = edit[s].content
             /\ q.patch = edit[s].patch /\ q.pending = p
             /\ \/ q.pc = "writes"
                \/ q.pc = "count" /\ q.by = "update"
                \/ q.pc = "insert" /\ q.by = "duplicate"
    <3>1. \A w \in p : step[w.id].state # "none"
      BY <1>1, <1>3 DEF Live
    <3>2. HandlerFits(q)
      BY <1>1, <1>2, <2>2, <3>1 DEF HandlerFits
    <3>3. HoldsSnapshot(q)
      BY <1>1, <1>2, <2>2 DEF HoldsSnapshot
    <3> QED
      BY <3>2, <3>3
  <2> QED
    BY <1>1, <1>3, <2>1, <2>2, Following
<1>5. UNCHANGED <<rows, held>> /\ edits' \in Nat /\ disturbed' \in BOOLEAN
  BY <1>1 DEF HistoryInv, StepsTypeOK
<1> QED
  BY <1>1, <1>4, <1>5, HistoryWithoutWrites

LEMMA WriteEffect ==
    ASSUME HistoryInv, NEW s \in Slots, WriteSibling(s)
    PROVE  \E w \in Writes, q \in Handlers :
             /\ edit[s] \in Handlers /\ edit[s].pc = "writes"
             /\ edit[s].by \in {"update", "remove", "duplicate", "reorder"}
             /\ w \in edit[s].pending
             /\ edit[s].by = "update" =>
                    step' = [step EXCEPT ![w.id].content.subject = edit[s].content.subject]
             /\ edit[s].by # "update" => step' = [step EXCEPT ![w.id].position = w.position]
             /\ held' = [held EXCEPT ![w.id] = @ \cup {step'[w.id].content}]
             /\ edit[s].pending \ {w} \subseteq Writes
             /\ Follows(q, edit[s], edit[s].pending \ {w})
             /\ edit' = [edit EXCEPT ![s] = q]
             /\ UNCHANGED <<stepPolicy, versions, edits, disturbed>>
<1>1. PICK w \in edit[s].pending :
        /\ At(s, "writes")
        /\ step' = IF edit[s].by = "update"
                   THEN [step EXCEPT ![w.id].content.subject = edit[s].content.subject]
                   ELSE [step EXCEPT ![w.id].position = w.position]
        /\ held' = [held EXCEPT ![w.id] = @ \cup {step'[w.id].content}]
        /\ Proceed(s, [edit[s] EXCEPT !.pending = @ \ {w}])
        /\ UNCHANGED <<stepPolicy, versions, edits, disturbed>>
  BY DEF WriteSibling
<1>2. edit[s] \in Handlers /\ edit[s].pc = "writes" /\ HandlerFits(edit[s])
  BY <1>1 DEF HistoryInv, StepsTypeOK, At
<1>3. edit[s].by \in {"update", "remove", "duplicate", "reorder"}
  BY <1>2 DEF HandlerFits
<1>4. w \in Writes /\ edit[s].pending \ {w} \in SUBSET Writes
  BY <1>2 DEF Handlers
<1>5. PICK q \in Handlers : /\ Follows(q, edit[s], edit[s].pending \ {w})
                            /\ edit' = [edit EXCEPT ![s] = q]
  <2>1. Proceed(s, [edit[s] EXCEPT !.pending = edit[s].pending \ {w}])
    BY <1>1, <1>2 DEF Handlers
  <2> QED
    BY <1>2, <1>3, <1>4, <2>1, Proceeding
<1> QED
  BY <1>1, <1>2, <1>3, <1>4, <1>5

LEMMA HistoryWrite ==
    ASSUME HistoryInv, NEW s \in Slots, WriteSibling(s)
    PROVE  HistoryInv'
<1>1. PICK w \in Writes, q \in Handlers :
        /\ edit[s] \in Handlers /\ edit[s].pc = "writes"
        /\ edit[s].by \in {"update", "remove", "duplicate", "reorder"}
        /\ w \in edit[s].pending
        /\ edit[s].by = "update" =>
               step' = [step EXCEPT ![w.id].content.subject = edit[s].content.subject]
        /\ edit[s].by # "update" => step' = [step EXCEPT ![w.id].position = w.position]
        /\ held' = [held EXCEPT ![w.id] = @ \cup {step'[w.id].content}]
        /\ edit[s].pending \ {w} \subseteq Writes
        /\ Follows(q, edit[s], edit[s].pending \ {w})
        /\ edit' = [edit EXCEPT ![s] = q]
        /\ UNCHANGED <<stepPolicy, versions, edits, disturbed>>
  BY WriteEffect
<1>2. HandlerFits(edit[s]) /\ HoldsSnapshot(edit[s])
  BY DEF HistoryInv
<1>3. PICK x \in Steps : x = w.id /\ w.position \in Nat
  BY DEF Writes
<1>4. step[x].state # "none" /\ step[x] \in Rows /\ step[x].content \in Content
  BY <1>1, <1>2, <1>3 DEF HandlerFits, HistoryInv, StepsTypeOK
<1>5. step \in [Steps -> Rows] /\ held \in [Steps -> SUBSET Content]
  BY DEF HistoryInv, StepsTypeOK
<1>6. /\ step' \in [Steps -> Rows]
      /\ \A y \in Steps : step'[y].state = step[y].state
      /\ \A y \in Steps \ {x} : step'[y] = step[y]
      /\ step'[x].content \in Content
  <2>1. CASE edit[s].by = "update"
    <3>1. edit[s].content \in Content
      BY <1>2, <2>1 DEF HandlerFits
    <3>2. PICK c \in Content : c = [step[x].content EXCEPT !.subject = edit[s].content.subject]
      BY <1>4, <3>1, NewSubject
    <3>3. step' = [step EXCEPT ![x].content = c]
      BY <1>1, <1>3, <1>5, <2>1, <3>2
    <3> QED
      BY <1>4, <1>5, <3>3 DEF Rows
  <2>2. CASE edit[s].by # "update"
    <3>1. step' = [step EXCEPT ![x].position = w.position]
      BY <1>1, <1>3, <2>2
    <3> QED
      BY <1>3, <1>4, <1>5, <3>1 DEF Rows
  <2> QED
    BY <2>1, <2>2
<1>7. /\ held' \in [Steps -> SUBSET Content]
      /\ \A y \in Steps : held[y] \subseteq held'[y]
      /\ step'[x].content \in held'[x]
  BY <1>1, <1>3, <1>5, <1>6
<1>8. PICK p \in SUBSET Writes : p = edit[s].pending \ {w}
  BY <1>1
<1>9. HandlerFits(q)' /\ HoldsSnapshot(q)'
  <2>1. CASE q = Idle
    BY <2>1 DEF HandlerFits, HoldsSnapshot, Idle
  <2>2. CASE /\ q.by = edit[s].by /\ q.step = edit[s].step /\ q.content = edit[s].content
             /\ q.patch = edit[s].patch /\ q.pending = p
             /\ \/ q.pc = "writes"
                \/ q.pc = "count" /\ q.by = "update"
                \/ q.pc = "insert" /\ q.by = "duplicate"
    <3>1. \A v \in edit[s].pending : v.id \in Steps /\ step[v.id].state # "none"
      BY <1>1, <1>2 DEF HandlerFits, Handlers, Writes
    <3>2. HandlerFits(q)'
      BY <1>1, <1>2, <1>6, <1>8, <2>2, <3>1 DEF HandlerFits
    <3>3. HoldsSnapshot(q)'
      BY <1>1, <1>2, <1>7, <2>2 DEF HoldsSnapshot, HandlerFits
    <3> QED
      BY <3>2, <3>3
  <2> QED
    BY <1>1, <1>8, <2>1, <2>2, Following
<1>10. \A y \in Steps :
         /\ step[y].state # "none" => step'[y].state # "none"
         /\ step'[y].state # "none" => /\ step'[y].content \in Content
                                       /\ step'[y].content \in held'[y]
         /\ held[y] \subseteq held'[y]
  BY <1>6, <1>7 DEF HistoryInv, StepsTypeOK
<1>11. UNCHANGED <<stepPolicy, versions, edits, disturbed>>
  BY <1>1
<1> QED
  BY <1>1, <1>6, <1>7, <1>9, <1>10, <1>11, HistoryWithWrites

LEMMA HistoryStep ==
    ASSUME MaxSteps \in Nat, HistoryInv, [Next]_vars
    PROVE  HistoryInv'
<1>1. CASE UNCHANGED vars
  BY <1>1 DEF vars, rows, HistoryInv, StepsTypeOK, HandlerFits, HoldsSnapshot, RecordedWasHeld
<1>2. CASE Next
  <2>1. PICK s \in Slots :
            \/ BeginCreate(s) \/ InsertStep(s) \/ CountVersions(s) \/ CreateVersion(s)
            \/ BeginUpdate(s) \/ UpdateStep(s)
            \/ BeginRemove(s) \/ RemoveStep(s) \/ BeginDuplicate(s) \/ BeginReorder(s)
            \/ ReadSiblings(s) \/ WriteSibling(s)
            \/ HandlerFails(s)
    BY <1>2 DEF Next
  <2> QED
    BY <2>1, HistoryBegins, HistoryInsert, HistoryCount, HistoryVersion, HistoryUpdate,
       HistoryRemove, HistorySiblings, HistoryWrite, HistoryFails
<1> QED
  BY <1>1, <1>2

\* Every reachable state is well typed, whatever is recorded of a step is a content it has
\* had, and what a handler holds fits the rows it is about (SequenceStepsService).
THEOREM HistoryInvariant ==
    ASSUME MaxSteps \in Nat
    PROVE  Spec => []HistoryInv
<1>1. Init => HistoryInv
  BY HistoryInit
<1>2. HistoryInv /\ [Next]_vars => HistoryInv'
  BY HistoryStep
<1> QED
  BY <1>1, <1>2, PTL DEF Spec

\* Every variable keeps the shape its table or handler gives it.
THEOREM StepsTypeCorrect ==
    ASSUME MaxSteps \in Nat
    PROVE  Spec => []StepsTypeOK
<1>1. HistoryInv => StepsTypeOK
  BY DEF HistoryInv
<1> QED
  BY <1>1, HistoryInvariant, PTL

\* A version is a snapshot of its step, however updates of it interleave.
THEOREM VersionsAreSnapshots ==
    ASSUME MaxSteps \in Nat
    PROVE  Spec => []RecordedWasHeld
<1>1. HistoryInv => RecordedWasHeld
  BY DEF HistoryInv
<1> QED
  BY <1>1, HistoryInvariant, PTL

-----------------------------------------------------------------------------
(* At most one handler rearranges, unless disturbed.                        *)

OneRearranges ==
    ~disturbed => \A s, t \in Slots : Rearranges(edit[s]) /\ Rearranges(edit[t]) => s = t

\* What a request begins with.
Starts(r) ==
    \/ /\ r.by = "create" /\ r.pc = "insert" /\ r.pending = {}
       /\ r.position = Cardinality(Live) + 1
       /\ stepPolicy = "FIXED_3" => Cardinality(Live) < 3
    \/ /\ r.by = "update" /\ r.pc = "update"
       /\ stepPolicy = "FIXED_3" /\ "subject" \in DOMAIN r.patch => r.position = 1
    \/ /\ r.by = "remove" /\ r.pc = "remove"
       /\ stepPolicy = "FLEXIBLE"
    \/ /\ r.by = "duplicate" /\ r.pc = "siblings"
       /\ stepPolicy = "FLEXIBLE"
       /\ \E x \in Live : r.position = step[x].position + 1
    \/ /\ r.by = "reorder" /\ r.pc = "writes"
       /\ stepPolicy = "FLEXIBLE"
       /\ \E rank \in Orders(Live) :
              r.pending = {[id |-> x, at |-> rank[x], position |-> rank[x]] : x \in Live}

LEMMA BeginEffect ==
    ASSUME NEW s \in Slots,
           BeginCreate(s) \/ BeginUpdate(s) \/ BeginRemove(s) \/ BeginDuplicate(s)
               \/ BeginReorder(s)
    PROVE  \E r : Begin(s, r) /\ Starts(r)
<1>1. CASE BeginCreate(s)
  <2>1. PICK content \in Content :
            /\ stepPolicy = "FIXED_3" => Cardinality(Live) < 3
            /\ Begin(s, [Idle EXCEPT !.pc = "insert", !.by = "create", !.content = content,
                                     !.position = Cardinality(Live) + 1])
    BY <1>1, Zenon DEF BeginCreate
  <2>2. Starts([Idle EXCEPT !.pc = "insert", !.by = "create", !.content = content,
                            !.position = Cardinality(Live) + 1])
    BY <2>1 DEF Starts, Idle
  <2> QED
    BY <2>1, <2>2
<1>2. CASE BeginUpdate(s)
  <2>1. PICK x \in Live, patch \in Patches :
            /\ stepPolicy = "FIXED_3" /\ "subject" \in DOMAIN patch => step[x].position = 1
            /\ Begin(s, [Idle EXCEPT !.pc = "update", !.by = "update", !.step = x,
                                     !.position = step[x].position, !.patch = patch,
                                     !.content = step[x].content])
    BY <1>2, Zenon DEF BeginUpdate
  <2>2. Starts([Idle EXCEPT !.pc = "update", !.by = "update", !.step = x,
                            !.position = step[x].position, !.patch = patch,
                            !.content = step[x].content])
    BY <2>1 DEF Starts, Idle
  <2> QED
    BY <2>1, <2>2
<1>3. CASE BeginRemove(s)
  <2>1. PICK x \in Live :
            /\ stepPolicy = "FLEXIBLE"
            /\ Begin(s, [Idle EXCEPT !.pc = "remove", !.by = "remove", !.step = x])
    BY <1>3, Zenon DEF BeginRemove
  <2>2. Starts([Idle EXCEPT !.pc = "remove", !.by = "remove", !.step = x])
    BY <2>1 DEF Starts, Idle
  <2> QED
    BY <2>1, <2>2
<1>4. CASE BeginDuplicate(s)
  <2>1. PICK x \in Live :
            /\ stepPolicy = "FLEXIBLE"
            /\ Begin(s, [Idle EXCEPT !.pc = "siblings", !.by = "duplicate", !.step = x,
                                     !.position = step[x].position + 1,
                                     !.content = step[x].content])
    BY <1>4, Zenon DEF BeginDuplicate
  <2>2. Starts([Idle EXCEPT !.pc = "siblings", !.by = "duplicate", !.step = x,
                            !.position = step[x].position + 1,
                            !.content = step[x].content])
    BY <2>1 DEF Starts, Idle
  <2> QED
    BY <2>1, <2>2
<1>5. CASE BeginReorder(s)
  <2>1. PICK rank \in Orders(Live) :
            /\ stepPolicy = "FLEXIBLE"
            /\ Begin(s, [Idle EXCEPT !.pc = "writes", !.by = "reorder",
                             !.pending = {[id |-> x, at |-> rank[x], position |-> rank[x]] :
                                             x \in Live}])
    BY <1>5, Zenon DEF BeginReorder
  <2>2. PICK p : p = {[id |-> x, at |-> rank[x], position |-> rank[x]] : x \in Live}
    OBVIOUS
  <2>3. Starts([Idle EXCEPT !.pc = "writes", !.by = "reorder", !.pending = p])
    BY <2>1, <2>2 DEF Starts, Idle
  <2> QED
    BY <2>1, <2>2, <2>3
<1> QED
  BY <1>1, <1>2, <1>3, <1>4, <1>5

\* What the update of a row leaves in its handler's hands.
LEMMA UpdateEffect ==
    ASSUME HistoryInv, NEW s \in Slots, UpdateStep(s)
    PROVE  \E x \in Steps, c \in Content, q \in Handlers :
             /\ edit[s].pc = "update" /\ edit[s].by = "update" /\ edit[s].patch \in Patches
             /\ c = Patched(step[x].content, edit[s].patch)
             /\ step[x].state # "none" /\ step[x].content \in Content
             /\ step' = [step EXCEPT ![x].content = c]
             /\ edit' = [edit EXCEPT ![s] = q]
             /\ q.pc = IF Cascades(edit[s]) THEN "siblings" ELSE "count"
             /\ q.by = "update" /\ q.step = x /\ q.content = c
             /\ q.patch = edit[s].patch /\ q.position = edit[s].position
             /\ UNCHANGED <<stepPolicy, versions, edits, disturbed>>
<1>1. edit[s] \in Handlers /\ edit[s].pc = "update" /\ HandlerFits(edit[s])
  BY DEF UpdateStep, HistoryInv, StepsTypeOK, At
<1>2. PICK x \in Steps : x = edit[s].step
  BY <1>1 DEF HandlerFits
<1>3. /\ step[x].state # "none" /\ step[x].content \in Content
      /\ edit[s].by = "update" /\ edit[s].patch \in Patches
  BY <1>1, <1>2 DEF HandlerFits, HistoryInv, StepsTypeOK
<1>4. PICK c \in Content : c = Patched(step[x].content, edit[s].patch)
  BY <1>3, PatchedContent
<1>5. PICK q : q = [edit[s] EXCEPT !.pc = IF Cascades(edit[s]) THEN "siblings" ELSE "count",
                                   !.content = c]
  OBVIOUS
<1>6. /\ step' = [step EXCEPT ![x].content = c]
      /\ edit' = [edit EXCEPT ![s] = q]
      /\ UNCHANGED <<stepPolicy, versions, edits, disturbed>>
  BY <1>2, <1>4, <1>5 DEF UpdateStep, Continue
<1>7. /\ q \in Handlers
      /\ q.pc = IF Cascades(edit[s]) THEN "siblings" ELSE "count"
      /\ q.by = "update" /\ q.step = x /\ q.content = c
      /\ q.patch = edit[s].patch /\ q.position = edit[s].position
  BY <1>1, <1>2, <1>3, <1>5 DEF Handlers, Points
<1> QED
  BY <1>1, <1>3, <1>4, <1>6, <1>7

\* What a handler does after its first step never makes it rearrange.
LEMMA NothingNew ==
    ASSUME HistoryInv, OneRearranges, NEW s \in Slots, NEW q,
           edit' = [edit EXCEPT ![s] = q], UNCHANGED <<stepPolicy, disturbed>>,
           Rearranges(q) => Rearranges(edit[s])
    PROVE  OneRearranges'
<1>1. \A t \in Slots : Rearranges(edit[t])' => Rearranges(edit[t])
  BY DEF Rearranges, HistoryInv, StepsTypeOK
<1> QED
  BY <1>1 DEF OneRearranges

LEMMA OneBegins ==
    ASSUME HistoryInv, OneRearranges, NEW s \in Slots, NEW r, Begin(s, r)
    PROVE  OneRearranges'
<1>1. /\ edit' = [edit EXCEPT ![s] = r] /\ stepPolicy' = stepPolicy
      /\ disturbed' = (disturbed \/ /\ Rearranges(r)
                                    /\ \E t \in Slots \ {s} : Rearranges(edit[t]))
  BY DEF Begin, Continue, rows
<1>2. /\ Rearranges(edit[s])' => Rearranges(r)
      /\ \A t \in Slots \ {s} : Rearranges(edit[t])' => Rearranges(edit[t])
  BY <1>1 DEF Rearranges, HistoryInv, StepsTypeOK
<1> QED
  BY <1>1, <1>2 DEF OneRearranges

LEMMA FirstNumbers ==
    ASSUME NEW n \in Nat
    PROVE  IsFiniteSet(1 .. n) /\ Cardinality(1 .. n) = n
BY FS_Interval

LEMMA InsertEffect ==
    ASSUME HistoryInv, NEW s \in Slots, InsertStep(s)
    PROVE  \E x \in Steps, q \in Handlers :
             /\ edit[s].pc = "insert" /\ edit[s].by \in {"create", "duplicate"}
             /\ step[x].state = "none"
             /\ step' = [step EXCEPT ![x] = [state |-> "live", position |-> edit[s].position,
                                             content |-> edit[s].content]]
             /\ edit' = [edit EXCEPT ![s] = q] /\ q.pc = "count"
             /\ UNCHANGED <<stepPolicy, disturbed>>
<1>1. PICK x \in Steps :
        /\ At(s, "insert")
        /\ step[x].state = "none"
        /\ step' = [step EXCEPT ![x] = [state |-> "live", position |-> edit[s].position,
                                        content |-> edit[s].content]]
        /\ held' = [held EXCEPT ![x] = @ \cup {edit[s].content}]
        /\ edit' = [edit EXCEPT ![s] = [edit[s] EXCEPT !.pc = "count", !.step = x]]
        /\ UNCHANGED <<stepPolicy, versions, edits, disturbed>>
  BY Zenon DEF InsertStep, Continue
<1>2. edit[s] \in Handlers /\ edit[s].pc = "insert" /\ HandlerFits(edit[s])
  BY <1>1 DEF HistoryInv, StepsTypeOK, At
<1>3. PICK q \in Handlers : q = [edit[s] EXCEPT !.pc = "count", !.step = x]
  BY <1>2 DEF Handlers, Points
<1>4. q.pc = "count" /\ edit[s].by \in {"create", "duplicate"}
  BY <1>2, <1>3 DEF Handlers, HandlerFits
<1> QED
  BY <1>1, <1>2, <1>3, <1>4

LEMMA CountEffect ==
    ASSUME HistoryInv, NEW s \in Slots, CountVersions(s)
    PROVE  \E q : /\ edit[s].pc = "count"
                  /\ edit' = [edit EXCEPT ![s] = q] /\ q.pc = "version" /\ q.by = edit[s].by
                  /\ UNCHANGED <<stepPolicy, step, disturbed>>
<1>1. edit[s] \in Handlers /\ edit[s].pc = "count"
  BY DEF CountVersions, HistoryInv, StepsTypeOK, At
<1>2. PICK q : q = [edit[s] EXCEPT !.pc = "version", !.count = Len(versions[edit[s].step])]
  OBVIOUS
<1>3. q.pc = "version" /\ q.by = edit[s].by
  BY <1>1, <1>2 DEF Handlers
<1> QED
  BY <1>1, <1>2, <1>3 DEF CountVersions, Continue, rows

LEMMA VersionEffect ==
    ASSUME HistoryInv, NEW s \in Slots, CreateVersion(s)
    PROVE  \E q : /\ edit[s].pc = "version"
                  /\ edit' = [edit EXCEPT ![s] = q] /\ q = Idle /\ q.pc = "idle"
                  /\ UNCHANGED <<stepPolicy, step, disturbed>>
<1>1. Idle.pc = "idle"
  BY DEF Idle
<1> QED
  BY <1>1 DEF CreateVersion, Finish, Continue, At

LEMMA OneKept ==
    ASSUME MaxSteps \in Nat, HistoryInv, OneRearranges, [Next]_vars
    PROVE  OneRearranges'
<1>1. CASE UNCHANGED vars
  BY <1>1 DEF vars, rows, OneRearranges, Rearranges
<1>2. ASSUME NEW s \in Slots,
             BeginCreate(s) \/ BeginUpdate(s) \/ BeginRemove(s) \/ BeginDuplicate(s)
                 \/ BeginReorder(s)
      PROVE  OneRearranges'
  BY <1>2, BeginEffect, OneBegins
<1>3. ASSUME NEW s \in Slots, InsertStep(s) \/ CountVersions(s) \/ CreateVersion(s)
      PROVE  OneRearranges'
  <2>1. PICK q : edit' = [edit EXCEPT ![s] = q] /\ UNCHANGED <<stepPolicy, disturbed>>
                     /\ q.pc \in {"idle", "count", "version"}
    BY <1>3, InsertEffect, CountEffect, VersionEffect
  <2> QED
    BY <2>1, NothingNew DEF Rearranges
<1>4. ASSUME NEW s \in Slots, UpdateStep(s)
      PROVE  OneRearranges'
  <2>1. PICK q : /\ edit[s].pc = "update" /\ edit[s].by = "update"
                 /\ edit' = [edit EXCEPT ![s] = q]
                 /\ q.by = "update" /\ q.patch = edit[s].patch
                 /\ UNCHANGED <<stepPolicy, disturbed>>
    BY <1>4, UpdateEffect
  <2> QED
    BY <2>1, NothingNew DEF Rearranges
<1>5. ASSUME NEW s \in Slots, RemoveStep(s)
      PROVE  OneRearranges'
  <2>1. edit[s].pc = "remove" /\ edit[s].by = "remove"
    BY <1>5 DEF RemoveStep, At, HistoryInv, HandlerFits
  <2>2. Rearranges(edit[s])
    BY <2>1 DEF Rearranges
  <2> QED
    BY <1>5, <2>2, NothingNew DEF RemoveStep, Continue
<1>6. ASSUME NEW s \in Slots, ReadSiblings(s) \/ WriteSibling(s)
      PROVE  OneRearranges'
  <2>1. PICK q \in Handlers, p \in SUBSET Writes :
            /\ edit[s] \in Handlers /\ edit[s].pc \in {"siblings", "writes"}
            /\ Follows(q, edit[s], p)
            /\ edit' = [edit EXCEPT ![s] = q] /\ UNCHANGED <<stepPolicy, disturbed>>
    <3>1. CASE ReadSiblings(s)
      BY <3>1, ReadEffect DEF rows
    <3>2. CASE WriteSibling(s)
      BY <3>2, WriteEffect
    <3> QED
      BY <1>6, <3>1, <3>2
  <2>2. Rearranges(q) => Rearranges(edit[s])
    BY <2>1, Following DEF Rearranges, Idle
  <2> QED
    BY <2>1, <2>2, NothingNew
<1>7. ASSUME NEW s \in Slots, HandlerFails(s)
      PROVE  OneRearranges'
  <2>1. /\ edit' = [edit EXCEPT ![s] = Idle] /\ stepPolicy' = stepPolicy
        /\ disturbed' = (disturbed \/ Rearranges(edit[s]))
    BY <1>7 DEF HandlerFails, Finish, Continue, rows
  <2>2. CASE Rearranges(edit[s])
    BY <2>1, <2>2 DEF OneRearranges
  <2>3. CASE ~Rearranges(edit[s])
    <3>1. disturbed' = disturbed
      BY <2>1, <2>3 DEF HistoryInv, StepsTypeOK
    <3>2. ~Rearranges(Idle)
      BY DEF Rearranges, Idle
    <3> QED
      BY <2>1, <3>1, <3>2, NothingNew
  <2> QED
    BY <2>2, <2>3
<1> QED
  BY <1>1, <1>2, <1>3, <1>4, <1>5, <1>6, <1>7 DEF Next

-----------------------------------------------------------------------------
(* The subject of a FIXED_3 sequence.                                       *)

Shared == \A x, y \in Live : step[x].content.subject = step[y].content.subject

Copying(r) == r.pc \in {"siblings", "writes"}

\* The copies of the subject that a handler has made so far.
Copied(r) ==
    /\ step[r.step].content.subject = r.content.subject
    /\ r.pc = "writes" =>
           \A y \in Live : (\A w \in r.pending : w.id # y) =>
               step[y].content.subject = r.content.subject

FixedInv ==
    stepPolicy = "FIXED_3" =>
        /\ Cardinality(Live) = 3
        /\ \A s \in Slots :
               /\ edit[s].by \in {"nobody", "update"}
               /\ Copying(edit[s]) => "subject" \in DOMAIN edit[s].patch
               /\ Rearranges(edit[s]) => edit[s].position = 1
        /\ ~disturbed =>
               /\ \A s \in Slots : Copying(edit[s]) => Copied(edit[s])
               /\ (\A s \in Slots : ~Copying(edit[s])) => Shared

LEMMA FixedInit ==
    ASSUME MaxSteps \in Nat, Init
    PROVE  FixedInv
<1> SUFFICES ASSUME stepPolicy = "FIXED_3"
             PROVE  FixedInv
  BY DEF FixedInv
<1>1. PICK t \in Texts, n \in 0 .. MaxSteps, recorded \in BOOLEAN :
        LET text == [f \in Fields |-> t] IN
        /\ \/ stepPolicy = "FLEXIBLE"
           \/ stepPolicy = "FIXED_3" /\ n = 3 /\ recorded
        /\ step = [x \in Steps |->
               IF x <= n THEN [state |-> "live", position |-> x, content |-> text] ELSE NoRow]
        /\ versions = [x \in Steps |-> IF x <= n /\ recorded THEN <<text>> ELSE <<>>]
        /\ held = [x \in Steps |-> IF x <= n THEN {text} ELSE {}]
        /\ edit = [s \in Slots |-> Idle]
        /\ edits = 0
        /\ disturbed = FALSE
  BY Zenon DEF Init
<1> DEFINE text == [f \in Fields |-> t]
<1>2. n = 3
  BY <1>1
<1>3. Live = 1 .. n /\ \A x \in Live : step[x].content = text
  <2> HIDE DEF text
  <2> QED
    BY <1>1, <1>2 DEF Live, Steps, NoRow, text
<1>4. Cardinality(Live) = 3
  <2>1. n \in Nat
    BY <1>2
  <2> QED
    BY <1>2, <1>3, <2>1, FirstNumbers
<1>5. Shared
  BY <1>3 DEF Shared
<1>6. \A s \in Slots : edit[s] = Idle
  BY <1>1
<1>7. Idle.by = "nobody" /\ ~Copying(Idle) /\ ~Rearranges(Idle)
  BY DEF Idle, Copying, Rearranges
<1> QED
  BY <1>4, <1>5, <1>6, <1>7 DEF FixedInv

\* A step that leaves the subjects as they are.
LEMMA FixedUntouched ==
    ASSUME HistoryInv, FixedInv, NEW s \in Slots, NEW q,
           edit' = [edit EXCEPT ![s] = q], stepPolicy' = stepPolicy,
           ~disturbed' => ~disturbed /\ ~Copying(edit[s]),
           Live' = Live,
           stepPolicy = "FIXED_3" =>
               /\ \A y \in Steps : step[y].state # "none" =>
                      step'[y].content.subject = step[y].content.subject
               /\ ~Copying(q)
               /\ q.by \in {"nobody", "update"}
               /\ Rearranges(q) => q.position = 1
    PROVE  FixedInv'
<1> SUFFICES ASSUME stepPolicy = "FIXED_3"
             PROVE  FixedInv'
  BY DEF FixedInv
<1>1. edit'[s] = q /\ \A t \in Slots \ {s} : edit'[t] = edit[t]
  BY DEF HistoryInv, StepsTypeOK
<1>2. \A t \in Slots :
        /\ edit'[t].by \in {"nobody", "update"}
        /\ Copying(edit'[t]) => "subject" \in DOMAIN edit'[t].patch
        /\ Rearranges(edit[t])' => edit'[t].position = 1
  BY <1>1 DEF FixedInv, Rearranges
<1>3. ASSUME ~disturbed'
      PROVE  /\ \A t \in Slots : Copying(edit'[t]) => Copied(edit[t])'
             /\ (\A t \in Slots : ~Copying(edit'[t])) => Shared'
  <2>1. \A y \in Live : step'[y].content.subject = step[y].content.subject
    BY DEF Live
  <2> USE <1>3
  <2>2. ASSUME NEW t \in Slots, Copying(edit'[t])
        PROVE  Copied(edit[t])'
    <3>1. t # s /\ edit'[t] = edit[t]
      BY <1>1, <2>2
    <3>2. HandlerFits(edit[t]) /\ edit[t].by = "update"
      BY <2>2, <3>1 DEF HistoryInv, FixedInv, Copying, HandlerFits
    <3>3. edit[t].step \in Steps /\ step[edit[t].step].state # "none"
      BY <3>2 DEF HandlerFits
    <3>4. Copied(edit[t])
      BY <1>3, <2>2, <3>1 DEF FixedInv
    <3> QED
      BY <2>1, <3>1, <3>3, <3>4 DEF Copied
  <2>3. (\A t \in Slots : ~Copying(edit'[t])) => Shared'
    BY <1>1, <1>3, <2>1 DEF FixedInv, Shared
  <2> QED
    BY <2>2, <2>3
<1>4. (\A t \in Slots : Copying(edit[t])' <=> Copying(edit'[t]))
  BY DEF Copying
<1> QED
  BY <1>2, <1>3, <1>4 DEF FixedInv, Copying

LEMMA FixedBegin ==
    ASSUME HistoryInv, FixedInv, NEW s \in Slots, NEW r, Begin(s, r), Starts(r)
    PROVE  FixedInv'
<1>1. /\ edit' = [edit EXCEPT ![s] = r]
      /\ stepPolicy' = stepPolicy /\ step' = step
      /\ ~disturbed' => ~disturbed
      /\ edit[s].pc = "idle"
  BY DEF Begin, Continue, rows, At
<1>2. Live' = Live
  BY <1>1 DEF Live
<1>3. ~Copying(edit[s])
  BY <1>1 DEF Copying
<1>4. ASSUME stepPolicy = "FIXED_3"
      PROVE  r.by = "update" /\ ~Copying(r) /\ (Rearranges(r) => r.position = 1)
  <2>1. Cardinality(Live) = 3
    BY <1>4 DEF FixedInv
  <2>2. /\ r.by = "update" /\ r.pc = "update"
        /\ "subject" \in DOMAIN r.patch => r.position = 1
    BY <1>4, <2>1 DEF Starts
  <2> QED
    BY <2>2 DEF Copying, Rearranges
<1> QED
  BY <1>1, <1>2, <1>3, <1>4, FixedUntouched

LEMMA FixedUpdate ==
    ASSUME HistoryInv, OneRearranges, FixedInv, NEW s \in Slots, UpdateStep(s)
    PROVE  FixedInv'
<1>1. PICK x \in Steps, c \in Content, q \in Handlers :
        /\ edit[s].pc = "update" /\ edit[s].by = "update" /\ edit[s].patch \in Patches
        /\ c = Patched(step[x].content, edit[s].patch)
        /\ step[x].state # "none" /\ step[x].content \in Content
        /\ step' = [step EXCEPT ![x].content = c]
        /\ edit' = [edit EXCEPT ![s] = q]
        /\ q.pc = IF Cascades(edit[s]) THEN "siblings" ELSE "count"
        /\ q.by = "update" /\ q.step = x /\ q.content = c
        /\ q.patch = edit[s].patch /\ q.position = edit[s].position
        /\ UNCHANGED <<stepPolicy, versions, edits, disturbed>>
  BY UpdateEffect
<1>2. /\ step \in [Steps -> Rows]
      /\ edit \in [Slots -> Handlers]
  BY DEF HistoryInv, StepsTypeOK
<1>3. /\ \A y \in Steps : step'[y].state = step[y].state
      /\ \A y \in Steps \ {x} : step'[y] = step[y]
      /\ step'[x].content = c
  BY <1>1, <1>2 DEF Rows
<1>4. Live' = Live
  BY <1>3 DEF Live
<1>5. ~Copying(edit[s])
  BY <1>1 DEF Copying
<1>6. CASE stepPolicy # "FIXED_3"
  BY <1>1, <1>6 DEF FixedInv
<1>7. CASE stepPolicy = "FIXED_3" /\ "subject" \notin DOMAIN edit[s].patch
  <2>1. c.subject = step[x].content.subject
    BY <1>1, <1>7, PatchedContent
  <2>2. \A y \in Steps : step'[y].content.subject = step[y].content.subject
    BY <1>3, <2>1
  <2>3. ~Copying(q) /\ ~Rearranges(q)
    BY <1>1, <1>7 DEF Copying, Cascades, Rearranges
  <2> QED
    BY <1>1, <1>4, <1>5, <2>2, <2>3, FixedUntouched
<1>8. CASE stepPolicy = "FIXED_3" /\ "subject" \in DOMAIN edit[s].patch
  <2>1. Rearranges(edit[s]) /\ edit[s].position = 1
    BY <1>1, <1>8 DEF Rearranges, FixedInv
  <2>2. q.pc = "siblings"
    BY <1>1, <1>8, <2>1 DEF Cascades
  <2>3. \A t \in Slots \ {s} : edit'[t] = edit[t]
    BY <1>1, <1>2
  <2>4. edit'[s] = q
    BY <1>1, <1>2
  <2>5. \A t \in Slots :
          /\ edit'[t].by \in {"nobody", "update"}
          /\ Copying(edit'[t]) => "subject" \in DOMAIN edit'[t].patch
          /\ Rearranges(edit[t])' => edit'[t].position = 1
    BY <1>1, <1>8, <2>1, <2>3, <2>4 DEF FixedInv, Rearranges
  <2>6. ASSUME ~disturbed, NEW t \in Slots, t # s
        PROVE  ~Copying(edit'[t])
    <3>1. ~Rearranges(edit[t])
      BY <2>1, <2>6 DEF OneRearranges
    <3>2. Copying(edit[t]) => Rearranges(edit[t])
      BY <1>8 DEF FixedInv, Copying, Rearranges
    <3> QED
      BY <2>3, <2>6, <3>1, <3>2
  <2>7. Copied(q)'
    BY <1>1, <1>3, <2>2 DEF Copied
  <2>8. Copying(q)
    BY <2>2 DEF Copying
  <2> QED
    BY <1>1, <1>4, <1>8, <2>4, <2>5, <2>6, <2>7, <2>8 DEF FixedInv, Copying
<1> QED
  BY <1>6, <1>7, <1>8

\* The cascade has written, or has listed what it is to write: p remains.
LEMMA FixedCopy ==
    ASSUME HistoryInv, OneRearranges, FixedInv, stepPolicy = "FIXED_3",
           NEW s \in Slots, NEW q \in Handlers, NEW p \in SUBSET Writes,
           Copying(edit[s]), Follows(q, edit[s], p),
           edit' = [edit EXCEPT ![s] = q], UNCHANGED <<stepPolicy, disturbed>>,
           Live' = Live,
           ~disturbed =>
               /\ step'[edit[s].step].content.subject = edit[s].content.subject
               /\ \A y \in Live : (\A w \in p : w.id # y) =>
                      step'[y].content.subject = edit[s].content.subject
    PROVE  FixedInv'
<1>1. edit \in [Slots -> Handlers] /\ HandlerFits(edit[s])
  BY DEF HistoryInv, StepsTypeOK
<1>2. edit'[s] = q /\ \A t \in Slots \ {s} : edit'[t] = edit[t]
  BY <1>1
<1>3. edit[s].by = "update" /\ "subject" \in DOMAIN edit[s].patch
  BY <1>1 DEF FixedInv, Copying, HandlerFits
<1>4. Rearranges(edit[s]) /\ edit[s].position = 1
  BY <1>3 DEF Rearranges, Copying, FixedInv
<1>5. /\ q.by = "update" /\ q.step = edit[s].step /\ q.content = edit[s].content
      /\ q.patch = edit[s].patch /\ q.position = edit[s].position /\ q.pending = p
      /\ q.pc = IF p = {} THEN "count" ELSE "writes"
  BY <1>1, <1>3 DEF Follows, Handlers
<1>6. \A t \in Slots :
        /\ edit'[t].by \in {"nobody", "update"}
        /\ Copying(edit'[t]) => "subject" \in DOMAIN edit'[t].patch
        /\ Rearranges(edit[t])' => edit'[t].position = 1
  BY <1>2, <1>3, <1>4, <1>5 DEF FixedInv, Rearranges
<1>7. ASSUME ~disturbed, NEW t \in Slots, t # s
      PROVE  ~Copying(edit'[t])
  <2>1. ~Rearranges(edit[t])
    BY <1>4, <1>7 DEF OneRearranges
  <2>2. Copying(edit[t]) => Rearranges(edit[t])
    BY DEF FixedInv, Copying, Rearranges
  <2> QED
    BY <1>2, <1>7, <2>1, <2>2
<1>8. ~disturbed => Copied(q)'
  BY <1>5 DEF Copied
<1>9. ASSUME ~disturbed, ~Copying(q)
      PROVE  Shared'
  <2>1. p = {}
    BY <1>5, <1>9 DEF Copying
  <2> QED
    BY <1>9, <2>1 DEF Shared
<1> QED
  BY <1>2, <1>6, <1>7, <1>8, <1>9 DEF FixedInv, Copying

LEMMA FixedSiblings ==
    ASSUME MaxSteps \in Nat, HistoryInv, OneRearranges, FixedInv, NEW s \in Slots,
           ReadSiblings(s)
    PROVE  FixedInv'
<1>1. PICK rank \in Listings, q \in Handlers :
        /\ edit[s] \in Handlers /\ edit[s].pc = "siblings"
        /\ ToWrite(edit[s], rank) \subseteq Writes
        /\ Follows(q, edit[s], ToWrite(edit[s], rank))
        /\ edit' = [edit EXCEPT ![s] = q]
        /\ UNCHANGED <<rows, edits, held, disturbed>>
  BY ReadEffect
<1>2. stepPolicy' = stepPolicy /\ step' = step /\ disturbed' = disturbed
  BY <1>1 DEF rows
<1>3. CASE stepPolicy # "FIXED_3"
  BY <1>2, <1>3 DEF FixedInv
<1>4. CASE stepPolicy = "FIXED_3"
  <2>1. Live' = Live
    BY <1>2 DEF Live
  <2>2. Copying(edit[s]) /\ edit[s].by = "update"
    BY <1>1, <1>4 DEF Copying, HistoryInv, HandlerFits, FixedInv
  <2>3. PICK p \in SUBSET Writes : p = ToWrite(edit[s], rank)
    BY <1>1
  <2>4. p = Others(rank, edit[s].step)
    BY <2>2, <2>3 DEF ToWrite
  <2>5. \A y \in Live : (\A w \in p : w.id # y) => y = edit[s].step
    <3>1. ASSUME NEW y \in Live, y # edit[s].step
          PROVE  \E w \in p : w.id = y
      <4>1. [id |-> y, at |-> rank[y], position |-> rank[y]] \in p
        BY <2>4, <3>1 DEF Others
      <4> QED
        BY <4>1
    <3> QED
      BY <3>1
  <2>6. ~disturbed => step[edit[s].step].content.subject = edit[s].content.subject
    BY <1>4, <2>2 DEF FixedInv, Copied
  <2>7. ~disturbed =>
          /\ step'[edit[s].step].content.subject = edit[s].content.subject
          /\ \A y \in Live : (\A w \in p : w.id # y) =>
                 step'[y].content.subject = edit[s].content.subject
    BY <1>2, <2>5, <2>6
  <2> QED
    BY <1>1, <1>2, <1>4, <2>1, <2>2, <2>3, <2>7, FixedCopy
<1> QED
  BY <1>3, <1>4

LEMMA FixedWrite ==
    ASSUME HistoryInv, OneRearranges, FixedInv, NEW s \in Slots, WriteSibling(s)
    PROVE  FixedInv'
<1>1. PICK w \in Writes, q \in Handlers :
        /\ edit[s] \in Handlers /\ edit[s].pc = "writes"
        /\ w \in edit[s].pending
        /\ edit[s].by = "update" =>
               step' = [step EXCEPT ![w.id].content.subject = edit[s].content.subject]
        /\ edit[s].pending \ {w} \subseteq Writes
        /\ Follows(q, edit[s], edit[s].pending \ {w})
        /\ edit' = [edit EXCEPT ![s] = q]
        /\ UNCHANGED <<stepPolicy, versions, edits, disturbed>>
  BY WriteEffect
<1>2. CASE stepPolicy # "FIXED_3"
  BY <1>1, <1>2 DEF FixedInv
<1>3. CASE stepPolicy = "FIXED_3"
  <2>1. Copying(edit[s]) /\ edit[s].by = "update" /\ HandlerFits(edit[s])
    BY <1>1, <1>3 DEF Copying, HistoryInv, HandlerFits, FixedInv
  <2>2. PICK x \in Steps : x = w.id
    BY DEF Writes
  <2>3. /\ step[x].content \in Content /\ edit[s].content \in Content
        /\ step \in [Steps -> Rows]
    BY <1>1, <2>1, <2>2 DEF HandlerFits, HistoryInv, StepsTypeOK
  <2>4. PICK c : c = [step[x].content EXCEPT !.subject = edit[s].content.subject]
    OBVIOUS
  <2>5. c.subject = edit[s].content.subject
    BY <2>3, <2>4 DEF Content, Fields
  <2>6. step' = [step EXCEPT ![x].content = c]
    BY <1>1, <2>1, <2>2, <2>3, <2>4
  <2>7. /\ \A y \in Steps : step'[y].state = step[y].state
        /\ \A y \in Steps \ {x} : step'[y] = step[y]
        /\ step'[x].content.subject = edit[s].content.subject
    BY <2>3, <2>5, <2>6 DEF Rows
  <2>8. Live' = Live
    BY <2>7 DEF Live
  <2>9. PICK p \in SUBSET Writes : p = edit[s].pending \ {w}
    BY <1>1
  <2>10. ~disturbed => Copied(edit[s])
    BY <1>3, <2>1 DEF FixedInv
  <2>11. edit[s].step \in Steps
    BY <2>1 DEF HandlerFits
  <2>12. ~disturbed =>
           /\ step'[edit[s].step].content.subject = edit[s].content.subject
           /\ \A y \in Live : (\A v \in p : v.id # y) =>
                  step'[y].content.subject = edit[s].content.subject
    BY <1>1, <2>2, <2>7, <2>9, <2>10, <2>11 DEF Copied, Live
  <2> QED
    BY <1>1, <1>3, <2>1, <2>8, <2>9, <2>12, FixedCopy
<1> QED
  BY <1>2, <1>3

LEMMA FixedStep ==
    ASSUME MaxSteps \in Nat, HistoryInv, OneRearranges, FixedInv, [Next]_vars
    PROVE  FixedInv'
<1>1. CASE UNCHANGED vars
  BY <1>1 DEF vars, rows, FixedInv, Live, Copying, Rearranges, Copied, Shared
<1>2. ASSUME NEW s \in Slots,
             BeginCreate(s) \/ BeginUpdate(s) \/ BeginRemove(s) \/ BeginDuplicate(s)
                 \/ BeginReorder(s)
      PROVE  FixedInv'
  BY <1>2, BeginEffect, FixedBegin
<1>3. ASSUME NEW s \in Slots, InsertStep(s) \/ RemoveStep(s)
      PROVE  FixedInv'
  <2>1. edit[s].by \in {"create", "duplicate", "remove"} /\ stepPolicy' = stepPolicy
    BY <1>3, InsertEffect DEF RemoveStep, At, HistoryInv, HandlerFits
  <2> QED
    BY <2>1 DEF FixedInv
<1>4. ASSUME NEW s \in Slots, CountVersions(s) \/ CreateVersion(s)
      PROVE  FixedInv'
  <2>1. PICK q : /\ edit[s].pc \in {"count", "version"}
                 /\ edit' = [edit EXCEPT ![s] = q] /\ q.pc \in {"version", "idle"}
                 /\ UNCHANGED <<stepPolicy, step, disturbed>>
                 /\ q = Idle \/ q.by = edit[s].by
    BY <1>4, CountEffect, VersionEffect
  <2>2. Live' = Live /\ ~Copying(q) /\ ~Copying(edit[s]) /\ ~Rearranges(q)
    BY <2>1 DEF Live, Copying, Rearranges
  <2>3. stepPolicy = "FIXED_3" => q.by \in {"nobody", "update"}
    BY <2>1 DEF FixedInv, Idle
  <2> QED
    BY <2>1, <2>2, <2>3, FixedUntouched
<1>5. ASSUME NEW s \in Slots, HandlerFails(s)
      PROVE  FixedInv'
  <2>1. /\ edit' = [edit EXCEPT ![s] = Idle] /\ stepPolicy' = stepPolicy /\ step' = step
        /\ disturbed' = (disturbed \/ Rearranges(edit[s]))
    BY <1>5 DEF HandlerFails, Finish, Continue, rows
  <2>2. Live' = Live
    BY <2>1 DEF Live
  <2>3. Idle.by = "nobody" /\ ~Copying(Idle) /\ ~Rearranges(Idle)
    BY DEF Idle, Copying, Rearranges
  <2>4. CASE stepPolicy # "FIXED_3"
    BY <2>1, <2>4 DEF FixedInv
  <2>5. CASE stepPolicy = "FIXED_3"
    <3>1. Copying(edit[s]) => Rearranges(edit[s])
      BY <2>5 DEF FixedInv, Copying, Rearranges
    <3> QED
      BY <2>1, <2>2, <2>3, <3>1, FixedUntouched
  <2> QED
    BY <2>4, <2>5
<1> QED
  BY <1>1, <1>2, <1>3, <1>4, <1>5, FixedUpdate, FixedSiblings, FixedWrite DEF Next

\* The three steps of a FIXED_3 sequence hold one subject between updates of it that did not
\* meet and were not cut short (update, the cascade).
THEOREM SubjectStaysShared ==
    ASSUME MaxSteps \in Nat
    PROVE  Spec => []SubjectIsShared
<1>1. Init => OneRearranges
  BY DEF Init, OneRearranges, Rearranges, Idle
<1>2. Init => FixedInv
  BY FixedInit
<1>3. HistoryInv /\ OneRearranges /\ FixedInv /\ [Next]_vars => OneRearranges' /\ FixedInv'
  BY OneKept, FixedStep
<1>4. FixedInv => SubjectIsShared
  BY DEF FixedInv, SubjectIsShared, NobodyRearranges, Shared, Copying, Rearranges
<1> QED
  BY <1>1, <1>2, <1>3, <1>4, HistoryInvariant, PTL DEF Spec

-----------------------------------------------------------------------------
(* Positions.                                                               *)

\* An order gives every place to somebody.
LEMMA OrderIsOnto ==
    ASSUME NEW S, IsFiniteSet(S), NEW rank \in Orders(S)
    PROVE  /\ \A x \in S : rank[x] \in 1 .. Cardinality(S)
           /\ \A k \in 1 .. Cardinality(S) : \E x \in S : rank[x] = k
<1>1. PICK n \in Nat : n = Cardinality(S)
  BY FS_CardinalityType
<1>2. rank \in Injection(S, 1 .. n)
  BY <1>1 DEF Orders, Injection, IsInjective
<1>3. IsFiniteSet(1 .. n) /\ Cardinality(1 .. n) = n
  BY FirstNumbers
<1>4. rank \in Surjection(S, 1 .. n)
  BY <1>1, <1>2, <1>3, FS_Injection
<1> QED
  BY <1>1, <1>4 DEF Surjection

\* Whatever takes every place is an order.
LEMMA OntoIsOrder ==
    ASSUME NEW S, IsFiniteSet(S), NEW rank \in [S -> 1 .. Cardinality(S)],
           \A k \in 1 .. Cardinality(S) : \E x \in S : rank[x] = k
    PROVE  rank \in Orders(S)
<1>1. PICK n \in Nat : n = Cardinality(S)
  BY FS_CardinalityType
<1>2. IsFiniteSet(1 .. n) /\ Cardinality(1 .. n) = n
  BY FirstNumbers
<1>3. rank \in Surjection(S, 1 .. n)
  BY <1>1 DEF Surjection
<1>4. rank \in Injection(S, 1 .. n)
  BY <1>1, <1>2, <1>3, FS_SurjSameCardinalityImpliesInj
<1> QED
  BY <1>1, <1>4 DEF Orders, Injection, IsInjective

Contiguous ==
    /\ \A x \in Live : step[x].position \in 1 .. Cardinality(Live)
    /\ \A k \in 1 .. Cardinality(Live) : \E x \in Live : step[x].position = k

\* It is to change positions.
Moves(r) == r.by # "update" /\ r.pc \in {"insert", "remove", "siblings", "writes"}

\* The steps that are not yet to be written have the place that rank gives them.
Renumbering(r) ==
    \E rank \in Orders(Live) :
        /\ \A w \in r.pending : w.id \in Live /\ w.position = rank[w.id]
        /\ \A y \in Live : (\A w \in r.pending : w.id # y) => step[y].position = rank[y]

\* They leave one place free, that of the copy.
Shift(rank, y, position) == IF rank[y] >= position THEN rank[y] + 1 ELSE rank[y]

Shifting(r) ==
    /\ r.position \in 1 .. Cardinality(Live) + 1
    /\ \E rank \in Orders(Live) :
           /\ \A w \in r.pending : w.id \in Live /\ w.position = Shift(rank, w.id, r.position)
           /\ \A y \in Live : (\A w \in r.pending : w.id # y) =>
                  step[y].position = Shift(rank, y, r.position)

\* How far it has come.
Progress(r) ==
    /\ r.by = "create" => Contiguous /\ r.position = Cardinality(Live) + 1
    /\ r.by = "remove" /\ r.pc = "remove" => Contiguous
    /\ r.by = "duplicate" /\ r.pc = "siblings" =>
           Contiguous /\ r.position \in 1 .. Cardinality(Live) + 1
    /\ r.by = "duplicate" /\ r.pc \in {"writes", "insert"} => Shifting(r)
    /\ r.by = "duplicate" /\ r.pc = "insert" => r.pending = {}
    /\ r.by \in {"remove", "reorder"} /\ r.pc = "writes" => Renumbering(r)

PositionInv ==
    ~disturbed =>
        /\ \A s \in Slots : Moves(edit[s]) => Progress(edit[s])
        /\ (\A s \in Slots : ~Moves(edit[s])) => Contiguous

LEMMA PositionInit ==
    ASSUME MaxSteps \in Nat, Init
    PROVE  PositionInv
<1>1. PICK t \in Texts, n \in 0 .. MaxSteps, recorded \in BOOLEAN :
        LET text == [f \in Fields |-> t] IN
        /\ \/ stepPolicy = "FLEXIBLE"
           \/ stepPolicy = "FIXED_3" /\ n = 3 /\ recorded
        /\ step = [x \in Steps |->
               IF x <= n THEN [state |-> "live", position |-> x, content |-> text] ELSE NoRow]
        /\ versions = [x \in Steps |-> IF x <= n /\ recorded THEN <<text>> ELSE <<>>]
        /\ held = [x \in Steps |-> IF x <= n THEN {text} ELSE {}]
        /\ edit = [s \in Slots |-> Idle]
        /\ edits = 0
        /\ disturbed = FALSE
  BY Zenon DEF Init
<1> DEFINE text == [f \in Fields |-> t]
<1>2. Live = 1 .. n /\ \A x \in Live : step[x].position = x
  <2> HIDE DEF text
  <2> QED
    BY <1>1 DEF Live, Steps, NoRow, text
<1>3. Cardinality(Live) = n
  BY <1>2, FirstNumbers
<1>4. Contiguous
  BY <1>2, <1>3 DEF Contiguous
<1>5. \A s \in Slots : ~Moves(edit[s])
  BY <1>1 DEF Idle, Moves
<1> QED
  BY <1>4, <1>5 DEF PositionInv

\* A step that leaves the positions as they are.
LEMMA PositionsUntouched ==
    ASSUME HistoryInv, PositionInv, NEW s \in Slots, NEW q,
           edit' = [edit EXCEPT ![s] = q],
           ~disturbed' => ~disturbed /\ ~Moves(edit[s]),
           ~Moves(q),
           Live' = Live, \A y \in Live : step'[y].position = step[y].position
    PROVE  PositionInv'
<1>1. edit'[s] = q /\ \A t \in Slots \ {s} : edit'[t] = edit[t]
  BY DEF HistoryInv, StepsTypeOK
<1>2. Contiguous => Contiguous'
  BY DEF Contiguous
<1>3. ASSUME ~disturbed', NEW t \in Slots, Moves(edit'[t])
      PROVE  Progress(edit[t])'
  <2>1. t # s /\ edit'[t] = edit[t]
    BY <1>1, <1>3
  <2>2. Progress(edit[t])
    BY <1>3, <2>1 DEF PositionInv
  <2>3. Renumbering(edit[t]) => Renumbering(edit[t])'
    BY <2>1 DEF Renumbering
  <2>4. Shifting(edit[t]) => Shifting(edit[t])'
    BY <2>1 DEF Shifting
  <2> QED
    BY <1>2, <2>1, <2>2, <2>3, <2>4 DEF Progress
<1>4. ASSUME ~disturbed', \A t \in Slots : ~Moves(edit'[t])
      PROVE  Contiguous'
  BY <1>1, <1>2, <1>4 DEF PositionInv
<1>5. \A t \in Slots : Moves(edit[t])' <=> Moves(edit'[t])
  BY DEF Moves
<1> QED
  BY <1>3, <1>4, <1>5 DEF PositionInv

\* A step of the one handler that moves steps.
LEMMA MovedAlone ==
    ASSUME HistoryInv, NEW s \in Slots, NEW q,
           edit' = [edit EXCEPT ![s] = q],
           ~disturbed' =>
               /\ \A t \in Slots \ {s} : ~Moves(edit[t])
               /\ Moves(q) => Progress(q)'
               /\ ~Moves(q) => Contiguous'
    PROVE  PositionInv'
<1>1. edit'[s] = q /\ \A t \in Slots \ {s} : edit'[t] = edit[t]
  BY DEF HistoryInv, StepsTypeOK
<1>2. \A t \in Slots : Moves(edit[t])' <=> Moves(edit'[t])
  BY DEF Moves
<1>3. Progress(q)' => Progress(edit[s])'
  <2>1. Renumbering(q)' => Renumbering(edit[s])'
    BY <1>1 DEF Renumbering
  <2>2. Shifting(q)' => Shifting(edit[s])'
    BY <1>1 DEF Shifting
  <2> QED
    BY <1>1, <2>1, <2>2 DEF Progress
<1> QED
  BY <1>1, <1>2, <1>3 DEF PositionInv

\* The handler that moves steps is the only one to rearrange.
LEMMA AloneMoving ==
    ASSUME OneRearranges, NEW s \in Slots, Moves(edit[s]), ~disturbed
    PROVE  \A t \in Slots \ {s} : ~Moves(edit[t])
BY DEF OneRearranges, Moves, Rearranges

LEMMA PositionBegin ==
    ASSUME MaxSteps \in Nat, HistoryInv, PositionInv, NEW s \in Slots, NEW r,
           Begin(s, r), Starts(r)
    PROVE  PositionInv'
<1>1. /\ edit' = [edit EXCEPT ![s] = r] /\ step' = step
      /\ disturbed' = (disturbed \/ /\ Rearranges(r)
                                    /\ \E t \in Slots \ {s} : Rearranges(edit[t]))
      /\ edit[s].pc = "idle"
  BY DEF Begin, Continue, rows, At
<1>2. Live' = Live /\ \A y \in Live : step'[y].position = step[y].position
  BY <1>1 DEF Live
<1>3. ~Moves(edit[s])
  BY <1>1 DEF Moves
<1>4. CASE r.by = "update"
  <2>1. ~Moves(r)
    BY <1>4 DEF Moves
  <2> QED
    BY <1>1, <1>2, <1>3, <2>1, PositionsUntouched
<1>5. CASE r.by # "update"
  <2>1. r.pc \in {"insert", "remove", "siblings", "writes"}
    BY <1>5 DEF Starts
  <2>2. Moves(r) /\ Rearranges(r)
    BY <1>5, <2>1 DEF Moves, Rearranges
  <2>3. ASSUME ~disturbed'
        PROVE  (\A t \in Slots \ {s} : ~Moves(edit[t])) /\ Progress(r)'
    <3>1. \A t \in Slots \ {s} : ~Moves(edit[t])
      BY <1>1, <2>2, <2>3 DEF Moves, Rearranges
    <3>2. Contiguous
      BY <1>1, <1>3, <2>3, <3>1 DEF PositionInv
    <3>3. Contiguous'
      BY <1>2, <3>2 DEF Contiguous
    <3>4. PICK n \in Nat : n = Cardinality(Live) /\ n = Cardinality(Live')
      BY <1>2, NumberedSteps
    <3>5. r.by = "duplicate" => r.position \in 1 .. n + 1
      BY <1>5, <3>2, <3>4 DEF Starts, Contiguous
    <3>6. ASSUME r.by = "reorder"
          PROVE  Renumbering(r)'
      <4>1. PICK rank \in Orders(Live) :
                r.pending = {[id |-> x, at |-> rank[x], position |-> rank[x]] : x \in Live}
        BY <3>6 DEF Starts
      <4>2. \A w \in r.pending : w.id \in Live /\ w.position = rank[w.id]
        BY <4>1
      <4>3. \A y \in Live : \E w \in r.pending : w.id = y
        <5>1. ASSUME NEW y \in Live
              PROVE  \E w \in r.pending : w.id = y
          <6>1. [id |-> y, at |-> rank[y], position |-> rank[y]] \in r.pending
            BY <4>1
          <6> QED
            BY <6>1
        <5> QED
          BY <5>1
      <4> QED
        BY <1>2, <4>2, <4>3 DEF Renumbering
    <3>7. r.by = "duplicate" => r.pc = "siblings"
      BY DEF Starts
    <3>8. r.by = "remove" => r.pc = "remove"
      BY DEF Starts
    <3>9. r.by = "create" => r.position = Cardinality(Live') + 1
      BY <1>2 DEF Starts
    <3>10. Progress(r)'
      BY <3>3, <3>4, <3>5, <3>6, <3>7, <3>8, <3>9 DEF Progress
    <3> QED
      BY <3>1, <3>10
  <2> QED
    BY <1>1, <2>2, <2>3, MovedAlone
<1> QED
  BY <1>4, <1>5

\* The list that a new step joins at a free place is contiguous again.
LEMMA PositionInsert ==
    ASSUME MaxSteps \in Nat, HistoryInv, OneRearranges, PositionInv, NEW s \in Slots,
           InsertStep(s)
    PROVE  PositionInv'
<1>1. PICK x \in Steps, q \in Handlers :
        /\ edit[s].pc = "insert" /\ edit[s].by \in {"create", "duplicate"}
        /\ step[x].state = "none"
        /\ step' = [step EXCEPT ![x] = [state |-> "live", position |-> edit[s].position,
                                        content |-> edit[s].content]]
        /\ edit' = [edit EXCEPT ![s] = q] /\ q.pc = "count"
        /\ UNCHANGED <<stepPolicy, disturbed>>
  BY InsertEffect
<1>2. Moves(edit[s]) /\ ~Moves(q)
  BY <1>1 DEF Moves
<1>3. PICK at : at = edit[s].position
  OBVIOUS
<1>4. /\ step'[x].state = "live" /\ step'[x].position = at
      /\ \A y \in Steps \ {x} : step'[y] = step[y]
  BY <1>1, <1>3 DEF HistoryInv, StepsTypeOK
<1>5. x \notin Live /\ Live' = Live \cup {x}
  BY <1>1, <1>4 DEF Live
<1>6. \A y \in Live : y # x /\ step'[y] = step[y]
  BY <1>4, <1>5 DEF Live
<1>7. PICK n \in Nat : n = Cardinality(Live)
  BY NumberedSteps
<1>8. Cardinality(Live') = n + 1
  BY <1>5, <1>7, NumberedSteps, FS_AddElement
<1>9. ASSUME ~disturbed
      PROVE  Contiguous'
  <2>1. Progress(edit[s])
    BY <1>2, <1>9 DEF PositionInv
  <2>2. CASE edit[s].by = "create"
    <3>1. Contiguous /\ at = n + 1
      BY <1>3, <1>7, <2>1, <2>2 DEF Progress
    <3>2. \A y \in Live' : step'[y].position \in 1 .. n + 1
      BY <1>4, <1>5, <1>6, <1>7, <3>1 DEF Contiguous
    <3>3. \A k \in 1 .. n + 1 : \E y \in Live' : step'[y].position = k
      <4>1. ASSUME NEW k \in 1 .. n + 1
            PROVE  \E y \in Live' : step'[y].position = k
        <5>1. k = n + 1 \/ k \in 1 .. n
          OBVIOUS
        <5> QED
          BY <1>4, <1>5, <1>6, <1>7, <3>1, <5>1 DEF Contiguous
      <4> QED
        BY <4>1
    <3> QED
      BY <1>8, <3>2, <3>3 DEF Contiguous
  <2>3. CASE edit[s].by = "duplicate"
    <3>1. Shifting(edit[s]) /\ edit[s].pending = {}
      BY <1>1, <2>1, <2>3 DEF Progress
    <3>2. at \in 1 .. n + 1
      BY <1>3, <1>7, <3>1 DEF Shifting
    <3>3. PICK rank \in Orders(Live) :
              \A y \in Live : step[y].position = Shift(rank, y, at)
      BY <1>3, <3>1 DEF Shifting
    <3>4. /\ \A y \in Live : rank[y] \in 1 .. n
          /\ \A k \in 1 .. n : \E y \in Live : rank[y] = k
      BY <1>7, NumberedSteps, OrderIsOnto
    <3>5. \A y \in Live' : step'[y].position \in 1 .. n + 1
      BY <1>4, <1>5, <1>6, <3>2, <3>3, <3>4 DEF Shift
    <3>6. ASSUME NEW k \in 1 .. n + 1
          PROVE  \E y \in Live' : step'[y].position = k
      <4>1. CASE k = at
        BY <1>4, <1>5, <4>1
      <4>2. CASE k < at
        <5>1. k \in 1 .. n
          BY <3>2, <4>2
        <5>2. PICK y \in Live : rank[y] = k
          BY <3>4, <5>1
        <5>3. step[y].position = k
          BY <3>2, <3>3, <4>2, <5>2 DEF Shift
        <5> QED
          BY <1>5, <1>6, <5>3
      <4>3. CASE k > at
        <5>1. k - 1 \in 1 .. n /\ k - 1 >= at
          BY <3>2, <4>3
        <5>2. PICK y \in Live : rank[y] = k - 1
          BY <3>4, <5>1
        <5>3. step[y].position = k
          BY <3>3, <5>1, <5>2 DEF Shift
        <5> QED
          BY <1>5, <1>6, <5>3
      <4> QED
        BY <3>2, <4>1, <4>2, <4>3
    <3> QED
      BY <1>8, <3>5, <3>6 DEF Contiguous
  <2> QED
    BY <1>1, <2>2, <2>3
<1> QED
  BY <1>1, <1>2, <1>9, AloneMoving, MovedAlone

\* Counting, recording and changing a content leave every step where it is.
LEMMA PositionUpdates ==
    ASSUME HistoryInv, PositionInv, NEW s \in Slots,
           CountVersions(s) \/ CreateVersion(s) \/ UpdateStep(s)
    PROVE  PositionInv'
<1>1. CASE CountVersions(s) \/ CreateVersion(s)
  <2>1. PICK q : /\ edit[s].pc \in {"count", "version"}
                 /\ edit' = [edit EXCEPT ![s] = q] /\ q.pc \in {"version", "idle"}
                 /\ UNCHANGED <<step, disturbed>>
    BY <1>1, CountEffect, VersionEffect
  <2>2. Live' = Live /\ ~Moves(q) /\ ~Moves(edit[s])
    BY <2>1 DEF Live, Moves
  <2> QED
    BY <2>1, <2>2, PositionsUntouched
<1>2. CASE UpdateStep(s)
  <2>1. PICK x \in Steps, c \in Content, q \in Handlers :
          /\ edit[s].by = "update" /\ q.by = "update"
          /\ step' = [step EXCEPT ![x].content = c]
          /\ edit' = [edit EXCEPT ![s] = q]
          /\ disturbed' = disturbed
    BY <1>2, UpdateEffect
  <2>2. \A y \in Steps : step'[y].state = step[y].state /\ step'[y].position = step[y].position
    BY <2>1 DEF HistoryInv, StepsTypeOK, Rows
  <2>3. Live' = Live /\ \A y \in Live : step'[y].position = step[y].position
    BY <2>2 DEF Live
  <2>4. ~Moves(q) /\ ~Moves(edit[s])
    BY <2>1 DEF Moves
  <2> QED
    BY <2>1, <2>3, <2>4, PositionsUntouched
<1> QED
  BY <1>1, <1>2

LEMMA PositionRemove ==
    ASSUME HistoryInv, OneRearranges, PositionInv, NEW s \in Slots, RemoveStep(s)
    PROVE  PositionInv'
<1>1. edit[s] \in Handlers /\ edit[s].pc = "remove" /\ edit[s].by = "remove"
  BY DEF RemoveStep, At, HistoryInv, StepsTypeOK, HandlerFits
<1>2. PICK q : q = [edit[s] EXCEPT !.pc = "siblings"]
  OBVIOUS
<1>3. q.pc = "siblings" /\ q.by = "remove"
  BY <1>1, <1>2 DEF Handlers
<1>4. edit' = [edit EXCEPT ![s] = q] /\ disturbed' = disturbed
  BY <1>2 DEF RemoveStep, Continue
<1>5. Moves(edit[s]) /\ Moves(q) /\ Progress(q)'
  BY <1>1, <1>3 DEF Moves, Progress
<1> QED
  BY <1>4, <1>5, AloneMoving, MovedAlone

\* A removal or a reorder has written, or has listed what it is to write: p remains.
LEMMA PositionRenumber ==
    ASSUME MaxSteps \in Nat, HistoryInv, OneRearranges, PositionInv,
           NEW s \in Slots, NEW q \in Handlers, NEW p \in SUBSET Writes,
           edit[s] \in Handlers, edit[s].pc \in {"siblings", "writes"},
           edit[s].by \in {"remove", "reorder"}, Follows(q, edit[s], p),
           edit' = [edit EXCEPT ![s] = q], disturbed' = disturbed, Live' = Live,
           ~disturbed => \E rank \in Orders(Live) :
               /\ \A w \in p : w.id \in Live /\ w.position = rank[w.id]
               /\ \A y \in Live : (\A w \in p : w.id # y) => step'[y].position = rank[y]
    PROVE  PositionInv'
<1>1. Moves(edit[s])
  BY DEF Moves
<1>2. ASSUME ~disturbed
      PROVE  (Moves(q) => Progress(q)') /\ (~Moves(q) => Contiguous')
  <2>1. PICK rank \in Orders(Live) :
            /\ \A w \in p : w.id \in Live /\ w.position = rank[w.id]
            /\ \A y \in Live : (\A w \in p : w.id # y) => step'[y].position = rank[y]
    BY <1>2
  <2>2. CASE p # {}
    <3>1. q.pc = "writes" /\ q.by = edit[s].by /\ q.pending = p
      BY <2>2 DEF Follows, Handlers
    <3>2. Renumbering(q)'
      BY <2>1, <3>1 DEF Renumbering
    <3> QED
      BY <3>1, <3>2 DEF Progress, Moves
  <2>3. CASE p = {}
    <3>1. q = Idle
      BY <2>3 DEF Follows
    <3>2. \A y \in Live : step'[y].position = rank[y]
      BY <2>1, <2>3
    <3>3. Contiguous'
      BY <3>2, NumberedSteps, OrderIsOnto DEF Contiguous
    <3>4. ~Moves(q)
      BY <3>1 DEF Moves, Idle
    <3> QED
      BY <3>3, <3>4
  <2> QED
    BY <2>2, <2>3
<1> QED
  BY <1>1, <1>2, AloneMoving, MovedAlone

\* The same of a copy that makes room for itself.
LEMMA PositionShift ==
    ASSUME MaxSteps \in Nat, HistoryInv, OneRearranges, PositionInv,
           NEW s \in Slots, NEW q \in Handlers, NEW p \in SUBSET Writes,
           edit[s] \in Handlers, edit[s].pc \in {"siblings", "writes"},
           edit[s].by = "duplicate", Follows(q, edit[s], p),
           edit' = [edit EXCEPT ![s] = q], disturbed' = disturbed, Live' = Live,
           ~disturbed =>
               /\ edit[s].position \in 1 .. Cardinality(Live) + 1
               /\ \E rank \in Orders(Live) :
                      /\ \A w \in p :
                             w.id \in Live /\ w.position = Shift(rank, w.id, edit[s].position)
                      /\ \A y \in Live : (\A w \in p : w.id # y) =>
                             step'[y].position = Shift(rank, y, edit[s].position)
    PROVE  PositionInv'
<1>1. Moves(edit[s])
  BY DEF Moves
<1>2. /\ q.by = "duplicate" /\ q.position = edit[s].position /\ q.pending = p
      /\ q.pc = IF p = {} THEN "insert" ELSE "writes"
  BY DEF Follows, Handlers
<1>3. ASSUME ~disturbed
      PROVE  Moves(q) /\ Progress(q)'
  <2>1. Shifting(q)'
    BY <1>2, <1>3 DEF Shifting, Shift
  <2> QED
    BY <1>2, <2>1 DEF Progress, Moves
<1> QED
  BY <1>1, <1>3, AloneMoving, MovedAlone

LEMMA PositionSiblings ==
    ASSUME MaxSteps \in Nat, HistoryInv, OneRearranges, PositionInv, NEW s \in Slots,
           ReadSiblings(s)
    PROVE  PositionInv'
<1>1. PICK rank \in Listings, q \in Handlers :
        /\ edit[s] \in Handlers /\ edit[s].pc = "siblings"
        /\ edit[s].by \in {"update", "remove", "duplicate"}
        /\ ToWrite(edit[s], rank) \subseteq Writes
        /\ Follows(q, edit[s], ToWrite(edit[s], rank))
        /\ edit' = [edit EXCEPT ![s] = q]
        /\ UNCHANGED <<rows, edits, held, disturbed>>
  BY ReadEffect
<1>2. step' = step /\ disturbed' = disturbed /\ rank \in Orders(Live)
  BY <1>1 DEF rows, Listings
<1>3. Live' = Live
  BY <1>2 DEF Live
<1>4. PICK p \in SUBSET Writes : p = ToWrite(edit[s], rank)
  BY <1>1
<1>5. CASE edit[s].by = "update"
  <2>1. q.by = "update"
    BY <1>1, <1>5 DEF Follows, Handlers
  <2>2. ~Moves(q) /\ ~Moves(edit[s])
    BY <1>5, <2>1 DEF Moves
  <2>3. /\ edit' = [edit EXCEPT ![s] = q]
        /\ ~disturbed' => ~disturbed /\ ~Moves(edit[s])
        /\ \A y \in Live : step'[y].position = step[y].position
    BY <1>1, <1>2, <2>2
  <2> QED
    BY <1>3, <2>2, <2>3, PositionsUntouched
<1>6. CASE edit[s].by = "remove"
  <2>1. p = Renumbered(rank)
    BY <1>4, <1>6 DEF ToWrite
  <2>2. \A w \in p : w.id \in Live /\ w.position = rank[w.id]
    BY <2>1 DEF Renumbered
  <2>3. ASSUME NEW y \in Live, \A w \in p : w.id # y
        PROVE  step'[y].position = rank[y]
    <3>1. SUFFICES ASSUME step[y].position # rank[y]
                   PROVE  FALSE
      BY <1>2
    <3>2. [id |-> y, at |-> rank[y], position |-> rank[y]] \in p
      BY <2>1, <3>1 DEF Renumbered
    <3> QED
      BY <2>3, <3>2
  <2> QED
    BY <1>1, <1>2, <1>3, <1>4, <1>6, <2>2, <2>3, PositionRenumber
<1>7. CASE edit[s].by = "duplicate"
  <2>1. p = Shifted(rank, edit[s].position)
    BY <1>4, <1>7 DEF ToWrite
  <2>2. ASSUME ~disturbed
        PROVE  /\ edit[s].position \in 1 .. Cardinality(Live) + 1
               /\ \E order \in Orders(Live) :
                      /\ \A w \in p :
                             w.id \in Live /\ w.position = Shift(order, w.id, edit[s].position)
                      /\ \A y \in Live : (\A w \in p : w.id # y) =>
                             step'[y].position = Shift(order, y, edit[s].position)
    <3>1. Moves(edit[s])
      BY <1>1, <1>7 DEF Moves
    <3>2. Contiguous /\ edit[s].position \in 1 .. Cardinality(Live) + 1
      BY <1>1, <1>7, <2>2, <3>1 DEF PositionInv, Progress
    <3>3. PICK order : order = [y \in Live |-> step[y].position]
      OBVIOUS
    <3>4. order \in Orders(Live)
      BY <3>2, <3>3, NumberedSteps, OntoIsOrder DEF Contiguous
    <3>5. \A w \in p : w.id \in Live /\ w.position = Shift(order, w.id, edit[s].position)
      BY <2>1, <3>3 DEF Shifted, Shift
    <3>6. ASSUME NEW y \in Live, \A w \in p : w.id # y
          PROVE  step'[y].position = Shift(order, y, edit[s].position)
      <4>1. ~(step[y].position >= edit[s].position)
        <5>1. SUFFICES ASSUME step[y].position >= edit[s].position
                       PROVE  FALSE
          OBVIOUS
        <5>2. [id |-> y, at |-> rank[y], position |-> step[y].position + 1] \in p
          BY <2>1, <5>1 DEF Shifted
        <5> QED
          BY <3>6, <5>2
      <4> QED
        BY <1>2, <3>3, <4>1 DEF Shift
    <3> QED
      BY <3>2, <3>4, <3>5, <3>6
  <2> QED
    BY <1>1, <1>2, <1>3, <1>4, <1>7, <2>2, PositionShift
<1> QED
  BY <1>1, <1>5, <1>6, <1>7

LEMMA PositionWrite ==
    ASSUME MaxSteps \in Nat, HistoryInv, OneRearranges, PositionInv, NEW s \in Slots,
           WriteSibling(s)
    PROVE  PositionInv'
<1>1. PICK w \in Writes, q \in Handlers :
        /\ edit[s] \in Handlers /\ edit[s].pc = "writes"
        /\ edit[s].by \in {"update", "remove", "duplicate", "reorder"}
        /\ w \in edit[s].pending
        /\ edit[s].by = "update" =>
               step' = [step EXCEPT ![w.id].content.subject = edit[s].content.subject]
        /\ edit[s].by # "update" => step' = [step EXCEPT ![w.id].position = w.position]
        /\ edit[s].pending \ {w} \subseteq Writes
        /\ Follows(q, edit[s], edit[s].pending \ {w})
        /\ edit' = [edit EXCEPT ![s] = q]
        /\ UNCHANGED <<stepPolicy, versions, edits, disturbed>>
  BY WriteEffect
<1>2. PICK x \in Steps : x = w.id
  BY DEF Writes
<1>3. PICK p \in SUBSET Writes : p = edit[s].pending \ {w}
  BY <1>1
<1>4. step \in [Steps -> Rows]
  BY DEF HistoryInv, StepsTypeOK
<1>5. CASE edit[s].by = "update"
  <2>1. q.by = "update"
    BY <1>1, <1>5 DEF Follows, Handlers
  <2>2. ~Moves(q) /\ ~Moves(edit[s])
    BY <1>5, <2>1 DEF Moves
  <2>3. PICK c : c = [step[x].content EXCEPT !.subject = edit[s].content.subject]
    OBVIOUS
  <2>4. step' = [step EXCEPT ![x].content = c]
    BY <1>1, <1>2, <1>4, <1>5, <2>3
  <2>5. \A y \in Steps : step'[y].state = step[y].state /\ step'[y].position = step[y].position
    BY <1>4, <2>4 DEF Rows
  <2>6. Live' = Live /\ \A y \in Live : step'[y].position = step[y].position
    BY <2>5 DEF Live
  <2> QED
    BY <1>1, <2>2, <2>6, PositionsUntouched
<1>6. CASE edit[s].by # "update"
  <2>1. /\ \A y \in Steps : step'[y].state = step[y].state
        /\ \A y \in Steps \ {x} : step'[y].position = step[y].position
        /\ step'[x].position = w.position
    BY <1>1, <1>2, <1>4, <1>6 DEF Rows
  <2>2. Live' = Live /\ \A y \in Live : y \in Steps
    BY <2>1 DEF Live
  <2>3. Moves(edit[s])
    BY <1>1, <1>6 DEF Moves
  <2>4. ~disturbed => Progress(edit[s])
    BY <2>3 DEF PositionInv
  <2>5. CASE edit[s].by \in {"remove", "reorder"}
    <3>1. ASSUME ~disturbed
          PROVE  \E rank \in Orders(Live) :
                     /\ \A v \in p : v.id \in Live /\ v.position = rank[v.id]
                     /\ \A y \in Live : (\A v \in p : v.id # y) => step'[y].position = rank[y]
      <4>1. Renumbering(edit[s])
        BY <1>1, <2>4, <2>5, <3>1 DEF Progress
      <4>2. PICK rank \in Orders(Live) :
              /\ \A v \in edit[s].pending : v.id \in Live /\ v.position = rank[v.id]
              /\ \A y \in Live : (\A v \in edit[s].pending : v.id # y) =>
                     step[y].position = rank[y]
        BY <4>1 DEF Renumbering
      <4>3. ASSUME NEW y \in Live, \A v \in p : v.id # y
            PROVE  step'[y].position = rank[y]
        <5>1. CASE y = x
          BY <1>1, <1>2, <2>1, <4>2, <5>1
        <5>2. CASE y # x
          BY <1>2, <1>3, <2>1, <2>2, <4>2, <4>3, <5>2
        <5> QED
          BY <5>1, <5>2
      <4> QED
        BY <1>3, <4>2, <4>3
    <3> QED
      BY <1>1, <1>3, <2>2, <2>5, <3>1, PositionRenumber
  <2>6. CASE edit[s].by = "duplicate"
    <3>1. ASSUME ~disturbed
          PROVE  /\ edit[s].position \in 1 .. Cardinality(Live) + 1
                 /\ \E rank \in Orders(Live) :
                        /\ \A v \in p :
                               v.id \in Live /\ v.position = Shift(rank, v.id, edit[s].position)
                        /\ \A y \in Live : (\A v \in p : v.id # y) =>
                               step'[y].position = Shift(rank, y, edit[s].position)
      <4>1. Shifting(edit[s])
        BY <1>1, <2>4, <2>6, <3>1 DEF Progress
      <4>2. PICK rank \in Orders(Live) :
              /\ \A v \in edit[s].pending :
                     v.id \in Live /\ v.position = Shift(rank, v.id, edit[s].position)
              /\ \A y \in Live : (\A v \in edit[s].pending : v.id # y) =>
                     step[y].position = Shift(rank, y, edit[s].position)
        BY <4>1 DEF Shifting
      <4>3. ASSUME NEW y \in Live, \A v \in p : v.id # y
            PROVE  step'[y].position = Shift(rank, y, edit[s].position)
        <5>1. CASE y = x
          BY <1>1, <1>2, <2>1, <4>2, <5>1
        <5>2. CASE y # x
          BY <1>2, <1>3, <2>1, <2>2, <4>2, <4>3, <5>2
        <5> QED
          BY <5>1, <5>2
      <4> QED
        BY <1>3, <4>1, <4>2, <4>3 DEF Shifting
    <3> QED
      BY <1>1, <1>3, <2>2, <2>6, <3>1, PositionShift
  <2> QED
    BY <1>1, <1>6, <2>5, <2>6
<1> QED
  BY <1>5, <1>6

LEMMA PositionStep ==
    ASSUME MaxSteps \in Nat, HistoryInv, OneRearranges, PositionInv, [Next]_vars
    PROVE  PositionInv'
<1>1. CASE UNCHANGED vars
  <2>1. step' = step /\ edit' = edit /\ disturbed' = disturbed
    BY <1>1 DEF vars, rows
  <2>2. Live' = Live
    BY <2>1 DEF Live
  <2>3. /\ Contiguous' <=> Contiguous
        /\ \A s \in Slots : /\ Moves(edit[s])' <=> Moves(edit[s])
                            /\ Renumbering(edit[s])' <=> Renumbering(edit[s])
                            /\ Shifting(edit[s])' <=> Shifting(edit[s])
    BY <2>1, <2>2 DEF Contiguous, Moves, Renumbering, Shifting
  <2>4. \A s \in Slots : Progress(edit[s])' <=> Progress(edit[s])
    BY <2>1, <2>2, <2>3 DEF Progress
  <2> QED
    BY <2>1, <2>3, <2>4 DEF PositionInv
<1>2. ASSUME NEW s \in Slots,
             BeginCreate(s) \/ BeginUpdate(s) \/ BeginRemove(s) \/ BeginDuplicate(s)
                 \/ BeginReorder(s)
      PROVE  PositionInv'
  BY <1>2, BeginEffect, PositionBegin
<1>3. ASSUME NEW s \in Slots, HandlerFails(s)
      PROVE  PositionInv'
  <2>1. /\ edit' = [edit EXCEPT ![s] = Idle] /\ step' = step
        /\ disturbed' = (disturbed \/ Rearranges(edit[s]))
    BY <1>3 DEF HandlerFails, Finish, Continue, rows
  <2>2. Live' = Live /\ ~Moves(Idle)
    BY <2>1 DEF Live, Moves, Idle
  <2>3. Moves(edit[s]) => Rearranges(edit[s])
    BY DEF Moves, Rearranges
  <2> QED
    BY <2>1, <2>2, <2>3, PositionsUntouched
<1> QED
  BY <1>1, <1>2, <1>3, PositionInsert, PositionUpdates, PositionRemove, PositionSiblings,
     PositionWrite DEF Next

\* Positions are 1-based and contiguous between rearrangements that did not meet and were not
\* cut short (renormalizePositions, duplicate, reorder, create).
THEOREM PositionsStayContiguous ==
    ASSUME MaxSteps \in Nat
    PROVE  Spec => []PositionsAreContiguous
<1>1. Init => OneRearranges
  BY DEF Init, OneRearranges, Rearranges, Idle
<1>2. Init => PositionInv
  BY PositionInit
<1>3. HistoryInv /\ OneRearranges /\ PositionInv /\ [Next]_vars => OneRearranges' /\ PositionInv'
  BY OneKept, PositionStep
<1>4. PositionInv => PositionsAreContiguous
  <2>1. NobodyRearranges => ~disturbed /\ \A s \in Slots : ~Moves(edit[s])
    BY DEF NobodyRearranges, Moves, Rearranges
  <2>2. Contiguous => {step[x].position : x \in Live} = 1 .. Cardinality(Live)
    BY DEF Contiguous
  <2> QED
    BY <2>1, <2>2 DEF PositionInv, PositionsAreContiguous
<1> QED
  BY <1>1, <1>2, <1>3, <1>4, HistoryInvariant, PTL DEF Spec
=============================================================================
