---------------------------- MODULE SequenceSteps ----------------------------
(***************************************************************************)
(* The steps of one sequence and their version history                      *)
(* (SequenceStepsService): create, update, remove, duplicate and reorder,   *)
(* one action per awaited statement and no transaction anywhere.  A step's   *)
(* content is what a version records of it: the subject, which a FIXED_3    *)
(* sequence keeps equal in its three steps, and everything else, the body.  *)
(*                                                                         *)
(* FIXED_3 exists with the memory driver only (PostgreSQL has no column for *)
(* it); a version number is unique with PostgreSQL only.  A restart is the  *)
(* failure of every handler in progress.                                    *)
(***************************************************************************)
EXTENDS Naturals, Sequences, FiniteSets

CONSTANTS
    Texts,     \* what a subject or a body may be
    Slots,     \* handlers that may run at once
    MaxSteps,  \* bound: steps that may come to exist
    MaxEdits,  \* bound: requests admitted in a behaviour
    None       \* absent

VARIABLES
    stepPolicy,  \* of the sequence
    step,        \* sequence_steps
    versions,    \* sequence_step_versions of each step, by versionNumber
    edit,        \* what each handler holds and does next
    edits,       \* how many requests were admitted
    held,        \* auxiliary: every content a step has had
    disturbed    \* auxiliary: two rearrangements met, or one was cut short

rows == <<stepPolicy, step, versions>>
vars == <<rows, edit, edits, held, disturbed>>

-----------------------------------------------------------------------------
\* Steps are numbered as they are created.
Steps == 1 .. MaxSteps

Fields == {"subject", "body"}
Content == [Fields -> Texts]
Patches == UNION {[F -> Texts] : F \in SUBSET Fields \ {{}}}
Patched(content, patch) ==
    [f \in Fields |-> IF f \in DOMAIN patch THEN patch[f] ELSE content[f]]

Rows == [state: {"none", "live", "deleted"}, position: Nat, content: Content \cup {None}]
NoRow == [state |-> "none", position |-> 0, content |-> None]

Live == {x \in Steps : step[x].state = "live"}

Callers == {"nobody", "create", "update", "remove", "duplicate", "reorder"}
Points == {"idle", "insert", "update", "remove", "siblings", "writes", "count", "version"}
Writes == [id: Steps, at: Nat, position: Nat]

\* position: of the step as first read, or the one a new step gets.  pending: the
\* updates of siblings still to do, in the order of at.
Handlers ==
    [pc: Points, by: Callers, step: Steps \cup {None}, position: Nat, patch: Patches \cup {None},
     content: Content \cup {None}, pending: SUBSET Writes, count: Nat]

Idle == [pc |-> "idle", by |-> "nobody", step |-> None, position |-> 0, patch |-> None,
         content |-> None, pending |-> {}, count |-> 0]

\* The places 1, 2, ... given to the members of S.
Orders(S) ==
    {rank \in [S -> 1 .. Cardinality(S)] : \A x, y \in S : rank[x] = rank[y] => x = y}

\* findBySequence, by position ascending.
Listings == {rank \in Orders(Live) :
                \A x, y \in Live : step[x].position < step[y].position => rank[x] < rank[y]}

\* A sequence of the wizard has its three steps; any other may be new, or a copy whose
\* steps came without versions.
Init ==
    \E t \in Texts, n \in 0 .. MaxSteps, recorded \in BOOLEAN :
        LET text == [f \in Fields |-> t] IN
        /\ \/ stepPolicy = "FLEXIBLE"
           \/ stepPolicy = "FIXED_3" /\ n = 3 /\ recorded
        /\ step = [x \in Steps |->
               IF x <= n THEN [state |-> "live", position |-> x, content |-> text] ELSE NoRow]
        /\ versions = [x \in Steps |-> IF x <= n /\ recorded THEN <<text>> ELSE <<>>]
        /\ held = [x \in Steps |-> IF x <= n THEN {text} ELSE {}]
        /\ edit = [s \in Slots |-> Idle]
        /\ edits = 0
        /\ disturbed = FALSE

-----------------------------------------------------------------------------
(* Handlers in general.                                                     *)

At(s, p) == edit[s].pc = p
Continue(s, r) == edit' = [edit EXCEPT ![s] = r]
Finish(s) == Continue(s, Idle)

\* It is to change several rows, or a row by what it read of others.
Rearranges(r) ==
    /\ r.pc \in {"insert", "update", "remove", "siblings", "writes"}
    /\ r.by = "update" => stepPolicy = "FIXED_3" /\ "subject" \in DOMAIN r.patch

Begin(s, r) ==
    /\ At(s, "idle")
    /\ edits < MaxEdits
    /\ edits' = edits + 1
    /\ Continue(s, r)
    /\ disturbed' = (disturbed \/ /\ Rearranges(r)
                                  /\ \E t \in Slots \ {s} : Rearranges(edit[t]))
    /\ UNCHANGED <<rows, held>>

\* A statement throws, or the process is lost; what was written stays.
HandlerFails(s) ==
    /\ ~At(s, "idle")
    /\ Finish(s)
    /\ disturbed' = (disturbed \/ Rearranges(edit[s]))
    /\ UNCHANGED <<rows, edits, held>>

\* The handler's next statement once its updates of siblings are done.
Afterwards(r) ==
    CASE r.by = "update"    -> [r EXCEPT !.pc = "count"]
      [] r.by = "duplicate" -> [r EXCEPT !.pc = "insert"]
      [] OTHER              -> Idle

Proceed(s, r) ==
    Continue(s, IF r.pending = {} THEN Afterwards(r) ELSE [r EXCEPT !.pc = "writes"])

-----------------------------------------------------------------------------
(* create                                                                   *)

BeginCreate(s) ==
    \E content \in Content :
        /\ stepPolicy = "FIXED_3" => Cardinality(Live) < 3
        /\ Begin(s, [Idle EXCEPT !.pc = "insert", !.by = "create", !.content = content,
                                 !.position = Cardinality(Live) + 1])

\* Of create and duplicate.
InsertStep(s) ==
    \E x \in Steps :
        /\ At(s, "insert")
        /\ step[x].state = "none"
        /\ \A y \in Steps : step[y].state = "none" => x <= y
        /\ step' = [step EXCEPT ![x] = [state |-> "live", position |-> edit[s].position,
                                        content |-> edit[s].content]]
        /\ held' = [held EXCEPT ![x] = @ \cup {edit[s].content}]
        /\ Continue(s, [edit[s] EXCEPT !.pc = "count", !.step = x])
        /\ UNCHANGED <<stepPolicy, versions, edits, disturbed>>

(* versions.create: count, then insert under the next number.               *)

CountVersions(s) ==
    /\ At(s, "count")
    /\ Continue(s, [edit[s] EXCEPT !.pc = "version", !.count = Len(versions[edit[s].step])])
    /\ UNCHANGED <<rows, edits, held, disturbed>>

\* A number that was taken meanwhile makes the insert fail (HandlerFails).
CreateVersion(s) ==
    /\ At(s, "version")
    /\ Len(versions[edit[s].step]) = edit[s].count
    /\ versions' = [versions EXCEPT ![edit[s].step] = Append(@, edit[s].content)]
    /\ Finish(s)
    /\ UNCHANGED <<stepPolicy, step, edits, held, disturbed>>

-----------------------------------------------------------------------------
(* update                                                                   *)

\* Mutant of the next definition: the subject of every step of a FIXED_3 sequence can be edited.
BeginAnyUpdate(s) ==
    \E x \in Live, patch \in Patches :
        Begin(s, [Idle EXCEPT !.pc = "update", !.by = "update", !.step = x,
                              !.position = step[x].position, !.patch = patch,
                              !.content = step[x].content])

BeginUpdate(s) ==
    \E x \in Live, patch \in Patches :
        /\ stepPolicy = "FIXED_3" /\ "subject" \in DOMAIN patch => step[x].position = 1
        /\ Begin(s, [Idle EXCEPT !.pc = "update", !.by = "update", !.step = x,
                                 !.position = step[x].position, !.patch = patch,
                                 !.content = step[x].content])

Cascades(r) == stepPolicy = "FIXED_3" /\ r.position = 1 /\ "subject" \in DOMAIN r.patch

\* Mutant of the next definition: what is recorded is the patch over the step as first read.
UpdateStepRecordingRead(s) ==
    LET x == edit[s].step
        content == Patched(step[x].content, edit[s].patch)
    IN  /\ At(s, "update")
        /\ step' = [step EXCEPT ![x].content = content]
        /\ held' = [held EXCEPT ![x] = @ \cup {content}]
        /\ Continue(s, [edit[s] EXCEPT !.pc = IF Cascades(edit[s]) THEN "siblings" ELSE "count",
                                       !.content = Patched(@, edit[s].patch)])
        /\ UNCHANGED <<stepPolicy, versions, edits, disturbed>>

\* The row answers with what it now holds, another request's patch included.
UpdateStep(s) ==
    LET x == edit[s].step
        content == Patched(step[x].content, edit[s].patch)
    IN  /\ At(s, "update")
        /\ step' = [step EXCEPT ![x].content = content]
        /\ held' = [held EXCEPT ![x] = @ \cup {content}]
        /\ Continue(s, [edit[s] EXCEPT !.pc = IF Cascades(edit[s]) THEN "siblings" ELSE "count",
                                       !.content = content])
        /\ UNCHANGED <<stepPolicy, versions, edits, disturbed>>

-----------------------------------------------------------------------------
(* remove, duplicate, reorder: not of a FIXED_3 sequence.                   *)

BeginRemove(s) ==
    \E x \in Live :
        /\ stepPolicy = "FLEXIBLE"
        /\ Begin(s, [Idle EXCEPT !.pc = "remove", !.by = "remove", !.step = x])

RemoveStep(s) ==
    /\ At(s, "remove")
    /\ step' = [step EXCEPT ![edit[s].step].state = "deleted"]
    /\ Continue(s, [edit[s] EXCEPT !.pc = "siblings"])
    /\ UNCHANGED <<stepPolicy, versions, edits, held, disturbed>>

BeginDuplicate(s) ==
    \E x \in Live :
        /\ stepPolicy = "FLEXIBLE"
        /\ Begin(s, [Idle EXCEPT !.pc = "siblings", !.by = "duplicate", !.step = x,
                                 !.position = step[x].position + 1,
                                 !.content = step[x].content])

BeginReorder(s) ==
    \E rank \in Orders(Live) :
        /\ stepPolicy = "FLEXIBLE"
        /\ Live # {}
        /\ Begin(s, [Idle EXCEPT !.pc = "writes", !.by = "reorder",
                                 !.pending = {[id |-> x, at |-> rank[x], position |-> rank[x]] :
                                                 x \in Live}])

\* What the list of siblings makes a handler write: a cascade to all others, a removal to
\* those out of place, a copy to those behind its original.
Renumbered(rank) ==
    {[id |-> x, at |-> rank[x], position |-> rank[x]] :
        x \in {y \in Live : step[y].position # rank[y]}}

\* Mutant of the next definition: the step next to the original stays where it is.
ShiftedBehind(rank, position) ==
    {[id |-> x, at |-> rank[x], position |-> step[x].position + 1] :
        x \in {y \in Live : step[y].position > position}}

Shifted(rank, position) ==
    {[id |-> x, at |-> rank[x], position |-> step[x].position + 1] :
        x \in {y \in Live : step[y].position >= position}}

Others(rank, x) ==
    {[id |-> y, at |-> rank[y], position |-> rank[y]] : y \in Live \ {x}}

ReadSiblings(s) ==
    \E rank \in Listings :
        /\ At(s, "siblings")
        /\ Proceed(s, [edit[s] EXCEPT !.pending =
               CASE edit[s].by = "update"    -> Others(rank, edit[s].step)
                 [] edit[s].by = "remove"    -> Renumbered(rank)
                 [] edit[s].by = "duplicate" -> Shifted(rank, edit[s].position)])
        /\ UNCHANGED <<rows, edits, held, disturbed>>

\* A patch of one sibling names only the field that it changes.
WriteSibling(s) ==
    \E w \in edit[s].pending :
        /\ At(s, "writes")
        /\ \A v \in edit[s].pending : w.at <= v.at
        /\ step' = IF edit[s].by = "update"
                   THEN [step EXCEPT ![w.id].content.subject = edit[s].content.subject]
                   ELSE [step EXCEPT ![w.id].position = w.position]
        /\ held' = [held EXCEPT ![w.id] = @ \cup {step'[w.id].content}]
        /\ Proceed(s, [edit[s] EXCEPT !.pending = @ \ {w}])
        /\ UNCHANGED <<stepPolicy, versions, edits, disturbed>>

-----------------------------------------------------------------------------
Next ==
    \E s \in Slots :
        \/ BeginCreate(s) \/ InsertStep(s) \/ CountVersions(s) \/ CreateVersion(s)
        \/ BeginUpdate(s) \/ UpdateStep(s)
        \/ BeginRemove(s) \/ RemoveStep(s) \/ BeginDuplicate(s) \/ BeginReorder(s)
        \/ ReadSiblings(s) \/ WriteSibling(s)
        \/ HandlerFails(s)

Spec == Init /\ [][Next]_vars

-----------------------------------------------------------------------------
(* Properties.                                                              *)

\* Every variable has the shape its table or handler gives it.
StepsTypeOK ==
    /\ stepPolicy \in {"FIXED_3", "FLEXIBLE"}
    /\ step \in [Steps -> Rows]
    /\ \A x \in Steps : step[x].state # "none" => step[x].content \in Content
    /\ versions \in [Steps -> Seq(Content)]
    /\ edit \in [Slots -> Handlers]
    /\ edits \in Nat
    /\ held \in [Steps -> SUBSET Content]
    /\ disturbed \in BOOLEAN

\* A version is a snapshot of its step: every recorded content is one that the step really
\* had, however updates of it interleave (sequence-step-version.entity.ts).
RecordedWasHeld ==
    \A x \in Steps : \A i \in 1 .. Len(versions[x]) : versions[x][i] \in held[x]

NobodyRearranges == ~disturbed /\ \A s \in Slots : ~Rearranges(edit[s])

\* The steps of a FIXED_3 sequence hold one subject, that of Enviados_1, between updates of
\* it that did not meet; updates of their bodies may go on (update, the cascade).
SubjectIsShared ==
    stepPolicy = "FIXED_3" /\ NobodyRearranges =>
        \A x, y \in Live : step[x].content.subject = step[y].content.subject

\* Positions are 1-based and contiguous between rearrangements that did not meet; updates of
\* contents may go on (sequence-step.entity.ts, renormalizePositions).
PositionsAreContiguous ==
    NobodyRearranges =>
        {step[x].position : x \in Live} = 1 .. Cardinality(Live)
=============================================================================
