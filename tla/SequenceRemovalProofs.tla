----------------------- MODULE SequenceRemovalProofs -----------------------
(***************************************************************************)
(* Proofs about SequenceRemoval, for any contacts, companies, keys,        *)
(* requests and monitors: its invariant, and that it implements            *)
(* KeyedOperation.                                                         *)
(***************************************************************************)
EXTENDS SequenceRemoval, FiniteSetTheorems, TLAPS

\* Nothing is removed, claimed or asked at first.
LEMMA InitRemovalInv == Init => RemovalInv
<1> SUFFICES ASSUME Init PROVE RemovalInv
  OBVIOUS
<1> USE DEF Init
<1>1. TypeOK
  BY DEF TypeOK, Points, Worker
<1>2. \A w \in Worker : WorkerAgrees(w)
  BY DEF WorkerAgrees, Committed
<1>3. \A r \in Request : RequestAgrees(r)
  BY DEF RequestAgrees, Committed, Worker
<1>4. OneEffectPerClaim /\ CompletedHasItsEvent /\ ShownStatusIsReal
  BY DEF OneEffectPerClaim, CompletedHasItsEvent, ShownStatusIsReal
<1> QED BY <1>1, <1>2, <1>3, <1>4 DEF RemovalInv

-----------------------------------------------------------------------------
(* What no step undoes.                                                     *)

\* A command stays, with its target and what it did, and does not go back to
\* REQUESTED; a processed event stays processed.
CommandsKept ==
    \A k \in StorageKey :
        /\ command[k] # None =>
             /\ command'[k] # None
             /\ command'[k].target = command[k].target
             /\ command'[k].snapshot.did = command[k].snapshot.did
             /\ command[k].status # "REQUESTED" => command'[k].status # "REQUESTED"
        /\ event[k] = "PROCESSED" => event'[k] = "PROCESSED"

\* The workers that do not step still agree.
LEMMA OthersAgree ==
  ASSUME RemovalInv, CommandsKept, NEW w,
         \A v \in Worker \ {w} : pc'[v] = pc[v] /\ ask'[v] = ask[v],
         \A r \in Request \ {w} : result'[r] = result[r] /\ origin'[r] = origin[r]
  PROVE  /\ \A v \in Worker \ {w} : WorkerAgrees(v)'
         /\ \A r \in Request \ {w} : RequestAgrees(r)'
<1> USE DEF RemovalInv, KeyOf
<1>1. ASSUME NEW v \in Worker, ask[v] # None PROVE ask[v].key \in StorageKey
  BY <1>1 DEF TypeOK, Asks
<1>2. ASSUME NEW v \in Worker \ {w} PROVE WorkerAgrees(v)'
  <2>1. WorkerAgrees(v) /\ pc'[v] = pc[v] /\ ask'[v] = ask[v]
    BY <1>2
  <2>2. CASE ask[v] = None
    BY <2>1, <2>2 DEF WorkerAgrees, Committed
  <2>3. CASE ask[v] # None
    BY <1>1, <2>1, <2>3 DEF WorkerAgrees, CommandsKept
  <2> QED BY <2>2, <2>3
<1>3. ASSUME NEW r \in Request \ {w} PROVE RequestAgrees(r)'
  <2>1. /\ RequestAgrees(r) /\ WorkerAgrees(r) /\ r \in Worker
        /\ pc'[r] = pc[r] /\ ask'[r] = ask[r] /\ result'[r] = result[r] /\ origin'[r] = origin[r]
    BY <1>3 DEF Worker
  <2>2. CASE ask[r] = None
    BY <2>1, <2>2 DEF RequestAgrees, WorkerAgrees
  <2>3. CASE ask[r] # None
    BY <1>1, <2>1, <2>3 DEF RequestAgrees, CommandsKept
  <2> QED BY <2>2, <2>3
<1> QED BY <1>2, <1>3

\* A step that leaves the commands alone and records events in order.
LEMMA OnlyWorker ==
  ASSUME RemovalInv, TypeOK', NEW w \in Worker,
         UNCHANGED <<command, effects>>,
         \A k \in StorageKey : event[k] = "PROCESSED" => event'[k] = "PROCESSED",
         \A v \in Worker \ {w} : pc'[v] = pc[v] /\ ask'[v] = ask[v],
         \A r \in Request \ {w} : result'[r] = result[r] /\ origin'[r] = origin[r],
         WorkerAgrees(w)',
         w \in Request => RequestAgrees(w)'
  PROVE  RemovalInv'
<1>1. CommandsKept
  BY DEF CommandsKept
<1>2. (\A v \in Worker : WorkerAgrees(v)') /\ (\A r \in Request : RequestAgrees(r)')
  BY <1>1, OthersAgree
<1>3. OneEffectPerClaim' /\ CompletedHasItsEvent' /\ ShownStatusIsReal'
  BY DEF RemovalInv, OneEffectPerClaim, CompletedHasItsEvent, ShownStatusIsReal
<1> QED BY <1>2, <1>3 DEF RemovalInv

-----------------------------------------------------------------------------
(* The invariant, action by action.                                         *)

\* The stored key of a worker that has one.
LEMMA KeyIsStored ==
  ASSUME RemovalInv, NEW w \in Worker, pc[w] # "idle"
  PROVE  /\ ask[w] \in Asks /\ ask[w] # None
         /\ KeyOf(w) \in StorageKey
         /\ ask[w].target \in Target
BY DEF RemovalInv, WorkerAgrees, TypeOK, Asks, KeyOf

\* A request is no monitor.
LEMMA RequestIsNoMonitor ==
  ASSUME NEW r \in Request
  PROVE  r \in Worker /\ r \notin Monitor
BY ConstantsAssumption DEF ConstantsAssumption, Worker

\* A request is posted.
LEMMA BeginPreserves ==
  ASSUME RemovalInv, NEW r \in Request, Begin(r)
  PROVE  RemovalInv'
<1> USE RequestIsNoMonitor
<1>1. PICK scope \in Scopes, raw \in RawKey : \E t \in Targets(scope) :
        ask' = [ask EXCEPT ![r] = [key |-> StoredUnder(scope, raw), target |-> t]]
  BY DEF Begin
<1>2. PICK t \in Targets(scope) :
        ask' = [ask EXCEPT ![r] = [key |-> StoredUnder(scope, raw), target |-> t]]
  BY <1>1
<1>3. [key |-> StoredUnder(scope, raw), target |-> t] \in Asks
  BY DEF Asks, StoredUnder, StorageKey, Targets, Target
<1>4. TypeOK /\ WorkerAgrees(r) /\ RequestAgrees(r)
  BY DEF RemovalInv
<1>5. pc' = [pc EXCEPT ![r] = "check"] /\ pc[r] = "idle"
      /\ UNCHANGED <<removed, waiting, effects, command, event, result, origin>>
  BY DEF Begin, Goto, businessVars
<1>6. TypeOK'
  BY <1>2, <1>3, <1>4, <1>5 DEF TypeOK, Points
<1>7. WorkerAgrees(r)'
  <2>1. pc'[r] = "check" /\ ask'[r] # None
    BY <1>2, <1>3, <1>4, <1>5, NoneAssumption DEF TypeOK
  <2> QED BY <2>1 DEF WorkerAgrees, Committed
<1>8. RequestAgrees(r)'
  BY <1>4, <1>5 DEF RequestAgrees, TypeOK, Committed
<1> QED BY <1>2, <1>4, <1>5, <1>6, <1>7, <1>8, OnlyWorker DEF TypeOK

\* A request that is answered, from what is stored or with a refusal.
LEMMA AnswersPreserve ==
  ASSUME RemovalInv, NEW r \in Request,
         pc[r] \in {"check", "transaction", "raced", "reply"},
         Refuse(r) \/ (command[KeyOf(r)] # None /\ Replay(r)),
         Goto(r, "done"),
         UNCHANGED <<removed, waiting, effects, command, event, ask>>
  PROVE  RemovalInv'
<1> USE RequestIsNoMonitor
<1>1. TypeOK /\ WorkerAgrees(r) /\ RequestAgrees(r) /\ ShownStatusIsReal
  BY DEF RemovalInv
<1>2. KeyOf(r) \in StorageKey /\ ask[r] # None
  BY KeyIsStored
<1>3. pc' = [pc EXCEPT ![r] = "done"]
  BY DEF Goto
<1>4. CASE Refuse(r)
  <2>1. TypeOK'
    BY <1>1, <1>3, <1>4 DEF TypeOK, Points, Refuse
  <2>2. WorkerAgrees(r)' /\ RequestAgrees(r)'
    BY <1>1, <1>2, <1>3, <1>4 DEF WorkerAgrees, RequestAgrees, TypeOK, Refuse, Committed
  <2> QED BY <1>1, <1>3, <1>4, <2>1, <2>2, OnlyWorker DEF TypeOK, Refuse
<1>5. CASE command[KeyOf(r)] # None /\ Replay(r)
  <2>1. command[KeyOf(r)] \in Commands /\ command[KeyOf(r)].snapshot \in Results
    BY <1>1, <1>2, <1>5 DEF TypeOK, Commands
  <2>2. TypeOK'
    BY <1>1, <1>3, <1>5, <2>1 DEF TypeOK, Points, Replay
  <2>3. WorkerAgrees(r)'
    BY <1>1, <1>2, <1>3 DEF WorkerAgrees, TypeOK, Committed
  <2>4. RequestAgrees(r)'
    <3>1. /\ pc'[r] = "done" /\ origin'[r] = "replay"
          /\ result'[r] = command[KeyOf(r)].snapshot
          /\ command[KeyOf(r)].target = ask[r].target
      BY <1>1, <1>3, <1>5 DEF TypeOK, Replay
    <3>2. result'[r] # None
      BY <2>1, <3>1, NoneAssumption
    <3> QED BY <1>1, <1>2, <1>5, <3>1, <3>2 DEF RequestAgrees, ShownStatusIsReal, KeyOf, Committed
  <2> QED BY <1>1, <1>3, <1>5, <2>2, <2>3, <2>4, OnlyWorker DEF TypeOK, Replay
<1> QED BY <1>4, <1>5

\* A request that only moves on.
LEMMA MovesPreserve ==
  ASSUME RemovalInv, NEW r \in Request,
         CheckUnknown(r) \/ RollBack(r) \/ Reply(r)
  PROVE  RemovalInv'
<1> USE RequestIsNoMonitor DEF requestVars, answerVars, businessVars
<1>1. TypeOK /\ WorkerAgrees(r) /\ RequestAgrees(r)
  BY DEF RemovalInv
<1>2. PICK p \in {"transaction", "raced", "done"} :
        /\ pc' = [pc EXCEPT ![r] = p]
        /\ IF p = "done" THEN pc[r] = "reply" ELSE pc[r] \in {"check", "transaction"}
  BY DEF CheckUnknown, RollBack, Reply, Goto
<1>3. UNCHANGED <<removed, waiting, effects, command, event, ask, result, origin>>
  BY DEF CheckUnknown, RollBack, Reply
<1>4. TypeOK'
  BY <1>1, <1>2, <1>3 DEF TypeOK, Points
<1>5. WorkerAgrees(r)' /\ RequestAgrees(r)'
  BY <1>1, <1>2, <1>3 DEF WorkerAgrees, RequestAgrees, TypeOK, Committed, KeyOf
<1> QED BY <1>1, <1>2, <1>3, <1>4, <1>5, OnlyWorker DEF TypeOK

\* What a transaction reports is an outcome.
LEMMA CommitReports ==
  ASSUME TypeOK, NEW contacts \in SUBSET Contact
  PROVE  [cancelled |-> Cardinality({e \in waiting : e[1] \in contacts}),
          affected |-> Cardinality(contacts \ removed)] \in Outcomes
<1> DEFINE mine == {e \in waiting : e[1] \in contacts}
<1>1. IsFiniteSet(Contact) /\ IsFiniteSet(Step)
  BY ConstantsAssumption DEF ConstantsAssumption
<1>2. IsFiniteSet(Contact \X Step)
  BY <1>1, FS_Product
<1>3. mine \in SUBSET (Contact \X Step) /\ contacts \ removed \in SUBSET Contact
  BY DEF TypeOK
<1>4. IsFiniteSet(mine) /\ Cardinality(mine) <= Cardinality(Contact \X Step)
  BY <1>2, <1>3, FS_Subset
<1>5. IsFiniteSet(contacts \ removed) /\ Cardinality(contacts \ removed) <= Cardinality(Contact)
  BY <1>1, <1>3, FS_Subset
<1>6. /\ Cardinality(mine) \in Nat /\ Cardinality(Contact \X Step) \in Nat
      /\ Cardinality(contacts \ removed) \in Nat /\ Cardinality(Contact) \in Nat
  BY <1>1, <1>2, <1>4, <1>5, FS_CardinalityType
<1>7. Cardinality(mine) \in 0 .. Cardinality(Contact \X Step)
      /\ Cardinality(contacts \ removed) \in 0 .. Cardinality(Contact)
  BY <1>4, <1>5, <1>6
<1> QED BY <1>7 DEF Outcomes

\* The commit, with its parts named: what it reports and the row it inserts.
LEMMA CommitEffect ==
  ASSUME RemovalInv, NEW r \in Request, Commit(r)
  PROVE  \E d \in Outcomes :
           /\ pc[r] = "transaction" /\ pc' = [pc EXCEPT ![r] = "dispatch"]
           /\ command[KeyOf(r)] = None
           /\ command' = [command EXCEPT ![KeyOf(r)] =
                [target |-> ask[r].target, status |-> "REQUESTED",
                 snapshot |-> [did |-> d, commandStatus |-> "REQUESTED"]]]
           /\ result' = [result EXCEPT ![r] = [did |-> d, commandStatus |-> "REQUESTED"]]
           /\ origin' = [origin EXCEPT ![r] = "own"]
           /\ effects' = [effects EXCEPT ![KeyOf(r)] = @ + 1]
           /\ removed' \subseteq Contact /\ waiting' \subseteq waiting
           /\ UNCHANGED <<event, ask>>
<1> DEFINE contacts == Affects(ask[r].target)
           d == [cancelled |-> Cardinality({e \in waiting : e[1] \in contacts}),
                 affected |-> Cardinality(contacts \ removed)]
<1>1. TypeOK /\ pc[r] = "transaction"
  BY DEF RemovalInv, Commit
<1>2. contacts \in SUBSET Contact
  BY <1>1, KeyIsStored, RequestIsNoMonitor DEF Affects, Target
<1>3. d \in Outcomes
  BY <1>1, <1>2, CommitReports
<1>4. /\ command' = [command EXCEPT ![KeyOf(r)] =
              [target |-> ask[r].target, status |-> "REQUESTED",
               snapshot |-> [did |-> d, commandStatus |-> "REQUESTED"]]]
      /\ result' = [result EXCEPT ![r] = [did |-> d, commandStatus |-> "REQUESTED"]]
  BY DEF Commit
<1>5. removed' \subseteq Contact /\ waiting' \subseteq waiting
  BY <1>1, <1>2 DEF Commit, TypeOK
<1>6. /\ pc' = [pc EXCEPT ![r] = "dispatch"] /\ command[KeyOf(r)] = None
      /\ origin' = [origin EXCEPT ![r] = "own"]
      /\ effects' = [effects EXCEPT ![KeyOf(r)] = @ + 1]
      /\ UNCHANGED <<event, ask>>
  BY DEF Commit, Goto, ClaimIsFree
<1> HIDE DEF d
<1> QED BY <1>1, <1>3, <1>4, <1>5, <1>6

\* The removal and its claim commit together.
LEMMA CommitPreserves ==
  ASSUME RemovalInv, NEW r \in Request, Commit(r)
  PROVE  RemovalInv'
<1> USE RequestIsNoMonitor
<1>0. TypeOK /\ WorkerAgrees(r) /\ RequestAgrees(r) /\ OneEffectPerClaim
      /\ CompletedHasItsEvent /\ ShownStatusIsReal
  BY DEF RemovalInv
<1>1. PICK d \in Outcomes :
           /\ pc[r] = "transaction" /\ pc' = [pc EXCEPT ![r] = "dispatch"]
           /\ command[KeyOf(r)] = None
           /\ command' = [command EXCEPT ![KeyOf(r)] =
                [target |-> ask[r].target, status |-> "REQUESTED",
                 snapshot |-> [did |-> d, commandStatus |-> "REQUESTED"]]]
           /\ result' = [result EXCEPT ![r] = [did |-> d, commandStatus |-> "REQUESTED"]]
           /\ origin' = [origin EXCEPT ![r] = "own"]
           /\ effects' = [effects EXCEPT ![KeyOf(r)] = @ + 1]
           /\ removed' \subseteq Contact /\ waiting' \subseteq waiting
           /\ UNCHANGED <<event, ask>>
  BY CommitEffect
<1>2. KeyOf(r) \in StorageKey /\ ask[r] # None /\ ask[r].target \in Target
  BY <1>1, KeyIsStored
<1> DEFINE made == [did |-> d, commandStatus |-> "REQUESTED"]
           new == [target |-> ask[r].target, status |-> "REQUESTED", snapshot |-> made]
<1>3. made \in Results /\ new \in Commands /\ new # None /\ made # None
  <2>1. made \in Results
    BY DEF Results, CommandStatus
  <2>2. new \in Commands
    BY <1>2, <2>1 DEF Commands, CommandStatus
  <2> QED BY <2>1, <2>2, NoneAssumption
<1>4. TypeOK'
  BY <1>0, <1>1, <1>2, <1>3 DEF TypeOK, Points
<1>5. /\ command'[KeyOf(r)] = new
      /\ \A k \in StorageKey \ {KeyOf(r)} : command'[k] = command[k]
  BY <1>0, <1>1, <1>2 DEF TypeOK
<1>6. new.target = ask[r].target /\ new.status = "REQUESTED" /\ new.snapshot = made
      /\ made.did = d /\ made.commandStatus = "REQUESTED"
  OBVIOUS
<1>7. CommandsKept
  BY <1>1, <1>5 DEF CommandsKept
<1>8. (\A v \in Worker \ {r} : WorkerAgrees(v)') /\ (\A q \in Request \ {r} : RequestAgrees(q)')
  BY <1>0, <1>1, <1>7, OthersAgree DEF TypeOK
<1>9. WorkerAgrees(r)' /\ RequestAgrees(r)'
  <2>1. /\ pc'[r] = "dispatch" /\ ask'[r] = ask[r] /\ origin'[r] = "own" /\ result'[r] = made
        /\ KeyOf(r)' = KeyOf(r)
    BY <1>0, <1>1 DEF TypeOK, KeyOf
  <2> QED BY <1>2, <1>3, <1>5, <1>6, <2>1 DEF WorkerAgrees, RequestAgrees, Committed
<1>10. OneEffectPerClaim' /\ CompletedHasItsEvent' /\ ShownStatusIsReal'
  <2>1. \A k \in StorageKey :
          effects'[k] = IF k = KeyOf(r) THEN effects[k] + 1 ELSE effects[k]
    BY <1>0, <1>1, <1>2 DEF TypeOK
  <2>2. OneEffectPerClaim'
    BY <1>0, <1>1, <1>3, <1>5, <2>1 DEF OneEffectPerClaim
  <2>3. CompletedHasItsEvent' /\ ShownStatusIsReal'
    BY <1>0, <1>1, <1>5, <1>6 DEF CompletedHasItsEvent, ShownStatusIsReal
  <2> QED BY <2>2, <2>3
<1> QED BY <1>4, <1>8, <1>9, <1>10 DEF RemovalInv

\* A worker that rewrites the command it is about, keeping its target and outcome.
LEMMA OnlyCommand ==
  ASSUME RemovalInv, NEW w \in Worker, NEW new \in Commands,
         pc[w] \in Committed,
         command' = [command EXCEPT ![KeyOf(w)] = new],
         new.target = command[KeyOf(w)].target,
         new.snapshot.did = command[KeyOf(w)].snapshot.did,
         command[KeyOf(w)].status # "REQUESTED" => new.status # "REQUESTED",
         new.snapshot.commandStatus # "REQUESTED" => new.status # "REQUESTED",
         new.status = "COMPLETED" => event[KeyOf(w)] = "PROCESSED",
         TypeOK', UNCHANGED <<effects, event>>,
         \A v \in Worker \ {w} : pc'[v] = pc[v] /\ ask'[v] = ask[v],
         \A r \in Request \ {w} : result'[r] = result[r] /\ origin'[r] = origin[r],
         WorkerAgrees(w)',
         w \in Request => RequestAgrees(w)'
  PROVE  RemovalInv'
<1>1. TypeOK /\ WorkerAgrees(w) /\ OneEffectPerClaim /\ CompletedHasItsEvent /\ ShownStatusIsReal
  BY DEF RemovalInv
<1>2. KeyOf(w) \in StorageKey /\ command[KeyOf(w)] # None
  BY <1>1, KeyIsStored DEF WorkerAgrees, Committed
<1>3. /\ command'[KeyOf(w)] = new
      /\ \A k \in StorageKey \ {KeyOf(w)} : command'[k] = command[k]
  BY <1>1, <1>2 DEF TypeOK
<1>4. new # None
  BY NoneAssumption
<1>5. CommandsKept
  BY <1>3, <1>4 DEF CommandsKept
<1>6. (\A v \in Worker : WorkerAgrees(v)') /\ (\A r \in Request : RequestAgrees(r)')
  BY <1>5, OthersAgree
<1>7. OneEffectPerClaim'
  BY <1>1, <1>2, <1>3, <1>4 DEF OneEffectPerClaim
<1>8. CompletedHasItsEvent' /\ ShownStatusIsReal'
  BY <1>1, <1>3 DEF CompletedHasItsEvent, ShownStatusIsReal
<1> QED BY <1>6, <1>7, <1>8 DEF RemovalInv

\* The command a worker past the commit is about.
LEMMA CommandIsThere ==
  ASSUME RemovalInv, NEW w \in Worker, pc[w] \in Committed
  PROVE  KeyOf(w) \in StorageKey /\ command[KeyOf(w)] \in Commands /\ command[KeyOf(w)] # None
BY KeyIsStored DEF RemovalInv, WorkerAgrees, Committed, TypeOK

\* The dispatch: the command is ACCEPTED, and so is the request's own result.
LEMMA DispatchPreserves ==
  ASSUME RemovalInv, NEW r \in Request, Dispatch(r)
  PROVE  RemovalInv'
<1> USE RequestIsNoMonitor
<1>1. /\ TypeOK /\ WorkerAgrees(r) /\ RequestAgrees(r) /\ ShownStatusIsReal
      /\ pc[r] = "dispatch" /\ pc[r] \in Committed
  BY DEF RemovalInv, Dispatch, Committed
<1>2. /\ KeyOf(r) \in StorageKey /\ command[KeyOf(r)] \in Commands /\ command[KeyOf(r)] # None
      /\ ask[r] # None
  BY <1>1, CommandIsThere, KeyIsStored
<1> DEFINE old == command[KeyOf(r)]
           new == [old EXCEPT !.status = "ACCEPTED"]
           told == [result[r] EXCEPT !.commandStatus = "ACCEPTED"]
<1>3. /\ new \in Commands /\ new.status = "ACCEPTED"
      /\ new.target = old.target /\ new.snapshot = old.snapshot
  BY <1>2 DEF Commands, CommandStatus
<1>4. result[r] \in Results
  BY <1>1 DEF TypeOK, RequestAgrees
<1>5. told \in Results /\ told.did = result[r].did
  BY <1>4 DEF Results, CommandStatus
<1>6. /\ command' = [command EXCEPT ![KeyOf(r)] = new]
      /\ \/ result' = [result EXCEPT ![r] = told] /\ pc' = [pc EXCEPT ![r] = "events"]
         \/ result' = result /\ pc' = [pc EXCEPT ![r] = "reply"]
      /\ UNCHANGED <<removed, waiting, effects, event, ask, origin>>
  BY DEF Dispatch, Goto, businessVars
<1>7. TypeOK'
  BY <1>1, <1>2, <1>3, <1>5, <1>6 DEF TypeOK, Points
<1>8. /\ pc'[r] \in {"events", "reply"} /\ result'[r] \in {told, result[r]}
      /\ command'[KeyOf(r)] = new /\ KeyOf(r)' = KeyOf(r)
  BY <1>1, <1>2, <1>6 DEF TypeOK, KeyOf
<1>9. new # None /\ told # None
  BY <1>3, <1>5, NoneAssumption
<1>10. WorkerAgrees(r)'
  BY <1>1, <1>2, <1>6, <1>8, <1>9 DEF WorkerAgrees, Committed
<1>11. RequestAgrees(r)'
  BY <1>1, <1>3, <1>5, <1>6, <1>8, <1>9 DEF RequestAgrees, Committed
<1> HIDE DEF new, told
<1> QED BY <1>1, <1>2, <1>3, <1>6, <1>7, <1>10, <1>11, OnlyCommand DEF TypeOK

\* The refresh: the stored result becomes the request's own, which did the same.
LEMMA RefreshPreserves ==
  ASSUME RemovalInv, NEW r \in Request, Refresh(r)
  PROVE  RemovalInv'
<1> USE RequestIsNoMonitor
<1>1. /\ TypeOK /\ WorkerAgrees(r) /\ RequestAgrees(r) /\ CompletedHasItsEvent
      /\ pc[r] = "refresh" /\ pc[r] \in Committed
  BY DEF RemovalInv, Refresh, Committed
<1>2. /\ KeyOf(r) \in StorageKey /\ command[KeyOf(r)] \in Commands /\ command[KeyOf(r)] # None
      /\ ask[r] # None
  BY <1>1, CommandIsThere, KeyIsStored
<1>3. result[r] \in Results
  BY <1>1 DEF TypeOK, RequestAgrees
<1> DEFINE old == command[KeyOf(r)]
           new == [old EXCEPT !.snapshot = result[r]]
<1>4. /\ new \in Commands /\ new.snapshot = result[r]
      /\ new.target = old.target /\ new.status = old.status
  BY <1>2, <1>3 DEF Commands
<1>5. /\ result[r].did = old.snapshot.did
      /\ result[r].commandStatus # "REQUESTED" => old.status # "REQUESTED"
  BY <1>1 DEF RequestAgrees
<1>6. /\ command' = [command EXCEPT ![KeyOf(r)] = new]
      /\ pc' = [pc EXCEPT ![r] = "reply"]
      /\ UNCHANGED <<removed, waiting, effects, event, ask, result, origin>>
  BY DEF Refresh, Goto, businessVars, requestVars, answerVars
<1>7. TypeOK'
  BY <1>1, <1>2, <1>4, <1>6 DEF TypeOK, Points
<1>8. pc'[r] = "reply" /\ command'[KeyOf(r)] = new /\ KeyOf(r)' = KeyOf(r)
  BY <1>1, <1>2, <1>6 DEF TypeOK, KeyOf
<1>9. new # None
  BY <1>4, NoneAssumption
<1>10. WorkerAgrees(r)'
  BY <1>1, <1>2, <1>6, <1>8, <1>9 DEF WorkerAgrees, Committed
<1>11. RequestAgrees(r)'
  BY <1>1, <1>4, <1>6, <1>8, <1>9 DEF RequestAgrees, Committed
<1>12. old.status = "COMPLETED" => event[KeyOf(r)] = "PROCESSED"
  BY <1>1, <1>2 DEF CompletedHasItsEvent
<1> HIDE DEF new
<1> QED BY <1>1, <1>2, <1>4, <1>5, <1>6, <1>7, <1>10, <1>11, <1>12, OnlyCommand DEF TypeOK

\* Where a worker may go next.
LEMMA ContinueMoves ==
  ASSUME RemovalInv, NEW w \in Worker, NEW p \in Points, Continue(w, p)
  PROVE  /\ pc' \in [Worker -> Points] /\ ask' \in [Worker -> Asks \cup {None}]
         /\ pc'[w] = p
         /\ ask'[w] = IF p = "idle" THEN None ELSE ask[w]
         /\ \A v \in Worker \ {w} : pc'[v] = pc[v] /\ ask'[v] = ask[v]
BY DEF RemovalInv, TypeOK, Continue, Goto

\* A worker in the middle of advance: its command, and what it may hold.
LEMMA Advancing ==
  ASSUME RemovalInv, NEW w \in Worker, pc[w] \in Committed
  PROVE  /\ TypeOK /\ WorkerAgrees(w) /\ (w \in Request => RequestAgrees(w))
         /\ KeyOf(w) \in StorageKey /\ command[KeyOf(w)] \in Commands /\ command[KeyOf(w)] # None
         /\ ask[w] # None /\ pc[w] # "idle"
         /\ w \in Request <=> w \notin Monitor
BY CommandIsThere, KeyIsStored, ConstantsAssumption
DEF RemovalInv, Committed, Worker, ConstantsAssumption

\* The end of advance: a command completes whose event has been processed.
LEMMA AdvanceStatusPreserves ==
  ASSUME RemovalInv, NEW w \in Worker, AdvanceStatus(w)
  PROVE  RemovalInv'
<1>1. pc[w] = "status" /\ pc[w] \in Committed
  BY DEF AdvanceStatus, Committed
<1>2. /\ TypeOK /\ WorkerAgrees(w) /\ (w \in Request => RequestAgrees(w))
      /\ KeyOf(w) \in StorageKey /\ command[KeyOf(w)] \in Commands /\ command[KeyOf(w)] # None
      /\ ask[w] # None /\ pc[w] # "idle"
      /\ w \in Request <=> w \notin Monitor
  BY <1>1, Advancing
<1> DEFINE old == command[KeyOf(w)]
           new == [old EXCEPT !.status = "COMPLETED"]
<1>3. /\ new \in Commands /\ new.status = "COMPLETED"
      /\ new.target = old.target /\ new.snapshot = old.snapshot
  BY <1>2 DEF Commands, CommandStatus
<1>4. /\ command' = [command EXCEPT ![KeyOf(w)] = new]
      /\ Continue(w, AfterAdvance(w))
      /\ UNCHANGED <<removed, waiting, effects, event, result, origin>>
  BY DEF AdvanceStatus, businessVars, answerVars
<1>5. AfterAdvance(w) \in Points
  BY DEF AfterAdvance, Points
<1>6. /\ pc' \in [Worker -> Points] /\ ask' \in [Worker -> Asks \cup {None}]
      /\ pc'[w] = AfterAdvance(w)
      /\ ask'[w] = IF AfterAdvance(w) = "idle" THEN None ELSE ask[w]
      /\ \A v \in Worker \ {w} : pc'[v] = pc[v] /\ ask'[v] = ask[v]
  BY <1>4, <1>5, ContinueMoves
<1>7. TypeOK'
  BY <1>2, <1>3, <1>4, <1>6 DEF TypeOK
<1>8. event[KeyOf(w)] = "PROCESSED"
  BY <1>1, <1>2 DEF WorkerAgrees
<1>9. command'[KeyOf(w)] = new /\ new # None
  BY <1>2, <1>3, <1>4, NoneAssumption DEF TypeOK
<1>10. WorkerAgrees(w)'
  BY <1>2, <1>6, <1>9 DEF WorkerAgrees, Committed, AfterAdvance, KeyOf
<1>11. w \in Request => RequestAgrees(w)'
  BY <1>1, <1>2, <1>3, <1>4, <1>6, <1>9 DEF RequestAgrees, Committed, AfterAdvance, KeyOf
<1>12. new.snapshot.commandStatus # "REQUESTED" => new.status # "REQUESTED"
  BY <1>3
<1> HIDE DEF new
<1> QED BY <1>1, <1>2, <1>3, <1>4, <1>6, <1>7, <1>8, <1>10, <1>11, OnlyCommand

\* The steps of advance that touch at most the event of their own command.
LEMMA AdvancePreserves ==
  ASSUME RemovalInv, NEW w \in Worker,
         \/ AdvanceRead(w) \/ AdvanceRecord(w) \/ AdvanceDuplicate(w) \/ AdvanceProcess(w)
         \/ FailAfterCommit(w)
  PROVE  RemovalInv'
<1> USE DEF AfterAdvance, AfterError
<1>1. PICK p \in Points :
        /\ Continue(w, p)
        /\ p \in {"record", "process", "status"}
             \/ (w \in Monitor /\ p = "idle") \/ (w \in Request /\ p \in {"refresh", "reply"})
             \/ (w \notin Request /\ p = "idle")
        /\ p = "status" => event' = [event EXCEPT ![KeyOf(w)] = "PROCESSED"]
  BY DEF AdvanceRead, AdvanceRecord, AdvanceDuplicate, AdvanceProcess, FailAfterCommit, Points
<1>2. pc[w] \in Committed
  BY DEF AdvanceRead, AdvanceRecord, AdvanceDuplicate, AdvanceProcess, FailAfterCommit, Committed
<1>3. UNCHANGED <<removed, waiting, effects, command, result, origin>>
  BY DEF AdvanceRead, AdvanceRecord, AdvanceDuplicate, AdvanceProcess, FailAfterCommit,
         businessVars, answerVars
<1>4. /\ TypeOK /\ WorkerAgrees(w) /\ (w \in Request => RequestAgrees(w))
      /\ KeyOf(w) \in StorageKey /\ command[KeyOf(w)] \in Commands /\ command[KeyOf(w)] # None
      /\ ask[w] # None /\ pc[w] # "idle"
      /\ w \in Request <=> w \notin Monitor
  BY <1>2, Advancing
<1>5. /\ event' \in [StorageKey -> {"NONE", "RECEIVED", "PROCESSED"}]
      /\ \A k \in StorageKey : event[k] = "PROCESSED" => event'[k] = "PROCESSED"
      /\ p = "status" => event'[KeyOf(w)] = "PROCESSED"
  <2>1. \/ UNCHANGED event
        \/ event[KeyOf(w)] = "NONE" /\ event' = [event EXCEPT ![KeyOf(w)] = "RECEIVED"]
        \/ event' = [event EXCEPT ![KeyOf(w)] = "PROCESSED"]
    BY DEF AdvanceRead, AdvanceRecord, AdvanceDuplicate, AdvanceProcess, FailAfterCommit
  <2> QED BY <1>1, <1>4, <2>1 DEF TypeOK
<1>6. /\ pc' \in [Worker -> Points] /\ ask' \in [Worker -> Asks \cup {None}]
      /\ pc'[w] = p
      /\ ask'[w] = IF p = "idle" THEN None ELSE ask[w]
      /\ \A v \in Worker \ {w} : pc'[v] = pc[v] /\ ask'[v] = ask[v]
  BY <1>1, ContinueMoves
<1>7. TypeOK'
  BY <1>3, <1>4, <1>5, <1>6 DEF TypeOK
<1>8. WorkerAgrees(w)'
  BY <1>1, <1>3, <1>4, <1>5, <1>6 DEF WorkerAgrees, Committed, KeyOf
<1>9. w \in Request => RequestAgrees(w)'
  BY <1>1, <1>2, <1>3, <1>4, <1>6 DEF RequestAgrees, Committed, KeyOf
<1> QED BY <1>3, <1>5, <1>6, <1>7, <1>8, <1>9, OnlyWorker

\* A lost handler claims nothing.
LEMMA CrashPreserves ==
  ASSUME RemovalInv, NEW w \in Worker, Crash(w)
  PROVE  RemovalInv'
<1> DEFINE p == IF w \in Request THEN "done" ELSE "idle"
<1>1. TypeOK /\ WorkerAgrees(w) /\ ask[w] # None
  BY KeyIsStored DEF RemovalInv, Crash
<1>2. /\ Continue(w, p)
      /\ origin' = [r \in Request |-> IF r = w THEN "lost" ELSE origin[r]]
      /\ result' = [r \in Request |-> IF r = w THEN None ELSE result[r]]
      /\ UNCHANGED <<removed, waiting, effects, command, event>>
  BY DEF Crash, businessVars
<1>3. p \in Points
  BY DEF Points
<1>4. /\ pc' \in [Worker -> Points] /\ ask' \in [Worker -> Asks \cup {None}]
      /\ pc'[w] = p
      /\ ask'[w] = IF p = "idle" THEN None ELSE ask[w]
      /\ \A v \in Worker \ {w} : pc'[v] = pc[v] /\ ask'[v] = ask[v]
  BY <1>2, <1>3, ContinueMoves
<1>5. TypeOK'
  BY <1>1, <1>2, <1>4 DEF TypeOK
<1>6. WorkerAgrees(w)'
  BY <1>1, <1>4, RequestIsNoMonitor DEF WorkerAgrees, Committed
<1>7. w \in Request => RequestAgrees(w)'
  BY <1>2, <1>4 DEF RequestAgrees, Committed
<1> QED BY <1>2, <1>4, <1>5, <1>6, <1>7, OnlyWorker

\* A monitor picks a command that is there.
LEMMA MonitorBeginPreserves ==
  ASSUME RemovalInv, NEW m \in Monitor, MonitorBegin(m)
  PROVE  RemovalInv'
<1>1. TypeOK /\ m \in Worker /\ m \notin Request
  BY ConstantsAssumption DEF RemovalInv, Worker, ConstantsAssumption
<1>2. PICK k \in StorageKey :
        /\ command[k] # None
        /\ ask' = [ask EXCEPT ![m] = [key |-> k, target |-> command[k].target]]
  BY DEF MonitorBegin
<1>3. [key |-> k, target |-> command[k].target] \in Asks
  BY <1>1, <1>2 DEF TypeOK, Asks, Commands
<1>4. /\ pc' = [pc EXCEPT ![m] = "events"]
      /\ UNCHANGED <<removed, waiting, effects, command, event, result, origin>>
  BY DEF MonitorBegin, Goto, businessVars
<1>5. TypeOK'
  BY <1>1, <1>2, <1>3, <1>4 DEF TypeOK, Points
<1>6. WorkerAgrees(m)'
  <2>1. pc'[m] = "events" /\ ask'[m] = [key |-> k, target |-> command[k].target] /\ ask'[m] # None
    BY <1>1, <1>2, <1>3, <1>4, NoneAssumption DEF TypeOK
  <2> QED BY <1>2, <1>4, <2>1 DEF WorkerAgrees, KeyOf
<1> QED BY <1>1, <1>2, <1>4, <1>5, <1>6, OnlyWorker DEF TypeOK

\* The writers that take no part: the reprocessing of an event, and those of the
\* contacts and emails.
LEMMA OthersPreserve ==
  ASSUME RemovalInv,
         \/ \E k \in StorageKey : Reprocess(k)
         \/ \E c \in Contact : OtherEmailWrite(c) \/ OtherStatusWrite(c)
         \/ UNCHANGED vars
  PROVE  RemovalInv'
<1>1. UNCHANGED <<command, pc, ask, result, origin, effects>>
  BY DEF Reprocess, OtherEmailWrite, OtherStatusWrite, vars, requestVars, answerVars, businessVars
<1>2. TypeOK'
  <2>1. removed' \subseteq Contact
    BY DEF RemovalInv, TypeOK, Reprocess, OtherEmailWrite, OtherStatusWrite, vars, businessVars
  <2>2. waiting' \subseteq Contact \X Step
    <3>1. CASE \E c \in Contact : OtherEmailWrite(c)
      <4>1. PICK c \in Contact, i \in Step :
              waiting' = IF <<c, i>> \in waiting THEN waiting \ {<<c, i>>}
                                               ELSE waiting \cup {<<c, i>>}
        BY <3>1 DEF OtherEmailWrite
      <4>2. waiting \subseteq Contact \X Step /\ <<c, i>> \in Contact \X Step
        BY DEF RemovalInv, TypeOK
      <4> QED BY <4>1, <4>2
    <3>2. CASE UNCHANGED waiting
      BY <3>2 DEF RemovalInv, TypeOK
    <3> QED BY <3>1, <3>2 DEF Reprocess, OtherStatusWrite, vars, businessVars
  <2>3. event' \in [StorageKey -> {"NONE", "RECEIVED", "PROCESSED"}]
    BY DEF RemovalInv, TypeOK, Reprocess, OtherEmailWrite, OtherStatusWrite, vars
  <2> QED BY <1>1, <2>1, <2>2, <2>3 DEF RemovalInv, TypeOK
<1>3. \A k \in StorageKey : event[k] = "PROCESSED" => event'[k] = "PROCESSED"
  BY DEF RemovalInv, TypeOK, Reprocess, OtherEmailWrite, OtherStatusWrite, vars
<1>4. CommandsKept
  BY <1>1, <1>3 DEF CommandsKept
<1>5. (\A v \in Worker : WorkerAgrees(v)') /\ (\A r \in Request : RequestAgrees(r)')
  <2>1. ASSUME NEW w
        PROVE  /\ \A v \in Worker \ {w} : WorkerAgrees(v)'
               /\ \A r \in Request \ {w} : RequestAgrees(r)'
    BY <1>1, <1>4, OthersAgree
  <2>2. /\ \A v \in Worker \ {"x"} : WorkerAgrees(v)'
        /\ \A r \in Request \ {"x"} : RequestAgrees(r)'
    BY <2>1
  <2>3. /\ \A v \in Worker \ {"y"} : WorkerAgrees(v)'
        /\ \A r \in Request \ {"y"} : RequestAgrees(r)'
    BY <2>1
  <2> QED BY <2>2, <2>3
<1>6. OneEffectPerClaim' /\ CompletedHasItsEvent' /\ ShownStatusIsReal'
  BY <1>1, <1>3 DEF RemovalInv, OneEffectPerClaim, CompletedHasItsEvent, ShownStatusIsReal
<1> QED BY <1>2, <1>5, <1>6 DEF RemovalInv

\* Every step preserves the invariant.
LEMMA NextPreserves ==
  ASSUME RemovalInv, [Next]_vars
  PROVE  RemovalInv'
<1>1. ASSUME NEW r \in Request, RequestStep(r) PROVE RemovalInv'
  <2>1. CASE Begin(r)
    BY <2>1, BeginPreserves
  <2>2. CASE CheckExisting(r) \/ RacedReplay(r) \/ RacedConflict(r) \/ FailWithError(r)
    BY <2>2, AnswersPreserve
    DEF CheckExisting, RacedReplay, RacedConflict, FailWithError, businessVars
  <2>3. CASE CheckUnknown(r) \/ RollBack(r) \/ Reply(r)
    BY <2>3, MovesPreserve
  <2>4. CASE Commit(r)
    BY <2>4, CommitPreserves
  <2>5. CASE Dispatch(r)
    BY <2>5, DispatchPreserves
  <2>6. CASE Refresh(r)
    BY <2>6, RefreshPreserves
  <2> QED BY <1>1, <2>1, <2>2, <2>3, <2>4, <2>5, <2>6 DEF RequestStep
<1>2. ASSUME NEW m \in Monitor, MonitorBegin(m) PROVE RemovalInv'
  BY <1>2, MonitorBeginPreserves
<1>3. ASSUME NEW w \in Worker, AdvanceStep(w) PROVE RemovalInv'
  BY <1>3, AdvancePreserves, AdvanceStatusPreserves, CrashPreserves DEF AdvanceStep
<1> QED BY <1>1, <1>2, <1>3, OthersPreserve DEF Next

-----------------------------------------------------------------------------
(* The theorems.                                                            *)

\* Whatever the interleaving of requests and monitors, and wherever they fail or are
\* lost, a request that is past its commit or has been answered agrees with the
\* command its key claimed, and every claim stands for one removal.
THEOREM RemovalInvariant == Spec => []RemovalInv
<1>1. Init => RemovalInv
  BY InitRemovalInv
<1>2. RemovalInv /\ [Next]_vars => RemovalInv'
  BY NextPreserves
<1> QED BY <1>1, <1>2, PTL DEF Spec

\* No variable leaves its type: every stored key keeps its scope.
THEOREM TypeCorrect == Spec => []TypeOK
<1>1. RemovalInv => TypeOK
  BY DEF RemovalInv
<1> QED BY <1>1, RemovalInvariant, PTL

\* advance and dispatch may interleave: a command is COMPLETED only after its event.
THEOREM CompletedAfterEvent == Spec => []CompletedHasItsEvent
<1>1. RemovalInv => CompletedHasItsEvent
  BY DEF RemovalInv
<1> QED BY <1>1, RemovalInvariant, PTL

\* The stored result of a command shows no dispatch that did not happen.
THEOREM ShownStatusWasReached == Spec => []ShownStatusIsReal
<1>1. RemovalInv => ShownStatusIsReal
  BY DEF RemovalInv
<1> QED BY <1>1, RemovalInvariant, PTL

-----------------------------------------------------------------------------
(* The removal implements the promise of its Idempotency-Key.               *)

\* A step that neither asks, decides nor answers.
LEMMA Stutters ==
  ASSUME UNCHANGED effects,
         \A r \in Request : ask'[r] = ask[r],
         \A k \in StorageKey :
            /\ command'[k] = None <=> command[k] = None
            /\ command[k] # None =>
                 /\ command'[k].target = command[k].target
                 /\ command'[k].snapshot.did = command[k].snapshot.did,
         \A r \in Request :
            /\ (pc'[r] = "done" /\ origin'[r] \in {"own", "replay"})
                 <=> (pc[r] = "done" /\ origin[r] \in {"own", "replay"})
            /\ pc[r] = "done" => result'[r] = result[r]
  PROVE  UNCHANGED Promise!kvars
<1>1. UNCHANGED Asked
  BY DEF Asked
<1>2. UNCHANGED Decided
  BY DEF Decided
<1>3. UNCHANGED Told
  BY DEF Told, Answered
<1> QED BY <1>1, <1>2, <1>3 DEF Promise!kvars

\* Begin is a question.
LEMMA BeginAsks ==
  ASSUME RemovalInv, NEW r \in Request, Begin(r)
  PROVE  Promise!Ask(r)
<1> USE RequestIsNoMonitor
<1>1. PICK scope \in Scopes, raw \in RawKey : \E t \in Targets(scope) :
        ask' = [ask EXCEPT ![r] = [key |-> StoredUnder(scope, raw), target |-> t]]
  BY DEF Begin
<1>2. PICK t \in Targets(scope) :
        ask' = [ask EXCEPT ![r] = [key |-> StoredUnder(scope, raw), target |-> t]]
  BY <1>1
<1> DEFINE k == StoredUnder(scope, raw)
<1>3. k \in StorageKey /\ t \in Target /\ [key |-> k, target |-> t] \in Asks
  BY DEF Asks, StoredUnder, StorageKey, Targets, Target
<1>4. TypeOK /\ pc[r] = "idle" /\ ask[r] = None /\ pc' = [pc EXCEPT ![r] = "check"]
  BY DEF RemovalInv, WorkerAgrees, Begin, Goto
<1>5. UNCHANGED <<effects, command, result, origin>>
  BY DEF Begin, businessVars
<1>6. /\ ask'[r] = [key |-> k, target |-> t] /\ ask'[r] # None
      /\ \A q \in Request \ {r} : ask'[q] = ask[q] /\ pc'[q] = pc[q]
      /\ pc'[r] = "check"
  BY <1>2, <1>3, <1>4, NoneAssumption DEF TypeOK, Worker
<1> HIDE DEF k
<1>7. Asked[r] = None /\ Asked' = [Asked EXCEPT ![r] = [key |-> k, payload |-> t]]
  <2>1. ask'[r].key = k /\ ask'[r].target = t
    BY <1>6
  <2>2. Asked' = [q \in Request |-> IF q = r THEN [key |-> k, payload |-> t] ELSE Asked[q]]
    BY <1>6, <2>1 DEF Asked
  <2>3. Asked[r] = None
    BY <1>4 DEF Asked
  <2>4. Asked = [q \in Request |-> Asked[q]]
    BY DEF Asked
  <2> HIDE DEF k
  <2> QED BY <2>2, <2>3, <2>4
<1>8. UNCHANGED Decided
  BY <1>5 DEF Decided
<1>9. UNCHANGED Told
  BY <1>4, <1>5, <1>6 DEF Told, Answered
<1> QED BY <1>3, <1>5, <1>7, <1>8, <1>9 DEF Promise!Ask

\* The commit is where a key is decided and takes effect.
LEMMA CommitApplies ==
  ASSUME RemovalInv, NEW r \in Request, Commit(r)
  PROVE  Promise!Apply(r)
<1> USE RequestIsNoMonitor
<1>0. TypeOK
  BY DEF RemovalInv
<1>1. PICK d \in Outcomes :
           /\ pc[r] = "transaction" /\ pc' = [pc EXCEPT ![r] = "dispatch"]
           /\ command[KeyOf(r)] = None
           /\ command' = [command EXCEPT ![KeyOf(r)] =
                [target |-> ask[r].target, status |-> "REQUESTED",
                 snapshot |-> [did |-> d, commandStatus |-> "REQUESTED"]]]
           /\ result' = [result EXCEPT ![r] = [did |-> d, commandStatus |-> "REQUESTED"]]
           /\ origin' = [origin EXCEPT ![r] = "own"]
           /\ effects' = [effects EXCEPT ![KeyOf(r)] = @ + 1]
           /\ removed' \subseteq Contact /\ waiting' \subseteq waiting
           /\ UNCHANGED <<event, ask>>
  BY CommitEffect
<1>2. KeyOf(r) \in StorageKey /\ ask[r] # None /\ ask[r].target \in Target
  BY <1>1, KeyIsStored
<1> DEFINE made == [did |-> d, commandStatus |-> "REQUESTED"]
           new == [target |-> ask[r].target, status |-> "REQUESTED", snapshot |-> made]
           decided == [payload |-> ask[r].target, result |-> d]
<1>3. new # None
  <2>1. new \in Commands
    BY <1>2 DEF Commands, Results, CommandStatus
  <2> QED BY <2>1, NoneAssumption
<1>4. /\ command'[KeyOf(r)] = new
      /\ \A k \in StorageKey \ {KeyOf(r)} : command'[k] = command[k]
  BY <1>0, <1>1, <1>2 DEF TypeOK
<1>5. Asked[r] # None /\ Asked[r].key = KeyOf(r) /\ Asked[r].payload = ask[r].target
  <2>1. Asked[r] = [key |-> KeyOf(r), payload |-> ask[r].target]
    BY <1>2 DEF Asked, KeyOf
  <2>2. [key |-> KeyOf(r), payload |-> ask[r].target] # None
    BY <1>2, NoneAssumption
  <2> QED BY <2>1, <2>2
<1>6. Told[r] = None /\ Decided[KeyOf(r)] = None
  BY <1>1, <1>2 DEF Told, Answered, Decided
<1>7. Decided' = [Decided EXCEPT ![KeyOf(r)] = decided]
  <2>1. new.target = ask[r].target /\ new.snapshot.did = d
    OBVIOUS
  <2> HIDE DEF new
  <2>2. Decided' = [k \in StorageKey |-> IF k = KeyOf(r) THEN decided ELSE Decided[k]]
    BY <1>3, <1>4, <2>1 DEF Decided
  <2>3. Decided = [k \in StorageKey |-> Decided[k]]
    BY DEF Decided
  <2> HIDE DEF decided
  <2> QED BY <2>2, <2>3
<1>8. UNCHANGED Asked
  BY <1>1 DEF Asked
<1>9. UNCHANGED Told
  <2>1. \A q \in Request \ {r} :
          pc'[q] = pc[q] /\ origin'[q] = origin[q] /\ result'[q] = result[q]
    BY <1>0, <1>1 DEF TypeOK
  <2>2. pc'[r] = "dispatch"
    BY <1>0, <1>1 DEF TypeOK
  <2>3. \A q \in Request : Told'[q] = Told[q]
    BY <1>1, <2>1, <2>2 DEF Told, Answered
  <2> QED BY <2>3 DEF Told
<1> QED BY <1>1, <1>5, <1>6, <1>7, <1>8, <1>9 DEF Promise!Apply

\* The three ways a request is answered 201: a known key, a lost race, its own commit.
LEMMA AnswersAnswer ==
  ASSUME RemovalInv, NEW r \in Request, Goto(r, "done"),
         \/ /\ pc[r] \in {"check", "raced"}
            /\ command[KeyOf(r)] # None
            /\ Replay(r)
         \/ /\ pc[r] = "reply"
            /\ UNCHANGED <<result, origin>>,
         UNCHANGED <<effects, command, ask>>
  PROVE  Promise!Answer(r)
<1> USE RequestIsNoMonitor
<1>1. TypeOK /\ WorkerAgrees(r) /\ RequestAgrees(r)
  BY DEF RemovalInv
<1>2. KeyOf(r) \in StorageKey /\ ask[r] # None /\ ask[r].target \in Target
  BY KeyIsStored
<1>3. /\ command[KeyOf(r)] # None
      /\ command[KeyOf(r)].target = ask[r].target
      /\ pc'[r] = "done" /\ origin'[r] \in {"own", "replay"}
      /\ result'[r].did = command[KeyOf(r)].snapshot.did
      /\ pc[r] # "done"
      /\ \A q \in Request \ {r} :
           pc'[q] = pc[q] /\ origin'[q] = origin[q] /\ result'[q] = result[q]
  BY <1>1 DEF Goto, Replay, TypeOK, RequestAgrees, Committed
<1>4. /\ Asked[r] = [key |-> KeyOf(r), payload |-> ask[r].target]
      /\ Asked[r] # None
  <2>1. [key |-> KeyOf(r), payload |-> ask[r].target] # None
    BY <1>2, NoneAssumption
  <2> QED BY <1>2, <2>1 DEF Asked, KeyOf
<1> DEFINE decided == [payload |-> command[KeyOf(r)].target,
                       result |-> command[KeyOf(r)].snapshot.did]
<1>5. Decided[KeyOf(r)] = decided /\ decided # None
  <2>1. command[KeyOf(r)] \in Commands
    BY <1>1, <1>2, <1>3 DEF TypeOK
  <2>2. decided \in [payload: Target, result: Outcomes]
    BY <2>1 DEF Commands, Results
  <2> QED BY <1>2, <1>3, <2>2, NoneAssumption DEF Decided
<1>6. Told[r] = None
  BY <1>3 DEF Told, Answered
<1>7. Told' = [Told EXCEPT ![r] = Decided[KeyOf(r)]]
  <2>1. Told'[r] = decided
    BY <1>3 DEF Told, Answered
  <2>2. \A q \in Request \ {r} : Told'[q] = Told[q]
    BY <1>3 DEF Told, Answered
  <2>3. Told = [q \in Request |-> Told[q]] /\ Told' = [q \in Request |-> Told'[q]]
    BY DEF Told
  <2> HIDE DEF decided
  <2> QED BY <1>5, <2>1, <2>2, <2>3
<1>8. UNCHANGED Asked /\ UNCHANGED Decided
  BY DEF Asked, Decided
<1>9. Decided[KeyOf(r)].payload = Asked[r].payload /\ Asked[r].key = KeyOf(r)
  BY <1>3, <1>4, <1>5
<1> QED BY <1>4, <1>5, <1>6, <1>7, <1>8, <1>9 DEF Promise!Answer

\* The steps of a request that the promise does not see.
LEMMA RequestStutters ==
  ASSUME RemovalInv, NEW r \in Request,
         \/ CheckUnknown(r) \/ RollBack(r) \/ Dispatch(r) \/ Refresh(r)
         \/ RacedConflict(r) \/ FailWithError(r)
         \/ (CheckExisting(r) /\ Refuse(r))
  PROVE  UNCHANGED Promise!kvars
<1> USE RequestIsNoMonitor
<1> USE DEF CheckUnknown, RollBack, Dispatch, Refresh, RacedConflict, FailWithError,
            CheckExisting, Refuse, Goto, businessVars, requestVars, answerVars
<1>1. TypeOK /\ RequestAgrees(r) /\ ask' = ask /\ UNCHANGED effects
  BY DEF RemovalInv
<1>2. pc[r] \notin {"idle", "done"}
  OBVIOUS
<1>3. KeyOf(r) \in StorageKey
  BY <1>2, KeyIsStored
<1>4. ASSUME NEW k \in StorageKey
      PROVE  /\ command'[k] = None <=> command[k] = None
             /\ command[k] # None =>
                  /\ command'[k].target = command[k].target
                  /\ command'[k].snapshot.did = command[k].snapshot.did
  <2>1. CASE UNCHANGED command
    BY <2>1
  <2>2. CASE pc[r] \in Committed /\ (Dispatch(r) \/ Refresh(r))
    <3>1. command[KeyOf(r)] \in Commands /\ command[KeyOf(r)] # None
      BY <2>2, CommandIsThere
    <3>2. /\ result[r] \in Results
          /\ result[r].did = command[KeyOf(r)].snapshot.did
      BY <1>1, <2>2 DEF TypeOK, RequestAgrees
    <3>3. PICK new \in Commands :
            /\ command' = [command EXCEPT ![KeyOf(r)] = new]
            /\ new.target = command[KeyOf(r)].target
            /\ new.snapshot.did = command[KeyOf(r)].snapshot.did
      <4>1. CASE Dispatch(r)
        <5> DEFINE new == [command[KeyOf(r)] EXCEPT !.status = "ACCEPTED"]
        <5>1. new \in Commands /\ new.target = command[KeyOf(r)].target
              /\ new.snapshot = command[KeyOf(r)].snapshot
          BY <3>1 DEF Commands, CommandStatus
        <5> QED BY <4>1, <5>1
      <4>2. CASE Refresh(r)
        <5> DEFINE new == [command[KeyOf(r)] EXCEPT !.snapshot = result[r]]
        <5>1. new \in Commands /\ new.target = command[KeyOf(r)].target
              /\ new.snapshot = result[r]
          BY <3>1, <3>2 DEF Commands
        <5> QED BY <3>2, <4>2, <5>1
      <4> QED BY <2>2, <4>1, <4>2
    <3>4. new # None
      BY NoneAssumption
    <3>5. command'[k] = IF k = KeyOf(r) THEN new ELSE command[k]
      BY <1>1, <1>3, <3>3 DEF TypeOK
    <3> QED BY <3>1, <3>3, <3>4, <3>5
  <2> QED BY <2>1, <2>2 DEF Committed
<1>5. /\ \A q \in Request \ {r} :
           pc'[q] = pc[q] /\ origin'[q] = origin[q] /\ result'[q] = result[q]
      /\ ~(pc'[r] = "done" /\ origin'[r] \in {"own", "replay"})
  BY <1>1 DEF TypeOK
<1> QED BY <1>1, <1>2, <1>4, <1>5, Stutters

\* Nor does it see advance, or a handler that is lost.
LEMMA AdvanceStutters ==
  ASSUME RemovalInv, NEW w \in Worker, AdvanceStep(w)
  PROVE  UNCHANGED Promise!kvars
<1> USE DEF AdvanceStep, AdvanceRead, AdvanceRecord, AdvanceDuplicate, AdvanceProcess,
            AdvanceStatus, FailAfterCommit, Crash, businessVars, answerVars
<1>1. TypeOK /\ UNCHANGED effects /\ pc[w] \notin {"idle", "done"}
  BY DEF RemovalInv, Committed
<1>2. PICK p \in Points : Continue(w, p) /\ (w \in Request => p # "idle")
                          /\ (~Crash(w) => p # "done")
  BY DEF AfterAdvance, AfterError, Points
<1>3. /\ pc'[w] = p
      /\ ask'[w] = IF p = "idle" THEN None ELSE ask[w]
      /\ \A v \in Worker \ {w} : pc'[v] = pc[v] /\ ask'[v] = ask[v]
  BY <1>2, ContinueMoves
<1>4. \A r \in Request : ask'[r] = ask[r]
  BY <1>2, <1>3 DEF Worker
<1>5. ASSUME NEW k \in StorageKey
      PROVE  /\ command'[k] = None <=> command[k] = None
             /\ command[k] # None =>
                  /\ command'[k].target = command[k].target
                  /\ command'[k].snapshot.did = command[k].snapshot.did
  <2>1. CASE UNCHANGED command
    BY <2>1
  <2>2. CASE AdvanceStatus(w)
    <3>1. KeyOf(w) \in StorageKey /\ command[KeyOf(w)] \in Commands /\ command[KeyOf(w)] # None
      BY <2>2, CommandIsThere DEF Committed
    <3> DEFINE new == [command[KeyOf(w)] EXCEPT !.status = "COMPLETED"]
    <3>2. /\ new \in Commands /\ new.target = command[KeyOf(w)].target
          /\ new.snapshot = command[KeyOf(w)].snapshot
      BY <3>1 DEF Commands, CommandStatus
    <3>3. new # None
      BY <3>2, NoneAssumption
    <3>4. command'[k] = IF k = KeyOf(w) THEN new ELSE command[k]
      BY <1>1, <2>2, <3>1 DEF TypeOK
    <3> HIDE DEF new
    <3> QED BY <3>1, <3>2, <3>3, <3>4
  <2> QED BY <2>1, <2>2
<1>6. ASSUME NEW r \in Request
      PROVE  /\ (pc'[r] = "done" /\ origin'[r] \in {"own", "replay"})
                  <=> (pc[r] = "done" /\ origin[r] \in {"own", "replay"})
             /\ pc[r] = "done" => result'[r] = result[r]
  <2>1. CASE r = w /\ Crash(w)
    BY <1>1, <2>1
  <2>2. CASE r = w /\ ~Crash(w)
    BY <1>1, <1>2, <1>3, <2>2
  <2>3. CASE r # w
    BY <1>3, <2>3 DEF Worker
  <2> QED BY <2>1, <2>2, <2>3
<1> QED BY <1>1, <1>4, <1>5, <1>6, Stutters

\* Every step of the removal is a step of the promise, or one it does not see.
LEMMA StepImplements ==
  ASSUME RemovalInv, [Next]_vars
  PROVE  [Promise!Next]_Promise!kvars
<1>1. ASSUME NEW r \in Request, RequestStep(r)
      PROVE  Promise!Ask(r) \/ Promise!Apply(r) \/ Promise!Answer(r) \/ UNCHANGED Promise!kvars
  <2>1. CASE Begin(r)
    BY <2>1, BeginAsks
  <2>2. CASE Commit(r)
    BY <2>2, CommitApplies
  <2>3. CASE (CheckExisting(r) /\ Replay(r)) \/ RacedReplay(r)
    BY <2>3, AnswersAnswer DEF CheckExisting, RacedReplay, businessVars
  <2>4. CASE Reply(r)
    BY <2>4, AnswersAnswer DEF Reply, businessVars, requestVars, answerVars
  <2>5. CASE \/ CheckUnknown(r) \/ RollBack(r) \/ Dispatch(r) \/ Refresh(r)
             \/ RacedConflict(r) \/ FailWithError(r)
             \/ (CheckExisting(r) /\ Refuse(r))
    BY <2>5, RequestStutters
  <2>6. CheckExisting(r) => Replay(r) \/ Refuse(r)
    BY DEF CheckExisting
  <2> QED BY <1>1, <2>1, <2>2, <2>3, <2>4, <2>5, <2>6 DEF RequestStep
<1>2. ASSUME NEW w \in Worker, AdvanceStep(w) PROVE UNCHANGED Promise!kvars
  BY <1>2, AdvanceStutters
<1>3. ASSUME NEW m \in Monitor, MonitorBegin(m) PROVE UNCHANGED Promise!kvars
  <2>1. UNCHANGED <<effects, command, origin, result>>
    BY <1>3 DEF MonitorBegin, businessVars
  <2>2. \A r \in Request : pc'[r] = pc[r] /\ ask'[r] = ask[r]
    BY <1>3, RequestIsNoMonitor DEF MonitorBegin, Goto, RemovalInv, TypeOK
  <2> QED BY <2>1, <2>2, Stutters
<1>4. CASE \/ \E k \in StorageKey : Reprocess(k)
           \/ \E c \in Contact : OtherEmailWrite(c) \/ OtherStatusWrite(c)
           \/ UNCHANGED vars
  <2>1. UNCHANGED <<effects, command, origin, result, pc, ask>>
    BY <1>4 DEF Reprocess, OtherEmailWrite, OtherStatusWrite, vars, businessVars,
                requestVars, answerVars
  <2> QED BY <2>1, Stutters
<1> QED BY <1>1, <1>2, <1>3, <1>4 DEF Next, Promise!Next

\* Whatever the interleaving, and wherever requests fail or are lost: each
\* Idempotency-Key is applied at most once, and no caller is told anything but what
\* that one transaction did.
THEOREM ImplementsPromise == Spec => ImplementsKeyedOperation
<1>1. Init => Promise!Init
  BY RequestIsNoMonitor
  DEF Init, Promise!Init, Asked, Decided, Told, Answered
<1>2. RemovalInv /\ [Next]_vars => [Promise!Next]_Promise!kvars
  BY StepImplements
<1> QED BY <1>1, <1>2, RemovalInvariant, PTL DEF Spec, ImplementsKeyedOperation, Promise!Spec

-----------------------------------------------------------------------------
(* RetrySeesOriginalStatus fails only because of a monitor or a failure.     *)

\* Until its event is recorded, nobody but the request itself advances a command; and a
\* request that is about to answer has refreshed the stored result.
AsTold(r) ==
    /\ pc[r] \in {"dispatch", "events", "record"} => event[KeyOf(r)] = "NONE"
    /\ pc[r] \in {"reply", "done"} /\ origin[r] = "own" =>
         command[KeyOf(r)].snapshot = result[r]

UndisturbedInv ==
    /\ \A k \in StorageKey : event[k] # "NONE" => command[k] # None
    /\ \A r, s \in Request :
         origin[r] = "own" /\ origin[s] = "own" /\ KeyOf(r) = KeyOf(s) => r = s
    /\ \A r \in Request : AsTold(r)

\* No monitor advances commands, and no statement fails; handlers may still be lost.
Undisturbed == Monitor = {} /\ "fail" \notin Faults

\* A step of one request reaches no other one that has committed: it leaves the commands
\* of other keys alone, unless it claims one.
LEMMA OthersAsTold ==
  ASSUME RemovalInv, UndisturbedInv, NEW r \in Request,
         \A s \in Request \ {r} :
            pc'[s] = pc[s] /\ ask'[s] = ask[s] /\ result'[s] = result[s] /\ origin'[s] = origin[s],
         \A k \in StorageKey :
            \/ command'[k] = command[k] /\ event'[k] = event[k]
            \/ command[k] = None
            \/ origin[r] = "own" /\ k = KeyOf(r),
         NEW s \in Request \ {r}
  PROVE  AsTold(s)'
<1>1. pc[s] # "idle" => KeyOf(s) \in StorageKey
  BY KeyIsStored DEF Worker
<1>2. AsTold(s) /\ RequestAgrees(s)
  BY DEF UndisturbedInv, RemovalInv
<1>3. KeyOf(s)' = KeyOf(s)
  BY DEF KeyOf
<1>4. ASSUME origin[s] = "own", pc[s] # "idle"
      PROVE  command'[KeyOf(s)] = command[KeyOf(s)] /\ event'[KeyOf(s)] = event[KeyOf(s)]
  BY <1>1, <1>2, <1>4 DEF UndisturbedInv, RequestAgrees
<1>5. pc[s] \in {"dispatch", "events", "record"} => origin[s] = "own"
  BY <1>2 DEF RequestAgrees, Committed
<1> QED BY <1>2, <1>3, <1>4, <1>5 DEF AsTold

\* A claim stays with the request that made it.
LEMMA OwnersKept ==
  ASSUME RemovalInv, UndisturbedInv, NEW r \in Request,
         \A s \in Request \ {r} : ask'[s] = ask[s] /\ origin'[s] = origin[s],
         origin'[r] = "own" => ask'[r] = ask[r] /\ (origin[r] = "own" \/ command[KeyOf(r)] = None)
  PROVE  \A s, t \in Request :
           origin'[s] = "own" /\ origin'[t] = "own" /\ KeyOf(s)' = KeyOf(t)' => s = t
<1>1. \A s \in Request : origin[s] = "own" => command[KeyOf(s)] # None
  BY DEF RemovalInv, RequestAgrees
<1> QED BY <1>1 DEF UndisturbedInv, KeyOf

\* The other requests, whose key is not known or whose payload is another.
LEMMA AskingAsTold ==
  ASSUME RemovalInv, UndisturbedInv, NEW r \in Request,
         \/ Begin(r) \/ CheckExisting(r) \/ CheckUnknown(r) \/ RollBack(r)
         \/ RacedReplay(r) \/ RacedConflict(r)
  PROVE  UndisturbedInv'
<1>1. /\ \A s \in Request \ {r} : /\ pc'[s] = pc[s] /\ ask'[s] = ask[s]
                                  /\ result'[s] = result[s] /\ origin'[s] = origin[s]
      /\ UNCHANGED <<command, event>>
      /\ pc'[r] \in {"check", "transaction", "raced", "done"}
      /\ origin'[r] # "own"
  BY RequestIsNoMonitor
  DEF Begin, CheckExisting, CheckUnknown, RollBack, RacedReplay, RacedConflict, Replay, Refuse,
      Goto, requestVars, answerVars, RemovalInv, TypeOK, RequestAgrees
<1>2. \A s \in Request \ {r} : AsTold(s)'
  BY <1>1, OthersAsTold
<1>3. AsTold(r)'
  BY <1>1 DEF AsTold
<1>4. \A s, t \in Request :
        origin'[s] = "own" /\ origin'[t] = "own" /\ KeyOf(s)' = KeyOf(t)' => s = t
  BY <1>1, OwnersKept
<1> QED BY <1>1, <1>2, <1>3, <1>4 DEF UndisturbedInv

\* The claim is of a key that nobody claimed before, so its event is still to come.
LEMMA CommitAsTold ==
  ASSUME RemovalInv, UndisturbedInv, NEW r \in Request, Commit(r)
  PROVE  UndisturbedInv'
<1>1. /\ TypeOK /\ r \in Worker /\ KeyOf(r) \in StorageKey /\ command[KeyOf(r)] = None
  BY KeyIsStored DEF Commit, ClaimIsFree, RemovalInv, Worker
<1>2. /\ UNCHANGED <<event, ask>> /\ pc'[r] = "dispatch" /\ origin'[r] = "own"
      /\ \A s \in Request \ {r} : /\ pc'[s] = pc[s] /\ result'[s] = result[s]
                                  /\ origin'[s] = origin[s]
      /\ \A k \in StorageKey : k # KeyOf(r) => command'[k] = command[k]
  BY <1>1 DEF Commit, Goto, TypeOK, Worker
<1>3. \A s \in Request \ {r} : AsTold(s)'
  BY <1>1, <1>2, OthersAsTold
<1>4. event[KeyOf(r)] = "NONE"
  BY <1>1 DEF UndisturbedInv
<1>5. AsTold(r)'
  BY <1>2, <1>4 DEF AsTold, KeyOf
<1>6. \A s, t \in Request :
        origin'[s] = "own" /\ origin'[t] = "own" /\ KeyOf(s)' = KeyOf(t)' => s = t
  BY <1>1, <1>2, OwnersKept
<1> QED BY <1>1, <1>2, <1>3, <1>4, <1>5, <1>6 DEF UndisturbedInv

\* The statements between commit and answer. Nobody else records the event, so advance does
\* not throw and the refresh is reached.
LEMMA OwnAdvanceAsTold ==
  ASSUME RemovalInv, UndisturbedInv, Undisturbed, NEW r \in Request,
         \/ Dispatch(r) \/ AdvanceRead(r) \/ AdvanceRecord(r) \/ AdvanceDuplicate(r)
         \/ AdvanceProcess(r) \/ AdvanceStatus(r) \/ Refresh(r) \/ Reply(r)
  PROVE  UndisturbedInv'
<1>1. pc[r] \in Committed /\ r \in Worker
  BY DEF Dispatch, AdvanceRead, AdvanceRecord, AdvanceDuplicate, AdvanceProcess, AdvanceStatus,
         Refresh, Reply, Committed, Worker
<1>2. /\ TypeOK /\ AsTold(r) /\ origin[r] = "own" /\ KeyOf(r) \in StorageKey
      /\ command[KeyOf(r)] # None /\ command[KeyOf(r)] \in Commands
  BY <1>1, Advancing DEF RequestAgrees, UndisturbedInv
<1>3. UNCHANGED <<ask, origin>>
  BY <1>1, RequestIsNoMonitor
  DEF Dispatch, AdvanceRead, AdvanceRecord, AdvanceDuplicate, AdvanceProcess, AdvanceStatus,
      Refresh, Reply, Continue, AfterAdvance, AfterError, requestVars, answerVars
<1>4. /\ \A s \in Request \ {r} : pc'[s] = pc[s] /\ result'[s] = result[s]
      /\ \A k \in StorageKey \ {KeyOf(r)} : command'[k] = command[k] /\ event'[k] = event[k]
      /\ command'[KeyOf(r)] # None
  <2>1. \A s \in Request \ {r} : pc'[s] = pc[s] /\ result'[s] = result[s]
    BY <1>2
    DEF Dispatch, AdvanceRead, AdvanceRecord, AdvanceDuplicate, AdvanceProcess, AdvanceStatus,
        Refresh, Reply, Continue, Goto, requestVars, answerVars, TypeOK, Worker
  <2>2. CASE Dispatch(r) \/ AdvanceStatus(r)
    <3>1. PICK st \in CommandStatus :
            command' = [command EXCEPT ![KeyOf(r)] = [command[KeyOf(r)] EXCEPT !.status = st]]
      BY <2>2 DEF Dispatch, AdvanceStatus, CommandStatus
    <3>2. [command[KeyOf(r)] EXCEPT !.status = st] \in Commands /\ UNCHANGED event
      BY <1>2, <2>2 DEF Commands, Dispatch, AdvanceStatus
    <3> QED BY <1>2, <2>1, <3>1, <3>2, NoneAssumption DEF TypeOK
  <2>3. CASE Refresh(r)
    <3>1. /\ command' = [command EXCEPT ![KeyOf(r)] =
                           [command[KeyOf(r)] EXCEPT !.snapshot = result[r]]]
          /\ UNCHANGED event
      BY <2>3 DEF Refresh
    <3>2. result[r] \in Results
      BY <1>1, <1>2, Advancing DEF RequestAgrees, TypeOK
    <3>3. [command[KeyOf(r)] EXCEPT !.snapshot = result[r]] \in Commands
      BY <1>2, <3>2 DEF Commands
    <3> QED BY <1>2, <2>1, <3>1, <3>3, NoneAssumption DEF TypeOK
  <2>4. CASE AdvanceRead(r) \/ AdvanceRecord(r) \/ AdvanceDuplicate(r) \/ AdvanceProcess(r)
             \/ Reply(r)
    BY <1>2, <2>1, <2>4
    DEF AdvanceRead, AdvanceRecord, AdvanceDuplicate, AdvanceProcess, Reply, TypeOK
  <2> QED BY <2>2, <2>3, <2>4
<1>5. \A s \in Request \ {r} : AsTold(s)'
  BY <1>2, <1>3, <1>4, OthersAsTold
<1>6. AsTold(r)'
  <2>1. KeyOf(r)' = KeyOf(r)
    BY <1>3 DEF KeyOf
  <2>2. CASE Dispatch(r) \/ AdvanceRead(r)
    <3>1. event'[KeyOf(r)] = "NONE" /\ pc'[r] \in {"events", "record"}
      BY <1>1, <1>2, <2>2, RequestIsNoMonitor
      DEF Dispatch, AdvanceRead, Continue, Goto, Undisturbed, AsTold, TypeOK
    <3> QED BY <2>1, <3>1 DEF AsTold
  <2>3. CASE AdvanceRecord(r) \/ AdvanceProcess(r) \/ AdvanceStatus(r)
    <3>1. pc'[r] \in {"process", "status", "refresh"}
      BY <1>1, <1>2, <2>3 DEF AdvanceRecord, AdvanceProcess, AdvanceStatus, AfterAdvance, Continue,
                             Goto, TypeOK
    <3> QED BY <3>1 DEF AsTold
  <2>4. CASE AdvanceDuplicate(r)
    BY <1>2, <2>4 DEF AdvanceDuplicate, AsTold
  <2>5. CASE Refresh(r)
    <3>1. /\ command'[KeyOf(r)].snapshot = result[r] /\ UNCHANGED result /\ pc'[r] = "reply"
      BY <1>1, <1>2, <2>5 DEF Refresh, Goto, requestVars, answerVars, TypeOK, Commands
    <3> QED BY <2>1, <3>1 DEF AsTold
  <2>6. CASE Reply(r)
    BY <1>1, <1>2, <2>1, <2>6 DEF Reply, Goto, requestVars, answerVars, AsTold, TypeOK
  <2> QED BY <2>2, <2>3, <2>4, <2>5, <2>6
<1>7. \A s, t \in Request :
        origin'[s] = "own" /\ origin'[t] = "own" /\ KeyOf(s)' = KeyOf(t)' => s = t
  BY <1>2, <1>3, OwnersKept
<1>8. \A k \in StorageKey : event'[k] # "NONE" => command'[k] # None
  BY <1>4 DEF UndisturbedInv
<1> QED BY <1>5, <1>6, <1>7, <1>8 DEF UndisturbedInv

\* A lost handler answers nobody.
LEMMA CrashAsTold ==
  ASSUME RemovalInv, UndisturbedInv, NEW r \in Request, Crash(r)
  PROVE  UndisturbedInv'
<1>1. /\ UNCHANGED <<command, event, ask>> /\ pc'[r] = "done" /\ origin'[r] = "lost"
      /\ \A s \in Request \ {r} : /\ pc'[s] = pc[s] /\ result'[s] = result[s]
                                  /\ origin'[s] = origin[s]
  BY RequestIsNoMonitor DEF Crash, Continue, Goto, RemovalInv, TypeOK
<1>2. \A s \in Request \ {r} : AsTold(s)'
  BY <1>1, OthersAsTold
<1>3. AsTold(r)'
  BY <1>1 DEF AsTold
<1>4. \A s, t \in Request :
        origin'[s] = "own" /\ origin'[t] = "own" /\ KeyOf(s)' = KeyOf(t)' => s = t
  BY <1>1, OwnersKept
<1> QED BY <1>1, <1>2, <1>3, <1>4 DEF UndisturbedInv

\* Reprocessing marks an event that is recorded already; the others touch no command.
LEMMA WritersAsTold ==
  ASSUME RemovalInv, UndisturbedInv,
         \/ \E k \in StorageKey : Reprocess(k)
         \/ \E c \in Contact : OtherEmailWrite(c) \/ OtherStatusWrite(c)
         \/ UNCHANGED vars
  PROVE  UndisturbedInv'
<1>1. UNCHANGED <<command, pc, ask, result, origin>>
  BY DEF Reprocess, OtherEmailWrite, OtherStatusWrite, vars, requestVars, answerVars
<1>2. \A k \in StorageKey : event'[k] = "NONE" <=> event[k] = "NONE"
  BY DEF Reprocess, OtherEmailWrite, OtherStatusWrite, vars, RemovalInv, TypeOK
<1>3. ASSUME NEW r \in Request PROVE AsTold(r)'
  <2>1. pc[r] # "idle" => KeyOf(r) \in StorageKey
    BY KeyIsStored DEF Worker
  <2> QED BY <1>1, <1>2, <2>1 DEF UndisturbedInv, AsTold, KeyOf
<1> QED BY <1>1, <1>2, <1>3 DEF UndisturbedInv, KeyOf

LEMMA UndisturbedStep ==
  ASSUME RemovalInv, UndisturbedInv, Undisturbed, [Next]_vars
  PROVE  UndisturbedInv'
<1>1. ASSUME NEW r \in Request, RequestStep(r) \/ AdvanceStep(r) PROVE UndisturbedInv'
  <2>1. ~FailWithError(r) /\ ~FailAfterCommit(r)
    BY DEF FailWithError, FailAfterCommit, Undisturbed
  <2> QED BY <1>1, <2>1, AskingAsTold, CommitAsTold, OwnAdvanceAsTold, CrashAsTold
          DEF RequestStep, AdvanceStep
<1>2. Worker = Request /\ Monitor = {}
  BY DEF Worker, Undisturbed
<1> QED BY <1>1, <1>2, WritersAsTold DEF Next

\* Where no monitor advances commands and no statement fails, a retry does see the status
\* that the original caller was told, although requests meet and handlers are lost.
THEOREM UndisturbedRetriesSeeTheStatus ==
  ASSUME Undisturbed PROVE Spec => []RetrySeesOriginalStatus
<1>1. Init => UndisturbedInv
  BY DEF Init, UndisturbedInv, AsTold, Worker
<1>2. RemovalInv /\ UndisturbedInv /\ [Next]_vars => UndisturbedInv'
  BY UndisturbedStep
<1>3. UndisturbedInv => RetrySeesOriginalStatus
  BY DEF UndisturbedInv, AsTold, RetrySeesOriginalStatus
<1> QED BY <1>1, <1>2, <1>3, RemovalInvariant, PTL DEF Spec
=============================================================================
