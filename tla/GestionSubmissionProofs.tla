---------------------- MODULE GestionSubmissionProofs ----------------------
(***************************************************************************)
(* Proofs about GestionSubmission, for every set of slots, keys, versions, *)
(* operations and faults.  RemoteInv needs no condition on what goes       *)
(* wrong; StoredKeyInv is the part that holds while starts do not overlap  *)
(* and no remote Gestion fails.                                            *)
(***************************************************************************)
EXTENDS GestionSubmission, TLAPS

\* Initially no request runs and the motor knows nothing.
LEMMA InitRemoteInv == Init => RemoteInv
<1> SUFFICES ASSUME Init PROVE RemoteInv
  OBVIOUS
<1> USE ConstantsAssumption
    DEF ConstantsAssumption, Init, Idle, SubmittedStatuses, RetryStatuses,
        FreshSubmitBlocked, ServerStatuses, StartPoints
<1>1. TypeOK
  <2>1. row \in Rows
    BY DEF Rows, Statuses
  <2>2. imp \in Imports
    <3>1. imp = NoImport \/ imp = [status |-> "READY", rows |-> "valid", stamped |-> FALSE]
      BY Zenon
    <3>2. NoImport \in Imports
      BY DEF NoImport, Imports
    <3>3. [status |-> "READY", rows |-> "valid", stamped |-> FALSE] \in Imports
      BY DEF Imports
    <3> QED BY <3>1, <3>2, <3>3
  <2>3. req \in [Slots -> Requests]
    BY DEF Requests, Points
  <2>4. raw \in BOOLEAN
    OBVIOUS
  <2>5. /\ net \subseteq Keys
        /\ answers \in [Keys -> {"NONE", "ACCEPTED", "REJECTED"}]
        /\ remote \in [Keys -> ServerStatuses \cup {"NONE"}]
        /\ mishaps \subseteq {"overlap", "remote"}
    OBVIOUS
  <2> QED BY <2>1, <2>2, <2>3, <2>4, <2>5 DEF TypeOK
<1>2. RequestsAgree
  BY DEF RequestsAgree, RequestAgrees
<1>3. MotorAgrees
  BY DEF MotorAgrees
<1> QED BY <1>1, <1>2, <1>3 DEF RemoteInv


-----------------------------------------------------------------------------
(* How a step changes one request. *)

\* A handler that moves on keeps what it holds, and the others theirs.
LEMMA GotoChanges ==
  ASSUME TypeOK, NEW s \in Slots, NEW p \in Points, Goto(s, p)
  PROVE  /\ req' \in [Slots -> Requests]
         /\ req'[s].pc = p
         /\ req'[s].key = req[s].key
         /\ req'[s].fresh = req[s].fresh
         /\ req'[s].version = req[s].version
         /\ req'[s].snapshot = req[s].snapshot
         /\ \A t \in Slots \ {s} : req'[t] = req[t]
  BY DEF Goto, TypeOK, Requests

\* A handler that ends holds nothing.
LEMMA FinishChanges ==
  ASSUME TypeOK, NEW s \in Slots, Finish(s)
  PROVE  /\ req' \in [Slots -> Requests]
         /\ req'[s] = Idle
         /\ req'[s].pc = "idle"
         /\ \A t \in Slots \ {s} : req'[t] = req[t]
<1>1. Idle \in Requests
  BY DEF Idle, Requests, Points, StartPoints
<1> QED BY <1>1 DEF Finish, TypeOK, Idle

\* The other requests stay consistent: the motor forgets no Gestion and the
\* row never loses its serverExecutionId.
LEMMA RequestsAgreeStep ==
  ASSUME RemoteInv, NEW s \in Slots,
         \A t \in Slots \ {s} : req'[t] = req[t],
         RequestAgrees(s)',
         row.serverId # None => row'.serverId # None,
         \A k \in Keys : remote[k] # "NONE" => remote'[k] # "NONE"
  PROVE  RequestsAgree'
  BY DEF RemoteInv, RequestsAgree, RequestAgrees

\* A step of slot s that leaves the motor alone.
LEMMA RowAndRequest ==
  ASSUME RemoteInv, NEW s \in Slots,
         req' \in [Slots -> Requests],
         \A t \in Slots \ {s} : req'[t] = req[t],
         RequestAgrees(s)',
         row' \in Rows,
         row.serverId # None => row'.serverId # None,
         row'.serverId # None => answers[row'.serverId] = "ACCEPTED",
         row'.status \in SubmittedStatuses => row'.serverId # None,
         imp' \in Imports, raw' \in BOOLEAN, mishaps' \subseteq {"overlap", "remote"},
         UNCHANGED motorVars
  PROVE  RemoteInv'
<1>1. TypeOK'
  BY DEF RemoteInv, TypeOK, motorVars
<1>2. MotorAgrees'
  BY DEF RemoteInv, MotorAgrees, motorVars
<1>3. RequestsAgree'
  BY RequestsAgreeStep DEF motorVars
<1> QED BY <1>1, <1>2, <1>3 DEF RemoteInv

\* A step of slot s that leaves the motor and the row alone.
LEMMA OnlyRequest ==
  ASSUME RemoteInv, NEW s \in Slots,
         req' \in [Slots -> Requests],
         \A t \in Slots \ {s} : req'[t] = req[t],
         RequestAgrees(s)',
         imp' \in Imports, raw' \in BOOLEAN, mishaps' \subseteq {"overlap", "remote"},
         UNCHANGED <<row, motorVars>>
  PROVE  RemoteInv'
  BY RowAndRequest DEF RemoteInv, TypeOK, MotorAgrees

-----------------------------------------------------------------------------
(* The unconditional invariant, action by action. *)

\* The actions of a start preserve it.
LEMMA StartRemoteInv ==
  ASSUME RemoteInv, NEW s \in Slots, Start(s)
  PROVE  RemoteInv'
<1> USE DEF motorVars
<1>0. /\ TypeOK
      /\ StartPoints \subseteq Points
      /\ "idle" \notin StartPoints \cup {"ask", "apply", "write"}
      /\ RequestAgrees(s)
  BY DEF RemoteInv, Points, StartPoints, RequestsAgree
<1>1. CASE StartRead(s)
  <2>1. PICK k \in Keys :
          req' = [req EXCEPT ![s] = [Idle EXCEPT !.pc = "import", !.key = KeyToUse(k),
                                                 !.fresh = ~IsRetry]]
    BY <1>1 DEF StartRead
  <2>2. KeyToUse(k) \in Keys
    BY <1>0 DEF KeyToUse, TypeOK, Rows
  <2>3. [Idle EXCEPT !.pc = "import", !.key = KeyToUse(k), !.fresh = ~IsRetry] \in Requests
    BY <2>2 DEF Idle, Requests, Points, StartPoints, IsRetry
  <2>4. req' \in [Slots -> Requests] /\ \A t \in Slots \ {s} : req'[t] = req[t]
    BY <1>0, <2>1, <2>3 DEF TypeOK
  <2>5. RequestAgrees(s)'
    BY <1>0, <2>1, <2>2 DEF RequestAgrees, Idle, TypeOK
  <2>6. mishaps' \subseteq {"overlap", "remote"}
    BY <1>0, <1>1 DEF StartRead, TypeOK
  <2> QED BY <1>0, <1>1, <2>4, <2>5, <2>6, OnlyRequest DEF StartRead, TypeOK
<1>2. CASE StartCheckImport(s) \/ StartReadRows(s) \/ StartMark(s)
  <2>1. PICK p \in StartPoints : Goto(s, p)
    BY <1>2 DEF StartCheckImport, StartReadRows, StartMark, StartPoints
  <2>2. req[s].key \in Keys
    BY <1>0, <1>2 DEF RequestAgrees, StartCheckImport, StartReadRows, StartMark, StartPoints
  <2>3. RequestAgrees(s)'
    BY <1>0, <2>1, <2>2, GotoChanges DEF RequestAgrees, StartPoints
  <2>4. imp' \in Imports
    BY <1>0, <1>2 DEF StartCheckImport, StartReadRows, StartMark, TypeOK, Imports
  <2> QED
    BY <1>0, <1>2, <2>1, <2>3, <2>4, GotoChanges, OnlyRequest
    DEF StartCheckImport, StartReadRows, StartMark, TypeOK
<1>3. CASE StartRefused(s) \/ StartLosesClaim(s) \/ StartAudit(s)
  <2>1. RequestAgrees(s)'
    BY <1>0, <1>3, FinishChanges DEF RequestAgrees, StartRefused, StartLosesClaim, StartAudit
  <2> QED
    BY <1>0, <1>3, <2>1, FinishChanges, OnlyRequest
    DEF StartRefused, StartLosesClaim, StartAudit, TypeOK
<1>4. CASE StartClaim(s) \/ (StartStoreKey(s) /\ row.exists)
  <2>1. PICK p \in {"key", "send"} : Goto(s, p)
    BY <1>4 DEF StartClaim, StartStoreKey
  <2>2. req[s].key \in Keys
    BY <1>0, <1>4 DEF RequestAgrees, StartClaim, StartStoreKey, StartPoints
  <2>3. p \in Points /\ p \in StartPoints
    BY DEF Points, StartPoints
  <2>4. RequestAgrees(s)'
    BY <1>0, <2>1, <2>2, <2>3, GotoChanges DEF RequestAgrees, StartPoints
  <2>5. /\ row' \in Rows
        /\ row'.serverId = row.serverId
        /\ row'.status = row.status \/ row'.status = "SUBMITTING"
    BY <1>0, <1>4, <2>2
    DEF StartClaim, StartStoreKey, TypeOK, Rows, Statuses, FreshSubmitBlocked, RetryStatuses
  <2>6. /\ row'.serverId # None => answers[row'.serverId] = "ACCEPTED"
        /\ row'.status \in SubmittedStatuses => row'.serverId # None
    BY <2>5 DEF RemoteInv, MotorAgrees, SubmittedStatuses
  <2>7. UNCHANGED <<imp, raw, motorVars, mishaps>>
    BY <1>4 DEF StartClaim, StartStoreKey
  <2> QED
    BY <1>0, <2>1, <2>3, <2>4, <2>5, <2>6, <2>7, GotoChanges, RowAndRequest DEF TypeOK
<1>5. CASE StartStoreKey(s) /\ ~row.exists
  <2>1. RequestAgrees(s)'
    BY <1>0, <1>5, FinishChanges DEF RequestAgrees, StartStoreKey
  <2> QED
    BY <1>0, <1>5, <2>1, FinishChanges, OnlyRequest DEF StartStoreKey, TypeOK
<1>6. CASE StartCallMotor(s)
  <2>1. req[s].key \in Keys /\ "calling" \in Points /\ "calling" \in StartPoints
    BY <1>0, <1>6 DEF RequestAgrees, StartCallMotor, StartPoints, Points
  <2>2. RequestAgrees(s)'
    BY <1>0, <1>6, <2>1, GotoChanges DEF RequestAgrees, StartCallMotor, StartPoints
  <2>3. TypeOK'
    BY <1>0, <1>6, <2>1, GotoChanges DEF StartCallMotor, TypeOK
  <2>4. MotorAgrees'
    BY <1>6 DEF StartCallMotor, RemoteInv, MotorAgrees
  <2>5. RequestsAgree'
    BY <1>0, <1>6, <2>1, <2>2, GotoChanges, RequestsAgreeStep DEF StartCallMotor
  <2> QED BY <2>3, <2>4, <2>5 DEF RemoteInv
<1>7. CASE StartAccepted(s) \/ StartRejected(s)
  <2>1. PICK p \in {"mark", "audit"} : Goto(s, p)
    BY <1>7 DEF StartAccepted, StartRejected
  <2>2. req[s].key \in Keys
    BY <1>0, <1>7 DEF RequestAgrees, StartAccepted, StartRejected, StartPoints
  <2>3. p \in Points /\ p \in StartPoints
    BY DEF Points, StartPoints
  <2>4. RequestAgrees(s)'
    BY <1>0, <2>1, <2>2, <2>3, GotoChanges DEF RequestAgrees, StartPoints
  <2>5. /\ row' \in Rows
        /\ \/ /\ row'.serverId = req[s].key
              /\ answers[req[s].key] = "ACCEPTED"
           \/ /\ row'.serverId = row.serverId
              /\ row'.status = "REJECTED"
    BY <1>0, <1>7, <2>2
    DEF StartAccepted, AcceptedRow, StartRejected, TypeOK, Rows, Statuses,
        FreshSubmitBlocked, SubmittedStatuses
  <2>6. /\ row'.serverId # None => answers[row'.serverId] = "ACCEPTED"
        /\ row'.status \in SubmittedStatuses => row'.serverId # None
        /\ row.serverId # None => row'.serverId # None
    BY <2>2, <2>5, ConstantsAssumption
    DEF ConstantsAssumption, RemoteInv, MotorAgrees, SubmittedStatuses
  <2>7. UNCHANGED <<imp, raw, motorVars, mishaps>>
    BY <1>7 DEF StartAccepted, StartRejected
  <2> QED
    BY <1>0, <2>1, <2>3, <2>4, <2>5, <2>6, <2>7, GotoChanges, RowAndRequest DEF TypeOK
<1>8. CASE StartCatch(s)
  <2>1. RequestAgrees(s)'
    BY <1>0, <1>8, FinishChanges DEF RequestAgrees, StartCatch
  <2>2. /\ row' \in Rows
        /\ row'.serverId = row.serverId
        /\ row'.status = row.status \/ row'.status = "SUBMISSION_UNKNOWN"
    BY <1>0, <1>8
    DEF StartCatch, StatusAfterFailedCall, TypeOK, Rows, Statuses, FreshSubmitBlocked,
        RetryStatuses
  <2>3. /\ row'.serverId # None => answers[row'.serverId] = "ACCEPTED"
        /\ row'.status \in SubmittedStatuses => row'.serverId # None
    BY <2>2 DEF RemoteInv, MotorAgrees, SubmittedStatuses
  <2> QED
    BY <1>0, <1>8, <2>1, <2>2, <2>3, FinishChanges, RowAndRequest DEF StartCatch, TypeOK
<1> QED
  <2>1. StartStoreKey(s) => RemoteInv'
    BY <1>4, <1>5
  <2> QED BY <1>1, <1>2, <1>3, <1>4, <1>6, <1>7, <1>8, <2>1 DEF Start

\* So do the motor's own steps: it answers a key once and forgets nothing.
LEMMA MotorRemoteInv ==
  ASSUME RemoteInv, NEW k \in Keys, MotorHandle(k) \/ MotorProgress(k) \/ MotorFailure(k)
  PROVE  RemoteInv'
<1>1. /\ answers' \in [Keys -> {"NONE", "ACCEPTED", "REJECTED"}]
      /\ remote' \in [Keys -> ServerStatuses \cup {"NONE"}]
      /\ net' \subseteq Keys
      /\ mishaps' \subseteq {"overlap", "remote"}
      /\ row' = row /\ imp' = imp /\ raw' = raw /\ req' = req
  BY DEF RemoteInv, TypeOK, MotorHandle, MotorProgress, MotorFailure, ServerStatuses
<1>2. ASSUME NEW j \in Keys
      PROVE  /\ answers'[j] = "ACCEPTED" <=> remote'[j] # "NONE"
             /\ answers[j] = "ACCEPTED" => answers'[j] = "ACCEPTED"
             /\ remote[j] # "NONE" => remote'[j] # "NONE"
  <2>1. answers[j] = "ACCEPTED" <=> remote[j] # "NONE"
    BY DEF RemoteInv, MotorAgrees
  <2> QED
    BY <2>1 DEF RemoteInv, TypeOK, MotorHandle, MotorProgress, MotorFailure
<1>3. TypeOK'
  BY <1>1 DEF RemoteInv, TypeOK
<1>4. MotorAgrees'
  <2>1. row.serverId \in Keys \cup {None} /\ MotorAgrees
    BY DEF RemoteInv, TypeOK, Rows
  <2> QED BY <1>1, <1>2, <2>1 DEF MotorAgrees
<1>5. RequestsAgree'
  <2>1. ASSUME NEW s \in Slots PROVE RequestAgrees(s)'
    <3>1. RequestAgrees(s)
      BY DEF RemoteInv, RequestsAgree
    <3> QED BY <1>1, <1>2, <3>1 DEF RequestAgrees
  <2> QED BY <2>1 DEF RequestsAgree
<1> QED BY <1>3, <1>4, <1>5 DEF RemoteInv

\* So does a refresh: it asks under a serverExecutionId the motor knows.
LEMMA RefreshRemoteInv ==
  ASSUME RemoteInv, NEW s \in Slots, Refresh(s)
  PROVE  RemoteInv'
<1> USE DEF motorVars
<1>0. TypeOK /\ RequestAgrees(s) /\ MotorAgrees
  BY DEF RemoteInv, RequestsAgree
<1>1. CASE RefreshRead(s)
  <2>1. row.serverId \in Keys /\ remote[row.serverId] # "NONE"
    BY <1>0, <1>1 DEF RefreshRead, TypeOK, Rows, MotorAgrees
  <2>2. [Idle EXCEPT !.pc = "ask", !.key = row.serverId] \in Requests
    BY <2>1 DEF Idle, Requests, Points
  <2>3. RequestAgrees(s)'
    BY <1>0, <1>1, <2>1 DEF RefreshRead, RequestAgrees, Idle, StartPoints, TypeOK
  <2>4. req' \in [Slots -> Requests] /\ \A t \in Slots \ {s} : req'[t] = req[t]
    BY <1>0, <1>1, <2>2 DEF RefreshRead, TypeOK
  <2> QED BY <1>0, <1>1, <2>3, <2>4, OnlyRequest DEF RefreshRead, TypeOK
<1>2. CASE RefreshAsk(s)
  <2>1. req[s].key \in Keys /\ remote[req[s].key] \in ServerStatuses /\ row.serverId # None
    BY <1>0, <1>2 DEF RefreshAsk, RequestAgrees, TypeOK
  <2>2. [req[s] EXCEPT !.snapshot = remote[req[s].key], !.pc = "apply"] \in Requests
    <3>1. req[s] \in Requests /\ "apply" \in Points
      BY <1>0 DEF TypeOK, Points
    <3> DEFINE answered == [req[s] EXCEPT !.snapshot = remote[req[s].key]]
    <3>2. answered \in Requests
      BY <2>1, <3>1 DEF Requests
    <3>3. [answered EXCEPT !.pc = "apply"] \in Requests
      BY <3>1, <3>2 DEF Requests
    <3> QED BY <3>3
  <2>3. req' = [req EXCEPT ![s] = [req[s] EXCEPT !.snapshot = remote[req[s].key],
                                                 !.pc = "apply"]]
    BY <1>0, <1>2 DEF RefreshAsk, TypeOK, Requests
  <2>4. /\ req' \in [Slots -> Requests]
        /\ req'[s] = [req[s] EXCEPT !.snapshot = remote[req[s].key], !.pc = "apply"]
        /\ \A t \in Slots \ {s} : req'[t] = req[t]
    BY <1>0, <2>2, <2>3 DEF TypeOK
  <2>5. req'[s].pc = "apply" /\ req'[s].key = req[s].key /\ req'[s].snapshot \in ServerStatuses
    BY <1>0, <2>1, <2>4 DEF TypeOK, Requests
  <2>6. RequestAgrees(s)'
    BY <1>2, <2>1, <2>5, <1>0 DEF RefreshAsk, RequestAgrees, StartPoints
  <2> QED BY <1>0, <1>2, <2>4, <2>6, OnlyRequest DEF RefreshAsk, TypeOK
<1>3. CASE RefreshUnanswered(s)
  <2>1. RequestAgrees(s)'
    BY <1>0, <1>3, FinishChanges DEF RequestAgrees, RefreshUnanswered, StartPoints
  <2> QED
    BY <1>0, <1>3, <2>1, FinishChanges, OnlyRequest DEF RefreshUnanswered, TypeOK
<1>4. CASE RefreshApply(s)
  <2>1. RequestAgrees(s)'
    BY <1>0, <1>4, FinishChanges DEF RequestAgrees, RefreshApply, StartPoints
  <2>2. LocalStatusForServerStatus(req[s].snapshot) \in Statuses
    BY <1>0, <1>4
    DEF RefreshApply, RequestAgrees, LocalStatusForServerStatus, ServerStatuses, Statuses,
        FreshSubmitBlocked, SubmittedStatuses
  <2>3. row' \in Rows /\ row'.serverId = row.serverId
    BY <1>0, <1>4, <2>2 DEF RefreshApply, TypeOK, Rows
  <2>4. row.serverId # None
    BY <1>0, <1>4 DEF RefreshApply, RequestAgrees
  <2> QED
    BY <1>0, <1>4, <2>1, <2>3, <2>4, FinishChanges, RowAndRequest
    DEF RefreshApply, TypeOK, MotorAgrees
<1> QED BY <1>1, <1>2, <1>3, <1>4 DEF Refresh

\* So does any step of a draft's edition: version and existence are no part of it.
LEMMA EditDraftRemoteInv ==
  ASSUME RemoteInv, NEW s \in Slots, EditDraft(s)
  PROVE  RemoteInv'
<1> USE DEF motorVars
<1>0. /\ TypeOK /\ RequestAgrees(s) /\ MotorAgrees
      /\ Points = Points \cup {"write", "dropRows", "dropImport", "delete"}
      /\ {"write", "dropRows", "dropImport", "delete", "idle"}
           \cap (StartPoints \cup {"ask", "apply"}) = {}
  BY DEF RemoteInv, RequestsAgree, Points, StartPoints
<1>1. CASE UpdateRead(s)
  <2>1. PICK v \in Versions, p \in {"dropRows", "write"} :
          req' = [req EXCEPT ![s] = [Idle EXCEPT !.pc = p, !.version = v]]
    BY <1>1 DEF UpdateRead
  <2>2. [Idle EXCEPT !.pc = p, !.version = v] \in Requests
    BY DEF Idle, Requests, Points
  <2>3. RequestAgrees(s)'
    BY <1>0, <2>1, ConstantsAssumption DEF RequestAgrees, Idle, TypeOK, ConstantsAssumption
  <2>4. req' \in [Slots -> Requests] /\ \A t \in Slots \ {s} : req'[t] = req[t]
    BY <1>0, <2>1, <2>2 DEF TypeOK
  <2> QED BY <1>0, <1>1, <2>3, <2>4, OnlyRequest DEF UpdateRead, TypeOK
<1>6. CASE DeleteRead(s)
  <2>1. [Idle EXCEPT !.pc = "dropRows"] \in Requests
    BY DEF Idle, Requests, Points
  <2>2. RequestAgrees(s)'
    BY <1>0, <1>6 DEF DeleteRead, RequestAgrees, Idle, TypeOK
  <2>3. req' \in [Slots -> Requests] /\ \A t \in Slots \ {s} : req'[t] = req[t]
    BY <1>0, <1>6, <2>1 DEF DeleteRead, TypeOK
  <2> QED BY <1>0, <1>6, <2>2, <2>3, OnlyRequest DEF DeleteRead, TypeOK
<1>2. CASE DropRows(s)
  <2>1. PICK p \in {"write", "dropImport", "delete"} :
          Goto(s, p) /\ (p = "write" => req[s].version # None)
    BY <1>2 DEF DropRows, AfterDrop
  <2>2. RequestAgrees(s)'
    BY <1>0, <2>1, GotoChanges DEF RequestAgrees
  <2>3. imp' \in Imports /\ raw' \in BOOLEAN
    BY <1>0, <1>2 DEF DropRows, TypeOK, Imports
  <2> QED
    BY <1>0, <1>2, <2>1, <2>2, <2>3, GotoChanges, OnlyRequest DEF DropRows, TypeOK
<1>3. CASE DropImport(s) /\ imp.rows # "none"
  <2>1. RequestAgrees(s)'
    BY <1>0, <1>3, FinishChanges DEF RequestAgrees, DropImport
  <2> QED
    BY <1>0, <1>3, <2>1, FinishChanges, OnlyRequest DEF DropImport, TypeOK
<1>4. CASE DropImport(s) /\ imp.rows = "none"
  <2>1. [req[s] EXCEPT !.pc = AfterDrop(s)] \in Requests /\ Idle \in Requests
    BY <1>0 DEF AfterDrop, TypeOK, Requests, Idle, Points
  <2>2. req' = [t \in Slots |-> IF t = s THEN [req[s] EXCEPT !.pc = AfterDrop(s)]
                               ELSE IF HoldsImport(t) THEN Idle ELSE req[t]]
    BY <1>4 DEF DropImport
  <2>3. req' \in [Slots -> Requests]
    BY <1>0, <2>1, <2>2 DEF TypeOK
  <2>4. /\ req'[s].pc = AfterDrop(s) /\ req'[s].version = req[s].version
        /\ \A t \in Slots \ {s} : req'[t] = Idle \/ req'[t] = req[t]
    BY <1>0, <2>2 DEF TypeOK, Requests
  <2>5. RequestAgrees(s)'
    BY <1>0, <2>4 DEF RequestAgrees, AfterDrop
  <2>6. ASSUME NEW t \in Slots \ {s} PROVE RequestAgrees(t)'
    <3>1. UNCHANGED <<row, remote>> /\ RequestAgrees(t)
      BY <1>4 DEF DropImport, RemoteInv, RequestsAgree
    <3> QED BY <1>0, <2>4, <3>1 DEF RequestAgrees, Idle
  <2>7. imp' \in Imports
    <3>1. imp' = NoImport
      BY <1>4 DEF DropImport
    <3>2. NoImport \in Imports
      BY DEF NoImport, Imports
    <3> QED BY <3>1, <3>2
  <2>8. TypeOK' /\ MotorAgrees'
    BY <1>0, <1>4, <2>3, <2>7 DEF DropImport, TypeOK, MotorAgrees
  <2> QED BY <2>5, <2>6, <2>8 DEF RemoteInv, RequestsAgree
<1>5. CASE UpdateWrite(s) \/ DeleteRow(s)
  <2>1. RequestAgrees(s)'
    BY <1>0, <1>5, FinishChanges DEF RequestAgrees, UpdateWrite, DeleteRow
  <2>2. req[s].pc = "write" => req[s].version \in Versions
    BY <1>0 DEF RequestAgrees, TypeOK, Requests
  <2>3. row' \in Rows /\ row'.serverId = row.serverId /\ row'.status = row.status
    BY <1>0, <1>5, <2>2 DEF UpdateWrite, DeleteRow, TypeOK, Rows
  <2> QED
    BY <1>0, <1>5, <2>1, <2>3, FinishChanges, RowAndRequest
    DEF UpdateWrite, DeleteRow, TypeOK, MotorAgrees
<1> QED
  BY <1>1, <1>2, <1>3, <1>4, <1>5, <1>6 DEF EditDraft

\* So do the import's upload and mapping.
LEMMA EditImportRemoteInv ==
  ASSUME RemoteInv, NEW s \in Slots, EditImport(s)
  PROVE  RemoteInv'
<1> USE DEF motorVars
<1>0. /\ TypeOK /\ RequestAgrees(s)
      /\ {"upload", "mapClear", "mapRows", "mapSave"} \subseteq Points
      /\ {"upload", "mapClear", "mapRows", "mapSave", "idle"}
           \cap (StartPoints \cup {"ask", "apply", "write"}) = {}
  BY DEF RemoteInv, RequestsAgree, Points, StartPoints
<1>1. CASE UploadRead(s) \/ MapRead(s) \/ MapClear(s) \/ (MapRows(s) /\ imp.rows = "none")
  <2>1. PICK p \in {"upload", "mapClear", "mapRows", "mapSave"} : Goto(s, p)
    BY <1>1 DEF UploadRead, MapRead, MapClear, MapRows
  <2>2. RequestAgrees(s)'
    BY <1>0, <2>1, GotoChanges DEF RequestAgrees
  <2>3. imp' \in Imports
    BY <1>0, <1>1 DEF UploadRead, MapRead, MapClear, MapRows, TypeOK, Imports
  <2> QED
    BY <1>0, <1>1, <2>1, <2>2, <2>3, GotoChanges, OnlyRequest
    DEF UploadRead, MapRead, MapClear, MapRows, TypeOK
<1>2. CASE UploadSave(s) \/ MapSave(s) \/ (MapRows(s) /\ imp.rows # "none")
  <2>1. RequestAgrees(s)'
    BY <1>0, <1>2, FinishChanges DEF RequestAgrees, UploadSave, MapSave, MapRows
  <2>2. imp' \in Imports /\ raw' \in BOOLEAN
    BY <1>0, <1>2 DEF UploadSave, MapSave, MapRows, TypeOK, Imports
  <2> QED
    BY <1>0, <1>2, <2>1, <2>2, FinishChanges, OnlyRequest DEF UploadSave, MapSave, MapRows, TypeOK
<1> QED BY <1>1, <1>2 DEF EditImport

\* A failed statement or a restart only forgets requests.
LEMMA FaultRemoteInv ==
  ASSUME RemoteInv, Crash \/ \E s \in Slots : StatementFails(s)
  PROVE  RemoteInv'
<1> USE DEF motorVars
<1>1. TypeOK /\ "idle" \notin StartPoints \cup {"ask", "apply", "write"}
  BY DEF RemoteInv, StartPoints
<1>2. CASE Crash
  <2>1. Idle \in Requests
    BY DEF Idle, Requests, Points
  <2>2. TypeOK' /\ MotorAgrees'
    BY <1>2, <2>1 DEF Crash, RemoteInv, TypeOK, MotorAgrees
  <2>3. RequestsAgree'
    BY <1>1, <1>2 DEF Crash, RequestsAgree, RequestAgrees, Idle
  <2> QED BY <2>2, <2>3 DEF RemoteInv
<1>3. ASSUME NEW s \in Slots, StatementFails(s) PROVE RemoteInv'
  <2>1. RequestAgrees(s)'
    BY <1>1, <1>3, FinishChanges DEF RequestAgrees, StatementFails
  <2> QED
    BY <1>1, <1>3, <2>1, FinishChanges, OnlyRequest DEF StatementFails, TypeOK
<1> QED BY <1>2, <1>3

\* Every step preserves the unconditional invariant.
LEMMA NextRemoteInv == RemoteInv /\ [Next]_vars => RemoteInv'
<1> SUFFICES ASSUME RemoteInv, [Next]_vars PROVE RemoteInv'
  OBVIOUS
<1>1. CASE UNCHANGED vars
  BY <1>1
  DEF vars, motorVars, RemoteInv, TypeOK, RequestsAgree, RequestAgrees, MotorAgrees
<1>2. CASE Next
  BY <1>2, StartRemoteInv, RefreshRemoteInv, EditDraftRemoteInv, EditImportRemoteInv,
     MotorRemoteInv, FaultRemoteInv
  DEF Next, Motor
<1> QED BY <1>1, <1>2

\* RemoteInv is an invariant of the system.
THEOREM RemoteInvariant == Spec => []RemoteInv
  BY InitRemoteInv, NextRemoteInv, PTL DEF Spec

\* Every reachable state is of the declared types: for instance no status of
\* the motor's own vocabulary is ever stored as the Gestion's status.
THEOREM TypeCorrect == Spec => []TypeOK
  BY RemoteInvariant, PTL DEF RemoteInv

\* A Gestion shown as accepted, running or completed exists at the motor under
\* the serverExecutionId of the row, whatever starts, refreshes, edits,
\* restarts, failed statements and lost answers came between.
THEOREM ReportedIsRemote == Spec => []ReportedGestionIsRemote
<1>1. RemoteInv => ReportedGestionIsRemote
  BY DEF RemoteInv, TypeOK, Rows, MotorAgrees, ReportedGestionIsRemote
<1> QED BY <1>1, RemoteInvariant, PTL

-----------------------------------------------------------------------------
(* The stored key, while starts do not overlap and no remote Gestion fails. *)

\* Mishaps are never forgotten.
LEMMA CalmBefore == RemoteInv /\ [Next]_vars /\ Calm' => Calm
<1> SUFFICES ASSUME [Next]_vars PROVE mishaps \subseteq mishaps'
  BY DEF Calm
<1>1. \A s \in Slots : Start(s) => mishaps \subseteq mishaps'
  BY DEF Start, StartRead, StartCheckImport, StartReadRows, StartRefused, StartClaim,
         StartLosesClaim, StartStoreKey, StartCallMotor, StartAccepted, StartRejected,
         StartMark, StartAudit, StartCatch
<1>2. \A s \in Slots : Refresh(s) \/ EditDraft(s) => mishaps \subseteq mishaps'
  BY DEF Refresh, RefreshRead, RefreshAsk, RefreshUnanswered, RefreshApply,
         EditDraft, UpdateRead, DeleteRead, DropRows, DropImport, UpdateWrite, DeleteRow
<1>3. \A s \in Slots : EditImport(s) \/ StatementFails(s) => mishaps \subseteq mishaps'
  BY DEF EditImport, UploadRead, UploadSave, MapRead, MapClear, MapRows, MapSave, StatementFails
<1>4. Motor \/ Crash \/ UNCHANGED vars => mishaps \subseteq mishaps'
  BY DEF Motor, MotorHandle, MotorProgress, MotorFailure, Crash, vars
<1> QED BY <1>1, <1>2, <1>3, <1>4 DEF Next

\* A step that advances no start and keeps the stored key cannot open a key.
LEMMA QuietStep ==
  ASSUME StoredKeyParts,
         \A t \in Slots : req'[t].pc \in StartPoints => req'[t] = req[t],
         row'.key = row.key,
         row.status \in FreshSubmitBlocked => row'.status \in FreshSubmitBlocked,
         UNCHANGED <<net, answers>>,
         Healthy'
  PROVE  StoredKeyParts'
<1> USE DEF StoredKeyParts
<1>1. \A k \in Keys : Open(k)' => Open(k)
  BY DEF Open, StartPoints
<1>2. OneStart'
  BY DEF OneStart
<1>3. OpenIsStored'
  BY <1>1 DEF OpenIsStored
<1>4. ASSUME NEW t \in Slots PROVE StartKnows(t)'
  <2>1. CASE req'[t].pc \in StartPoints
    <3>1. req'[t] = req[t] /\ StartKnows(t)
      BY <2>1
    <3> QED BY <1>1, <3>1 DEF StartKnows
  <2>2. CASE req'[t].pc \notin StartPoints
    BY <2>2 DEF StartKnows, StartPoints
  <2> QED BY <2>1, <2>2
<1> QED BY <1>2, <1>3, <1>4

\* A step of the only start in progress.
LEMMA StartStep ==
  ASSUME StoredKeyParts, NEW s \in Slots, req[s].pc \in StartPoints,
         req'[s].pc \in StartPoints,
         \A t \in Slots \ {s} : req'[t] = req[t],
         UNCHANGED remote,
         OpenIsStored',
         StartKnows(s)'
  PROVE  StoredKeyParts'
<1> USE DEF StoredKeyParts
<1>1. \A t \in Slots \ {s} : req'[t].pc \notin StartPoints
  BY DEF OneStart
<1>2. OneStart'
  BY <1>1 DEF OneStart
<1>3. \A t \in Slots : StartKnows(t)'
  BY <1>1 DEF StartKnows, StartPoints
<1>4. Healthy'
  BY DEF Healthy, StartPoints
<1> QED BY <1>2, <1>3, <1>4

\* A handler that ends, or that is not a start and moves on, is a quiet step
\* as long as it leaves the motor and the row's key and status alone.
LEMMA QuietRequest ==
  ASSUME RemoteInv, StoredKeyParts, NEW s \in Slots,
         req'[s].pc \notin StartPoints \cup {"apply"},
         \A t \in Slots \ {s} : req'[t] = req[t] \/ req'[t] = Idle,
         row'.key = row.key,
         row.status \in FreshSubmitBlocked => row'.status \in FreshSubmitBlocked,
         UNCHANGED motorVars
  PROVE  StoredKeyParts'
<1>1. Idle.pc \notin StartPoints \cup {"apply"}
  BY DEF Idle, StartPoints
<1>2. Healthy'
  BY <1>1 DEF StoredKeyParts, Healthy, motorVars
<1>3. \A t \in Slots : req'[t].pc \in StartPoints => req'[t] = req[t]
  BY <1>1
<1> QED BY <1>2, <1>3, QuietStep DEF motorVars

\* The actions of a start preserve the parts of the conditional invariant.
LEMMA StartStoredKey ==
  ASSUME RemoteInv, StoredKeyParts, Calm', NEW s \in Slots, Start(s)
  PROVE  StoredKeyParts'
<1> USE DEF motorVars
<1>0. /\ TypeOK /\ RequestAgrees(s) /\ StartKnows(s) /\ OpenIsStored
      /\ "idle" \notin StartPoints \cup {"apply"} /\ StartPoints \subseteq Points
      /\ "apply" \notin StartPoints
  BY DEF RemoteInv, RequestsAgree, StoredKeyParts, StartPoints, Points
<1>1. CASE StartRead(s)
  <2>1. PICK k \in Keys :
          req' = [req EXCEPT ![s] = [Idle EXCEPT !.pc = "import", !.key = KeyToUse(k),
                                                 !.fresh = ~IsRetry]]
    BY <1>1 DEF StartRead
  <2>2. /\ req'[s].pc = "import" /\ req'[s].key = KeyToUse(k) /\ req'[s].fresh = ~IsRetry
        /\ \A t \in Slots \ {s} : req'[t] = req[t]
        /\ UNCHANGED <<row, net, answers, remote>>
    BY <1>0, <1>1, <2>1 DEF StartRead, TypeOK, Idle
  <2>3. \A t \in Slots : req[t].pc \notin StartPoints
    BY <1>1 DEF StartRead, Calm, StartsInProgress
  <2>4. OneStart'
    BY <2>2, <2>3 DEF OneStart
  <2>5. OpenIsStored'
    BY <1>0, <2>2 DEF OpenIsStored, Open
  <2>6. StartKnows(s)'
    BY <2>2 DEF StartKnows, IsRetry, KeyToUse, FreshSubmitBlocked
  <2>7. \A t \in Slots : StartKnows(t)'
    BY <2>2, <2>3, <2>6 DEF StartKnows, StartPoints
  <2>8. Healthy'
    BY <2>2 DEF StoredKeyParts, Healthy
  <2> QED BY <2>4, <2>5, <2>7, <2>8 DEF StoredKeyParts
<1>2. CASE StartCheckImport(s) \/ StartReadRows(s) \/ StartMark(s)
  <2>1. PICK p \in {"rows", "claim", "key", "audit"} :
          /\ Goto(s, p) /\ req[s].pc \in {"import", "rows", "mark"}
          /\ p = "claim" => req[s].fresh
          /\ p \in {"rows", "key"} => req[s].pc \in {"import", "rows"}
          /\ p = "key" => ~req[s].fresh
    BY <1>2 DEF StartCheckImport, StartReadRows, StartMark
  <2>2. p \in StartPoints /\ p \in Points /\ req[s].pc \in StartPoints
    BY <2>1 DEF StartPoints, Points
  <2>3. UNCHANGED <<row, net, answers, remote>>
    BY <1>2 DEF StartCheckImport, StartReadRows, StartMark
  <2>4. \A k \in Keys : Open(k)' => Open(k)
    BY <1>0, <2>1, <2>2, <2>3, GotoChanges DEF Open
  <2>5. OpenIsStored'
    BY <1>0, <2>3, <2>4 DEF OpenIsStored
  <2>6. StartKnows(s)'
    BY <1>0, <2>1, <2>2, <2>3, GotoChanges DEF StartKnows
  <2> QED BY <1>0, <2>1, <2>2, <2>3, <2>5, <2>6, GotoChanges, StartStep
<1>3. CASE StartRefused(s) \/ StartLosesClaim(s) \/ StartAudit(s)
  BY <1>0, <1>3, FinishChanges, QuietRequest DEF StartRefused, StartLosesClaim, StartAudit
<1>4. CASE StartClaim(s)
  <2>1. "key" \in StartPoints /\ "key" \in Points /\ req[s].pc \in StartPoints /\ Goto(s, "key")
    BY <1>4 DEF StartPoints, Points, StartClaim
  <2>2. /\ row'.status = "SUBMITTING" /\ row'.key = row.key
        /\ UNCHANGED <<net, answers, remote>>
    BY <1>0, <1>4 DEF StartClaim, TypeOK, Rows
  <2>3. \A k \in Keys : Open(k)' => Open(k)
    BY <1>0, <2>1, <2>2, GotoChanges DEF Open
  <2>4. \A k \in Keys : ~Open(k)
    BY <1>0, <1>4 DEF StartClaim, OpenIsStored
  <2>5. OpenIsStored'
    BY <2>3, <2>4 DEF OpenIsStored
  <2>6. StartKnows(s)'
    BY <1>0, <1>4, <2>1, <2>2, <2>3, <2>4, GotoChanges
    DEF StartKnows, StartClaim, FreshSubmitBlocked, RetryStatuses
  <2> QED BY <1>0, <2>1, <2>2, <2>5, <2>6, GotoChanges, StartStep
<1>5. CASE StartStoreKey(s) /\ row.exists
  <2>1. "send" \in StartPoints /\ "send" \in Points /\ req[s].pc \in StartPoints /\ Goto(s, "send")
    BY <1>5 DEF StartPoints, Points, StartStoreKey
  <2>2. /\ req[s].pc = "key" /\ req[s].key \in Keys
        /\ row'.status = row.status /\ row'.key = req[s].key
        /\ UNCHANGED <<net, answers, remote>>
    BY <1>0, <1>5, <2>1 DEF StartStoreKey, TypeOK, Rows, RequestAgrees
  <2>3. \A k \in Keys : Open(k)' => Open(k) \/ k = req[s].key
    BY <1>0, <2>1, <2>2, GotoChanges DEF Open
  <2>4. \A k \in Keys : Open(k) => k = req[s].key
    BY <1>0, <2>2, ConstantsAssumption DEF StartKnows, OpenIsStored, ConstantsAssumption
  <2>5. OpenIsStored'
    BY <1>0, <2>2, <2>3, <2>4 DEF OpenIsStored, StartKnows
  <2>6. StartKnows(s)'
    BY <1>0, <2>1, <2>2, GotoChanges DEF StartKnows
  <2> QED BY <1>0, <2>1, <2>2, <2>5, <2>6, GotoChanges, StartStep
<1>6. CASE StartStoreKey(s) /\ ~row.exists
  BY <1>0, <1>6, FinishChanges, QuietRequest DEF StartStoreKey
<1>7. CASE StartCallMotor(s)
  <2>1. /\ "calling" \in StartPoints /\ "calling" \in Points /\ req[s].pc \in StartPoints
        /\ Goto(s, "calling")
    BY <1>7 DEF StartPoints, Points, StartCallMotor
  <2>2. /\ req[s].pc = "send" /\ net' = net \cup {req[s].key}
        /\ UNCHANGED <<row, answers, remote>>
    BY <1>7 DEF StartCallMotor
  <2>3. \A k \in Keys : Open(k)' => Open(k)
    BY <1>0, <2>1, <2>2, GotoChanges DEF Open
  <2>4. OpenIsStored'
    BY <1>0, <2>2, <2>3 DEF OpenIsStored
  <2>5. StartKnows(s)'
    BY <1>0, <2>1, <2>2, GotoChanges DEF StartKnows
  <2> QED BY <1>0, <2>1, <2>2, <2>4, <2>5, GotoChanges, StartStep
<1>8. CASE StartAccepted(s) \/ StartRejected(s)
  <2>1. PICK p \in {"mark", "audit"} : Goto(s, p)
    BY <1>8 DEF StartAccepted, StartRejected
  <2>2. p \in StartPoints /\ p \in Points /\ req[s].pc \in StartPoints
    BY <1>8 DEF StartPoints, Points, StartAccepted, StartRejected
  <2>3. /\ req[s].pc = "calling" /\ req[s].key \in Keys /\ row.key = req[s].key
        /\ row'.key = row.key
        /\ UNCHANGED <<net, answers, remote>>
        /\ \/ row'.status = "ACCEPTED"
           \/ answers[req[s].key] = "REJECTED"
    BY <1>0, <1>8, <2>2
    DEF StartAccepted, AcceptedRow, StartRejected, TypeOK, Rows, RequestAgrees, StartKnows
  <2>4. \A k \in Keys : Open(k)' => Open(k)
    BY <1>0, <2>1, <2>2, <2>3, GotoChanges DEF Open
  <2>5. answers[req[s].key] = "REJECTED" => \A k \in Keys : ~Open(k)
    BY <1>0, <2>3 DEF OpenIsStored, Open
  <2>6. OpenIsStored'
    BY <1>0, <2>3, <2>4, <2>5 DEF OpenIsStored, FreshSubmitBlocked, SubmittedStatuses
  <2>7. StartKnows(s)'
    BY <1>0, <2>1, <2>2, GotoChanges DEF StartKnows
  <2> QED BY <1>0, <2>1, <2>2, <2>3, <2>6, <2>7, GotoChanges, StartStep
<1>9. CASE StartCatch(s)
  <2>1. /\ row'.key = row.key
        /\ row'.status = row.status \/ row'.status = "SUBMISSION_UNKNOWN"
    BY <1>0, <1>9 DEF StartCatch, StatusAfterFailedCall, TypeOK, Rows
  <2> QED
    BY <1>0, <1>9, <2>1, FinishChanges, QuietRequest
    DEF StartCatch, FreshSubmitBlocked, RetryStatuses
<1>10. StartStoreKey(s) => StoredKeyParts'
  BY <1>5, <1>6
<1> QED BY <1>1, <1>2, <1>3, <1>4, <1>7, <1>8, <1>9, <1>10 DEF Start

\* So do the motor's steps: an answer opens no key that was not open.
LEMMA MotorStoredKey ==
  ASSUME RemoteInv, StoredKeyParts, Calm', NEW k \in Keys,
         MotorHandle(k) \/ MotorProgress(k) \/ MotorFailure(k)
  PROVE  StoredKeyParts'
<1> USE DEF StoredKeyParts
<1>1. ~MotorFailure(k)
  BY DEF MotorFailure, Calm
<1>2. row' = row /\ req' = req
  BY <1>1 DEF MotorHandle, MotorProgress
<1>3. ASSUME NEW j \in Keys, Open(j)' PROVE Open(j)
  BY <1>1, <1>2, <1>3 DEF RemoteInv, TypeOK, MotorHandle, MotorProgress, Open
<1>4. OneStart'
  BY <1>2 DEF OneStart
<1>5. OpenIsStored'
  BY <1>2, <1>3 DEF OpenIsStored
<1>6. \A s \in Slots : StartKnows(s)'
  BY <1>2, <1>3 DEF StartKnows
<1>7. \A j \in Keys : remote'[j] \in CalmStatuses \cup {"NONE"}
  BY <1>1 DEF RemoteInv, TypeOK, MotorHandle, MotorProgress, Healthy, CalmStatuses
<1>8. Healthy'
  BY <1>2, <1>7 DEF Healthy
<1> QED BY <1>4, <1>5, <1>6, <1>8

\* So does a refresh: what the motor says of a Gestion that has not failed
\* keeps a fresh submission blocked.
LEMMA RefreshStoredKey ==
  ASSUME RemoteInv, StoredKeyParts, NEW s \in Slots, Refresh(s)
  PROVE  StoredKeyParts'
<1> USE DEF motorVars
<1>0. /\ TypeOK /\ RequestAgrees(s) /\ Healthy
      /\ {"idle", "ask", "apply"} \cap StartPoints = {}
  BY DEF RemoteInv, RequestsAgree, StoredKeyParts, StartPoints
<1>1. CASE RefreshRead(s)
  <2>1. req'[s].pc = "ask" /\ \A t \in Slots \ {s} : req'[t] = req[t]
    BY <1>0, <1>1 DEF RefreshRead, TypeOK, Idle
  <2> QED BY <1>0, <1>1, <2>1, QuietRequest DEF RefreshRead
<1>2. CASE RefreshAsk(s)
  <2>1. /\ req'[s].pc = "apply" /\ req'[s].snapshot = remote[req[s].key]
        /\ req[s].key \in Keys /\ remote[req[s].key] # "NONE"
        /\ \A t \in Slots \ {s} : req'[t] = req[t]
    BY <1>0, <1>2 DEF RefreshAsk, RequestAgrees, TypeOK, Requests
  <2>2. Healthy'
    BY <1>0, <1>2, <2>1 DEF RefreshAsk, Healthy
  <2>3. \A t \in Slots : req'[t].pc \in StartPoints => req'[t] = req[t]
    BY <1>0, <2>1
  <2> QED BY <1>2, <2>2, <2>3, QuietStep DEF RefreshAsk
<1>3. CASE RefreshUnanswered(s)
  BY <1>0, <1>3, FinishChanges, QuietRequest DEF RefreshUnanswered
<1>4. CASE RefreshApply(s)
  <2>1. LocalStatusForServerStatus(req[s].snapshot) \in FreshSubmitBlocked
    BY <1>0, <1>4
    DEF RefreshApply, Healthy, CalmStatuses, LocalStatusForServerStatus,
        FreshSubmitBlocked, SubmittedStatuses
  <2>2. row'.key = row.key /\ (row'.status = row.status \/ row'.status \in FreshSubmitBlocked)
    BY <1>0, <1>4, <2>1 DEF RefreshApply, TypeOK, Rows
  <2> QED BY <1>0, <1>4, <2>2, FinishChanges, QuietRequest DEF RefreshApply
<1> QED BY <1>1, <1>2, <1>3, <1>4 DEF Refresh

\* So do the edits of the draft and of its import.
LEMMA EditStoredKey ==
  ASSUME RemoteInv, StoredKeyParts, NEW s \in Slots, EditDraft(s) \/ EditImport(s)
  PROVE  StoredKeyParts'
<1> USE DEF motorVars
<1> DEFINE EditPoints == {"dropRows", "dropImport", "write", "delete", "upload", "mapClear", "mapRows",
                          "mapSave", "idle"}
<1>0. /\ TypeOK
      /\ EditPoints \subseteq Points
      /\ EditPoints \cap (StartPoints \cup {"apply"}) = {}
  BY DEF RemoteInv, StartPoints, Points
<1>1. /\ row'.key = row.key
      /\ row'.status = row.status
      /\ UNCHANGED <<net, answers, remote>>
  BY <1>0
  DEF EditDraft, UpdateRead, DeleteRead, DropRows, DropImport, UpdateWrite, DeleteRow,
      EditImport, UploadRead, UploadSave, MapRead, MapClear, MapRows, MapSave, TypeOK, Rows
<1>2. req'[s].pc \in EditPoints
  <2>1. CASE UpdateRead(s) \/ DeleteRead(s)
    BY <1>0, <2>1 DEF UpdateRead, DeleteRead, Idle, TypeOK
  <2>2. CASE DropImport(s)
    BY <1>0, <2>2, FinishChanges DEF DropImport, AfterDrop, TypeOK, Requests
  <2>3. CASE \/ DropRows(s) \/ UploadRead(s) \/ MapRead(s) \/ MapClear(s)
             \/ (MapRows(s) /\ imp.rows = "none")
    <3>1. PICK p \in EditPoints : Goto(s, p)
      BY <2>3 DEF DropRows, UploadRead, MapRead, MapClear, MapRows, AfterDrop
    <3> QED BY <1>0, <3>1, GotoChanges
  <2>4. CASE \/ UpdateWrite(s) \/ DeleteRow(s) \/ UploadSave(s) \/ MapSave(s)
             \/ (MapRows(s) /\ imp.rows # "none")
    BY <1>0, <2>4, FinishChanges DEF UpdateWrite, DeleteRow, UploadSave, MapSave, MapRows
  <2> QED BY <2>1, <2>2, <2>3, <2>4 DEF EditDraft, EditImport
<1>3. \A t \in Slots \ {s} : req'[t] = req[t] \/ req'[t] = Idle
  BY <1>0
  DEF EditDraft, UpdateRead, DeleteRead, DropRows, DropImport, UpdateWrite, DeleteRow,
      EditImport, UploadRead, UploadSave, MapRead, MapClear, MapRows, MapSave, TypeOK, Goto, Finish
<1> QED BY <1>0, <1>1, <1>2, <1>3, QuietRequest

\* So do faults, which only forget requests.
LEMMA FaultStoredKey ==
  ASSUME RemoteInv, StoredKeyParts, Crash \/ \E s \in Slots : StatementFails(s)
  PROVE  StoredKeyParts'
<1>1. /\ \A t \in Slots : req'[t] = req[t] \/ req'[t] = Idle
      /\ UNCHANGED <<row, net, answers, remote>>
  BY DEF Crash, StatementFails, Finish, RemoteInv, TypeOK, motorVars
<1>2. Idle.pc \notin StartPoints \cup {"apply"}
  BY DEF Idle, StartPoints
<1>3. Healthy'
  BY <1>1, <1>2 DEF StoredKeyParts, Healthy
<1> QED BY <1>1, <1>2, <1>3, QuietStep

\* Every step preserves the conditional invariant.
LEMMA NextStoredKeyInv == RemoteInv /\ StoredKeyInv /\ [Next]_vars => StoredKeyInv'
<1> SUFFICES ASSUME RemoteInv, StoredKeyInv, [Next]_vars, Calm' PROVE StoredKeyParts'
  BY DEF StoredKeyInv
<1>1. StoredKeyParts
  BY CalmBefore DEF StoredKeyInv
<1>2. CASE UNCHANGED vars
  BY <1>1, <1>2
  DEF vars, StoredKeyParts, OneStart, OpenIsStored, Open, StartKnows, Healthy
<1>3. CASE Next
  BY <1>1, <1>3, StartStoredKey, MotorStoredKey, RefreshStoredKey, EditStoredKey, FaultStoredKey
  DEF Next, Motor
<1> QED BY <1>2, <1>3

\* The stored key is the only one under which a remote Gestion can exist or
\* come to exist, while starts do not overlap and no remote Gestion fails.
THEOREM StoredKeyInvariant == Spec => []StoredKeyInv
<1>1. Init => StoredKeyInv
  BY DEF Init, StoredKeyInv, StoredKeyParts, OneStart, OpenIsStored, Open, StartKnows, Healthy,
         Idle, StartPoints
<1> QED BY <1>1, RemoteInvariant, NextStoredKeyInv, PTL DEF Spec

\* Retries, restarts, failed statements and lost answers never give the motor
\* a second Gestion, while starts do not overlap and no remote Gestion fails.
THEOREM OneRemote == Spec => []OneRemoteGestion
<1>1. StoredKeyInv => OneRemoteGestion
  BY DEF StoredKeyInv, StoredKeyParts, OpenIsStored, Open, OneRemoteGestion
<1> QED BY <1>1, StoredKeyInvariant, PTL

\* Under the same conditions the next start adopts a remote Gestion whose
\* answer was lost: its key is the stored one and a fresh start is refused.
THEOREM OrphanAdoptable == Spec => []OrphanIsAdoptable
<1>1. StoredKeyInv => OrphanIsAdoptable
  BY DEF StoredKeyInv, StoredKeyParts, OpenIsStored, Open, OrphanIsAdoptable
<1> QED BY <1>1, StoredKeyInvariant, PTL

-----------------------------------------------------------------------------
(* The status shown and the snapshots in hand lag behind the motor. *)

LagParts ==
    /\ row.status \in SubmittedStatuses =>
         StageOf[row.status] <= StageOf[remote[row.serverId]]
    /\ \A s \in Slots :
         req[s].pc = "apply" => StageOf[req[s].snapshot] <= StageOf[remote[req[s].key]]

LagInv == Calm => LagParts

LEMMA Stages ==
  /\ StageOf["ACCEPTED"] = 1 /\ StageOf["QUEUED"] = 1
  /\ StageOf["RUNNING"] = 2 /\ StageOf["COMPLETED"] = 3
  /\ \A x \in CalmStatuses : StageOf[x] \in 1 .. 3
  /\ \A x \in CalmStatuses :
       /\ LocalStatusForServerStatus(x) \in SubmittedStatuses
       /\ StageOf[LocalStatusForServerStatus(x)] = StageOf[x]
  BY DEF StageOf, CalmStatuses, LocalStatusForServerStatus, SubmittedStatuses

\* What the row and a request name exists at the motor, and goes on there.
LEMMA NamedGoesOn ==
  ASSUME RemoteInv, StoredKeyParts
  PROVE  /\ row.status \in SubmittedStatuses =>
              row.serverId \in Keys /\ remote[row.serverId] \in CalmStatuses
         /\ \A s \in Slots : req[s].pc \in {"ask", "apply"} =>
              req[s].key \in Keys /\ remote[req[s].key] \in CalmStatuses
  BY DEF RemoteInv, TypeOK, Rows, MotorAgrees, RequestsAgree, RequestAgrees, StoredKeyParts,
         Healthy

\* The motor only goes forward.
LEMMA LagOnMotor ==
  ASSUME RemoteInv, StoredKeyParts, LagParts, Calm', Motor
  PROVE  LagParts'
<1>1. row' = row /\ req' = req
  BY DEF Motor, MotorHandle, MotorProgress, MotorFailure
<1>2. ASSUME NEW k \in Keys, remote[k] \in CalmStatuses
      PROVE  remote'[k] \in CalmStatuses /\ StageOf[remote[k]] <= StageOf[remote'[k]]
  <2>1. PICK j \in Keys : MotorHandle(j) \/ MotorProgress(j) \/ MotorFailure(j)
    BY DEF Motor
  <2>2. CASE MotorHandle(j)
    <3>1. remote'[k] = remote[k]
      BY <1>2, <2>2 DEF MotorHandle, RemoteInv, TypeOK, MotorAgrees, CalmStatuses
    <3> QED BY <1>2, <3>1, Stages
  <2>3. CASE MotorProgress(j)
    BY <1>2, <2>3, Stages DEF MotorProgress, RemoteInv, TypeOK, CalmStatuses
  <2>4. CASE MotorFailure(j)
    BY <2>4 DEF MotorFailure, Calm
  <2> QED BY <2>1, <2>2, <2>3, <2>4
<1>3. ASSUME row.status \in SubmittedStatuses
      PROVE  StageOf[row.status] <= StageOf[remote'[row.serverId]]
  <2>1. StageOf[row.status] \in 1 .. 3
    BY <1>3, Stages DEF SubmittedStatuses
  <2> QED BY <1>2, <1>3, <2>1, NamedGoesOn, Stages DEF LagParts
<1>4. ASSUME NEW s \in Slots, req[s].pc = "apply"
      PROVE  StageOf[req[s].snapshot] <= StageOf[remote'[req[s].key]]
  <2>1. req[s].snapshot \in CalmStatuses
    BY <1>4 DEF StoredKeyParts, Healthy
  <2> QED BY <1>2, <1>4, <2>1, NamedGoesOn, Stages DEF LagParts
<1> QED BY <1>1, <1>3, <1>4 DEF LagParts

\* A step that shows nothing new, and leaves no new snapshot.
LEMMA LagKept ==
  ASSUME LagParts, remote' = remote,
         \/ row'.status \notin SubmittedStatuses
         \/ row'.status = row.status /\ row'.serverId = row.serverId,
         \A t \in Slots : req'[t] = req[t] \/ req'[t].pc # "apply"
  PROVE  LagParts'
<1>1. \A t \in Slots :
        req'[t].pc = "apply" => StageOf[req'[t].snapshot] <= StageOf[remote'[req'[t].key]]
  BY DEF LagParts
<1>2. row'.status \in SubmittedStatuses =>
        StageOf[row'.status] <= StageOf[remote'[row'.serverId]]
  BY DEF LagParts
<1> QED BY <1>1, <1>2 DEF LagParts

LEMMA LagOnStart ==
  ASSUME RemoteInv, StoredKeyParts, LagParts, NEW s \in Slots, Start(s)
  PROVE  LagParts'
<1> USE DEF motorVars
<1>0. /\ TypeOK
      /\ StartPoints \subseteq Points
      /\ "apply" \notin StartPoints \cup {"idle"}
  BY DEF RemoteInv, Points, StartPoints
<1>1. CASE StartRead(s)
  <2>1. PICK k \in Keys :
          req' = [req EXCEPT ![s] = [Idle EXCEPT !.pc = "import", !.key = KeyToUse(k),
                                                 !.fresh = ~IsRetry]]
    BY <1>1 DEF StartRead
  <2>2. \A t \in Slots : req'[t] = req[t] \/ req'[t].pc # "apply"
    BY <1>0, <2>1 DEF TypeOK, Idle
  <2> QED BY <1>1, <2>2, LagKept DEF StartRead
<1>2. CASE \/ StartCheckImport(s) \/ StartReadRows(s) \/ StartClaim(s) \/ StartCallMotor(s)
           \/ StartRejected(s) \/ StartMark(s) \/ (StartStoreKey(s) /\ row.exists)
  <2>1. PICK p \in StartPoints : Goto(s, p)
    BY <1>2
    DEF StartCheckImport, StartReadRows, StartClaim, StartCallMotor, StartRejected, StartMark,
        StartStoreKey, StartPoints
  <2>2. \A t \in Slots : req'[t] = req[t] \/ req'[t].pc # "apply"
    BY <1>0, <2>1, GotoChanges
  <2>3. /\ remote' = remote
        /\ \/ row'.status \notin SubmittedStatuses
           \/ row'.status = row.status /\ row'.serverId = row.serverId
    BY <1>0, <1>2
    DEF StartCheckImport, StartReadRows, StartClaim, StartCallMotor, StartRejected, StartMark,
        StartStoreKey, TypeOK, Rows, SubmittedStatuses
  <2> QED BY <2>2, <2>3, LagKept
<1>3. CASE \/ StartRefused(s) \/ StartLosesClaim(s) \/ StartAudit(s) \/ StartCatch(s)
           \/ (StartStoreKey(s) /\ ~row.exists)
  <2>1. Finish(s)
    BY <1>3 DEF StartRefused, StartLosesClaim, StartAudit, StartCatch, StartStoreKey
  <2>2. \A t \in Slots : req'[t] = req[t] \/ req'[t].pc # "apply"
    BY <1>0, <2>1, FinishChanges
  <2>3. /\ remote' = remote
        /\ \/ row'.status \notin SubmittedStatuses
           \/ row'.status = row.status /\ row'.serverId = row.serverId
    BY <1>0, <1>3
    DEF StartRefused, StartLosesClaim, StartAudit, StartCatch, StartStoreKey,
        StatusAfterFailedCall, TypeOK, Rows, SubmittedStatuses
  <2> QED BY <2>2, <2>3, LagKept
<1>4. CASE StartAccepted(s)
  <2>1. /\ row' = [row EXCEPT !.status = "ACCEPTED", !.serverId = req[s].key]
        /\ Goto(s, "mark") /\ remote' = remote
        /\ answers[req[s].key] = "ACCEPTED" /\ req[s].pc = "calling"
    BY <1>4 DEF StartAccepted, AcceptedRow
  <2>2. req[s].key \in Keys
    BY <2>1 DEF RemoteInv, RequestsAgree, RequestAgrees, StartPoints
  <2>3. remote[req[s].key] \in CalmStatuses
    BY <2>1, <2>2 DEF RemoteInv, MotorAgrees, StoredKeyParts, Healthy
  <2>4. row'.status = "ACCEPTED" /\ row'.serverId = req[s].key
    BY <1>0, <2>1 DEF TypeOK, Rows
  <2>5. StageOf[row'.status] <= StageOf[remote'[row'.serverId]]
    BY <2>1, <2>3, <2>4, Stages
  <2>6. \A t \in Slots : req'[t] = req[t] \/ req'[t].pc # "apply"
    BY <1>0, <2>1, GotoChanges DEF StartPoints
  <2> QED BY <2>1, <2>5, <2>6 DEF LagParts
<1> QED BY <1>1, <1>2, <1>3, <1>4 DEF Start

\* The snapshot that is applied is of the Gestion the row names: there is one.
LEMMA LagOnRefresh ==
  ASSUME RemoteInv, StoredKeyParts, LagParts, NEW s \in Slots, Refresh(s)
  PROVE  LagParts'
<1> USE DEF motorVars
<1>0. TypeOK /\ RequestAgrees(s)
  BY DEF RemoteInv, RequestsAgree
<1>1. CASE RefreshRead(s)
  <2>1. \A t \in Slots : req'[t] = req[t] \/ req'[t].pc # "apply"
    BY <1>0, <1>1 DEF RefreshRead, TypeOK, Idle
  <2> QED BY <1>1, <2>1, LagKept DEF RefreshRead
<1>2. CASE RefreshUnanswered(s)
  <2>1. \A t \in Slots : req'[t] = req[t] \/ req'[t].pc # "apply"
    BY <1>0, <1>2, FinishChanges DEF RefreshUnanswered
  <2> QED BY <1>2, <2>1, LagKept DEF RefreshUnanswered
<1>3. CASE RefreshAsk(s)
  <2>1. /\ req'[s].snapshot = remote[req[s].key] /\ req'[s].key = req[s].key
        /\ \A t \in Slots \ {s} : req'[t] = req[t]
        /\ UNCHANGED <<row, remote>>
    BY <1>0, <1>3 DEF RefreshAsk, TypeOK, Requests
  <2>2. remote[req[s].key] \in CalmStatuses
    BY <1>3, NamedGoesOn DEF RefreshAsk
  <2>3. StageOf[req'[s].snapshot] <= StageOf[remote'[req'[s].key]]
    BY <2>1, <2>2, Stages
  <2> QED BY <2>1, <2>3 DEF LagParts
<1>4. CASE RefreshApply(s)
  <2>1. /\ req[s].pc = "apply" /\ Finish(s) /\ remote' = remote
        /\ row' = IF row.exists
                  THEN [row EXCEPT !.status = LocalStatusForServerStatus(req[s].snapshot)]
                  ELSE row
    BY <1>4 DEF RefreshApply
  <2>2. \A t \in Slots : req'[t] = req[t] \/ req'[t].pc # "apply"
    BY <1>0, <2>1, FinishChanges
  <2>3. CASE ~row.exists
    BY <2>1, <2>2, <2>3, LagKept
  <2>4. CASE row.exists
    <3>1. /\ req[s].key \in Keys /\ answers[req[s].key] = "ACCEPTED"
          /\ row.serverId \in Keys /\ answers[row.serverId] = "ACCEPTED"
      BY <1>0, <2>1 DEF RequestAgrees, RemoteInv, MotorAgrees, TypeOK, Rows
    <3>2. req[s].key = row.serverId
      BY <3>1 DEF StoredKeyParts, OpenIsStored, Open
    <3>3. req[s].snapshot \in CalmStatuses
      BY <2>1 DEF StoredKeyParts, Healthy
    <3>4. /\ row'.status = LocalStatusForServerStatus(req[s].snapshot)
          /\ row'.serverId = row.serverId
      BY <1>0, <2>1, <2>4 DEF TypeOK, Rows
    <3>5. StageOf[row'.status] <= StageOf[remote'[row'.serverId]]
      BY <2>1, <3>2, <3>3, <3>4, Stages DEF LagParts
    <3> QED BY <2>1, <2>2, <3>5 DEF LagParts
  <2> QED BY <2>3, <2>4
<1> QED BY <1>1, <1>2, <1>3, <1>4 DEF Refresh

LEMMA LagOnEdit ==
  ASSUME RemoteInv, StoredKeyParts, LagParts, NEW s \in Slots,
         EditDraft(s) \/ EditImport(s) \/ StatementFails(s)
  PROVE  LagParts'
<1> USE DEF motorVars
<1> DEFINE EditPoints == {"dropRows", "dropImport", "write", "delete", "upload", "mapClear", "mapRows",
                          "mapSave", "idle"}
<1>0. /\ TypeOK
      /\ EditPoints \subseteq Points
      /\ "apply" \notin EditPoints /\ Idle.pc = "idle"
  BY DEF RemoteInv, Points, Idle
<1>1. /\ row'.status = row.status /\ row'.serverId = row.serverId
      /\ remote' = remote
  BY <1>0
  DEF EditDraft, UpdateRead, DeleteRead, DropRows, DropImport, UpdateWrite, DeleteRow,
      EditImport, UploadRead, UploadSave, MapRead, MapClear, MapRows, MapSave, StatementFails,
      TypeOK, Rows
<1>2. \A t \in Slots : req'[t] = req[t] \/ req'[t].pc # "apply"
  <2>1. CASE UpdateRead(s) \/ DeleteRead(s)
    BY <1>0, <2>1 DEF UpdateRead, DeleteRead, Idle, TypeOK
  <2>2. CASE DropImport(s)
    BY <1>0, <2>2, FinishChanges DEF DropImport, AfterDrop, TypeOK, Requests
  <2>3. CASE \/ DropRows(s) \/ UploadRead(s) \/ MapRead(s) \/ MapClear(s)
             \/ (MapRows(s) /\ imp.rows = "none")
    <3>1. PICK p \in EditPoints : Goto(s, p)
      BY <2>3 DEF DropRows, UploadRead, MapRead, MapClear, MapRows, AfterDrop
    <3> QED BY <1>0, <3>1, GotoChanges
  <2>4. CASE \/ UpdateWrite(s) \/ DeleteRow(s) \/ UploadSave(s) \/ MapSave(s)
             \/ (MapRows(s) /\ imp.rows # "none") \/ StatementFails(s)
    BY <1>0, <2>4, FinishChanges
    DEF UpdateWrite, DeleteRow, UploadSave, MapSave, MapRows, StatementFails
  <2> QED BY <2>1, <2>2, <2>3, <2>4 DEF EditDraft, EditImport
<1> QED BY <1>1, <1>2, LagKept

LEMMA NextLagInv == RemoteInv /\ StoredKeyInv /\ LagInv /\ [Next]_vars => LagInv'
<1> SUFFICES ASSUME RemoteInv, StoredKeyInv, LagInv, [Next]_vars, Calm' PROVE LagParts'
  BY DEF LagInv
<1>1. StoredKeyParts /\ LagParts
  BY CalmBefore DEF StoredKeyInv, LagInv
<1>2. CASE UNCHANGED vars
  BY <1>1, <1>2 DEF vars, LagParts
<1>3. CASE Motor
  BY <1>1, <1>3, LagOnMotor
<1>4. CASE Crash
  <2>1. row' = row /\ remote' = remote /\ \A t \in Slots : req'[t].pc = "idle"
    BY <1>4 DEF Crash, motorVars, Idle
  <2> QED BY <1>1, <2>1, LagKept
<1>5. ASSUME NEW s \in Slots,
             Start(s) \/ Refresh(s) \/ EditDraft(s) \/ EditImport(s) \/ StatementFails(s)
      PROVE  LagParts'
  BY <1>1, <1>5, LagOnStart, LagOnRefresh, LagOnEdit
<1> QED BY <1>2, <1>3, <1>4, <1>5 DEF Next

LEMMA LagInvariant == Spec => []LagInv
<1>1. Init => LagInv
  BY DEF Init, LagInv, LagParts, Idle, SubmittedStatuses
<1> QED BY <1>1, NextLagInv, RemoteInvariant, StoredKeyInvariant, PTL DEF Spec

\* The status shown may lag behind the motor but never leads it, though refreshes may
\* apply what they were told out of order.
THEOREM NeverAhead == Spec => []NeverAheadOfServer
<1>1. LagInv => NeverAheadOfServer
  BY DEF LagInv, LagParts, NeverAheadOfServer
<1> QED BY <1>1, LagInvariant, PTL

-----------------------------------------------------------------------------
(* The refinement: requests, motor and faults are one submission with a     *)
(* stored key.                                                              *)

\* What a step shows is known here and never ahead of the motor, if it leaves the keys and
\* the motor alone.
LEMMA ShowsNoMore ==
  ASSUME RemoteInv', LagInv',
         row'.key = row.key, row'.serverId = row.serverId, remote' = remote,
         mishaps' = mishaps
  PROVE  Submission!Show
<1>1. CASE Shown' = "PENDING"
  BY <1>1 DEF Submission!Show, Calm
<1>2. CASE Shown' # "PENDING"
  <2>1. Shown' = row'.status /\ row'.status \in SubmittedStatuses
    BY <1>2 DEF Shown
  <2>2. row.serverId # None /\ row.serverId \in Keys /\ remote[row.serverId] # "NONE"
    BY <2>1 DEF RemoteInv, MotorAgrees, TypeOK, Rows
  <2>3. Calm => StageOf[row'.status] <= StageOf[remote[row.serverId]]
    BY <2>1 DEF LagInv, LagParts, Calm
  <2> QED
    BY <2>1, <2>2, <2>3
    DEF Submission!Show, Submission!Exists, Submission!Submitted, Submission!Stage,
        SubmittedStatuses, StageOf, Calm
<1> QED BY <1>1, <1>2

\* The steps of a handler that neither store a key, nor record an answer, nor may disturb.
LEMMA HandlerLeavesKeys ==
  ASSUME TypeOK, NEW s \in Slots,
         Start(s) \/ Refresh(s) \/ EditDraft(s) \/ EditImport(s) \/ StatementFails(s),
         ~StartRead(s), ~(StartStoreKey(s) /\ row.exists), ~StartAccepted(s)
  PROVE  /\ row'.key = row.key /\ row'.serverId = row.serverId
         /\ remote' = remote /\ mishaps' = mishaps
<1> USE DEF motorVars, TypeOK, Rows
<1>1. CASE Start(s)
  BY <1>1
  DEF Start, StartCheckImport, StartReadRows, StartRefused, StartClaim, StartLosesClaim,
      StartStoreKey, StartCallMotor, StartRejected, StartMark, StartAudit, StartCatch
<1>2. CASE Refresh(s) \/ StatementFails(s)
  BY <1>2
  DEF Refresh, RefreshRead, RefreshAsk, RefreshUnanswered, RefreshApply, StatementFails
<1>3. CASE EditDraft(s)
  BY <1>3 DEF EditDraft, UpdateRead, DeleteRead, DropRows, DropImport, UpdateWrite, DeleteRow
<1>4. CASE EditImport(s)
  BY <1>4 DEF EditImport, UploadRead, UploadSave, MapRead, MapClear, MapRows, MapSave
<1> QED BY <1>1, <1>2, <1>3, <1>4

\* A start stores its key: the stored one, or one no remote Gestion can be hidden by.
LEMMA StoreKeyStores ==
  ASSUME RemoteInv, StoredKeyInv, NEW s \in Slots, StartStoreKey(s), row.exists
  PROVE  \E k \in Keys : Submission!Store(k)
<1> DEFINE k == req[s].key
<1>1. k \in Keys /\ req[s].pc = "key"
  BY DEF StartStoreKey, RemoteInv, RequestsAgree, RequestAgrees, StartPoints
<1>2. /\ row' = [row EXCEPT !.key = k]
      /\ UNCHANGED <<remote, mishaps>>
  BY DEF StartStoreKey, motorVars
<1>3. /\ row'.key = k /\ row'.serverId = row.serverId
      /\ row'.status = row.status /\ row'.exists = row.exists
  BY <1>2 DEF RemoteInv, TypeOK, Rows
<1>4. ASSUME Calm, row.key # k
      PROVE  \A j \in Keys : remote[j] = "NONE"
  <2>1. StartKnows(s) /\ OpenIsStored
    BY <1>4 DEF StoredKeyInv, StoredKeyParts
  <2>2. \A j \in Keys : ~Open(j)
    BY <1>1, <1>4, <2>1, ConstantsAssumption DEF StartKnows, OpenIsStored, ConstantsAssumption
  <2> QED BY <2>2 DEF Open, RemoteInv, MotorAgrees
<1>5. Submission!Store(k)
  BY <1>2, <1>3, <1>4
  DEF Submission!Store, Submission!NoneExists, Submission!Exists, Shown, Calm
<1> QED BY <1>1, <1>5

\* A start records the motor's answer: about the one remote Gestion there is.
LEMMA AcceptedLearns ==
  ASSUME RemoteInv, StoredKeyInv, NEW s \in Slots, StartAccepted(s)
  PROVE  \E k \in Keys : Submission!Learn(k)
<1> DEFINE k == req[s].key
<1>1. k \in Keys /\ answers[k] = "ACCEPTED" /\ row.exists
  BY DEF StartAccepted, RemoteInv, RequestsAgree, RequestAgrees, StartPoints
<1>2. /\ row' = [row EXCEPT !.status = "ACCEPTED", !.serverId = k]
      /\ UNCHANGED <<remote, mishaps>>
  BY DEF StartAccepted, AcceptedRow, motorVars
<1>3. /\ row'.status = "ACCEPTED" /\ row'.serverId = k
      /\ row'.key = row.key /\ row'.exists
  BY <1>1, <1>2 DEF RemoteInv, TypeOK, Rows
<1>4. remote[k] # "NONE"
  BY <1>1 DEF RemoteInv, MotorAgrees
<1>5. Calm => row.serverId \in {None, k}
  <2>1. Calm => \A j \in Keys : answers[j] = "ACCEPTED" => row.key = j
    BY DEF StoredKeyInv, StoredKeyParts, OpenIsStored, Open
  <2>2. row.serverId # None => row.serverId \in Keys /\ answers[row.serverId] = "ACCEPTED"
    BY DEF RemoteInv, MotorAgrees, TypeOK, Rows
  <2> QED BY <1>1, <2>1, <2>2
<1>6. Shown' = "ACCEPTED"
  BY <1>3 DEF Shown, SubmittedStatuses
<1>7. Submission!Learn(k)
  BY <1>2, <1>3, <1>4, <1>5, <1>6 DEF Submission!Learn, Submission!Exists, Calm
<1> QED BY <1>1, <1>7

\* The motor creates, runs or fails; a key answered before is a stutter.
LEMMA MotorImplements ==
  ASSUME RemoteInv, StoredKeyInv, Motor
  PROVE  [Submission!Next]_Submission!svars
<1>1. PICK k \in Keys : MotorHandle(k) \/ MotorProgress(k) \/ MotorFailure(k)
  BY DEF Motor
<1>2. row' = row /\ Shown' = Shown
  BY <1>1 DEF MotorHandle, MotorProgress, MotorFailure, Shown
<1>3. CASE MotorHandle(k) /\ remote' = remote
  BY <1>2, <1>3 DEF MotorHandle, Submission!svars, Calm
<1>4. CASE MotorHandle(k) /\ remote' # remote
  <2>1. /\ answers[k] = "NONE" /\ k \in net
        /\ remote' = [remote EXCEPT ![k] = "QUEUED"]
        /\ mishaps' = mishaps
    BY <1>4 DEF MotorHandle
  <2>2. remote[k] = "NONE"
    BY <2>1 DEF RemoteInv, MotorAgrees
  <2>3. Calm => row.key = k /\ \A j \in Keys : remote[j] = "NONE"
    <3>1. Calm => \A j \in Keys : Open(j) => row.key = j
      BY DEF StoredKeyInv, StoredKeyParts, OpenIsStored
    <3>2. Open(k)
      BY <2>1 DEF Open
    <3>3. \A j \in Keys : remote[j] # "NONE" => Open(j)
      BY DEF Open, RemoteInv, MotorAgrees
    <3> QED BY <2>2, <3>1, <3>2, <3>3
  <2>4. Submission!Create(k)
    BY <1>2, <2>1, <2>2, <2>3
    DEF Submission!Create, Submission!Exists, Submission!NoneExists, Calm
  <2> QED BY <2>4 DEF Submission!Next
<1>5. CASE MotorProgress(k)
  <2>1. Submission!Progress(k)
    BY <1>2, <1>5 DEF MotorProgress, Submission!Progress, Calm
  <2> QED BY <2>1 DEF Submission!Next
<1>6. CASE MotorFailure(k)
  <2>1. /\ remote[k] # "NONE"
        /\ \E st \in {"FAILED", "REJECTED"} : remote' = [remote EXCEPT ![k] = st]
        /\ mishaps' # {}
    BY <1>6 DEF MotorFailure
  <2>2. Submission!Fail(k)
    BY <1>2, <2>1 DEF Submission!Fail, Submission!Exists, Calm
  <2> QED BY <2>2 DEF Submission!Next
<1> QED BY <1>1, <1>3, <1>4, <1>5, <1>6

\* Every step is one of the submission, or one it does not see.
LEMMA StepSubmits ==
  ASSUME RemoteInv, StoredKeyInv, RemoteInv', LagInv', [Next]_vars
  PROVE  [Submission!Next]_Submission!svars
<1>1. CASE UNCHANGED vars
  BY <1>1 DEF vars, Submission!svars, Shown, Calm
<1>2. CASE Motor
  BY <1>2, MotorImplements
<1>3. CASE Crash
  BY <1>3 DEF Crash, motorVars, Submission!svars, Shown, Calm
<1>4. ASSUME NEW s \in Slots,
             Start(s) \/ Refresh(s) \/ EditDraft(s) \/ EditImport(s) \/ StatementFails(s)
      PROVE  [Submission!Next]_Submission!svars
  <2>1. CASE StartRead(s)
    <3>1. UNCHANGED <<row, remote>> /\ (mishaps' = mishaps \/ mishaps' # {})
      BY <2>1 DEF StartRead, motorVars
    <3>2. UNCHANGED Submission!svars \/ Submission!Disturb
      BY <3>1 DEF Submission!svars, Submission!Disturb, Shown, Calm
    <3> QED BY <3>2 DEF Submission!Next
  <2>2. CASE StartStoreKey(s) /\ row.exists
    BY <2>2, StoreKeyStores DEF Submission!Next
  <2>3. CASE StartAccepted(s)
    BY <2>3, AcceptedLearns DEF Submission!Next
  <2>4. CASE ~StartRead(s) /\ ~(StartStoreKey(s) /\ row.exists) /\ ~StartAccepted(s)
    <3>1. Submission!Show
      BY <1>4, <2>4, HandlerLeavesKeys, ShowsNoMore DEF RemoteInv
    <3> QED BY <3>1 DEF Submission!Next
  <2> QED BY <2>1, <2>2, <2>3, <2>4
<1> QED BY <1>1, <1>2, <1>3, <1>4 DEF Next

\* Whatever interleaves, times out, is retried, restarted or deleted: the requests and the
\* motor together are one submission with a stored key.
THEOREM ImplementsSubmission == Spec => ImplementsRemoteSubmission
<1>1. Init => Submission!Init
  BY DEF Init, Submission!Init, Shown, Calm, SubmittedStatuses
<1>2. RemoteInv /\ StoredKeyInv /\ RemoteInv' /\ LagInv' /\ [Next]_vars
        => [Submission!Next]_Submission!svars
  BY StepSubmits
<1> QED
  BY <1>1, <1>2, RemoteInvariant, StoredKeyInvariant, LagInvariant, PTL
  DEF Spec, ImplementsRemoteSubmission, Submission!Spec

-----------------------------------------------------------------------------
(* SUBMITTING is in the hands of a start with ever less to do: what          *)
(* SubmittingEnds needs beside fairness.                                     *)

\* A step of one start that finds SUBMITTING and leaves it has moved that start on.
LEMMA StartWorksOff ==
  ASSUME RemoteInv, Submitting', NEW s \in Slots, Start(s)
  PROVE  /\ Submits(s) => Submits(s)' /\ StepsLeft[req'[s].pc] < StepsLeft[req[s].pc]
         /\ Submitting \/ Submits(s)'
         /\ \A t \in Slots \ {s} : req'[t] = req[t]
<1> USE DEF Submits, Submitting
<1>0. /\ TypeOK
      /\ StartPoints \subseteq Points
      /\ {"key", "send", "calling"} \subseteq StartPoints
  BY DEF RemoteInv, Points, StartPoints
<1>1. \A t \in Slots \ {s} : req'[t] = req[t]
  BY <1>0
  DEF Start, StartRead, StartCheckImport, StartReadRows, StartRefused, StartClaim,
      StartLosesClaim, StartStoreKey, StartCallMotor, StartAccepted, StartRejected,
      StartMark, StartAudit, StartCatch, Goto, Finish, TypeOK
<1>2. CASE StartRead(s) \/ StartCheckImport(s) \/ StartReadRows(s) \/ StartRefused(s)
           \/ StartLosesClaim(s) \/ StartMark(s) \/ StartAudit(s)
  BY <1>1, <1>2
  DEF StartRead, StartCheckImport, StartReadRows, StartRefused, StartLosesClaim, StartMark,
      StartAudit, Idling
<1>3. CASE StartClaim(s)
  BY <1>0, <1>1, <1>3, GotoChanges DEF StartClaim
<1>4. CASE StartStoreKey(s)
  <2>1. row.exists /\ Goto(s, "send") /\ req[s].pc = "key" /\ row'.status = row.status
    BY <1>0, <1>4 DEF StartStoreKey, TypeOK, Rows
  <2> QED BY <1>0, <1>1, <2>1, GotoChanges DEF StepsLeft
<1>5. CASE StartCallMotor(s)
  <2>1. Goto(s, "calling") /\ req[s].pc = "send" /\ row' = row
    BY <1>5 DEF StartCallMotor
  <2> QED BY <1>0, <1>1, <2>1, GotoChanges DEF StepsLeft
<1>6. ~StartAccepted(s) /\ ~StartRejected(s)
  BY <1>0 DEF StartAccepted, AcceptedRow, StartRejected, TypeOK, Rows
<1>7. ~StartCatch(s)
  BY <1>0 DEF StartCatch, StatusAfterFailedCall, TypeOK, Rows
<1> QED BY <1>2, <1>3, <1>4, <1>5, <1>6, <1>7 DEF Start

\* No other step touches such a start, or makes the Gestion SUBMITTING.
LEMMA OthersLeaveStarts ==
  ASSUME RemoteInv, Submitting',
         Motor \/ UNCHANGED vars \/ \E s \in Slots : Refresh(s) \/ EditDraft(s) \/ EditImport(s)
  PROVE  /\ \A t \in Slots : Submits(t) => req'[t] = req[t]
         /\ Submitting
<1> USE DEF Submits, Submitting
<1>0. TypeOK
  BY DEF RemoteInv
<1>1. CASE Motor \/ UNCHANGED vars
  BY <1>1 DEF Motor, MotorHandle, MotorProgress, MotorFailure, vars
<1>2. ASSUME NEW s \in Slots, Refresh(s)
      PROVE  /\ \A t \in Slots : Submits(t) => req'[t] = req[t]
             /\ Submitting
  <2>1. \A t \in Slots : Submits(t) => req'[t] = req[t]
    BY <1>0, <1>2
    DEF Refresh, RefreshRead, RefreshAsk, RefreshUnanswered, RefreshApply, Idling, Finish, TypeOK
  <2>2. ~RefreshApply(s) \/ ~row.exists
    <3>1. req[s].pc = "apply" => req[s].snapshot \in ServerStatuses
      BY DEF RemoteInv, RequestsAgree, RequestAgrees
    <3> QED
      BY <1>0, <3>1 DEF RefreshApply, LocalStatusForServerStatus, ServerStatuses, TypeOK, Rows
  <2>3. row' = row
    BY <1>2, <2>2 DEF Refresh, RefreshRead, RefreshAsk, RefreshUnanswered, RefreshApply
  <2> QED BY <2>1, <2>3
<1>3. ASSUME NEW s \in Slots, EditDraft(s) \/ EditImport(s)
      PROVE  /\ \A t \in Slots : Submits(t) => req'[t] = req[t]
             /\ Submitting
  <2>1. CASE EditDraft(s)
    <3>1. \A t \in Slots : Submits(t) => req'[t] = req[t]
      BY <1>0, <2>1
      DEF EditDraft, UpdateRead, DeleteRead, DropRows, DropImport, HoldsImport, UpdateWrite,
          DeleteRow, Idling, Goto, Finish, TypeOK
    <3>2. row'.status = row.status /\ (row'.exists => row.exists)
      BY <1>0, <2>1
      DEF EditDraft, UpdateRead, DeleteRead, DropRows, DropImport, UpdateWrite, DeleteRow,
          TypeOK, Rows
    <3> QED BY <3>1, <3>2
  <2>2. CASE EditImport(s)
    BY <1>0, <2>2
    DEF EditImport, UploadRead, UploadSave, MapRead, MapClear, MapRows, MapSave, Idling, Goto,
        Finish, TypeOK
  <2> QED BY <1>3, <2>1, <2>2
<1> QED BY <1>1, <1>2, <1>3

\* So a step that ends in SUBMITTING either finds it so or is the claim of a start.
LEMMA StepWorksOff ==
  ASSUME RemoteInv, Uninterrupted, [Next]_vars, Submitting'
  PROVE  /\ \A s \in Slots : Submits(s) =>
              \/ req'[s] = req[s]
              \/ Submits(s)' /\ StepsLeft[req'[s].pc] < StepsLeft[req[s].pc]
         /\ Submitting \/ \E s \in Slots : Submits(s)'
<1>1. ~Crash /\ \A s \in Slots : ~StatementFails(s)
  BY DEF Uninterrupted, Crash, StatementFails
<1>2. ASSUME NEW s \in Slots, Start(s)
      PROVE  /\ \A t \in Slots : Submits(t) =>
                  \/ req'[t] = req[t]
                  \/ Submits(t)' /\ StepsLeft[req'[t].pc] < StepsLeft[req[t].pc]
             /\ Submitting \/ Submits(s)'
  BY <1>2, StartWorksOff
<1> QED BY <1>1, <1>2, OthersLeaveStarts DEF Next

\* While no restart and no failed statement interrupts handlers, a SUBMITTING Gestion is in
\* the hands of a start, and each of its steps brings that start nearer to its end.
THEOREM SubmittingConcludes == Spec => []SubmittingIsHeld /\ SubmittingIsWorkedOff
<1>1. Init => SubmittingIsHeld
  BY DEF Init, SubmittingIsHeld, Submitting
<1>2. RemoteInv /\ SubmittingIsHeld /\ [Next]_vars => SubmittingIsHeld'
  <2> SUFFICES ASSUME RemoteInv, SubmittingIsHeld, [Next]_vars, Uninterrupted, Submitting'
               PROVE  \E s \in Slots : Submits(s)'
    BY DEF SubmittingIsHeld, Uninterrupted
  <2>1. CASE Submitting
    <3>1. PICK s \in Slots : Submits(s)
      BY <2>1 DEF SubmittingIsHeld
    <3>2. Submits(s)'
      BY <3>1, StepWorksOff DEF Submits
    <3> QED BY <3>2
  <2>2. CASE ~Submitting
    BY <2>2, StepWorksOff
  <2> QED BY <2>1, <2>2
<1>3. RemoteInv /\ [Next]_vars =>
        [Uninterrupted /\ Submitting /\ Submitting' =>
           \A s \in Slots : Submits(s) =>
             \/ req'[s] = req[s]
             \/ Submits(s)' /\ StepsLeft[req'[s].pc] < StepsLeft[req[s].pc]]_vars
  BY StepWorksOff
<1> QED
  BY <1>1, <1>2, <1>3, RemoteInvariant, PTL DEF Spec, SubmittingIsWorkedOff

-----------------------------------------------------------------------------
(* SubmittedIsNeverDeleted fails only because requests overlap.              *)

\* From the read that finds a DRAFT to the last write of updateDraft or deleteDraft.
Editing == {"dropRows", "dropImport", "write", "delete"}
EditsADraft == \A s \in Slots : req[s].pc \in Editing => row.status = "DRAFT"

OneAtATime == \A s, t \in Slots : s = t

\* The other handlers never delete, and are not editing when they are through.
LEMMA OthersNeitherEditNorDelete ==
  ASSUME TypeOK, NEW s \in Slots,
         Start(s) \/ Refresh(s) \/ EditImport(s) \/ StatementFails(s)
  PROVE  req'[s].pc \notin Editing /\ row'.exists = row.exists
<1>0. req \in [Slots -> Requests] /\ row \in Rows
  BY DEF TypeOK
<1>1. ASSUME NEW p \in Points \ Editing, Goto(s, p) PROVE req'[s].pc \notin Editing
  BY <1>0, <1>1 DEF Goto, Requests
<1>2. ASSUME Finish(s) PROVE req'[s].pc \notin Editing
  BY <1>0, <1>2 DEF Finish, Idle, Editing
<1> USE DEF Points, StartPoints, Editing
<1>3. CASE Start(s)
  <2>1. CASE StartRead(s)
    BY <1>0, <2>1 DEF StartRead, Idle
  <2>2. CASE StartReadRows(s)
    BY <1>1, <2>2 DEF StartReadRows
  <2>3. CASE StartCheckImport(s) \/ StartRefused(s) \/ StartLosesClaim(s) \/ StartCallMotor(s)
             \/ StartMark(s) \/ StartAudit(s)
    BY <1>1, <1>2, <2>3
    DEF StartCheckImport, StartRefused, StartLosesClaim, StartCallMotor, StartMark, StartAudit
  <2>4. CASE StartClaim(s) \/ StartStoreKey(s)
    BY <1>0, <1>1, <1>2, <2>4 DEF StartClaim, StartStoreKey, Rows
  <2>5. CASE StartAccepted(s)
    BY <1>0, <1>1, <2>5 DEF StartAccepted, AcceptedRow, Rows
  <2>6. CASE StartRejected(s) \/ StartCatch(s)
    BY <1>0, <1>1, <1>2, <2>6 DEF StartRejected, StartCatch, Rows
  <2> QED BY <1>3, <2>1, <2>2, <2>3, <2>4, <2>5, <2>6 DEF Start
<1>4. CASE Refresh(s)
  <2>1. CASE RefreshRead(s)
    BY <1>0, <2>1 DEF RefreshRead, Idle
  <2>2. CASE RefreshAsk(s)
    BY <1>0, <2>2 DEF RefreshAsk, Requests
  <2>3. CASE RefreshUnanswered(s) \/ RefreshApply(s)
    BY <1>0, <1>2, <2>3 DEF RefreshUnanswered, RefreshApply, Rows
  <2> QED BY <1>4, <2>1, <2>2, <2>3 DEF Refresh
<1>5. CASE EditImport(s)
  BY <1>1, <1>2, <1>5 DEF EditImport, UploadRead, UploadSave, MapRead, MapClear, MapRows, MapSave
<1>6. CASE StatementFails(s)
  BY <1>2, <1>6 DEF StatementFails
<1> QED BY <1>3, <1>4, <1>5, <1>6

\* updateDraft and deleteDraft start from a DRAFT and leave its status alone.
LEMMA EditsStartFromADraft ==
  ASSUME TypeOK, EditsADraft, NEW s \in Slots, EditDraft(s)
  PROVE  /\ row.status = "DRAFT"
         /\ row'.status = row.status
<1>1. row \in Rows
  BY DEF TypeOK
<1>2. row.status = "DRAFT"
  BY DEF EditDraft, UpdateRead, DeleteRead, DropRows, DropImport, UpdateWrite, DeleteRow,
         EditsADraft, Editing
<1>3. row'.status = row.status
  BY <1>1
  DEF EditDraft, UpdateRead, DeleteRead, DropRows, DropImport, UpdateWrite, DeleteRow, Rows
<1> QED BY <1>2, <1>3

LEMMA SequentialStep ==
  ASSUME TypeOK, EditsADraft, OneAtATime, [Next]_vars
  PROVE  /\ EditsADraft'
         /\ row.exists /\ ~row'.exists => row.status = "DRAFT"
<1>1. ASSUME NEW s \in Slots, Start(s) \/ Refresh(s) \/ EditImport(s) \/ StatementFails(s)
      PROVE  EditsADraft' /\ row'.exists = row.exists
  BY <1>1, OthersNeitherEditNorDelete DEF EditsADraft, OneAtATime
<1>2. ASSUME NEW s \in Slots, EditDraft(s)
      PROVE  EditsADraft' /\ row.status = "DRAFT"
  BY <1>2, EditsStartFromADraft DEF EditsADraft
<1>3. CASE Motor
  BY <1>3 DEF Motor, MotorHandle, MotorProgress, MotorFailure, EditsADraft
<1>4. CASE Crash
  BY <1>4 DEF Crash, Idle, EditsADraft, Editing
<1>5. CASE UNCHANGED vars
  BY <1>5 DEF vars, EditsADraft
<1> QED BY <1>1, <1>2, <1>3, <1>4, <1>5 DEF Next

\* Served one at a time, whatever fails or restarts between their statements, requests
\* delete no Gestion but a DRAFT.
THEOREM SequentialDeletesAreOfDrafts ==
  ASSUME OneAtATime PROVE Spec => SubmittedIsNeverDeleted
<1>1. Init => EditsADraft
  BY DEF Init, Idle, EditsADraft, Editing
<1>2. TypeOK /\ EditsADraft /\ [Next]_vars
        => EditsADraft' /\ (row.exists /\ ~row'.exists => row.status = "DRAFT")
  BY SequentialStep
<1> QED BY <1>1, <1>2, TypeCorrect, PTL DEF Spec, SubmittedIsNeverDeleted
=============================================================================
