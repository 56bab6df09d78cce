--------------------- MODULE TemplatePublicationProofs ---------------------
(***************************************************************************)
(* Proofs about TemplatePublication, for every set of slots, keys,         *)
(* operations and faults and every bound on the versions.                  *)
(***************************************************************************)
EXTENDS TemplatePublication, TLAPS

\* Initially the template is a draft without versions.
LEMMA InitPublicationInv == Init => PublicationInv
<1> SUFFICES ASSUME Init PROVE PublicationInv
  OBVIOUS
<1> USE ConstantsAssumption DEF ConstantsAssumption, Init, Idle
<1>1. TypeOK
  <2>1. tpl \in Templates
    BY DEF Templates, Statuses
  <2>2. req \in [Slots -> Requests]
    BY DEF Requests, Points, Claimed
  <2>3. versions \in Seq(VersionRows)
    OBVIOUS
  <2>4. net \subseteq Keys /\ answers \in [Keys -> {"NONE", "ACCEPTED", "REJECTED"}]
    OBVIOUS
  <2> QED BY <2>1, <2>2, <2>3, <2>4 DEF TypeOK
<1>2. RequestsAgree /\ HoldersDiffer
  BY DEF RequestsAgree, RequestAgrees, HoldersDiffer, Holding, Publishing, Claimed
<1>3. AcceptedIsRemote /\ PublishedIsUsable /\ NeverStuckPublishing
  BY DEF AcceptedIsRemote, AcceptedVersions, PublishedIsUsable, NeverStuckPublishing
<1> QED BY <1>1, <1>2, <1>3 DEF PublicationInv

-----------------------------------------------------------------------------
(* How a step changes one request. *)

\* A handler that moves on keeps what it holds, and the others theirs.
LEMMA GotoChanges ==
  ASSUME TypeOK, NEW s \in Slots, NEW p \in Points, Goto(s, p)
  PROVE  /\ req' \in [Slots -> Requests]
         /\ req'[s].pc = p
         /\ req'[s].kind = req[s].kind
         /\ req'[s].key = req[s].key
         /\ req'[s].number = req[s].number
         /\ req'[s].accepted = req[s].accepted
         /\ \A t \in Slots \ {s} : req'[t] = req[t]
  BY DEF Goto, TypeOK, Requests

\* A handler that ends holds nothing.
LEMMA FinishChanges ==
  ASSUME TypeOK, NEW s \in Slots, Finish(s)
  PROVE  /\ req' \in [Slots -> Requests]
         /\ req'[s].pc = "idle"
         /\ \A t \in Slots \ {s} : req'[t] = req[t]
<1>1. Idle \in Requests
  BY ConstantsAssumption DEF ConstantsAssumption, Idle, Requests, Points
<1> QED BY <1>1 DEF Finish, TypeOK, Idle

\* An idle request agrees with anything.
LEMMA IdleAgrees ==
  ASSUME NEW s \in Slots, req'[s].pc = "idle"
  PROVE  RequestAgrees(s)'
  BY DEF RequestAgrees, Publishing, Holding, Claimed

\* The claim of a template in PUBLISHING passes from handler to handler.
LEMMA ClaimIsHeld ==
  ASSUME NeverStuckPublishing, NEW s \in Slots,
         \A t \in Slots \ {s} : req'[t] = req[t],
         interrupted => interrupted',
         \/ tpl'.exists => tpl'.status # "PUBLISHING"
         \/ req'[s].pc \in Claimed
         \/ /\ tpl'.status = tpl.status /\ (tpl'.exists => tpl.exists)
            /\ req[s].pc \in Claimed => interrupted'
  PROVE  NeverStuckPublishing'
  BY DEF NeverStuckPublishing

\* A step of slot s that changes neither versions nor what the motor answered.
LEMMA VersionsKept ==
  ASSUME PublicationInv, NEW s \in Slots,
         req' \in [Slots -> Requests],
         \A t \in Slots \ {s} : req'[t] = req[t],
         RequestAgrees(s)',
         req'[s].pc \in Holding => req[s].pc \in Holding /\ req'[s].number = req[s].number,
         tpl' \in Templates,
         PublishedIsUsable', NeverStuckPublishing',
         net' \subseteq Keys, interrupted' \in BOOLEAN,
         UNCHANGED <<versions, answers>>
  PROVE  PublicationInv'
<1>1. TypeOK'
  BY DEF PublicationInv, TypeOK
<1>2. RequestsAgree'
  BY DEF PublicationInv, RequestsAgree, RequestAgrees, AcceptedVersions
<1>3. HoldersDiffer'
  BY DEF PublicationInv, HoldersDiffer
<1>4. AcceptedIsRemote'
  BY DEF PublicationInv, AcceptedIsRemote, AcceptedVersions
<1> QED BY <1>1, <1>2, <1>3, <1>4 DEF PublicationInv

\* One that leaves the template alone, too.
LEMMA OnlyRequest ==
  ASSUME PublicationInv, NEW s \in Slots,
         req' \in [Slots -> Requests],
         \A t \in Slots \ {s} : req'[t] = req[t],
         RequestAgrees(s)',
         req'[s].pc \in Holding => req[s].pc \in Holding /\ req'[s].number = req[s].number,
         req[s].pc \in Claimed => req'[s].pc \in Claimed \/ interrupted',
         net' \subseteq Keys, interrupted' \in BOOLEAN, interrupted => interrupted',
         UNCHANGED <<tpl, versions, answers>>
  PROVE  PublicationInv'
<1>1. NeverStuckPublishing'
  BY ClaimIsHeld DEF PublicationInv
<1>2. PublishedIsUsable' /\ tpl' \in Templates
  BY DEF PublicationInv, PublishedIsUsable, AcceptedVersions, TypeOK
<1> QED BY <1>1, <1>2, VersionsKept

-----------------------------------------------------------------------------
(* The invariant, action by action. *)

\* A handler that begins, or reads what it will need.
LEMMA ReadsPreserve ==
  ASSUME PublicationInv, NEW s \in Slots,
         PublishRead(s) \/ RepublishRead(s) \/ RepublishReadsLatest(s) \/ PublishNumber(s)
           \/ PublishAnswered(s)
  PROVE  PublicationInv'
<1> USE DEF motorVars
<1>0. TypeOK /\ RequestAgrees(s)
  BY DEF PublicationInv, RequestsAgree
<1>1. CASE PublishRead(s) \/ RepublishRead(s)
  <2>1. PICK p \in {"validate", "latest"}, d \in {"publish", "republish"}, k \in Keys :
          /\ req' = [req EXCEPT ![s] = [Idle EXCEPT !.pc = p, !.kind = d, !.key = k]]
          /\ p = "validate" => d = "publish"
    <3>1. ASSUME PublishRead(s) PROVE \E k \in Keys :
            req' = [req EXCEPT ![s] = [Idle EXCEPT !.pc = "validate", !.kind = "publish", !.key = k]]
      BY <3>1 DEF PublishRead
    <3>2. ASSUME RepublishRead(s) PROVE \E k \in Keys :
            req' = [req EXCEPT ![s] = [Idle EXCEPT !.pc = "latest", !.kind = "republish", !.key = k]]
      BY <3>2 DEF RepublishRead
    <3> QED BY <1>1, <3>1, <3>2
  <2>2. [Idle EXCEPT !.pc = p, !.kind = d, !.key = k] \in Requests
    BY ConstantsAssumption DEF ConstantsAssumption, Idle, Requests, Points
  <2>3. /\ req' \in [Slots -> Requests]
        /\ \A t \in Slots \ {s} : req'[t] = req[t]
        /\ req'[s].pc = p /\ req'[s].kind = d /\ req'[s].key = k
    BY <1>0, <2>1, <2>2 DEF TypeOK, Idle
  <2>4. RequestAgrees(s)'
    BY <2>1, <2>3 DEF RequestAgrees, Publishing, Holding, Claimed
  <2>5. req[s].pc = "idle" /\ UNCHANGED <<tpl, versions, motorVars, interrupted>>
    BY <1>1 DEF PublishRead, RepublishRead, Found
  <2>6. p \notin Holding /\ req[s].pc \notin Claimed
    BY <2>5 DEF Holding, Claimed
  <2> QED BY <1>0, <2>3, <2>4, <2>5, <2>6, OnlyRequest DEF TypeOK
<1>2. CASE RepublishReadsLatest(s) /\ AcceptedVersions = {}
  <2>1. Finish(s) /\ UNCHANGED <<tpl, versions, motorVars, interrupted>> /\ req[s].pc = "latest"
    BY <1>2 DEF RepublishReadsLatest, IsLatestAccepted
  <2> QED
    BY <1>0, <2>1, FinishChanges, IdleAgrees, OnlyRequest DEF TypeOK, Holding, Claimed
<1>3. CASE RepublishReadsLatest(s) /\ AcceptedVersions # {}
  <2>1. PICK i \in DOMAIN versions :
          req' = [req EXCEPT ![s] = [req[s] EXCEPT !.previous = i, !.pc = "validate"]]
    BY <1>0, <1>3 DEF RepublishReadsLatest, TypeOK
  <2>2. i \in Nat
    BY <1>0 DEF TypeOK
  <2>3. [req[s] EXCEPT !.previous = i, !.pc = "validate"] \in Requests
    <3> DEFINE told == [req[s] EXCEPT !.previous = i]
    <3>1. told \in Requests
      BY <1>0, <2>2 DEF TypeOK, Requests
    <3>2. [told EXCEPT !.pc = "validate"] \in Requests
      BY <3>1 DEF Requests, Points
    <3> QED BY <3>2
  <2>4. /\ req' \in [Slots -> Requests]
        /\ \A t \in Slots \ {s} : req'[t] = req[t]
        /\ req'[s] = [req[s] EXCEPT !.previous = i, !.pc = "validate"]
    BY <1>0, <2>1, <2>3 DEF TypeOK
  <2>5. req'[s].pc = "validate" /\ req'[s].key = req[s].key
    BY <1>0, <2>4 DEF TypeOK, Requests
  <2>6. req[s].pc = "latest" /\ UNCHANGED <<tpl, versions, motorVars, interrupted>>
    BY <1>3 DEF RepublishReadsLatest
  <2>7. RequestAgrees(s)'
    BY <1>0, <1>3, <2>5, <2>6
    DEF RequestAgrees, Publishing, Holding, Claimed, AcceptedVersions
  <2> QED BY <1>0, <2>4, <2>5, <2>6, <2>7, OnlyRequest DEF TypeOK, Holding, Claimed
<1>4. CASE PublishNumber(s)
  <2>1. /\ req' = [req EXCEPT ![s] = [req[s] EXCEPT !.number = Len(versions) + 1, !.pc = "create"]]
        /\ req[s].pc = "number" /\ UNCHANGED <<tpl, versions, motorVars, interrupted>>
    BY <1>0, <1>4 DEF PublishNumber, TypeOK
  <2>2. [req[s] EXCEPT !.number = Len(versions) + 1, !.pc = "create"] \in Requests
    <3> DEFINE told == [req[s] EXCEPT !.number = Len(versions) + 1]
    <3>1. told \in Requests
      <4>1. req[s] \in Requests
        BY <1>0 DEF TypeOK
      <4>2. Len(versions) + 1 \in Nat
        BY <1>0 DEF TypeOK
      <4> QED BY <4>1, <4>2 DEF Requests
    <3>2. [told EXCEPT !.pc = "create"] \in Requests
      BY <3>1 DEF Requests, Points, Claimed
    <3> QED BY <3>2
  <2>3. /\ req' \in [Slots -> Requests]
        /\ \A t \in Slots \ {s} : req'[t] = req[t]
        /\ req'[s] = [req[s] EXCEPT !.number = Len(versions) + 1, !.pc = "create"]
    BY <1>0, <2>1, <2>2 DEF TypeOK
  <2>4. req'[s].pc = "create" /\ req'[s].key = req[s].key /\ req'[s].kind = req[s].kind
    BY <1>0, <2>3 DEF TypeOK, Requests
  <2>5. RequestAgrees(s)'
    BY <1>0, <2>1, <2>4
    DEF RequestAgrees, Publishing, Holding, Claimed, AcceptedVersions
  <2> QED BY <1>0, <2>1, <2>3, <2>4, <2>5, OnlyRequest DEF TypeOK, Holding, Claimed
<1>5. CASE PublishAnswered(s)
  <2> DEFINE yes == answers[req[s].key] = "ACCEPTED"
  <2>1. /\ req' = [req EXCEPT ![s] = [req[s] EXCEPT !.accepted = yes, !.pc = "save"]]
        /\ req[s].pc = "calling" /\ UNCHANGED <<tpl, versions, motorVars, interrupted>>
    BY <1>0, <1>5 DEF PublishAnswered, TypeOK
  <2>2. [req[s] EXCEPT !.accepted = yes, !.pc = "save"] \in Requests
    <3> DEFINE told == [req[s] EXCEPT !.accepted = yes]
    <3>1. told \in Requests
      BY <1>0 DEF TypeOK, Requests
    <3>2. [told EXCEPT !.pc = "save"] \in Requests
      BY <3>1 DEF Requests, Points, Claimed
    <3> QED BY <3>2
  <2>3. /\ req' \in [Slots -> Requests]
        /\ \A t \in Slots \ {s} : req'[t] = req[t]
        /\ req'[s] = [req[s] EXCEPT !.accepted = yes, !.pc = "save"]
    BY <1>0, <2>1, <2>2 DEF TypeOK
  <2>4. /\ req'[s].pc = "save" /\ req'[s].key = req[s].key /\ req'[s].kind = req[s].kind
        /\ req'[s].number = req[s].number /\ req'[s].accepted = yes
    BY <1>0, <2>3 DEF TypeOK, Requests
  <2>5. RequestAgrees(s)'
    BY <1>0, <2>1, <2>4
    DEF RequestAgrees, Publishing, Holding, Claimed, AcceptedVersions
  <2> QED BY <1>0, <2>1, <2>3, <2>4, <2>5, OnlyRequest DEF TypeOK, Holding, Claimed
<1> QED BY <1>1, <1>2, <1>3, <1>4, <1>5

\* A handler that only moves on, or ends, possibly because something failed.
LEMMA MovesPreserve ==
  ASSUME PublicationInv, NEW s \in Slots,
         \/ PublishValidate(s) \/ PublishReadSteps(s) \/ PublishNotEligible(s)
         \/ PublishTimesOut(s) \/ PublishAudit(s) \/ PublishCallMotor(s)
         \/ EditRead(s) \/ ArchiveRead(s) \/ ReopenRead(s) \/ DeleteRead(s)
         \/ StatementFails(s)
  PROVE  PublicationInv'
<1> USE DEF motorVars
<1>0. TypeOK /\ RequestAgrees(s)
  BY DEF PublicationInv, RequestsAgree
<1>1. CASE \/ PublishReadSteps(s) \/ PublishNotEligible(s) \/ PublishTimesOut(s)
           \/ (PublishValidate(s) /\ Goto(s, "claim"))
  <2>1. PICK p \in {"claim", "number", "catch"} :
          Goto(s, p) /\ (p = "claim" => req[s].pc = "validate")
    BY <1>1 DEF PublishReadSteps, PublishNotEligible, PublishTimesOut, PublishValidate
  <2>2. p \in Points /\ p \in Publishing \ {"latest"} /\ p \notin Holding /\ p # "final"
    BY DEF Points, Publishing, Claimed, Holding
  <2>3. /\ req[s].pc \in Publishing \ {"latest"}
        /\ req[s].pc \in Claimed => p \in Claimed
        /\ UNCHANGED <<tpl, versions, motorVars, interrupted>>
    BY <1>1, <2>1
    DEF PublishReadSteps, PublishNotEligible, PublishTimesOut, PublishValidate, Publishing, Claimed
  <2>4. RequestAgrees(s)'
    BY <1>0, <2>1, <2>2, <2>3, GotoChanges DEF RequestAgrees, AcceptedVersions, Holding
  <2> QED BY <1>0, <2>1, <2>2, <2>3, <2>4, GotoChanges, OnlyRequest DEF TypeOK
<1>2. CASE \/ PublishAudit(s) \/ (PublishValidate(s) /\ Finish(s))
  <2>1. /\ Finish(s) /\ req[s].pc \notin Claimed
        /\ UNCHANGED <<tpl, versions, motorVars, interrupted>>
    BY <1>2 DEF PublishAudit, PublishValidate, Claimed
  <2> QED BY <1>0, <2>1, FinishChanges, IdleAgrees, OnlyRequest DEF TypeOK, Holding
<1>3. CASE PublishCallMotor(s)
  <2>1. /\ req[s].pc = "send" /\ Goto(s, "calling") /\ "calling" \in Points
        /\ net' = net \cup {req[s].key} /\ UNCHANGED <<tpl, versions, answers, interrupted>>
    BY <1>3 DEF PublishCallMotor, Points, Claimed
  <2>2. RequestAgrees(s)' /\ req[s].key \in Keys
    BY <1>0, <2>1, GotoChanges DEF RequestAgrees, AcceptedVersions, Holding, Publishing, Claimed
  <2> QED BY <1>0, <2>1, <2>2, GotoChanges, OnlyRequest DEF TypeOK, Holding, Claimed
<1>4. CASE EditRead(s) \/ ArchiveRead(s) \/ ReopenRead(s) \/ DeleteRead(s)
  <2>1. PICK p \in {"edit", "archive", "reopen", "dropSteps", "hide", "retire"} : Goto(s, p)
    BY <1>4 DEF EditRead, ArchiveRead, ReopenRead, DeleteRead
  <2>2. p \in Points /\ p \notin Publishing \cup Holding
    BY DEF Points, Publishing, Claimed, Holding
  <2>3. req[s].pc = "idle" /\ UNCHANGED <<tpl, versions, motorVars, interrupted>>
    BY <1>4 DEF EditRead, ArchiveRead, ReopenRead, DeleteRead, Found
  <2>5. req[s].pc \notin Claimed
    BY <2>3 DEF Claimed
  <2>4. RequestAgrees(s)'
    BY <1>0, <2>1, <2>2, GotoChanges DEF RequestAgrees, Publishing, Claimed
  <2> QED BY <1>0, <2>1, <2>2, <2>3, <2>4, <2>5, GotoChanges, OnlyRequest DEF TypeOK
<1>5. CASE StatementFails(s) /\ req[s].pc \in (Claimed \ {"catch"}) \cup {"audit"}
  <2>1. /\ Goto(s, "catch") /\ "catch" \in Points
        /\ UNCHANGED <<tpl, versions, motorVars>>
        /\ interrupted' = (interrupted \/ req[s].pc = "catch")
    BY <1>5 DEF StatementFails, Points, Claimed
  <2>2. RequestAgrees(s)'
    BY <1>0, <1>5, <2>1, GotoChanges DEF RequestAgrees, AcceptedVersions, Holding, Publishing, Claimed
  <2> QED BY <1>0, <2>1, <2>2, GotoChanges, OnlyRequest DEF TypeOK, Holding, Claimed
<1>6. CASE StatementFails(s) /\ req[s].pc \notin (Claimed \ {"catch"}) \cup {"audit"}
  <2>1. /\ Finish(s)
        /\ UNCHANGED <<tpl, versions, motorVars>>
        /\ interrupted' = (interrupted \/ req[s].pc = "catch")
    BY <1>6 DEF StatementFails
  <2>2. /\ interrupted' \in BOOLEAN /\ interrupted => interrupted'
        /\ req[s].pc \in Claimed => interrupted'
    BY <1>0, <1>6, <2>1 DEF TypeOK
  <2> QED BY <1>0, <2>1, <2>2, FinishChanges, IdleAgrees, OnlyRequest DEF TypeOK, Holding
<1>7. PublishValidate(s) => Goto(s, "claim") \/ Finish(s)
  BY DEF PublishValidate
<1> QED BY <1>1, <1>2, <1>3, <1>4, <1>5, <1>6, <1>7

\* The writes of a publication to the template: the claim, the final status and
\* the one in the catch.
LEMMA StatusWritesPreserve ==
  ASSUME PublicationInv, NEW s \in Slots,
         PublishClaim(s) \/ PublishFinal(s) \/ PublishCatch(s)
  PROVE  PublicationInv'
<1> USE DEF motorVars
<1>0. TypeOK /\ RequestAgrees(s) /\ tpl \in Templates
  BY DEF PublicationInv, RequestsAgree, TypeOK
<1>1. CASE PublishClaim(s) /\ Finish(s) /\ UNCHANGED tpl
  <2>1. req[s].pc = "claim" /\ UNCHANGED <<tpl, versions, motorVars, interrupted>>
    BY <1>1 DEF PublishClaim
  <2> QED BY <1>0, <1>1, <2>1, FinishChanges, IdleAgrees, OnlyRequest DEF TypeOK, Holding, Claimed
<1>2. CASE PublishClaim(s) /\ Goto(s, "steps")
  <2>1. /\ req[s].pc = "claim" /\ "steps" \in Points
        /\ UNCHANGED <<versions, motorVars, interrupted>>
    BY <1>2 DEF PublishClaim, Points, Claimed
  <2>2. tpl' \in Templates /\ (tpl'.status = "PUBLISHED" /\ tpl'.exists => PublishedIsUsable')
    BY <1>0, <1>2, <2>1
    DEF PublishClaim, Templates, Statuses, PublicationInv, PublishedIsUsable, AcceptedVersions, ClaimBlocked
  <2>3. RequestAgrees(s)' /\ req'[s].pc = "steps"
    BY <1>0, <1>2, <2>1, GotoChanges
    DEF RequestAgrees, AcceptedVersions, Holding, Publishing, Claimed
  <2>4. NeverStuckPublishing' /\ PublishedIsUsable'
    BY <1>0, <1>2, <2>1, <2>2, <2>3, GotoChanges, ClaimIsHeld
    DEF PublicationInv, Claimed, PublishedIsUsable
  <2> QED
    BY <1>0, <1>2, <2>1, <2>2, <2>3, <2>4, GotoChanges, VersionsKept DEF TypeOK, Holding
<1>3. CASE PublishFinal(s) /\ ~tpl.exists
  <2>1. /\ req[s].pc = "final" /\ Goto(s, "catch") /\ "catch" \in Points
        /\ UNCHANGED <<tpl, versions, motorVars, interrupted>>
    BY <1>3 DEF PublishFinal, Points, Claimed
  <2>2. RequestAgrees(s)'
    BY <1>0, <2>1, GotoChanges DEF RequestAgrees, AcceptedVersions, Holding, Publishing, Claimed
  <2> QED BY <1>0, <2>1, <2>2, GotoChanges, OnlyRequest DEF TypeOK, Holding, Claimed
<1>4. CASE PublishFinal(s) /\ tpl.exists
  <2>1. /\ req[s].pc = "final" /\ Goto(s, "audit") /\ "audit" \in Points
        /\ tpl' = [tpl EXCEPT !.status = FinalStatus(s)]
        /\ UNCHANGED <<versions, motorVars, interrupted>>
    BY <1>4 DEF PublishFinal, Points
  <2>2. FinalStatus(s) \in {"PUBLISHED", "PUBLISH_FAILED"}
    BY DEF FinalStatus
  <2>3. tpl' \in Templates /\ tpl'.status = FinalStatus(s)
    BY <1>0, <2>1, <2>2 DEF Templates, Statuses
  <2>4. FinalStatus(s) = "PUBLISHED" => AcceptedVersions' # {}
    BY <1>0, <2>1 DEF FinalStatus, RequestAgrees, AcceptedVersions, Publishing, Claimed
  <2>5. PublishedIsUsable'
    BY <2>3, <2>4 DEF PublishedIsUsable
  <2>6. NeverStuckPublishing'
    BY <1>0, <2>1, <2>2, <2>3, GotoChanges, ClaimIsHeld DEF PublicationInv
  <2>7. RequestAgrees(s)'
    BY <1>0, <2>1, GotoChanges DEF RequestAgrees, AcceptedVersions, Holding, Publishing, Claimed
  <2> QED
    BY <1>0, <2>1, <2>3, <2>5, <2>6, <2>7, GotoChanges, VersionsKept DEF TypeOK, Holding
<1>5. CASE PublishCatch(s)
  <2>1. /\ req[s].pc = "catch" /\ Finish(s)
        /\ tpl' = IF tpl.exists THEN [tpl EXCEPT !.status = StatusAfterError(s)] ELSE tpl
        /\ UNCHANGED <<versions, motorVars, interrupted>>
    BY <1>5 DEF PublishCatch
  <2>2. StatusAfterError(s) \in {"PUBLISHED", "PUBLISH_FAILED"}
    BY DEF StatusAfterError
  <2>3. /\ tpl' \in Templates
        /\ tpl'.exists => tpl'.status = StatusAfterError(s)
    BY <1>0, <2>1, <2>2 DEF Templates, Statuses
  <2>4. StatusAfterError(s) = "PUBLISHED" => AcceptedVersions' # {}
    BY <1>0, <2>1 DEF StatusAfterError, RequestAgrees, AcceptedVersions, Publishing, Claimed
  <2>5. PublishedIsUsable'
    BY <2>3, <2>4 DEF PublishedIsUsable
  <2>6. NeverStuckPublishing'
    BY <1>0, <2>1, <2>2, <2>3, FinishChanges, ClaimIsHeld DEF PublicationInv
  <2> QED
    BY <1>0, <2>1, <2>3, <2>5, <2>6, FinishChanges, IdleAgrees, VersionsKept DEF TypeOK, Holding
<1> QED
  <2>1. PublishClaim(s) => Goto(s, "steps") \/ (Finish(s) /\ UNCHANGED tpl)
    BY DEF PublishClaim
  <2> QED BY <1>1, <1>2, <1>3, <1>4, <1>5, <2>1

\* The writes of SequenceTemplatesService: none makes a template PUBLISHED or
\* PUBLISHING.
LEMMA ServiceWritesPreserve ==
  ASSUME PublicationInv, NEW s \in Slots,
         EditWrite(s) \/ WriteRow(s) \/ DropSteps(s) \/ DropRow(s)
  PROVE  PublicationInv'
<1> USE DEF motorVars
<1>0. /\ TypeOK /\ tpl \in Templates
      /\ UNCHANGED <<versions, motorVars, interrupted>>
      /\ req[s].pc \notin Claimed \cup Holding
  BY DEF PublicationInv, TypeOK, EditWrite, WriteRow, DropSteps, DropRow, Claimed, Holding
<1>1. /\ tpl' \in Templates
      /\ \/ tpl'.status = tpl.status /\ (tpl'.exists => tpl.exists)
         \/ tpl'.status \in {"ARCHIVED", "DRAFT"}
  <2>1. CASE EditWrite(s)
    BY <1>0, <2>1 DEF EditWrite, Templates
  <2>2. CASE WriteRow(s)
    <3>1. CASE tpl' = tpl
      BY <1>0, <3>1
    <3>2. CASE req[s].pc \in {"archive", "reopen"} /\ tpl' = RowAfter(req[s].pc)
      BY <1>0, <3>2 DEF RowAfter, Templates, Statuses
    <3>3. CASE req[s].pc \in {"hide", "retire"} /\ tpl' = RowAfter(req[s].pc)
      <4>1. CASE req[s].pc = "hide"
        BY <1>0, <3>3, <4>1 DEF RowAfter, Templates
      <4>2. CASE req[s].pc = "retire"
        <5> DEFINE shelved == [tpl EXCEPT !.status = "ARCHIVED"]
        <5>1. shelved \in Templates /\ shelved.status = "ARCHIVED"
          BY <1>0 DEF Templates, Statuses
        <5>2. tpl' = [shelved EXCEPT !.hidden = TRUE]
          BY <1>0, <3>3, <4>2 DEF RowAfter, Templates
        <5>3. tpl' \in Templates /\ tpl'.status = "ARCHIVED"
          BY <5>1, <5>2 DEF Templates
        <5> QED BY <5>3
      <4> QED BY <3>3, <4>1, <4>2
    <3> QED BY <2>2, <3>1, <3>2, <3>3 DEF WriteRow
  <2>3. CASE DropSteps(s) \/ DropRow(s)
    BY <1>0, <2>3 DEF DropSteps, DropRow, Templates
  <2> QED BY <2>1, <2>2, <2>3
<1>2. PublishedIsUsable'
  BY <1>0, <1>1 DEF PublicationInv, PublishedIsUsable, AcceptedVersions
<1>3. CASE Finish(s)
  <2>1. NeverStuckPublishing'
    BY <1>0, <1>1, <1>3, FinishChanges, ClaimIsHeld DEF PublicationInv
  <2> QED
    BY <1>0, <1>1, <1>2, <1>3, <2>1, FinishChanges, IdleAgrees, VersionsKept DEF TypeOK, Holding
<1>4. CASE Goto(s, "dropRow")
  <2>1. "dropRow" \in Points \ (Publishing \cup Holding)
    BY DEF Points, Publishing, Claimed, Holding
  <2>2. RequestAgrees(s)'
    BY <1>0, <1>4, <2>1, GotoChanges DEF RequestAgrees, Publishing, Claimed
  <2>3. NeverStuckPublishing'
    BY <1>0, <1>1, <1>4, <2>1, GotoChanges, ClaimIsHeld DEF PublicationInv
  <2> QED
    BY <1>0, <1>1, <1>2, <1>4, <2>1, <2>2, <2>3, GotoChanges, VersionsKept DEF TypeOK
<1> QED BY <1>3, <1>4 DEF EditWrite, WriteRow, DropSteps, DropRow

\* A new version is appended, or its number was taken meanwhile.
LEMMA CreatePreserves ==
  ASSUME PublicationInv, NEW s \in Slots, PublishCreate(s)
  PROVE  PublicationInv'
<1> USE DEF motorVars
<1>0. /\ TypeOK /\ RequestAgrees(s)
      /\ req[s].pc = "create" /\ UNCHANGED <<tpl, motorVars, interrupted>>
  BY DEF PublicationInv, RequestsAgree, PublishCreate
<1>1. CASE Goto(s, "catch") /\ UNCHANGED versions
  <2>1. "catch" \in Points
    BY DEF Points, Claimed
  <2>2. RequestAgrees(s)'
    BY <1>0, <1>1, <2>1, GotoChanges
    DEF RequestAgrees, AcceptedVersions, Holding, Publishing, Claimed
  <2> QED BY <1>0, <1>1, <2>1, <2>2, GotoChanges, OnlyRequest DEF TypeOK, Holding, Claimed
<1>2. CASE Goto(s, "send") /\ ~UNCHANGED versions
  <2> DEFINE new == [status |-> "REQUESTED", serverId |-> None, previous |-> req[s].previous]
  <2>1. /\ versions' = Append(versions, new)
        /\ req[s].number = Len(versions) + 1
        /\ "send" \in Points
    BY <1>2 DEF PublishCreate, Points, Claimed
  <2>2. versions \in Seq(VersionRows) /\ new \in VersionRows
    BY <1>0 DEF TypeOK, Requests, VersionRows
  <2>3. /\ versions' \in Seq(VersionRows)
        /\ DOMAIN versions' = DOMAIN versions \cup {Len(versions) + 1}
        /\ \A i \in DOMAIN versions : versions'[i] = versions[i]
        /\ versions'[Len(versions) + 1] = new
        /\ Len(versions) + 1 \notin DOMAIN versions
    BY <2>1, <2>2
  <2>4. AcceptedVersions' = AcceptedVersions
    BY <2>3 DEF AcceptedVersions
  <2>5. TypeOK'
    BY <1>0, <1>2, <2>1, <2>3, GotoChanges DEF TypeOK
  <2>6. RequestsAgree'
    <3>1. ASSUME NEW t \in Slots \ {s} PROVE RequestAgrees(t)'
      <4>1. RequestAgrees(t) /\ req'[t] = req[t]
        BY <1>0, <1>2, <2>1, GotoChanges DEF PublicationInv, RequestsAgree
      <4> QED BY <1>0, <2>3, <2>4, <4>1 DEF RequestAgrees
    <3>2. RequestAgrees(s)'
      BY <1>0, <1>2, <2>1, <2>3, <2>4, GotoChanges
      DEF RequestAgrees, Holding, Publishing, Claimed
    <3> QED BY <3>1, <3>2 DEF RequestsAgree
  <2>7. HoldersDiffer'
    <3>1. ASSUME NEW t \in Slots, req[t].pc \in Holding PROVE req[t].number # req[s].number
      BY <2>1, <2>3, <3>1 DEF PublicationInv, RequestsAgree, RequestAgrees
    <3>2. /\ \A t \in Slots \ {s} : req'[t] = req[t]
          /\ req'[s].number = req[s].number
      BY <1>0, <1>2, <2>1, GotoChanges
    <3> QED BY <3>1, <3>2 DEF PublicationInv, HoldersDiffer
  <2>8. AcceptedIsRemote'
    BY <1>0, <2>3, <2>4 DEF PublicationInv, AcceptedIsRemote, AcceptedVersions
  <2>9. PublishedIsUsable' /\ NeverStuckPublishing'
    BY <1>0, <1>2, <2>1, <2>4, GotoChanges, ClaimIsHeld
    DEF PublicationInv, PublishedIsUsable, Claimed
  <2> QED BY <2>5, <2>6, <2>7, <2>8, <2>9 DEF PublicationInv
<1> QED BY <1>1, <1>2 DEF PublishCreate

\* A save writes the REQUESTED version the handler itself created.
LEMMA SaveChanges ==
  ASSUME PublicationInv, NEW s \in Slots, PublishSaveVersion(s), ~UNCHANGED versions
  PROVE  /\ req[s].pc = "save" /\ Goto(s, "final")
         /\ req[s].number \in DOMAIN versions
         /\ versions[req[s].number].status = "REQUESTED"
         /\ versions' \in Seq(VersionRows) /\ DOMAIN versions' = DOMAIN versions
         /\ \A i \in DOMAIN versions \ {req[s].number} : versions'[i] = versions[i]
         /\ versions'[req[s].number].status = SavedStatus(s)
         /\ versions'[req[s].number].serverId = SavedServerId(s)
         /\ req[s].accepted => ~KeyTaken(req[s].key)
<1>0. /\ TypeOK /\ RequestAgrees(s) /\ req[s].pc = "save"
  BY DEF PublicationInv, RequestsAgree, PublishSaveVersion
<1>1. /\ req[s].number \in DOMAIN versions
      /\ versions[req[s].number].status = "REQUESTED"
      /\ req[s].key \in Keys
  BY <1>0 DEF RequestAgrees, Holding, Publishing, Claimed
<1> DEFINE old == versions[req[s].number]
           saved == [old EXCEPT !.status = SavedStatus(s), !.serverId = SavedServerId(s)]
<1>2. /\ versions' = [versions EXCEPT ![req[s].number] = saved]
      /\ Goto(s, "final") /\ (req[s].accepted => ~KeyTaken(req[s].key))
  BY <1>0, <1>1 DEF PublishSaveVersion, SavedVersion, TypeOK
<1>3. saved \in VersionRows /\ saved.status = SavedStatus(s) /\ saved.serverId = SavedServerId(s)
  <2>1. old \in VersionRows
    BY <1>0, <1>1 DEF TypeOK
  <2> DEFINE half == [old EXCEPT !.status = SavedStatus(s)]
  <2>2. half \in VersionRows /\ half.status = SavedStatus(s)
    BY <2>1 DEF VersionRows, SavedStatus
  <2>3. SavedServerId(s) \in Keys \cup {None}
    BY <1>1 DEF SavedServerId
  <2>4. saved = [half EXCEPT !.serverId = SavedServerId(s)]
    OBVIOUS
  <2>5. /\ [half EXCEPT !.serverId = SavedServerId(s)] \in VersionRows
        /\ [half EXCEPT !.serverId = SavedServerId(s)].status = half.status
        /\ [half EXCEPT !.serverId = SavedServerId(s)].serverId = SavedServerId(s)
    BY <2>2, <2>3 DEF VersionRows
  <2> HIDE DEF half, saved
  <2> QED BY <2>2, <2>4, <2>5
<1> HIDE DEF saved
<1>4. /\ versions' \in Seq(VersionRows) /\ DOMAIN versions' = DOMAIN versions
      /\ \A i \in DOMAIN versions \ {req[s].number} : versions'[i] = versions[i]
      /\ versions'[req[s].number] = saved
  BY <1>0, <1>1, <1>2, <1>3 DEF TypeOK
<1> QED BY <1>0, <1>1, <1>2, <1>3, <1>4

LEMMA SavePreserves ==
  ASSUME PublicationInv, NEW s \in Slots, PublishSaveVersion(s)
  PROVE  PublicationInv'
<1> USE DEF motorVars
<1>0. /\ TypeOK /\ RequestAgrees(s)
      /\ req[s].pc = "save" /\ UNCHANGED <<tpl, motorVars, interrupted>>
  BY DEF PublicationInv, RequestsAgree, PublishSaveVersion
<1>1. CASE UNCHANGED versions
  <2>1. PICK p \in {"catch", "final"} : Goto(s, p)
    BY DEF PublishSaveVersion
  <2>2. p \in Points /\ p \in Publishing \ {"latest"} /\ p \notin Holding /\ p \in Claimed
    BY DEF Points, Claimed, Publishing, Holding
  <2>3. p = "final" => ~req[s].accepted \/ AcceptedVersions # {}
    <3>1. ASSUME p = "final", req[s].accepted
          PROVE  versions' = [versions EXCEPT ![req[s].number] =
                   [@ EXCEPT !.status = "ACCEPTED", !.serverId = req[s].key]]
      <4>1. req'[s].pc = "final"
        BY <1>0, <2>1, <2>2, <3>1, GotoChanges
      <4>2. ~Goto(s, "catch")
        <5>1. "catch" \in Points
          BY DEF Points, Claimed
        <5> QED BY <1>0, <4>1, <5>1, GotoChanges
      <4> QED BY <3>1, <4>2
        DEF PublishSaveVersion, SavedVersion, SavedStatus, SavedServerId
    <3>2. req[s].number \in DOMAIN versions /\ versions[req[s].number] \in VersionRows
      BY <1>0 DEF RequestAgrees, Holding, TypeOK
    <3>3. ASSUME p = "final", req[s].accepted
          PROVE  versions[req[s].number].status = "ACCEPTED"
      BY <1>0, <1>1, <3>1, <3>2, <3>3 DEF TypeOK, VersionRows
    <3> QED BY <3>2, <3>3 DEF AcceptedVersions
  <2>4. RequestAgrees(s)'
    BY <1>0, <1>1, <2>1, <2>2, <2>3, GotoChanges
    DEF RequestAgrees, AcceptedVersions, Publishing, Claimed
  <2> QED BY <1>0, <1>1, <2>1, <2>2, <2>4, GotoChanges, OnlyRequest DEF TypeOK
<1>2. CASE ~UNCHANGED versions
  <2> DEFINE n == req[s].number
  <2>1. /\ Goto(s, "final") /\ "final" \in Points
        /\ n \in DOMAIN versions /\ versions[n].status = "REQUESTED"
        /\ versions' \in Seq(VersionRows) /\ DOMAIN versions' = DOMAIN versions
        /\ \A i \in DOMAIN versions \ {n} : versions'[i] = versions[i]
        /\ versions'[n].status = SavedStatus(s)
        /\ versions'[n].serverId = SavedServerId(s)
        /\ req[s].accepted => ~KeyTaken(req[s].key)
    BY <1>2, SaveChanges DEF Points, Claimed
  <2>2. /\ req' \in [Slots -> Requests]
        /\ \A t \in Slots \ {s} : req'[t] = req[t]
        /\ req'[s].pc = "final" /\ req'[s].key = req[s].key
        /\ req'[s].kind = req[s].kind /\ req'[s].accepted = req[s].accepted
    BY <1>0, <2>1, GotoChanges
  <2>3. AcceptedVersions' = IF req[s].accepted THEN AcceptedVersions \cup {n} ELSE AcceptedVersions
    BY <2>1 DEF AcceptedVersions, SavedStatus
  <2>4. TypeOK'
    BY <1>0, <2>1, <2>2 DEF TypeOK
  <2>5. RequestsAgree'
    <3>1. ASSUME NEW t \in Slots \ {s} PROVE RequestAgrees(t)'
      <4>1. RequestAgrees(t) /\ req'[t] = req[t]
        BY <2>2 DEF PublicationInv, RequestsAgree
      <4>2. req[t].pc \in Holding => req[t].number # n
        BY <1>0 DEF PublicationInv, HoldersDiffer, Holding
      <4>3. req[t].pc \in Holding => versions'[req[t].number].status = "REQUESTED"
        BY <2>1, <4>1, <4>2 DEF RequestAgrees
      <4>4. AcceptedVersions # {} => AcceptedVersions' # {}
        BY <2>3
      <4> QED BY <1>0, <2>1, <4>1, <4>3, <4>4 DEF RequestAgrees
    <3>2. RequestAgrees(s)'
      BY <1>0, <2>2, <2>3 DEF RequestAgrees, Holding, Publishing, Claimed
    <3> QED BY <3>1, <3>2 DEF RequestsAgree
  <2>6. HoldersDiffer'
    BY <2>2 DEF PublicationInv, HoldersDiffer, Holding
  <2>7. AcceptedIsRemote'
    <3>1. CASE ~req[s].accepted
      BY <1>0, <2>1, <2>3, <3>1 DEF PublicationInv, AcceptedIsRemote, AcceptedVersions
    <3>2. CASE req[s].accepted
      <4>1. /\ req[s].key # None /\ answers[req[s].key] = "ACCEPTED"
            /\ versions'[n].serverId = req[s].key
        BY <1>0, <2>1, <3>2, ConstantsAssumption
        DEF ConstantsAssumption, RequestAgrees, SavedServerId, Publishing, Claimed
      <4>2. \A i \in AcceptedVersions : versions'[i] = versions[i] /\ i # n /\ i \in DOMAIN versions
        BY <2>1 DEF AcceptedVersions
      <4>3. \A i \in AcceptedVersions : versions[i].serverId # req[s].key
        BY <2>1, <3>2 DEF KeyTaken, AcceptedVersions
      <4>4. ASSUME NEW i \in AcceptedVersions'
            PROVE  /\ versions'[i].serverId # None
                   /\ answers'[versions'[i].serverId] = "ACCEPTED"
                   /\ \A j \in AcceptedVersions' :
                        versions'[j].serverId = versions'[i].serverId => i = j
        <5>1. AcceptedVersions' = AcceptedVersions \cup {n} /\ answers' = answers
          BY <1>0, <2>3, <3>2
        <5>2. CASE i = n
          BY <4>1, <4>2, <4>3, <5>1, <5>2
        <5>3. CASE i \in AcceptedVersions
          <6>1. /\ versions[i].serverId # None
                /\ answers[versions[i].serverId] = "ACCEPTED"
                /\ \A j \in AcceptedVersions : versions[j].serverId = versions[i].serverId => i = j
            BY <5>3 DEF PublicationInv, AcceptedIsRemote
          <6> QED BY <4>1, <4>2, <4>3, <5>1, <5>3, <6>1
        <5> QED BY <5>1, <5>2, <5>3
      <4> QED BY <4>4 DEF AcceptedIsRemote
    <3> QED BY <3>1, <3>2
  <2>8. PublishedIsUsable' /\ NeverStuckPublishing'
    BY <1>0, <2>2, <2>3, ClaimIsHeld DEF PublicationInv, PublishedIsUsable, Claimed
  <2> QED BY <2>4, <2>5, <2>6, <2>7, <2>8 DEF PublicationInv
<1> QED BY <1>1, <1>2

\* The motor answers a key once; a restart ends every handler.
LEMMA MotorAndCrashPreserve ==
  ASSUME PublicationInv, Crash \/ \E k \in Keys : MotorHandle(k)
  PROVE  PublicationInv'
<1> USE DEF motorVars
<1>0. TypeOK /\ UNCHANGED <<tpl, versions>>
  BY DEF PublicationInv, Crash, MotorHandle
<1>1. CASE Crash
  <2>1. Idle \in Requests
    BY ConstantsAssumption DEF ConstantsAssumption, Idle, Requests, Points
  <2>2. /\ req' \in [Slots -> Requests] /\ interrupted'
        /\ \A s \in Slots : req'[s].pc = "idle"
        /\ UNCHANGED <<net, answers>> /\ interrupted' \in BOOLEAN
    BY <1>1, <2>1 DEF Crash, Idle
  <2>3. TypeOK'
    BY <1>0, <2>2 DEF TypeOK
  <2>4. RequestsAgree' /\ HoldersDiffer'
    BY <2>2, IdleAgrees DEF RequestsAgree, HoldersDiffer, Holding
  <2>5. AcceptedIsRemote' /\ PublishedIsUsable'
    BY <1>0, <2>2 DEF PublicationInv, AcceptedIsRemote, PublishedIsUsable, AcceptedVersions
  <2>6. NeverStuckPublishing'
    BY <2>2 DEF NeverStuckPublishing
  <2> QED BY <2>3, <2>4, <2>5, <2>6 DEF PublicationInv
<1>2. ASSUME NEW k \in Keys, MotorHandle(k) PROVE PublicationInv'
  <2>1. /\ net' \subseteq Keys /\ answers' \in [Keys -> {"NONE", "ACCEPTED", "REJECTED"}]
        /\ \A j \in Keys : answers[j] = "ACCEPTED" => answers'[j] = "ACCEPTED"
        /\ UNCHANGED <<req, interrupted>>
    BY <1>0, <1>2 DEF MotorHandle, TypeOK
  <2>2. TypeOK'
    BY <1>0, <2>1 DEF TypeOK
  <2>3. RequestsAgree'
    <3>1. ASSUME NEW s \in Slots PROVE RequestAgrees(s)'
      <4>1. RequestAgrees(s)
        BY DEF PublicationInv, RequestsAgree
      <4>2. req[s].pc = "save" => req[s].key \in Keys
        BY <4>1 DEF RequestAgrees, Publishing, Claimed
      <4> QED BY <1>0, <2>1, <4>1, <4>2 DEF RequestAgrees, AcceptedVersions
    <3> QED BY <3>1 DEF RequestsAgree
  <2>4. HoldersDiffer' /\ PublishedIsUsable' /\ NeverStuckPublishing'
    BY <1>0, <2>1
    DEF PublicationInv, HoldersDiffer, PublishedIsUsable, NeverStuckPublishing, AcceptedVersions
  <2>5. AcceptedIsRemote'
    <3>1. ASSUME NEW i \in AcceptedVersions PROVE versions[i].serverId \in Keys
      <4>1. versions[i] \in VersionRows
        BY <1>0 DEF AcceptedVersions, TypeOK
      <4>2. versions[i].serverId # None
        BY DEF PublicationInv, AcceptedIsRemote
      <4> QED BY <4>1, <4>2 DEF VersionRows
    <3> QED BY <1>0, <2>1, <3>1 DEF PublicationInv, AcceptedIsRemote, AcceptedVersions
  <2> QED BY <2>2, <2>3, <2>4, <2>5 DEF PublicationInv
<1> QED BY <1>1, <1>2

-----------------------------------------------------------------------------
\* Every step preserves the invariant.
LEMMA NextPreserves == PublicationInv /\ [Next]_vars => PublicationInv'
<1> SUFFICES ASSUME PublicationInv, [Next]_vars PROVE PublicationInv'
  OBVIOUS
<1>1. ASSUME NEW s \in Slots, Publish(s) PROVE PublicationInv'
  BY <1>1, ReadsPreserve, MovesPreserve, StatusWritesPreserve, CreatePreserves, SavePreserves
  DEF Publish
<1>2. ASSUME NEW s \in Slots, Edit(s) PROVE PublicationInv'
  BY <1>2, MovesPreserve, ServiceWritesPreserve DEF Edit
<1>3. ASSUME NEW s \in Slots, Retire(s) PROVE PublicationInv'
  BY <1>3, MovesPreserve, ServiceWritesPreserve DEF Retire
<1>4. ASSUME NEW s \in Slots, StatementFails(s) PROVE PublicationInv'
  BY <1>4, MovesPreserve
<1>5. CASE UNCHANGED vars
  BY <1>5
  DEF vars, PublicationInv, TypeOK, RequestsAgree, RequestAgrees, HoldersDiffer,
      AcceptedIsRemote, PublishedIsUsable, NeverStuckPublishing, AcceptedVersions
<1> QED BY <1>1, <1>2, <1>3, <1>4, <1>5, MotorAndCrashPreserve DEF Next

\* The inductive invariant of the publication.
THEOREM PublicationInvariant == Spec => []PublicationInv
BY InitPublicationInv, NextPreserves, PTL DEF Spec

\* Every reachable state is well typed.
THEOREM TypeCorrect == Spec => []TypeOK
<1>1. PublicationInv => TypeOK
  BY DEF PublicationInv
<1> QED BY <1>1, PublicationInvariant, PTL

\* A PUBLISHED template has a version the motor accepted, however publications,
\* archivings, failures and restarts overlap.
THEOREM PublishedUsable == Spec => []PublishedIsUsable
<1>1. PublicationInv => PublishedIsUsable
  BY DEF PublicationInv
<1> QED BY <1>1, PublicationInvariant, PTL

\* Accepted versions have serverTemplateIds of their own that the motor gave.
THEOREM AcceptedRemote == Spec => []AcceptedIsRemote
<1>1. PublicationInv => AcceptedIsRemote
  BY DEF PublicationInv
<1> QED BY <1>1, PublicationInvariant, PTL

\* A template in PUBLISHING has a handler that gives the status up, unless the
\* write that does so failed or the server restarted.
THEOREM NeverStuck == Spec => []NeverStuckPublishing
<1>1. PublicationInv => NeverStuckPublishing
  BY DEF PublicationInv
<1> QED BY <1>1, PublicationInvariant, PTL

-----------------------------------------------------------------------------
(* Template, versions and motor implement VersionHistory.                    *)

\* Only the insertion and the save of a handler's own version write the versions.
LEMMA OtherStepsKeepVersions ==
  ASSUME [Next]_vars, \A s \in Slots : ~PublishCreate(s) /\ ~PublishSaveVersion(s)
  PROVE  UNCHANGED versions
<1>1. ASSUME NEW s \in Slots, Publish(s) PROVE UNCHANGED versions
  BY <1>1
  DEF Publish, PublishRead, RepublishRead, RepublishReadsLatest, PublishValidate,
      PublishClaim, PublishReadSteps, PublishNotEligible, PublishNumber, PublishCallMotor,
      PublishAnswered, PublishTimesOut, PublishFinal, PublishAudit, PublishCatch
<1>2. ASSUME NEW s \in Slots, Edit(s) \/ Retire(s) \/ StatementFails(s)
      PROVE  UNCHANGED versions
  BY <1>2
  DEF Edit, EditRead, EditWrite, Retire, ArchiveRead, ReopenRead, DeleteRead, WriteRow,
      DropSteps, DropRow, StatementFails
<1>3. ASSUME Crash \/ \E k \in Keys : MotorHandle(k) PROVE UNCHANGED versions
  BY <1>3 DEF Crash, MotorHandle
<1> QED BY <1>1, <1>2, <1>3 DEF Next, vars

\* Only the motor writes what it answers.
LEMMA OtherStepsKeepAnswers ==
  ASSUME [Next]_vars, \A k \in Keys : ~MotorHandle(k)
  PROVE  UNCHANGED answers
<1> USE DEF motorVars
<1>1. ASSUME NEW s \in Slots, Publish(s) PROVE UNCHANGED answers
  BY <1>1
  DEF Publish, PublishRead, RepublishRead, RepublishReadsLatest, PublishValidate,
      PublishClaim, PublishReadSteps, PublishNotEligible, PublishNumber, PublishCreate,
      PublishCallMotor, PublishAnswered, PublishTimesOut, PublishSaveVersion, PublishFinal,
      PublishAudit, PublishCatch
<1>2. ASSUME NEW s \in Slots, Edit(s) \/ Retire(s) \/ StatementFails(s)
      PROVE  UNCHANGED answers
  BY <1>2
  DEF Edit, EditRead, EditWrite, Retire, ArchiveRead, ReopenRead, DeleteRead, WriteRow,
      DropSteps, DropRow, StatementFails
<1>3. ASSUME Crash PROVE UNCHANGED answers
  BY <1>3 DEF Crash
<1> QED BY <1>1, <1>2, <1>3 DEF Next, vars

\* A version that was accepted stays as it is, in its place.
LEMMA AcceptedKept ==
  ASSUME PublicationInv, [Next]_vars
  PROVE  \A i \in AcceptedVersions : i \in AcceptedVersions' /\ versions'[i] = versions[i]
<1>1. CASE UNCHANGED versions
  BY <1>1 DEF AcceptedVersions
<1>2. ASSUME NEW s \in Slots, PublishCreate(s)
      PROVE  \A i \in AcceptedVersions : i \in AcceptedVersions' /\ versions'[i] = versions[i]
  <2>1. versions \in Seq(VersionRows)
    BY DEF PublicationInv, TypeOK
  <2>2. CASE ~UNCHANGED versions
    BY <1>2, <2>1, <2>2 DEF PublishCreate, AcceptedVersions
  <2> QED BY <1>1, <2>2
<1>3. ASSUME NEW s \in Slots, PublishSaveVersion(s), ~UNCHANGED versions
      PROVE  \A i \in AcceptedVersions : i \in AcceptedVersions' /\ versions'[i] = versions[i]
  BY <1>3, SaveChanges DEF AcceptedVersions
<1> QED BY <1>1, <1>2, <1>3, OtherStepsKeepVersions

\* A publication follows no version, or one that is accepted.
PreviousAccepted == \A s \in Slots : req[s].previous \in AcceptedVersions \cup {None}

\* A handler names a predecessor once, when it reads the latest accepted version.
LEMMA HandlerKeepsPrevious ==
  ASSUME TypeOK, NEW s \in Slots, Publish(s) \/ Edit(s) \/ Retire(s) \/ StatementFails(s)
  PROVE  \A t \in Slots : req'[t].previous \in AcceptedVersions \cup {None, req[t].previous}
<1> DEFINE Fine == \A t \in Slots :
             req'[t].previous \in AcceptedVersions \cup {None, req[t].previous}
<1>0. req \in [Slots -> Requests]
  BY DEF TypeOK
<1>1. ASSUME NEW p, Goto(s, p) PROVE Fine
  BY <1>0, <1>1 DEF Goto, Requests
<1>2. ASSUME Finish(s) PROVE Fine
  BY <1>0, <1>2 DEF Finish, Idle
<1>3. ASSUME PublishRead(s) \/ RepublishRead(s) PROVE Fine
  BY <1>0, <1>3 DEF PublishRead, RepublishRead, Idle
<1>4. ASSUME RepublishReadsLatest(s) PROVE Fine
  <2>1. CASE Finish(s)
    BY <1>2, <2>1
  <2>2. CASE ~Finish(s)
    <3>1. PICK i \in AcceptedVersions :
            req' = [req EXCEPT ![s] = [@ EXCEPT !.previous = i, !.pc = "validate"]]
      BY <1>4, <2>2 DEF RepublishReadsLatest, IsLatestAccepted
    <3>2. req'[s] = [req[s] EXCEPT !.previous = i, !.pc = "validate"]
      BY <1>0, <3>1
    <3>3. [req[s] EXCEPT !.previous = i, !.pc = "validate"].previous = i
      BY <1>0 DEF Requests
    <3> QED BY <1>0, <3>1, <3>2, <3>3
  <2> QED BY <2>1, <2>2
<1>5. ASSUME PublishNumber(s) \/ PublishAnswered(s) PROVE Fine
  BY <1>0, <1>5 DEF PublishNumber, PublishAnswered, Requests
<1>6. ASSUME \/ PublishValidate(s) \/ PublishClaim(s) \/ PublishReadSteps(s)
             \/ PublishNotEligible(s) \/ PublishCreate(s) \/ PublishCallMotor(s)
             \/ PublishTimesOut(s) \/ PublishSaveVersion(s) \/ PublishFinal(s)
             \/ PublishAudit(s) \/ PublishCatch(s)
      PROVE Fine
  BY <1>1, <1>2, <1>6
  DEF PublishValidate, PublishClaim, PublishReadSteps, PublishNotEligible, PublishCreate,
      PublishCallMotor, PublishTimesOut, PublishSaveVersion, PublishFinal, PublishAudit,
      PublishCatch
<1>7. ASSUME Edit(s) \/ Retire(s) \/ StatementFails(s) PROVE Fine
  BY <1>1, <1>2, <1>7
  DEF Edit, EditRead, EditWrite, Retire, ArchiveRead, ReopenRead, DeleteRead, WriteRow,
      DropSteps, DropRow, StatementFails
<1> QED BY <1>3, <1>4, <1>5, <1>6, <1>7 DEF Publish

LEMMA PreviousPreserved ==
  ASSUME PublicationInv, PreviousAccepted, [Next]_vars PROVE PreviousAccepted'
<1>1. \A i \in AcceptedVersions : i \in AcceptedVersions'
  BY AcceptedKept
<1>2. CASE UNCHANGED req
  BY <1>1, <1>2 DEF PreviousAccepted
<1>3. ASSUME NEW s \in Slots, Publish(s) \/ Edit(s) \/ Retire(s) \/ StatementFails(s)
      PROVE  PreviousAccepted'
  BY <1>1, <1>3, HandlerKeepsPrevious DEF PreviousAccepted, PublicationInv
<1>4. CASE Crash
  BY <1>4 DEF Crash, Idle, PreviousAccepted
<1> QED BY <1>2, <1>3, <1>4 DEF Next, MotorHandle, vars

\* A version is inserted as the next of the history.
LEMMA CreateRequests ==
  ASSUME PublicationInv, PreviousAccepted, NEW s \in Slots, PublishCreate(s),
         ~UNCHANGED versions
  PROVE  History!Next
<1>1. versions' = Append(versions, [status |-> "REQUESTED", serverId |-> None,
                                    previous |-> req[s].previous])
  BY DEF PublishCreate
<1>2. req[s].previous \in AcceptedVersions \cup {None}
  BY DEF PreviousAccepted
<1>3. UNCHANGED <<Granted, Offered>>
  BY DEF PublishCreate, motorVars, Granted, Offered
<1>4. History!Request(req[s].previous)
  BY <1>1, <1>2, <1>3 DEF History!Request, History!Accepted, AcceptedVersions
<1> QED BY <1>2, <1>4 DEF History!Next, AcceptedVersions

\* A save writes two of the three columns of a version.
LEMMA SavedRow ==
  ASSUME NEW old \in VersionRows, NEW status, NEW id
  PROVE  [old EXCEPT !.status = status, !.serverId = id]
           = [status |-> status, serverId |-> id, previous |-> old.previous]
<1> DEFINE half == [old EXCEPT !.status = status]
<1>1. half = [status |-> status, serverId |-> old.serverId, previous |-> old.previous]
  BY DEF VersionRows
<1>2. [old EXCEPT !.status = status, !.serverId = id] = [half EXCEPT !.serverId = id]
  OBVIOUS
<1> HIDE DEF half
<1>3. [half EXCEPT !.serverId = id]
        = [status |-> status, serverId |-> id, previous |-> old.previous]
  BY <1>1
<1> QED BY <1>2, <1>3

\* A save decides the version that its own handler inserted.
LEMMA SaveDecides ==
  ASSUME PublicationInv, NEW s \in Slots, PublishSaveVersion(s), ~UNCHANGED versions
  PROVE  History!Next
<1> DEFINE n == req[s].number
           new == [status |-> SavedStatus(s), serverId |-> SavedServerId(s),
                   previous |-> versions[n].previous]
<1>1. /\ n \in DOMAIN versions /\ versions[n].status = "REQUESTED"
      /\ req[s].pc = "save"
      /\ req[s].accepted => ~KeyTaken(req[s].key)
  BY SaveChanges
<1>2. /\ req[s].key \in Keys
      /\ req[s].accepted => answers[req[s].key] = "ACCEPTED"
  BY <1>1 DEF PublicationInv, RequestsAgree, RequestAgrees, Publishing, Claimed
<1>3. versions' = [versions EXCEPT ![n] = new]
  <2>1. versions' = [versions EXCEPT ![n] = [versions[n] EXCEPT !.status = SavedStatus(s),
                                                     !.serverId = SavedServerId(s)]]
    BY <1>1 DEF PublishSaveVersion, SavedVersion, PublicationInv, TypeOK
  <2>2. versions[n] \in VersionRows
    BY <1>1 DEF PublicationInv, TypeOK
  <2>3. [versions[n] EXCEPT !.status = SavedStatus(s), !.serverId = SavedServerId(s)] = new
    BY <2>2, SavedRow
  <2> QED BY <2>1, <2>3
<1>4. UNCHANGED <<Granted, Offered>>
  BY DEF PublishSaveVersion, motorVars, Granted, Offered
<1> HIDE DEF n
<1>5. CASE req[s].accepted
  <2>1. SavedStatus(s) = "ACCEPTED" /\ SavedServerId(s) = req[s].key
    BY <1>5 DEF SavedStatus, SavedServerId
  <2>2. History!Accept(n, req[s].key)
    BY <1>1, <1>2, <1>3, <1>4, <1>5, <2>1
    DEF History!Accept, History!Decide, KeyTaken, Granted
  <2> QED BY <1>1, <1>2, <2>2 DEF History!Next
<1>6. CASE ~req[s].accepted
  <2>1. SavedStatus(s) = "FAILED" /\ SavedServerId(s) = None
    BY <1>6 DEF SavedStatus, SavedServerId
  <2>2. History!Decide(n, "FAILED", None)
    BY <1>1, <1>3, <1>4, <2>1 DEF History!Decide
  <2> QED BY <1>1, <2>2 DEF History!Next
<1> QED BY <1>5, <1>6

\* The motor's first answer to a key may grant an identity.
LEMMA MotorGrants ==
  ASSUME PublicationInv, NEW k \in Keys, MotorHandle(k)
  PROVE  [History!Next]_History!hvars
<1>1. UNCHANGED <<versions, Offered>>
  BY DEF MotorHandle, Offered
<1>2. answers \in [Keys -> {"NONE", "ACCEPTED", "REJECTED"}]
  BY DEF PublicationInv, TypeOK
<1>3. Granted' = Granted \/ Granted' = Granted \cup {k}
  BY <1>2 DEF MotorHandle, Granted
<1>4. CASE Granted' = Granted
  BY <1>1, <1>4 DEF History!hvars
<1>5. CASE Granted' = Granted \cup {k}
  BY <1>1, <1>5 DEF History!Next, History!Grant
<1> QED BY <1>3, <1>4, <1>5

\* Every other step may only change whether the template is offered.
LEMMA OthersOffer ==
  ASSUME PublicationInv', UNCHANGED <<versions, answers>>
  PROVE  History!Next
<1>1. Offered' \in BOOLEAN /\ (Offered' => AcceptedVersions # {})
  BY DEF PublicationInv, PublishedIsUsable, AcceptedVersions, Offered
<1>2. UNCHANGED Granted
  BY DEF Granted
<1>3. History!Offer
  BY <1>1, <1>2 DEF History!Offer, History!Accepted, AcceptedVersions
<1> QED BY <1>3 DEF History!Next

\* Whatever publications, archivings, deletions, failures and restarts overlap, the
\* versions of a template are a history: it grows, and what is decided stays so.
THEOREM ImplementsHistory == Spec => ImplementsVersionHistory
<1>1. Init => PreviousAccepted /\ History!Init
  BY DEF Init, Idle, PreviousAccepted, History!Init, Granted, Offered
<1>2. PublicationInv /\ PreviousAccepted /\ [Next]_vars => PreviousAccepted'
  BY PreviousPreserved
<1>3. PublicationInv /\ PreviousAccepted /\ PublicationInv' /\ [Next]_vars
        => [History!Next]_History!hvars
  <2> SUFFICES ASSUME PublicationInv, PreviousAccepted, PublicationInv', [Next]_vars
               PROVE  [History!Next]_History!hvars
    OBVIOUS
  <2>1. CASE \E k \in Keys : MotorHandle(k)
    BY <2>1, MotorGrants
  <2>2. CASE \A k \in Keys : ~MotorHandle(k)
    <3>1. UNCHANGED answers
      BY <2>2, OtherStepsKeepAnswers
    <3>2. CASE UNCHANGED versions
      BY <3>1, <3>2, OthersOffer
    <3>3. CASE ~UNCHANGED versions
      BY <3>3, OtherStepsKeepVersions, CreateRequests, SaveDecides
    <3> QED BY <3>2, <3>3
  <2> QED BY <2>1, <2>2
<1> QED
  BY <1>1, <1>2, <1>3, PublicationInvariant, PTL
  DEF Spec, ImplementsVersionHistory, History!Spec

\* In particular, no step changes a version that was accepted: Gestiones refer to it.
THEOREM AcceptedImmutable ==
  Spec => [][\A i \in AcceptedVersions : versions'[i] = versions[i]]_vars
<1>1. PublicationInv /\ [Next]_vars => \A i \in AcceptedVersions : versions'[i] = versions[i]
  BY AcceptedKept
<1> QED BY <1>1, PublicationInvariant, PTL DEF Spec

-----------------------------------------------------------------------------
(* HistoryIsAChain fails only because requests overlap: one after the other, *)
(* whatever fails in them, they leave a chain.                               *)

\* From the read of the predecessor to the save.
Ahead == {"validate", "claim", "steps", "number", "create"} \cup Holding

\* A handler that names a predecessor found no later accepted version since, and the
\* version it inserted names the same.
Follows(s) ==
    /\ req[s].pc \in Ahead /\ req[s].previous # None
         => \A j \in AcceptedVersions : j <= req[s].previous
    /\ req[s].pc \in Holding => versions[req[s].number].previous = req[s].previous

\* A version comes after its predecessor.
Forward == \A i \in DOMAIN versions : versions[i].previous # None => versions[i].previous < i

ChainInv == Forward /\ HistoryIsAChain /\ \A s \in Slots : Follows(s)

OneAtATime == \A s, t \in Slots : s = t

\* A handler that writes no version keeps its predecessor, or has just read it.
LEMMA HandlerFollows ==
  ASSUME TypeOK, NEW s \in Slots, Follows(s), UNCHANGED versions,
         Publish(s) \/ Edit(s) \/ Retire(s) \/ StatementFails(s),
         ~PublishCreate(s), ~PublishSaveVersion(s)
  PROVE  Follows(s)'
<1> USE DEF Ahead, Holding
<1>0. req \in [Slots -> Requests] /\ AcceptedVersions' = AcceptedVersions
  BY DEF TypeOK, AcceptedVersions
<1>1. ASSUME NEW p \in Points, Goto(s, p), p \in Ahead => req[s].pc \in Ahead,
             p \in Holding => req[s].pc \in Holding
      PROVE  Follows(s)'
  BY <1>0, <1>1 DEF Goto, Requests, Follows
<1>2. ASSUME Finish(s) PROVE Follows(s)'
  BY <1>0, <1>2 DEF Finish, Idle, Follows
<1>3. ASSUME PublishRead(s) \/ RepublishRead(s) PROVE Follows(s)'
  BY <1>0, <1>3 DEF PublishRead, RepublishRead, Idle, Follows
<1>4. ASSUME RepublishReadsLatest(s) PROVE Follows(s)'
  <2>1. CASE ~Finish(s)
    <3>1. PICK i \in AcceptedVersions :
            /\ \A j \in AcceptedVersions : j <= i
            /\ req' = [req EXCEPT ![s] = [@ EXCEPT !.previous = i, !.pc = "validate"]]
      BY <1>4, <2>1 DEF RepublishReadsLatest, IsLatestAccepted
    <3>2. req'[s] = [req[s] EXCEPT !.previous = i, !.pc = "validate"]
      BY <1>0, <3>1
    <3>3. /\ [req[s] EXCEPT !.previous = i, !.pc = "validate"].previous = i
          /\ [req[s] EXCEPT !.previous = i, !.pc = "validate"].pc = "validate"
      BY <1>0 DEF Requests
    <3> QED BY <1>0, <3>1, <3>2, <3>3 DEF Follows
  <2> QED BY <1>2, <2>1
<1>5. ASSUME PublishNumber(s) PROVE Follows(s)'
  BY <1>0, <1>5 DEF PublishNumber, Requests, Follows
<1>6. ASSUME PublishAnswered(s) PROVE Follows(s)'
  BY <1>0, <1>6 DEF PublishAnswered, Requests, Follows
<1>7. ASSUME \/ PublishValidate(s) \/ PublishClaim(s) \/ PublishReadSteps(s)
             \/ PublishNotEligible(s) \/ PublishCallMotor(s) \/ PublishTimesOut(s)
             \/ PublishFinal(s) \/ PublishAudit(s) \/ PublishCatch(s)
      PROVE Follows(s)'
  BY <1>1, <1>2, <1>7
  DEF PublishValidate, PublishClaim, PublishReadSteps, PublishNotEligible, PublishCallMotor,
      PublishTimesOut, PublishFinal, PublishAudit, PublishCatch, Points, Claimed
<1>8. ASSUME Edit(s) \/ Retire(s) \/ StatementFails(s) PROVE Follows(s)'
  BY <1>1, <1>2, <1>8
  DEF Edit, EditRead, EditWrite, Retire, ArchiveRead, ReopenRead, DeleteRead, WriteRow,
      DropSteps, DropRow, StatementFails, Points, Claimed
<1> QED BY <1>3, <1>4, <1>5, <1>6, <1>7, <1>8 DEF Publish

\* The version inserted follows the handler's predecessor, which is there.
LEMMA CreateFollows ==
  ASSUME PublicationInv, PreviousAccepted, ChainInv, OneAtATime,
         NEW s \in Slots, PublishCreate(s), ~UNCHANGED versions
  PROVE  ChainInv'
<1> DEFINE n == Len(versions) + 1
           new == [status |-> "REQUESTED", serverId |-> None, previous |-> req[s].previous]
<1>1. /\ versions' = Append(versions, new) /\ Goto(s, "send")
      /\ req[s].pc = "create" /\ req[s].number = n
  BY DEF PublishCreate
<1>2. versions \in Seq(VersionRows) /\ new \in VersionRows /\ req \in [Slots -> Requests]
  BY DEF PublicationInv, TypeOK, Requests, VersionRows
<1>3. /\ DOMAIN versions' = DOMAIN versions \cup {n}
      /\ \A i \in DOMAIN versions : versions'[i] = versions[i] /\ i < n
      /\ versions'[n].status = "REQUESTED" /\ versions'[n].previous = req[s].previous
  BY <1>1, <1>2
<1> HIDE DEF n, new
<1>4. AcceptedVersions' = AcceptedVersions /\ AcceptedVersions \subseteq DOMAIN versions
  BY <1>3 DEF AcceptedVersions
<1>5. Forward'
  BY <1>3, <1>4 DEF Forward, ChainInv, PreviousAccepted
<1>6. HistoryIsAChain'
  BY <1>3, <1>4 DEF HistoryIsAChain, ChainInv
<1>7. Follows(s)'
  <2>1. /\ req'[s].pc = "send" /\ req'[s].previous = req[s].previous
        /\ req'[s].number = req[s].number
    BY <1>1, <1>2 DEF Goto, Requests
  <2> QED BY <1>1, <1>3, <1>4, <2>1 DEF ChainInv, Follows, Ahead
<1> QED BY <1>5, <1>6, <1>7 DEF ChainInv, OneAtATime

\* An accepted version that follows the same predecessor would have come after it.
LEMMA SaveFollows ==
  ASSUME PublicationInv, PreviousAccepted, ChainInv, OneAtATime,
         NEW s \in Slots, PublishSaveVersion(s), ~UNCHANGED versions
  PROVE  ChainInv'
<1> DEFINE n == req[s].number
<1>1. /\ req[s].pc = "save" /\ Goto(s, "final")
      /\ n \in DOMAIN versions
      /\ DOMAIN versions' = DOMAIN versions
      /\ \A i \in DOMAIN versions \ {n} : versions'[i] = versions[i]
  BY SaveChanges
<1>2. versions'[n].previous = versions[n].previous
  <2>1. versions' = [versions EXCEPT ![n] = [versions[n] EXCEPT !.status = SavedStatus(s),
                                                     !.serverId = SavedServerId(s)]]
    BY <1>1, SaveChanges DEF PublishSaveVersion, SavedVersion, PublicationInv, TypeOK
  <2>2. versions[n] \in VersionRows
    BY <1>1 DEF PublicationInv, TypeOK
  <2>3. versions'[n] = [status |-> SavedStatus(s), serverId |-> SavedServerId(s),
                        previous |-> versions[n].previous]
    BY <1>1, <2>1, <2>2, SavedRow DEF PublicationInv, TypeOK
  <2> QED BY <2>3
<1>3. versions[n].previous = req[s].previous
  BY <1>1 DEF ChainInv, Follows, Holding
<1> HIDE DEF n
<1>4. AcceptedVersions' \subseteq AcceptedVersions \cup {n}
  BY <1>1 DEF AcceptedVersions
<1>5. \A i \in DOMAIN versions : versions'[i].previous = versions[i].previous
  BY <1>1, <1>2
<1>6. \A i \in AcceptedVersions :
        req[s].previous # None => versions[i].previous # req[s].previous
  <2>1. SUFFICES ASSUME NEW i \in AcceptedVersions, req[s].previous # None,
                        versions[i].previous = req[s].previous
                 PROVE  FALSE
    OBVIOUS
  <2>2. i <= req[s].previous
    BY <1>1, <2>1 DEF ChainInv, Follows, Ahead, Holding
  <2>3. req[s].previous < i
    BY <2>1 DEF ChainInv, Forward, AcceptedVersions
  <2>4. i \in Nat /\ req[s].previous \in Nat
    BY <2>1 DEF AcceptedVersions, PublicationInv, TypeOK, Requests
  <2> QED BY <2>2, <2>3, <2>4
<1>7. Forward'
  BY <1>1, <1>5 DEF Forward, ChainInv
<1>8. HistoryIsAChain'
  <2>1. AcceptedVersions \subseteq DOMAIN versions
    BY DEF AcceptedVersions
  <2> QED BY <1>1, <1>3, <1>4, <1>5, <1>6, <2>1 DEF HistoryIsAChain, ChainInv
<1>9. Follows(s)'
  BY <1>1 DEF Goto, PublicationInv, TypeOK, Requests, Follows, Ahead, Holding
<1> QED BY <1>7, <1>8, <1>9 DEF ChainInv, OneAtATime

LEMMA ChainPreserved ==
  ASSUME PublicationInv, PreviousAccepted, ChainInv, OneAtATime, [Next]_vars
  PROVE  ChainInv'
<1>1. UNCHANGED versions => Forward' /\ HistoryIsAChain'
  BY DEF ChainInv, Forward, HistoryIsAChain, AcceptedVersions
<1>2. ASSUME NEW s \in Slots, Publish(s) \/ Edit(s) \/ Retire(s) \/ StatementFails(s)
      PROVE  ChainInv'
  <2>1. CASE ~UNCHANGED versions
    <3>1. PICK t \in Slots : PublishCreate(t) \/ PublishSaveVersion(t)
      BY <2>1, OtherStepsKeepVersions
    <3> QED BY <2>1, <3>1, CreateFollows, SaveFollows
  <2>2. CASE UNCHANGED versions /\ ~PublishCreate(s) /\ ~PublishSaveVersion(s)
    <3>1. Follows(s)'
      BY <1>2, <2>2, HandlerFollows DEF ChainInv, PublicationInv
    <3> QED BY <1>1, <2>2, <3>1 DEF ChainInv, OneAtATime
  <2>3. CASE UNCHANGED versions /\ PublishCreate(s)
    <3>1. Goto(s, "catch")
      <4>1. versions \in Seq(VersionRows)
        BY DEF PublicationInv, TypeOK
      <4>2. ~UNCHANGED versions \/ Goto(s, "catch")
        BY <2>3, <4>1 DEF PublishCreate
      <4> QED BY <2>3, <4>2
    <3>2. Follows(s)'
      BY <3>1 DEF Goto, PublicationInv, TypeOK, Requests, Follows, Ahead, Holding
    <3> QED BY <1>1, <2>3, <3>2 DEF ChainInv, OneAtATime
  <2>4. CASE UNCHANGED versions /\ PublishSaveVersion(s)
    <3>1. Goto(s, "catch") \/ Goto(s, "final")
      BY <2>4 DEF PublishSaveVersion
    <3>2. Follows(s)'
      BY <3>1 DEF Goto, PublicationInv, TypeOK, Requests, Follows, Ahead, Holding
    <3> QED BY <1>1, <2>4, <3>2 DEF ChainInv, OneAtATime
  <2> QED BY <2>1, <2>2, <2>3, <2>4
<1>3. CASE Crash
  <2>1. UNCHANGED versions /\ \A s \in Slots : req'[s].pc = "idle"
    BY <1>3 DEF Crash, Idle
  <2> QED BY <1>1, <2>1 DEF ChainInv, Follows, Ahead, Holding
<1>4. CASE UNCHANGED <<req, versions>>
  BY <1>1, <1>4 DEF ChainInv, Follows, AcceptedVersions
<1> QED BY <1>2, <1>3, <1>4 DEF Next, MotorHandle, vars

\* Served one at a time, publications and updates leave versions that "read as an
\* explicit chain": no two accepted versions follow the same one.
THEOREM SequentialHistoryIsAChain ==
  ASSUME OneAtATime PROVE Spec => []HistoryIsAChain
<1>1. Init => PreviousAccepted /\ ChainInv
  BY DEF Init, Idle, PreviousAccepted, ChainInv, Forward, HistoryIsAChain, AcceptedVersions,
         Follows, Ahead, Holding
<1>2. PublicationInv /\ PreviousAccepted /\ ChainInv /\ [Next]_vars
        => PreviousAccepted' /\ ChainInv'
  BY PreviousPreserved, ChainPreserved
<1>3. ChainInv => HistoryIsAChain
  BY DEF ChainInv
<1> QED BY <1>1, <1>2, <1>3, PublicationInvariant, PTL DEF Spec
=============================================================================
