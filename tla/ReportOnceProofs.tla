--------------------------- MODULE ReportOnceProofs ---------------------------
(***************************************************************************)
(* Workflow implements ReportOnce: every step of the program reserves,     *)
(* authorises, sends or marks the workflow reported as the abstract        *)
(* specification allows, or changes nothing of what it speaks of.          *)
(***************************************************************************)
EXTENDS ReportingProofs

\* What processes hold after ProofKnown is a proof they asked for.
ProvedClaims == \A p \in Proc : call[p].stage = "proved" => call[p].proof \in Claim

\* Every step keeps the proofs that processes carry claims.
LEMMA ProvedClaimsStep ==
  ASSUME StoreTypeOK, ProvedClaims, [Next]_deliveryVars
  PROVE  ProvedClaims'
<1>0. call \in [Proc -> Call] BY DEF StoreTypeOK
<1>1. ASSUME NEW p \in Proc, CheckpointRead(p) \/ RecoverRead(p) \/ ReserveRead(p)
      PROVE  \A q \in Proc : call'[q].stage = "proved" => call'[q] = call[q]
  BY <1>0, <1>1 DEF CheckpointRead, RecoverRead, ReserveRead, NoCall
<1>2. ASSUME NEW p \in Proc, CheckpointBegin(p) \/ RecoverBegin(p) \/ ReserveBegin(p)
      PROVE  \A q \in Proc : call'[q].stage = "proved" => call'[q] = call[q]
  <2>1. CASE CheckpointBegin(p) BY <1>0, <2>1 DEF CheckpointBegin, NoCall
  <2>2. CASE RecoverBegin(p)
    <3>1. call' = [call EXCEPT ![p] = [NoCall EXCEPT !.stage = "leased", !.id = Fresh]]
      BY <2>2 DEF RecoverBegin
    <3> QED BY <1>0, <3>1 DEF NoCall
  <2>3. CASE ReserveBegin(p)
    <3>1. call' = [call EXCEPT ![p].stage = "authorised"] BY <2>3 DEF ReserveBegin
    <3> QED BY <1>0, <3>1 DEF Call
  <2> QED BY <1>2, <2>1, <2>2, <2>3
<1>3. ASSUME NEW p \in Proc, \/ RecoverReply(p) \/ Leave(p) \/ ReserveReply(p)
                             \/ CompleteBegin(p) \/ CompleteAdopt(p)
      PROVE  \A q \in Proc : call'[q].stage = "proved" => call'[q] = call[q]
  BY <1>0, <1>3 DEF RecoverReply, Leave, ReserveReply, CompleteBegin, CompleteAdopt, NoCall
<1>4. CASE Crash
  BY <1>0, <1>4 DEF Crash, NoCall, ProvedClaims
<1>5. ASSUME NEW p \in Proc, ProofKnown(p) PROVE ProvedClaims'
  <2>1. PICK proof \in Claim :
          call' = [call EXCEPT ![p] = [NoCall EXCEPT !.stage = "proved", !.proof = proof]]
    BY <1>5 DEF ProofKnown
  <2>2. call'[p].proof = proof /\ \A q \in Proc : q # p => call'[q] = call[q]
    BY <1>0, <2>1 DEF NoCall
  <2> QED BY <2>2 DEF ProvedClaims
<1>6. CASE \/ CheckpointWrite \/ NoteWrite \/ RoundWrite \/ RecoverWrite \/ Tick \/ DeliveryWrite
           \/ \E p \in Proc : \/ NoteBegin(p) \/ RoundBegin(p) \/ Send(p) \/ LoseSender(p)
                              \/ ProofRecord(p) \/ ProofAdopt(p)
           \/ UNCHANGED deliveryVars
  <2>1. call' = call
    BY <1>6 DEF CheckpointWrite, NoteWrite, RoundWrite, RecoverWrite, Tick, DeliveryWrite,
       NoteBegin, RoundBegin, Send, LoseSender, ProofRecord, ProofAdopt, deliveryVars, storeVars
  <2> QED BY <2>1 DEF ProvedClaims
<1> QED BY <1>1, <1>2, <1>3, <1>4, <1>5, <1>6 DEF ProvedClaims, Next, LifeStep, ReportStep

-----------------------------------------------------------------------------
\* What the abstract specification sees.
View == <<Reserved # {}, authorised, sent, wf.reported.msg>>

\* ReportAgrees without the part on processes.
WritesAgree ==
  /\ wf.status # "reported" => wf.reported.msg = None
  /\ tx.cmd \notin {"none", "complete"} => tx.wf.reported = wf.reported
  /\ tx.cmd = "complete" =>
       /\ wf.reported.msg = None /\ Reserved # {}
       /\ tx.wf.status = "reported" /\ tx.wf.reported.msg \in Message

\* A step that writes no file is a stutter of the abstract specification, and
\* keeps ReportAgrees unless it opens a section that does not.
LEMMA NoWriteImplements ==
  ASSUME WritesAgree, UNCHANGED <<files, channel>>,
         \/ tx' = tx \/ tx' = NoTx
         \/ tx'.cmd \notin {"none", "complete"} /\ tx'.wf.reported = wf.reported
         \/ /\ tx'.cmd = "complete" /\ wf.reported.msg = None /\ Reserved # {}
            /\ tx'.wf.status = "reported" /\ tx'.wf.reported.msg \in Message
  PROVE  WritesAgree' /\ View' = View
<1>1. UNCHANGED <<wf, owing, authorised, sent>> /\ Reserved' = Reserved
  BY DEF files, channel, Reserved, EventsOf
<1>2. View' = View BY <1>1 DEF View
<1> QED BY <1>1, <1>2 DEF WritesAgree, NoTx

\* Checkpoints, notes, recoveries and giving up change nothing of the promise.
LEMMA LifeImplements ==
  ASSUME WritesAgree, StoreTypeOK, ReportingAgrees, LifeStep, UNCHANGED channel
  PROVE  WritesAgree' /\ View' = View
<1>1. CASE \/ \E p \in Proc : CheckpointRead(p) \/ RecoverRead(p) \/ RecoverReply(p) \/ Leave(p)
           \/ Tick \/ Crash
  <2>1. UNCHANGED files /\ (tx' = tx \/ tx' = NoTx)
    BY <1>1 DEF CheckpointRead, RecoverRead, RecoverReply, Leave, Tick, Crash
  <2> QED BY <2>1, NoWriteImplements
<1>2. ASSUME NEW p \in Proc,
             CheckpointBegin(p) \/ NoteBegin(p) \/ RoundBegin(p) \/ RecoverBegin(p)
      PROVE  WritesAgree' /\ View' = View
  <2>1. UNCHANGED files BY <1>2 DEF CheckpointBegin, NoteBegin, RoundBegin, RecoverBegin
  <2>2. wf \in Record BY DEF StoreTypeOK
  <2>3. CASE CheckpointBegin(p)
    <3>1. PICK before, after, status, gated, snapshot, cited :
            Open(p, "checkpoint", "mark",
                 Checkpointed(Fresh, before, after, status, gated, snapshot),
                 CheckpointEvent(Fresh, cited), Fresh)
      BY <2>3, CheckpointBeginParts
    <3>2. tx'.cmd = "checkpoint" /\ tx'.wf = Checkpointed(Fresh, before, after, status, gated, snapshot)
      BY <3>1 DEF Open
    <3>3. tx'.wf.reported = wf.reported BY <2>2, <3>2 DEF Checkpointed, Record
    <3> QED BY <2>1, <3>2, <3>3, NoWriteImplements
  <2>4. CASE NoteBegin(p) \/ RoundBegin(p)
    <3>1. tx'.cmd \in {"note", "round"} /\ tx'.wf = wf BY <2>4 DEF NoteBegin, RoundBegin, Open
    <3> QED BY <2>1, <3>1, NoWriteImplements
  <2>5. CASE RecoverBegin(p)
    <3>1. tx'.cmd = "recover" BY <2>5 DEF RecoverBegin, Open
    <3>2. tx'.wf.reported = wf.reported BY <2>2, <2>5 DEF RecoverBegin, Open, Record
    <3> QED BY <2>1, <3>1, <3>2, NoWriteImplements
  <2> QED BY <1>2, <2>3, <2>4, <2>5
<1>3. CASE CheckpointWrite \/ NoteWrite \/ RoundWrite \/ RecoverWrite
  <2>1. tx.cmd \in LifeCommand
    BY <1>3 DEF CheckpointWrite, NoteWrite, RoundWrite, RecoverWrite, LifeCommand
  <2>2. tx.event \in Event /\ tx.event.type # "delivery_reserved" /\ tx \in Tx /\ tx.wf \in Record
    BY <2>1 DEF StoreTypeOK, Tx, ReportingAgrees, LockedSection, DeliveryEvent
  <2>3. LeaseEvent("lease_released", wf.lease.id) \in Event
        /\ LeaseEvent("lease_released", wf.lease.id).type # "delivery_reserved"
    BY LeaseReleasedTyped DEF LeaseEvent, NoEvent
  <2>4. Reserved' = Reserved
    BY <1>3, <2>2, <2>3, ReservedKept DEF CheckpointWrite, NoteWrite, RoundWrite, RecoverWrite,
       WritePendingCheckpoint, AppendEvent, AppendWorklog, SaveWorkflow, ClearPendingCheckpoint,
       WritePendingRecovery, ClearPendingRecovery
  <2>5. tx' = NoTx \/ tx' = [tx EXCEPT !.step = tx'.step]
    BY <1>3, <2>2 DEF CheckpointWrite, NoteWrite, RoundWrite, RecoverWrite, Proceed, Tx
  <2>6. wf' = wf \/ (SaveWorkflow /\ tx.step = "save")
    BY <1>3 DEF CheckpointWrite, NoteWrite, RoundWrite, RecoverWrite,
       WritePendingCheckpoint, AppendEvent, AppendWorklog, ClearPendingCheckpoint,
       WritePendingRecovery, ClearPendingRecovery
  <2>7. wf' = wf \/ (wf.status \notin Terminal /\ wf'.reported = tx.wf.reported)
    BY <2>1, <2>2, <2>6 DEF ReportingAgrees, LockedSection, SaveWorkflow, Record
  <2>8. wf'.reported = wf.reported /\ (wf' = wf \/ wf.status # "reported")
    BY <2>1, <2>7 DEF WritesAgree, LifeCommand, Terminal
  <2>9. tx' = NoTx \/ (tx'.cmd = tx.cmd /\ tx'.wf = tx.wf)
    BY <2>2, <2>5 DEF Tx
  <2>10. View' = View BY <2>4, <2>8 DEF View, channel
  <2>11. WritesAgree' BY <2>1, <2>4, <2>8, <2>9 DEF WritesAgree, NoTx, LifeCommand
  <2> QED BY <2>10, <2>11
<1> QED BY <1>1, <1>2, <1>3 DEF LifeStep

-----------------------------------------------------------------------------
\* Opening the lock to reserve, prove or complete is a stutter too.
LEMMA OpenImplements ==
  ASSUME WritesAgree, ProvedClaims, StoreTypeOK, NEW p \in Proc,
         \/ ReserveRead(p) \/ ReserveBegin(p) \/ ProofRecord(p) \/ ProofAdopt(p) \/ ProofKnown(p)
         \/ CompleteBegin(p) \/ CompleteAdopt(p)
  PROVE  WritesAgree' /\ View' = View
<1>1. UNCHANGED <<files, channel>>
  BY DEF ReserveRead, ReserveBegin, ProofRecord, ProofAdopt, ProofKnown, CompleteBegin,
         CompleteAdopt
<1>2. wf \in Record BY DEF StoreTypeOK
<1>3. CASE ReserveRead(p) \/ ProofKnown(p)
  BY <1>1, <1>3, NoWriteImplements DEF ReserveRead, ProofKnown
<1>4. CASE ReserveBegin(p)
  <2>1. tx'.cmd = "reserve" BY <1>4 DEF ReserveBegin, Open
  <2>2. tx'.wf.reported = wf.reported BY <1>2, <1>4 DEF ReserveBegin, Open, Record
  <2> QED BY <1>1, <2>1, <2>2, NoWriteImplements
<1>5. CASE ProofRecord(p) \/ ProofAdopt(p)
  <2>1. PICK proof \in Claim : tx'.cmd = "proof" /\ tx'.wf = [wf EXCEPT !.proof = proof]
    BY <1>5 DEF ProofRecord, ProofAdopt, Open
  <2>2. tx'.wf.reported = wf.reported BY <1>2, <2>1 DEF Record
  <2> QED BY <1>1, <2>1, <2>2, NoWriteImplements
<1>6. CASE CompleteBegin(p) \/ CompleteAdopt(p)
  <2>1. /\ tx'.cmd = "complete" /\ tx'.wf = Reported(call[p].proof)
        /\ Single(ReservedAs(call[p].proof.rsv)) /\ wf.status \in Unreported
        /\ call[p].stage = "proved"
    BY <1>6 DEF CompleteBegin, CompleteAdopt, Open, ReportContext
  <2>2. call[p].proof.msg \in Message BY <2>1 DEF ProvedClaims, Claim
  <2>3. tx'.wf.status = "reported" /\ tx'.wf.reported.msg = call[p].proof.msg
    BY <1>2, <2>1 DEF Reported, Record
  <2>4. wf.reported.msg = None BY <2>1 DEF WritesAgree, Unreported
  <2>5. Reserved # {} BY <2>1, SingleReserved
  <2> QED BY <1>1, <2>1, <2>2, <2>3, <2>4, <2>5, NoWriteImplements
<1> QED BY <1>3, <1>4, <1>5, <1>6

\* Logging the reservation reserves, saving the report marks it.
LEMMA WriteImplements ==
  ASSUME WritesAgree, StoreTypeOK, ReportingAgrees, DeliveryWrite
  PROVE  WritesAgree' /\ [Once!OnceNext]_View
<1>1. /\ tx \in Tx /\ tx.wf \in Record /\ tx.event \in Event /\ UNCHANGED <<owing, authorised, sent>>
      /\ tx.cmd \in DeliveryCommand
  BY DEF StoreTypeOK, Tx, DeliveryWrite, channel, DeliveryCommand
<1>2. CASE Reserving
  <2>1. /\ wf' = wf /\ events' = Append(events, tx.event)
        /\ tx' = [tx EXCEPT !.step = "save"] /\ tx.cmd = "reserve"
    BY <1>2 DEF DeliveryWrite, AppendEvent, Proceed, DeliveryOrder, Reserving
  <2>2. Reserved = {} /\ tx.event.type = "delivery_reserved"
    BY <1>2 DEF ReportingAgrees, FirstReservation, Reserved
  <2>3. Reserved' # {}
    BY <1>1, <2>1, <2>2, Appended DEF Reserved, StoreTypeOK
  <2>4. Once!Reserve BY <1>1, <2>1, <2>2, <2>3 DEF Once!Reserve, Reserved
  <2>5. tx'.cmd = "reserve" /\ tx'.wf = tx.wf BY <1>1, <2>1 DEF Tx
  <2>6. WritesAgree' BY <2>1, <2>5 DEF WritesAgree
  <2> QED BY <2>4, <2>6 DEF Once!OnceNext
<1>3. CASE ~Reserving /\ tx.step = "append"
  <2>1. /\ wf' = wf /\ events' = Append(events, tx.event)
        /\ tx' = [tx EXCEPT !.step = "save"]
    BY <1>3 DEF DeliveryWrite, AppendEvent, Proceed, DeliveryOrder
  <2>2. tx.event.type # "delivery_reserved"
    BY <1>1, <1>3 DEF ReportingAgrees, LockedSection, Reserving
  <2>3. Reserved' = Reserved BY <1>1, <2>1, <2>2, ReservedKept
  <2>4. tx'.cmd = tx.cmd /\ tx'.wf = tx.wf BY <1>1, <2>1 DEF Tx
  <2>5. WritesAgree' BY <2>1, <2>3, <2>4 DEF WritesAgree
  <2>6. View' = View BY <1>1, <2>1, <2>3 DEF View
  <2> QED BY <2>5, <2>6
<1>4. CASE tx.step # "append"
  <2>1. /\ wf' = [tx.wf EXCEPT !.lastActivity = now] /\ events' = events /\ tx' = NoTx
    BY <1>4 DEF DeliveryWrite, SaveWorkflow, Proceed, DeliveryOrder
  <2>2. Reserved' = Reserved BY <2>1 DEF Reserved, EventsOf
  <2>3. wf'.status = tx.wf.status /\ wf'.reported = tx.wf.reported
    BY <1>1, <2>1 DEF Record
  <2>4. CASE tx.cmd = "complete"
    <3>1. WritesAgree' BY <2>1, <2>2, <2>3, <2>4 DEF WritesAgree, NoTx
    <3>2. Once!MarkReported
      BY <1>1, <2>2, <2>3, <2>4 DEF WritesAgree, Once!MarkReported, Reserved
    <3> QED BY <3>1, <3>2 DEF Once!OnceNext
  <2>5. CASE tx.cmd # "complete"
    <3>1. wf'.reported = wf.reported
      BY <1>1, <2>3, <2>5 DEF WritesAgree, DeliveryCommand
    <3>2. wf'.status # "reported" => wf.status # "reported"
      BY <1>1, <2>3 DEF ReportingAgrees, LockedSection
    <3>3. WritesAgree' BY <2>1, <2>2, <3>1, <3>2 DEF WritesAgree, NoTx
    <3>4. View' = View BY <1>1, <2>2, <3>1 DEF View
    <3> QED BY <3>3, <3>4
  <2> QED BY <2>4, <2>5
<1> QED BY <1>2, <1>3, <1>4

\* Printing the answer authorises, posting the message sends.
LEMMA ChannelImplements ==
  ASSUME WritesAgree, StoreTypeOK, ReportingAgrees, NEW p \in Proc,
         ReserveReply(p) \/ Send(p) \/ LoseSender(p)
  PROVE  WritesAgree' /\ [Once!OnceNext]_View
<1>1. UNCHANGED <<wf, events, tx>> /\ Reserved' = Reserved
  BY DEF ReserveReply, Send, LoseSender, storeVars, files, Reserved, EventsOf
<1>2. WritesAgree' BY <1>1 DEF WritesAgree
<1>3. CASE ReserveReply(p)
  <2>1. authorised = 0 /\ (~Reserving \/ tx.by = p)
    BY <1>3 DEF ReserveReply, ReportingAgrees, FirstReservation, UnlockedReads, Reserving
  <2>2. Reserved # {}
    BY <1>3 DEF ReserveReply, ReportingAgrees, UnlockedReads, Reserved
  <2>3. authorised' = 1 /\ sent' = sent BY <1>3, <2>1 DEF ReserveReply
  <2>4. Once!Authorise BY <1>1, <2>1, <2>2, <2>3 DEF Once!Authorise, Reserved
  <2> QED BY <1>2, <2>4 DEF Once!OnceNext
<1>4. CASE Send(p)
  <2>1. authorised = 1 /\ sent = {} /\ authorised' = authorised
    BY <1>4 DEF Send, ReportingAgrees, OnePermission
  <2>2. \E msg \in Message : sent' = {msg} BY <1>4, <2>1 DEF Send
  <2>3. Once!Send BY <1>1, <2>1, <2>2 DEF Once!Send, Reserved
  <2> QED BY <1>2, <2>3 DEF Once!OnceNext
<1>5. CASE LoseSender(p)
  <2>1. View' = View BY <1>1, <1>5 DEF LoseSender, View
  <2> QED BY <1>2, <2>1
<1> QED BY <1>3, <1>4, <1>5

-----------------------------------------------------------------------------
\* ReportAgrees is what the writes save and what the calls carry.
LEMMA ReportAgreesParts == ReportAgrees <=> WritesAgree /\ ProvedClaims
BY DEF ReportAgrees, WritesAgree, ProvedClaims, Reserved

\* Every step is a step of ReportOnce or a stutter, and keeps ReportAgrees.
LEMMA StepImplements ==
  DeliveryTypeOK /\ ReportingAgrees /\ ReportAgrees /\ [Next]_deliveryVars
    => ReportAgrees' /\ [Once!OnceNext]_View
<1> SUFFICES ASSUME DeliveryTypeOK, ReportingAgrees, ReportAgrees, [Next]_deliveryVars
             PROVE  ReportAgrees' /\ [Once!OnceNext]_View
  OBVIOUS
<1>0. StoreTypeOK /\ WritesAgree /\ ProvedClaims BY ReportAgreesParts DEF DeliveryTypeOK
<1>1. ProvedClaims' BY <1>0, ProvedClaimsStep
<1>2. WritesAgree' /\ [Once!OnceNext]_View
  <2>1. CASE LifeStep /\ UNCHANGED channel BY <1>0, <2>1, LifeImplements
  <2>2. ASSUME NEW p \in Proc, \/ ReserveRead(p) \/ ReserveBegin(p) \/ ProofRecord(p)
                               \/ ProofAdopt(p) \/ ProofKnown(p)
                               \/ CompleteBegin(p) \/ CompleteAdopt(p)
        PROVE  WritesAgree' /\ [Once!OnceNext]_View
    BY <1>0, <2>2, OpenImplements
  <2>3. CASE DeliveryWrite BY <1>0, <2>3, WriteImplements
  <2>4. ASSUME NEW p \in Proc, ReserveReply(p) \/ Send(p) \/ LoseSender(p)
        PROVE  WritesAgree' /\ [Once!OnceNext]_View
    BY <1>0, <2>4, ChannelImplements
  <2>5. CASE UNCHANGED deliveryVars
    BY <1>0, <2>5, NoWriteImplements DEF deliveryVars, storeVars, files, channel
  <2> QED BY <2>1, <2>2, <2>3, <2>4, <2>5 DEF Next, ReportStep
<1>3. ReportAgrees' BY <1>1, <1>2, ReportAgreesParts DEF ReportAgrees, WritesAgree, ProvedClaims, Reserved
<1> QED BY <1>2, <1>3

\* A workflow just created has nothing reserved, authorised, sent or reported.
LEMMA InitImplements == Init => ReportAgrees /\ Once!OnceInit
<1> SUFFICES ASSUME Init PROVE ReportAgrees /\ Once!OnceInit OBVIOUS
<1>1. /\ wf = NewWorkflow /\ tx = NoTx /\ events = << >> /\ call = [p \in Proc |-> NoCall]
      /\ authorised = 0 /\ sent = {}
  BY DEF Init, StoreInit, ChannelInit
<1>2. EventsOf("delivery_reserved") = {} BY <1>1 DEF EventsOf
<1>3. wf.reported.msg = None /\ tx.cmd = "none" /\ \A p \in Proc : call[p].stage = "idle"
  BY <1>1 DEF NewWorkflow, NoReport, NoTx, NoCall
<1> QED BY <1>1, <1>2, <1>3 DEF ReportAgrees, Once!OnceInit

\* From its creation a workflow is reserved, authorised, sent and marked
\* reported at most once and in that order of permission, whatever processes
\* interleave and wherever they crash.
THEOREM WorkflowImplementsReportOnce == Spec => WorkflowReportsOnce
<1>1. DeliveryTypeOK /\ ReportingAgrees /\ ReportAgrees /\ [Next]_deliveryVars
        => ReportAgrees' /\ [Once!OnceNext]_(Once!onceVars)
  BY StepImplements DEF View, Once!onceVars, Reserved
<1> QED BY <1>1, WorkflowTyped, ReportingAlwaysAgrees, InitImplements, PTL
        DEF Spec, WorkflowReportsOnce, Once!OnceSpec
===============================================================================
