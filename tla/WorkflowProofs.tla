---------------------------- MODULE WorkflowProofs ----------------------------
(***************************************************************************)
(* Every step of Workflow keeps the types of the files, of the locked      *)
(* section and of what each command holds outside the lock.                *)
(***************************************************************************)
EXTENDS Workflow, TLAPS

USE StoreAssumption, CheckpointAssumption

\* The values that stand for an absent lease, proof, report, event or call are
\* members of their types.
LEMMA NothingTyped ==
  /\ NoLease \in Lease /\ NoDelivery \in Delivery /\ NoProof \in Proof
  /\ NoReport \in Report /\ NoEvent \in Event /\ NoCall \in Call
<1>1. NoId \in Id /\ 0 \in Cursor BY DEF NoId, Id, Cursor
<1> QED BY <1>1 DEF NoLease, Lease, NoDelivery, Delivery, NoProof, Proof, NoReport, Report,
         NoEvent, Event, EventType, NoCall, Call, Stage

\* A new workflow is a record, and no transaction is one.
LEMMA NewTyped == NewWorkflow \in Record /\ NoTx \in Tx
<1>1. NoId \in Id /\ 0 \in Cursor BY DEF NoId, Id, Cursor
<1>2. NewWorkflow \in Record
  BY <1>1, NothingTyped DEF NewWorkflow, Record, Status, Active, Terminal, Unreported
<1>3. NoTx \in Tx
  BY <1>1, <1>2, NothingTyped DEF NoTx, Tx, Command, Step
<1> QED BY <1>2, <1>3

\* What a transaction saves is a record.
LEMMA SaveTyped ==
  ASSUME StoreTypeOK, SaveWorkflow
  PROVE  wf' \in Record
BY DEF StoreTypeOK, SaveWorkflow, Tx, Record

\* What a checkpoint that passes every guard opens the lock with.
LEMMA CheckpointBeginParts ==
  ASSUME NEW p \in Proc, CheckpointBegin(p)
  PROVE  \E status \in Asked, advance \in BOOLEAN, cited \in {NoId, held[p]},
            gated \in BOOLEAN, snapshot \in BOOLEAN :
           LET before == call[p].cursor
               after == IF advance THEN before + 1 ELSE before
           IN /\ CanCheckpoint(status)
              /\ CursorMay(before, status, advance)
              /\ Open(p, "checkpoint", "mark",
                      Checkpointed(Fresh, before, after, status, gated, snapshot),
                      CheckpointEvent(Fresh, cited), Fresh)
<1>1. PICK status \in Asked, advance \in BOOLEAN, cited \in {NoId, held[p]} :
        LET before == call[p].cursor
            after == IF advance THEN before + 1 ELSE before
        IN /\ CanCheckpoint(status)
           /\ Unblocked(status)
           /\ LeaseAdmits(p, cited, before)
           /\ CursorMay(before, status, advance)
           /\ \E gated \in NextActions(status),
                 snapshot \in IF status \in Unreported THEN BOOLEAN ELSE {FALSE} :
                Open(p, "checkpoint", "mark",
                     Checkpointed(Fresh, before, after, status, gated, snapshot),
                     CheckpointEvent(Fresh, cited), Fresh)
  BY Zenon DEF CheckpointBegin
<1> DEFINE before == call[p].cursor
           after == IF advance THEN before + 1 ELSE before
<1>2. PICK gated \in NextActions(status),
            snapshot \in IF status \in Unreported THEN BOOLEAN ELSE {FALSE} :
         Open(p, "checkpoint", "mark",
              Checkpointed(Fresh, before, after, status, gated, snapshot),
              CheckpointEvent(Fresh, cited), Fresh)
  BY <1>1
<1>3. gated \in BOOLEAN /\ snapshot \in BOOLEAN BY <1>2 DEF NextActions
<1> QED BY <1>1, <1>2, <1>3

\* record_checkpoint computes a well typed workflow, with a lease or none and
\* a cursor that stays on the plan's steps.
LEMMA CheckpointBeginTyped ==
  ASSUME StoreTypeOK, NEW p \in Proc, CheckpointBegin(p)
  PROVE  StoreTypeOK'
<1>1. Fresh \in Id \ {NoId}
  BY DEF CheckpointBegin, StoreTypeOK, Fresh, Id, NoId
<1>2. PICK status \in Asked, advance \in BOOLEAN, cited \in {NoId, held[p]},
            gated \in BOOLEAN, snapshot \in BOOLEAN :
        LET before == call[p].cursor
            after == IF advance THEN before + 1 ELSE before
        IN /\ CanCheckpoint(status)
           /\ CursorMay(before, status, advance)
           /\ Open(p, "checkpoint", "mark",
                   Checkpointed(Fresh, before, after, status, gated, snapshot),
                   CheckpointEvent(Fresh, cited), Fresh)
  BY CheckpointBeginParts
<1> DEFINE before == call[p].cursor
           after == IF advance THEN before + 1 ELSE before
<1>3. before \in Cursor /\ after \in Cursor
  BY <1>2 DEF CursorMay, StoreTypeOK, Record, Call, Cursor
<1>4. Checkpointed(Fresh, before, after, status, gated, snapshot) \in Record
  <2>0. wf \in Record BY DEF StoreTypeOK
  <2>1. [id |-> Fresh, status |-> status, before |-> before, after |-> after] \in Entry
    BY <1>1, <1>3 DEF Entry
  <2>2. Append(wf.index, [id |-> Fresh, status |-> status, before |-> before, after |-> after]) \in Seq(Entry)
    BY <2>0, <2>1 DEF Record
  <2>3. (IF wf.lease.cursor = before THEN NoLease ELSE wf.lease) \in Lease
    BY <2>0, NothingTyped DEF Record
  <2> QED BY <2>0, <2>2, <2>3, <1>3 DEF Checkpointed, Record
<1>5. CheckpointEvent(Fresh, cited) \in Event
  <2>1. cited \in Id
    BY DEF StoreTypeOK, Id, NoId
  <2> QED BY <1>1, <2>1 DEF CheckpointEvent, NoEvent, Event, EventType
<1>6. tx' \in Tx
  BY <1>1, <1>2, <1>4, <1>5 DEF Open, Tx, Command, Step
<1>7. call' \in [Proc -> Call]
  BY NothingTyped DEF CheckpointBegin, StoreTypeOK
<1>8. minted' \in Id
  BY <1>1 DEF CheckpointBegin
<1> QED BY <1>6, <1>7, <1>8 DEF CheckpointBegin, StoreTypeOK, files

-----------------------------------------------------------------------------
\* Opening the lock with well typed parts leaves a well typed transaction.
LEMMA OpenTyped ==
  ASSUME NEW p \in Proc, NEW cmd \in Command, NEW step \in Step, NEW copy \in Record,
         NEW event \in Event, NEW id \in Id, Open(p, cmd, step, copy, event, id)
  PROVE  tx' \in Tx
BY DEF Open, Tx

\* An id drawn below the bound is an id.
LEMMA FreshTyped == StoreTypeOK /\ minted < MaxIds => Fresh \in Id \ {NoId}
BY DEF StoreTypeOK, Fresh, Id, NoId

\* Going to the next write leaves a well typed transaction.
LEMMA StepTyped ==
  ASSUME StoreTypeOK, NEW order, Proceed(order),
         order[tx.step] \in Step
  PROVE  tx' \in Tx
<1>1. CASE order[tx.step] = "idle"
  BY <1>1, NewTyped DEF Proceed
<1>2. CASE order[tx.step] # "idle"
  BY <1>2 DEF Proceed, StoreTypeOK, Tx
<1> QED BY <1>1, <1>2

\* One durable write keeps the types of the files.
LEMMA WriteTyped ==
  ASSUME StoreTypeOK, NEW event \in Event,
         \/ WritePendingCheckpoint \/ WritePendingRecovery \/ AppendEvent(event)
         \/ AppendWorklog \/ SaveWorkflow
         \/ ClearPendingCheckpoint \/ ClearPendingRecovery
  PROVE  /\ wf' \in Record /\ events' \in Seq(Event)
         /\ worklog' \in SUBSET Id /\ pendingChk' \in SUBSET Id /\ pendingRec' \in SUBSET Id
<1>0. tx.id \in Id BY DEF StoreTypeOK, Tx
<1>1. CASE WritePendingCheckpoint BY <1>0, <1>1 DEF WritePendingCheckpoint, StoreTypeOK
<1>2. CASE WritePendingRecovery BY <1>0, <1>2 DEF WritePendingRecovery, StoreTypeOK
<1>3. CASE AppendEvent(event) BY <1>3 DEF AppendEvent, StoreTypeOK
<1>4. CASE AppendWorklog BY <1>0, <1>4 DEF AppendWorklog, StoreTypeOK
<1>5. CASE SaveWorkflow BY <1>5, SaveTyped DEF SaveWorkflow, StoreTypeOK
<1>6. CASE ClearPendingCheckpoint BY <1>6 DEF ClearPendingCheckpoint, StoreTypeOK
<1>7. CASE ClearPendingRecovery BY <1>7 DEF ClearPendingRecovery, StoreTypeOK
<1> QED BY <1>1, <1>2, <1>3, <1>4, <1>5, <1>6, <1>7

\* Reading the cursor before the lock keeps the types.
LEMMA CheckpointReadTyped ==
  ASSUME StoreTypeOK, NEW p \in Proc, CheckpointRead(p)
  PROVE  StoreTypeOK'
<1>1. [NoCall EXCEPT !.stage = "checkpoint", !.cursor = wf.cursor] \in Call
  BY NothingTyped DEF StoreTypeOK, Record, Call, Stage
<1> QED BY <1>1 DEF CheckpointRead, StoreTypeOK, files, bounds

\* A write of a checkpoint keeps the types.
LEMMA CheckpointWriteTyped ==
  ASSUME StoreTypeOK, CheckpointWrite
  PROVE  StoreTypeOK'
<1>1. tx.event \in Event BY DEF StoreTypeOK, Tx
<1>2. CheckpointOrder[tx.step] \in Step BY DEF CheckpointWrite, CheckpointOrder, Step
<1>3. tx' \in Tx BY <1>2, StepTyped DEF CheckpointWrite
<1> QED BY <1>1, <1>3, WriteTyped DEF CheckpointWrite, StoreTypeOK, bounds

\* event and append-round open the lock on the workflow as it is, with a line that is
\* neither a checkpoint nor about a lease or delivery.
LEMMA RecordOpens ==
  ASSUME NEW p \in Proc, NoteBegin(p) \/ RoundBegin(p)
  PROVE  /\ MayRecord(p) /\ minted' = Fresh /\ UNCHANGED <<files, call, held, now, crashes>>
         /\ \E cmd \in {"note", "round"}, type \in {"owner_decision", "progress"} :
              Open(p, cmd, "append", wf, [NoEvent EXCEPT !.type = type], Fresh)
<1>1. CASE NoteBegin(p) BY <1>1, CheckpointAssumption DEF NoteBegin
<1>2. CASE RoundBegin(p) BY <1>2 DEF RoundBegin
<1> QED BY <1>1, <1>2

\* event and append-round keep the types.
LEMMA RecordTyped ==
  ASSUME StoreTypeOK, NoteWrite \/ RoundWrite \/ \E p \in Proc : NoteBegin(p) \/ RoundBegin(p)
  PROVE  StoreTypeOK'
<1>1. CASE NoteWrite \/ RoundWrite
  <2>1. tx.event \in Event BY DEF StoreTypeOK, Tx
  <2>2. tx' \in Tx
    BY <1>1, StepTyped DEF NoteWrite, RoundWrite, NoteOrder, RoundOrder, Step
  <2> QED BY <1>1, <2>1, <2>2, WriteTyped DEF NoteWrite, RoundWrite, StoreTypeOK, bounds
<1>2. ASSUME NEW p \in Proc, NoteBegin(p) \/ RoundBegin(p) PROVE StoreTypeOK'
  <2>1. PICK cmd \in {"note", "round"}, type \in {"owner_decision", "progress"} :
          Open(p, cmd, "append", wf, [NoEvent EXCEPT !.type = type], Fresh)
    BY <1>2, RecordOpens
  <2>2. [NoEvent EXCEPT !.type = type] \in Event
    BY NothingTyped DEF Event, EventType
  <2>3. MayRecord(p) /\ minted' = Fresh /\ UNCHANGED <<files, call, held, now, crashes>>
    BY <1>2, RecordOpens
  <2>4. Fresh \in Id BY <2>3, FreshTyped DEF MayRecord
  <2>5. tx' \in Tx
    BY <2>1, <2>2, <2>4, OpenTyped DEF StoreTypeOK, Command, Step
  <2> QED BY <2>3, <2>4, <2>5 DEF StoreTypeOK, files
<1> QED BY <1>1, <1>2

\* recover prepares a well typed lease.
LEMMA RecoverBeginTyped ==
  ASSUME StoreTypeOK, NEW p \in Proc, RecoverBegin(p)
  PROVE  StoreTypeOK'
<1>1. Fresh \in Id \ {NoId} BY FreshTyped DEF RecoverBegin
<1> DEFINE lease(seconds) == [id |-> Fresh, cursor |-> wf.cursor, holder |-> p,
                              expires |-> call[p].at + seconds]
<1>2. PICK seconds \in LeaseSeconds :
        Open(p, "recover", IF wf.lease.id = NoId THEN "mark" ELSE "release",
             [wf EXCEPT !.lease = lease(seconds)],
             LeaseEvent("recovery_lease_acquired", Fresh), Fresh)
  BY DEF RecoverBegin
<1>3. lease(seconds) \in Lease
  BY <1>1 DEF StoreTypeOK, Record, Call, Lease
<1>4. [wf EXCEPT !.lease = lease(seconds)] \in Record
  <2> HIDE DEF lease
  <2> QED BY <1>3 DEF StoreTypeOK, Record
<1>5. LeaseEvent("recovery_lease_acquired", Fresh) \in Event
  BY <1>1, NothingTyped DEF LeaseEvent, NoEvent, Event, EventType
<1>6. tx' \in Tx
  <2> HIDE DEF lease
  <2>1. (IF wf.lease.id = NoId THEN "mark" ELSE "release") \in Step BY DEF Step
  <2>2. "recover" \in Command BY DEF Command
  <2> QED BY <1>1, <1>2, <1>4, <1>5, <2>1, <2>2 DEF Open, Tx
<1>7. [NoCall EXCEPT !.stage = "leased", !.id = Fresh] \in Call
  BY <1>1, NothingTyped DEF Call, Stage
<1> QED BY <1>1, <1>6, <1>7 DEF RecoverBegin, StoreTypeOK, files

\* The line that releases the current lease is an event.
LEMMA LeaseReleasedTyped == StoreTypeOK => LeaseEvent("lease_released", wf.lease.id) \in Event
<1> SUFFICES ASSUME StoreTypeOK PROVE LeaseEvent("lease_released", wf.lease.id) \in Event
  OBVIOUS
<1>1. wf.lease.id \in Id BY DEF StoreTypeOK, Record, Lease, NoLease, NoId, Id
<1> QED BY <1>1, NothingTyped DEF LeaseEvent, NoEvent, Event, EventType

\* A write of a recover keeps the types.
LEMMA RecoverWriteTyped ==
  ASSUME StoreTypeOK, RecoverWrite
  PROVE  StoreTypeOK'
<1>1. tx.event \in Event BY DEF StoreTypeOK, Tx
<1>2. LeaseEvent("lease_released", wf.lease.id) \in Event BY LeaseReleasedTyped
<1>3. tx' \in Tx
  <2>1. RecoverOrder[tx.step] \in Step BY DEF RecoverWrite, RecoverOrder, Step
  <2> QED BY <2>1, StepTyped DEF RecoverWrite
<1> QED BY <1>1, <1>2, <1>3, WriteTyped DEF RecoverWrite, StoreTypeOK, bounds

\* What recover does outside the lock, and giving up, keep the types.
LEMMA RecoverCallTyped ==
  ASSUME StoreTypeOK, NEW p \in Proc, RecoverRead(p) \/ RecoverReply(p) \/ Leave(p)
  PROVE  StoreTypeOK'
<1>1. [NoCall EXCEPT !.stage = "recover", !.at = now] \in Call
  BY NothingTyped DEF StoreTypeOK, Call, Stage
<1>2. call[p].id \in Id BY DEF StoreTypeOK, Call
<1> QED BY <1>1, <1>2, NothingTyped DEF RecoverRead, RecoverReply, Leave, StoreTypeOK, files, bounds

\* A crash and the clock keep the types.
LEMMA EnvironmentTyped ==
  ASSUME StoreTypeOK, Crash \/ Tick
  PROVE  StoreTypeOK'
BY NothingTyped, NewTyped DEF Crash, Tick, StoreTypeOK, files

\* Every step of a checkpoint, a note or a recovery keeps the types.
LEMMA LifeTyped == StoreTypeOK /\ LifeStep => StoreTypeOK'
BY CheckpointReadTyped, CheckpointBeginTyped, CheckpointWriteTyped, RecordTyped,
   RecoverBeginTyped, RecoverWriteTyped, RecoverCallTyped, EnvironmentTyped DEF LifeStep

-----------------------------------------------------------------------------
\* What reserve-delivery does outside the lock keeps the types.
LEMMA ReserveCallTyped ==
  ASSUME StoreTypeOK, NEW p \in Proc, ReserveRead(p) \/ ReserveReply(p)
  PROVE  StoreTypeOK'
<1>1. ASSUME NEW k \in DOMAIN wf.index
      PROVE  [NoCall EXCEPT !.stage = "reserve", !.at = now, !.id = wf.index[k].id] \in Call
  <2>1. wf.index[k] \in Entry BY DEF StoreTypeOK, Record
  <2>2. wf.index[k].id \in Id BY <2>1 DEF Entry
  <2> QED BY <2>2, NothingTyped DEF StoreTypeOK, Call, Stage
<1>2. CASE ReserveRead(p)
  <2>1. PICK k \in DOMAIN wf.index :
          call' = [call EXCEPT ![p] = [NoCall EXCEPT !.stage = "reserve", !.at = now,
                                                    !.id = wf.index[k].id]]
    BY <1>2 DEF ReserveRead
  <2>2. call' \in [Proc -> Call] BY <1>1, <2>1 DEF StoreTypeOK
  <2> QED BY <1>2, <2>2 DEF ReserveRead, StoreTypeOK, files, bounds
<1>3. CASE ReserveReply(p)
  BY <1>3, NothingTyped DEF ReserveReply, StoreTypeOK, files, bounds
<1> QED BY <1>2, <1>3

\* reserve-delivery prepares a well typed reservation.
LEMMA ReserveBeginTyped ==
  ASSUME StoreTypeOK, NEW p \in Proc, ReserveBegin(p)
  PROVE  StoreTypeOK'
<1>1. call[p].id \in Id /\ call[p].at \in Nat BY DEF StoreTypeOK, Call
<1> DEFINE booking(rsv, seconds) ==
             [rsv |-> rsv, chk |-> call[p].id, expires |-> call[p].at + seconds]
<1>2. PICK rsv \in Reservation, seconds \in LeaseSeconds :
        Open(p, "reserve", "append", [wf EXCEPT !.reservation = booking(rsv, seconds)],
             ReservedEvent(rsv, call[p].id), call[p].id)
  BY DEF ReserveBegin
<1>3. booking(rsv, seconds) \in Delivery
  <2>1. seconds \in Nat /\ call[p].at + seconds \in Nat BY <1>1
  <2>2. booking(rsv, seconds) \in [rsv : Reservation, chk : Id, expires : Nat] BY <1>1, <2>1
  <2> QED BY <2>2 DEF Delivery
<1> HIDE DEF booking
<1>4. [wf EXCEPT !.reservation = booking(rsv, seconds)] \in Record
  BY <1>3 DEF StoreTypeOK, Record
<1>5. ReservedEvent(rsv, call[p].id) \in Event
  BY <1>1, NothingTyped DEF ReservedEvent, NoEvent, Event, EventType
<1>6. tx' \in Tx
  <2>1. "reserve" \in Command /\ "append" \in Step BY DEF Command, Step
  <2> QED BY <1>1, <1>2, <1>4, <1>5, <2>1 DEF Open, Tx
<1>7. call' \in [Proc -> Call]
  <2>1. call \in [Proc -> Call] /\ call' = [call EXCEPT ![p].stage = "authorised"]
    BY DEF ReserveBegin, StoreTypeOK
  <2>2. [call[p] EXCEPT !.stage = "authorised"] \in Call BY <2>1 DEF Call, Stage
  <2> QED BY <2>1, <2>2
<1>8. UNCHANGED <<files, held, bounds>> BY DEF ReserveBegin
<1> QED BY <1>6, <1>7, <1>8 DEF StoreTypeOK, files, bounds

\* The checkpoint of a reservation in the log is an id.
LEMMA ReservedChkTyped ==
  ASSUME StoreTypeOK, NEW rsv, Single(ReservedAs(rsv))
  PROVE  ReservedChk(rsv) \in Id
<1>1. (CHOOSE i \in ReservedAs(rsv) : TRUE) \in ReservedAs(rsv)
  BY DEF Single
<1>2. (CHOOSE i \in ReservedAs(rsv) : TRUE) \in DOMAIN events
  BY <1>1 DEF ReservedAs, EventsOf
<1>3. events[CHOOSE i \in ReservedAs(rsv) : TRUE] \in Event
  BY <1>2 DEF StoreTypeOK
<1> QED BY <1>3 DEF ReservedChk, Event

\* The lines that record a proof or a report are events.
LEMMA ReportEventTyped ==
  ASSUME StoreTypeOK, NEW proof \in Proof, Single(ReservedAs(proof.rsv)),
         NEW type \in {"report_proof", "report_sent"}
  PROVE  ReportEvent(type, proof) \in Event
<1>1. ReservedChk(proof.rsv) \in Id BY ReservedChkTyped
<1>2. proof.rsv \in Reservation \cup {None} /\ proof.msg \in Message \cup {None}
  BY DEF Proof, Claim, NoProof
<1>3. (type = "report_proof" /\ proof.manual) \in BOOLEAN BY Zenon
<1>4. type \in EventType BY DEF EventType
<1> QED BY <1>1, <1>2, <1>3, <1>4, NothingTyped DEF ReportEvent, Event

\* A workflow marked reported is a record.
LEMMA ReportedTyped ==
  ASSUME StoreTypeOK, NEW proof \in Proof
  PROVE  Reported(proof) \in Record
<1>1. [rsv |-> proof.rsv, msg |-> proof.msg] \in Report
  BY DEF Proof, Claim, NoProof, Report, NoReport
<1>2. "reported" \in Status BY DEF Status, Terminal
<1> QED BY <1>1, <1>2, NothingTyped DEF Reported, StoreTypeOK, Record

\* report-proof keeps the types.
LEMMA ProofTyped ==
  ASSUME StoreTypeOK, NEW p \in Proc, ProofRecord(p) \/ ProofAdopt(p) \/ ProofKnown(p)
  PROVE  StoreTypeOK'
<1>0. ASSUME NEW proof \in Claim PROVE proof \in Proof /\ [wf EXCEPT !.proof = proof] \in Record
  BY <1>0 DEF StoreTypeOK, Record, Proof
<1>id. NoId \in Id BY DEF NoId, Id
<1>1. CASE ProofRecord(p)
  <2>1. PICK proof \in Claim :
          /\ Single(ReservedAs(proof.rsv))
          /\ Open(p, "proof", "append", [wf EXCEPT !.proof = proof],
                  ReportEvent("report_proof", proof), NoId)
    BY <1>1 DEF ProofRecord, ReportContext
  <2>2. tx' \in Tx
    BY <2>1, <1>0, <1>id, ReportEventTyped, OpenTyped DEF Command, Step
  <2> QED BY <1>1, <2>2 DEF ProofRecord, StoreTypeOK, files, bounds
<1>2. CASE ProofAdopt(p)
  <2>1. PICK proof \in Claim :
          Open(p, "proof", "save", [wf EXCEPT !.proof = proof], NoEvent, NoId)
    BY <1>2 DEF ProofAdopt
  <2>2. tx' \in Tx
    BY <2>1, <1>0, <1>id, NothingTyped, OpenTyped DEF Command, Step
  <2> QED BY <1>2, <2>2 DEF ProofAdopt, StoreTypeOK, files, bounds
<1>3. CASE ProofKnown(p)
  <2>1. PICK proof \in Claim :
          call' = [call EXCEPT ![p] = [NoCall EXCEPT !.stage = "proved", !.proof = proof]]
    BY <1>3 DEF ProofKnown
  <2>2. [NoCall EXCEPT !.stage = "proved", !.proof = proof] \in Call
    BY <1>0, NothingTyped DEF Call, Stage
  <2> QED BY <1>3, <2>1, <2>2 DEF ProofKnown, StoreTypeOK, files, bounds
<1> QED BY <1>1, <1>2, <1>3

\* complete-reported keeps the types.
LEMMA CompleteTyped ==
  ASSUME StoreTypeOK, NEW p \in Proc, CompleteBegin(p) \/ CompleteAdopt(p)
  PROVE  StoreTypeOK'
<1>0. call[p].proof \in Proof BY DEF StoreTypeOK, Call
<1>id. NoId \in Id BY DEF NoId, Id
<1>1. CASE CompleteBegin(p)
  <2>1. /\ Single(ReservedAs(call[p].proof.rsv))
        /\ Open(p, "complete", "append", Reported(call[p].proof),
                ReportEvent("report_sent", call[p].proof), NoId)
    BY <1>1 DEF CompleteBegin, ReportContext
  <2>2. tx' \in Tx
    BY <2>1, <1>0, <1>id, ReportEventTyped, ReportedTyped, OpenTyped DEF Command, Step
  <2> QED BY <1>1, <2>2, NothingTyped DEF CompleteBegin, StoreTypeOK, files, bounds
<1>2. CASE CompleteAdopt(p)
  <2>1. Open(p, "complete", "save", Reported(call[p].proof), NoEvent, NoId)
    BY <1>2 DEF CompleteAdopt
  <2>2. tx' \in Tx
    BY <2>1, <1>0, <1>id, ReportedTyped, NothingTyped, OpenTyped DEF Command, Step
  <2> QED BY <1>2, <2>2, NothingTyped DEF CompleteAdopt, StoreTypeOK, files, bounds
<1> QED BY <1>1, <1>2

\* A write of a delivery command keeps the types.
LEMMA DeliveryWriteTyped ==
  ASSUME StoreTypeOK, DeliveryWrite
  PROVE  StoreTypeOK'
<1>1. tx.event \in Event BY DEF StoreTypeOK, Tx
<1>2. DeliveryOrder[tx.step] \in Step BY DEF DeliveryWrite, DeliveryOrder, Step
<1>3. tx' \in Tx BY <1>2, StepTyped DEF DeliveryWrite
<1> QED BY <1>1, <1>3, WriteTyped DEF DeliveryWrite, StoreTypeOK, bounds

\* The environment's send, or the loss of the sender, keeps the types.
LEMMA SendTyped ==
  ASSUME DeliveryTypeOK, NEW p \in Proc, Send(p) \/ LoseSender(p)
  PROVE  DeliveryTypeOK'
<1>1. CASE Send(p)
  BY <1>1 DEF Send, DeliveryTypeOK, StoreTypeOK, storeVars
<1>2. CASE LoseSender(p)
  BY <1>2 DEF LoseSender, DeliveryTypeOK, StoreTypeOK, files
<1> QED BY <1>1, <1>2

\* Every step keeps the types of the record and of the channel.
LEMMA TypeStep == DeliveryTypeOK /\ [Next]_deliveryVars => DeliveryTypeOK'
<1> SUFFICES ASSUME DeliveryTypeOK, [Next]_deliveryVars PROVE DeliveryTypeOK'
  OBVIOUS
<1>0. StoreTypeOK BY DEF DeliveryTypeOK
<1>1. CASE LifeStep /\ UNCHANGED channel
  BY <1>0, <1>1, LifeTyped DEF DeliveryTypeOK, channel
<1>2. ASSUME NEW p \in Proc, Send(p) \/ LoseSender(p) PROVE DeliveryTypeOK'
  BY <1>2, SendTyped
<1>3. ASSUME NEW p \in Proc, ReserveReply(p) PROVE DeliveryTypeOK'
  <2>1. StoreTypeOK' BY <1>0, <1>3, ReserveCallTyped
  <2>2. owing' \subseteq Proc /\ authorised' \in Nat /\ sent' = sent
    BY <1>3 DEF ReserveReply, DeliveryTypeOK
  <2> QED BY <2>1, <2>2 DEF DeliveryTypeOK
<1>4. ASSUME NEW p \in Proc,
             \/ ReserveRead(p) \/ ReserveBegin(p) \/ ProofRecord(p) \/ ProofAdopt(p)
             \/ ProofKnown(p) \/ CompleteBegin(p) \/ CompleteAdopt(p)
      PROVE DeliveryTypeOK'
  <2>1. StoreTypeOK'
    BY <1>0, <1>4, ReserveCallTyped, ReserveBeginTyped, ProofTyped, CompleteTyped
  <2>2. UNCHANGED channel
    BY <1>4 DEF ReserveRead, ReserveBegin, ProofRecord, ProofAdopt, ProofKnown,
                CompleteBegin, CompleteAdopt
  <2> QED BY <2>1, <2>2 DEF DeliveryTypeOK, channel
<1>5. CASE DeliveryWrite
  BY <1>0, <1>5, DeliveryWriteTyped DEF DeliveryWrite, DeliveryTypeOK, channel
<1>6. CASE UNCHANGED deliveryVars
  BY <1>6 DEF deliveryVars, storeVars, channel, DeliveryTypeOK, StoreTypeOK
<1> QED BY <1>1, <1>2, <1>3, <1>4, <1>5, <1>6 DEF Next, ReportStep

\* workflow.json, the log, the locked section and what every command holds keep
\* their types in every reachable state, whatever processes and crashes do.
THEOREM WorkflowTyped == Spec => []DeliveryTypeOK
<1>1. Init => DeliveryTypeOK
  BY NothingTyped, NewTyped DEF Init, StoreInit, ChannelInit, DeliveryTypeOK, StoreTypeOK,
     Id, NoId
<1> QED BY <1>1, TypeStep, PTL DEF Spec
===============================================================================
