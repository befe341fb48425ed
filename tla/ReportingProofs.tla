--------------------------- MODULE ReportingProofs ---------------------------
(***************************************************************************)
(* A workflow is reported once: ReportingAgrees is inductive (with the     *)
(* type invariant), and the safety properties of Workflow follow from it.  *)
(***************************************************************************)
EXTENDS WorkflowProofs

\* A line appended to the log leaves the earlier lines alone and is the only new
\* line of its type.
LEMMA Appended ==
  ASSUME events \in Seq(Event), NEW event \in Event, events' = Append(events, event), NEW type
  PROVE  /\ events' \in Seq(Event)
         /\ DOMAIN events' = DOMAIN events \cup {Len(events) + 1}
         /\ \A i \in DOMAIN events : events'[i] = events[i]
         /\ events'[Len(events) + 1] = event
         /\ EventsOf(type)' = EventsOf(type) \cup
              (IF event.type = type THEN {Len(events) + 1} ELSE {})
<1>1. /\ events' \in Seq(Event) /\ Len(events) \in Nat
      /\ DOMAIN events = 1 .. Len(events) /\ DOMAIN events' = 1 .. Len(events) + 1
  OBVIOUS
<1>2. DOMAIN events' = DOMAIN events \cup {Len(events) + 1} BY <1>1
<1>3. \A i \in DOMAIN events : events'[i] = events[i] OBVIOUS
<1>4. events'[Len(events) + 1] = event OBVIOUS
<1> QED BY <1>1, <1>2, <1>3, <1>4 DEF EventsOf

Reserved == EventsOf("delivery_reserved")

\* A step that leaves the files, the lock and the channel alone, and no process
\* with a reservation to make or an answer to print, keeps the invariant.
LEMMA CallAgrees ==
  ASSUME ReportingAgrees, UNCHANGED <<files, tx, channel>>,
         \A p \in Proc : call'[p].stage \in {"reserve", "authorised"} => call'[p] = call[p]
  PROVE  ReportingAgrees'
<1>1. /\ UNCHANGED <<wf, events, worklog, pendingChk, pendingRec, tx, owing, authorised, sent>>
      /\ LastEntry' = LastEntry /\ Reserved' = Reserved /\ Reserving' = Reserving /\ Free' = Free
  BY DEF files, channel, LastEntry, Reserved, EventsOf, Reserving, Free
<1>2. UnlockedReads' BY <1>1 DEF ReportingAgrees, UnlockedReads, Reserved
<1>3. EndsFinished(wf)' /\ EndsFinished(tx.wf)' /\ LockedSection'
  BY <1>1 DEF ReportingAgrees, EndsFinished, LockedSection
<1>4. FirstReservation' /\ OnlyReservation' /\ ReservedOnlyWhenFinished' /\ OnePermission'
  BY <1>1 DEF ReportingAgrees, FirstReservation, OnlyReservation, ReservedOnlyWhenFinished,
              OnePermission, Reserved
<1> QED BY <1>2, <1>3, <1>4 DEF ReportingAgrees

\* Reading, giving up and the clock keep the invariant.
LEMMA QuietAgrees ==
  ASSUME ReportingAgrees, StoreTypeOK, UNCHANGED channel,
         \/ \E p \in Proc : \/ CheckpointRead(p) \/ RecoverRead(p) \/ RecoverReply(p)
                            \/ Leave(p) \/ ProofKnown(p)
         \/ Tick
  PROVE  ReportingAgrees'
<1>1. call \in [Proc -> Call] BY DEF StoreTypeOK
<1>2. UNCHANGED <<files, tx>>
  BY DEF CheckpointRead, RecoverRead, RecoverReply, Leave, ProofKnown, Tick
<1> DEFINE Moves(q, c) == call' = [call EXCEPT ![q] = c] /\ c.stage \notin {"reserve", "authorised"}
<1>3. call' = call \/ \E q \in Proc, c \in Call : Moves(q, c)
  <2>0. /\ wf.cursor \in Cursor /\ now \in Nat BY DEF StoreTypeOK, Record
  <2>1. CASE Tick BY <2>1 DEF Tick
  <2>2. ASSUME NEW p \in Proc, CheckpointRead(p) PROVE \E c \in Call : Moves(p, c)
    <3>1. [NoCall EXCEPT !.stage = "checkpoint", !.cursor = wf.cursor] \in Call
      BY <2>0, NothingTyped DEF Call, Stage
    <3> QED BY <2>2, <3>1 DEF CheckpointRead, NoCall
  <2>3. ASSUME NEW p \in Proc, RecoverRead(p) PROVE \E c \in Call : Moves(p, c)
    <3>1. [NoCall EXCEPT !.stage = "recover", !.at = now] \in Call
      BY <2>0, NothingTyped DEF Call, Stage
    <3> QED BY <2>3, <3>1 DEF RecoverRead, NoCall
  <2>4. ASSUME NEW p \in Proc, RecoverReply(p) \/ Leave(p) PROVE \E c \in Call : Moves(p, c)
    BY <2>4, NothingTyped DEF RecoverReply, Leave, NoCall
  <2>5. ASSUME NEW p \in Proc, ProofKnown(p) PROVE \E c \in Call : Moves(p, c)
    <3>1. PICK proof \in Claim :
            call' = [call EXCEPT ![p] = [NoCall EXCEPT !.stage = "proved", !.proof = proof]]
      BY <2>5 DEF ProofKnown
    <3>2. [NoCall EXCEPT !.stage = "proved", !.proof = proof] \in Call
      BY NothingTyped DEF Call, Stage, Proof
    <3> QED BY <3>1, <3>2 DEF NoCall
  <2> QED BY <2>1, <2>2, <2>3, <2>4, <2>5
<1>4. ASSUME NEW p \in Proc, call'[p].stage \in {"reserve", "authorised"}
      PROVE  call'[p] = call[p]
  BY <1>1, <1>3, <1>4
<1> QED BY <1>2, <1>4, CallAgrees

\* The same for a step that closes the lock because its holder died.
LEMMA CrashAgrees ==
  ASSUME ReportingAgrees, StoreTypeOK, UNCHANGED channel, Crash
  PROVE  ReportingAgrees'
<1>1. /\ UNCHANGED <<wf, events, pendingChk, owing, authorised, sent>> /\ tx' = NoTx
      /\ LastEntry' = LastEntry /\ Reserved' = Reserved
  BY DEF Crash, files, channel, LastEntry, Reserved, EventsOf
<1>2. ~Reserving' /\ EndsFinished(tx.wf)' /\ LockedSection' /\ EndsFinished(wf)'
  BY <1>1 DEF Reserving, NoTx, NewWorkflow, EndsFinished, LockedSection, Terminal, Unreported,
              LifeCommand, DeliveryCommand, ReportingAgrees
<1>3. UnlockedReads'
  <2>1. call \in [Proc -> Call] /\ call' = [call EXCEPT ![tx.by] = NoCall]
    BY DEF Crash, StoreTypeOK
  <2>2. \A p \in Proc : (call'[p] = call[p] /\ p # tx.by) \/ call'[p].stage = "idle"
    BY <2>1 DEF NoCall
  <2> QED BY <1>1, <2>2 DEF ReportingAgrees, UnlockedReads, Reserved
<1>4. FirstReservation' /\ OnlyReservation' /\ ReservedOnlyWhenFinished' /\ OnePermission'
  BY <1>1, <1>2 DEF ReportingAgrees, FirstReservation, OnlyReservation,
     ReservedOnlyWhenFinished, OnePermission, Reserved, NoTx, LifeCommand
<1> QED BY <1>1, <1>2, <1>3, <1>4 DEF ReportingAgrees

-----------------------------------------------------------------------------
\* A checkpoint, a note or a recovery opens the lock only on a workflow that is
\* not terminal, so nothing was reserved before.
LEMMA LifeOpenAgrees ==
  ASSUME ReportingAgrees, StoreTypeOK, UNCHANGED <<files, channel>>, wf.status \notin Terminal,
         tx'.cmd \in LifeCommand, tx'.step # "idle", tx'.event.type \notin DeliveryEvent,
         EndsFinished(tx'.wf),
         \A p \in Proc : call'[p].stage \in {"reserve", "authorised"} => call'[p] = call[p],
         Free
  PROVE  ReportingAgrees'
<1>1. /\ UNCHANGED <<wf, events, pendingChk, owing, authorised, sent>>
      /\ LastEntry' = LastEntry /\ Reserved' = Reserved
  BY DEF files, channel, LastEntry, Reserved, EventsOf
<1>2. Reserved = {} BY DEF ReportingAgrees, ReservedOnlyWhenFinished, Reserved
<1>3. ~Reserving /\ ~Reserving' /\ ~Free' /\ tx'.cmd \notin DeliveryCommand
  BY DEF Free, Reserving, LifeCommand, DeliveryCommand
<1>4. EndsFinished(wf)' /\ EndsFinished(tx.wf)' /\ LockedSection'
  BY <1>1, <1>3 DEF ReportingAgrees, EndsFinished, LockedSection
<1>5. FirstReservation' /\ OnlyReservation' /\ ReservedOnlyWhenFinished' /\ OnePermission'
  BY <1>1, <1>2, <1>3 DEF ReportingAgrees, FirstReservation, OnlyReservation,
     ReservedOnlyWhenFinished, OnePermission, Reserved
<1>6. UnlockedReads'
  BY <1>1, <1>2, <1>3 DEF ReportingAgrees, UnlockedReads, Reserved
<1> QED BY <1>4, <1>5, <1>6 DEF ReportingAgrees

\* record_checkpoint opens the lock so, and its last entry has its status.
LEMMA CheckpointBeginAgrees ==
  ASSUME ReportingAgrees, StoreTypeOK, UNCHANGED channel, NEW p \in Proc, CheckpointBegin(p)
  PROVE  ReportingAgrees'
<1>1. PICK status \in Asked, advance \in BOOLEAN, cited \in {NoId, held[p]},
            gated \in BOOLEAN, snapshot \in BOOLEAN :
        LET before == call[p].cursor
            after == IF advance THEN before + 1 ELSE before
        IN /\ CanCheckpoint(status)
           /\ CursorMay(before, status, advance)
           /\ Open(p, "checkpoint", "mark",
                   Checkpointed(Fresh, before, after, status, gated, snapshot),
                   CheckpointEvent(Fresh, cited), Fresh)
  BY CheckpointBeginParts
<1> DEFINE before == call[p].cursor
           after == IF advance THEN before + 1 ELSE before
           copy == Checkpointed(Fresh, before, after, status, gated, snapshot)
<1>2. tx' = [by |-> p, cmd |-> "checkpoint", step |-> "mark", wf |-> copy,
             event |-> CheckpointEvent(Fresh, cited), id |-> Fresh] /\ Free
  BY <1>1 DEF Open
<1>3. EndsFinished(copy)
  <2>1. wf \in Record /\ wf.index \in Seq(Entry) BY DEF StoreTypeOK, Record
  <2>2. copy.index = Append(wf.index, [id |-> Fresh, status |-> status, before |-> before,
                                      after |-> after]) /\ copy.status = status
    BY <2>1 DEF Checkpointed, Record
  <2>3. status # "reported" BY <1>1 DEF CanCheckpoint
  <2> HIDE DEF copy, before, after
  <2> QED BY <2>1, <2>2, <2>3 DEF EndsFinished, Terminal
<1> HIDE DEF copy
<1>4. tx'.event.type = "checkpoint" BY <1>2 DEF CheckpointEvent, NoEvent
<1>5. call \in [Proc -> Call] BY DEF StoreTypeOK
<1>6. \A q \in Proc : call'[q].stage \in {"reserve", "authorised"} => call'[q] = call[q]
  BY <1>5 DEF CheckpointBegin, NoCall
<1> QED BY <1>1, <1>2, <1>3, <1>4, <1>6, LifeOpenAgrees
        DEF CheckpointBegin, CanCheckpoint, LifeCommand, DeliveryEvent

\* event and append-round open the lock so.
LEMMA RecordBeginAgrees ==
  ASSUME ReportingAgrees, StoreTypeOK, UNCHANGED channel, NEW p \in Proc,
         NoteBegin(p) \/ RoundBegin(p)
  PROVE  ReportingAgrees'
<1>1. PICK cmd \in {"note", "round"}, type \in {"owner_decision", "progress"} :
        Open(p, cmd, "append", wf, [NoEvent EXCEPT !.type = type], Fresh)
  BY RecordOpens
<1>2. /\ Free /\ tx'.cmd = cmd /\ tx'.step = "append" /\ tx'.wf = wf
      /\ tx'.event.type = type
  BY <1>1 DEF Open, NoEvent
<1>3. UNCHANGED <<files, channel>> /\ call' = call /\ wf.status \notin Terminal
  BY RecordOpens DEF MayRecord
<1>4. tx'.cmd \in LifeCommand /\ tx'.event.type \notin DeliveryEvent
  BY <1>2 DEF LifeCommand, DeliveryEvent
<1>5. EndsFinished(tx'.wf) BY <1>2 DEF ReportingAgrees
<1> QED BY <1>2, <1>3, <1>4, <1>5, LifeOpenAgrees

\* recover opens the lock so: a terminal workflow is never resumable.
LEMMA RecoverBeginAgrees ==
  ASSUME ReportingAgrees, StoreTypeOK, UNCHANGED channel, NEW p \in Proc, RecoverBegin(p)
  PROVE  ReportingAgrees'
<1> DEFINE lease(seconds) == [id |-> Fresh, cursor |-> wf.cursor, holder |-> p,
                              expires |-> call[p].at + seconds]
<1>1. PICK seconds \in LeaseSeconds :
        Open(p, "recover", IF wf.lease.id = NoId THEN "mark" ELSE "release",
             [wf EXCEPT !.lease = lease(seconds)],
             LeaseEvent("recovery_lease_acquired", Fresh), Fresh)
  BY DEF RecoverBegin
<1> HIDE DEF lease
<1>2. wf.status \notin Terminal
  BY DEF RecoverBegin, Resumable, Reason, Terminal, Unreported, Active
<1>3. wf \in Record BY DEF StoreTypeOK
<1>4. /\ Free /\ tx'.cmd = "recover" /\ tx'.step # "idle"
      /\ tx'.wf.status = wf.status
      /\ tx'.event.type = "recovery_lease_acquired"
  BY <1>1, <1>3 DEF Open, LeaseEvent, NoEvent, Record
<1>5. call \in [Proc -> Call] BY DEF StoreTypeOK
<1>6. \A q \in Proc : call'[q].stage \in {"reserve", "authorised"} => call'[q] = call[q]
  BY <1>5 DEF RecoverBegin, NoCall
<1>7. EndsFinished(tx'.wf) BY <1>2, <1>4 DEF EndsFinished
<1>8. UNCHANGED <<files, channel>> BY DEF RecoverBegin
<1>9. tx'.cmd \in LifeCommand /\ tx'.event.type \notin DeliveryEvent
  BY <1>4 DEF LifeCommand, DeliveryEvent
<1> QED BY <1>2, <1>4, <1>6, <1>7, <1>8, <1>9, LifeOpenAgrees

-----------------------------------------------------------------------------
\* The writes of a checkpoint, a note or a recovery log nothing about delivery
\* and end with the marker removed.
LEMMA LifeWriteAgrees ==
  ASSUME ReportingAgrees, StoreTypeOK, UNCHANGED <<call, channel>>, tx.cmd \in LifeCommand,
         Reserved' = Reserved,
         tx' = NoTx \/ (tx' = [tx EXCEPT !.step = tx'.step] /\ tx'.step # "idle"),
         \/ wf' = wf /\ (tx' = NoTx \/ wf.status \notin Terminal)
         \/ SaveWorkflow /\ tx.step # "clear" /\ (tx' = NoTx \/ tx'.step = "clear")
  PROVE  ReportingAgrees'
<1>1. UNCHANGED <<owing, authorised, sent, call>> BY DEF channel
<1>2. Reserved = {} BY DEF ReportingAgrees, OnlyReservation, Reserved
<1>3. tx \in Tx BY DEF StoreTypeOK
<1>4. /\ \/ tx' = NoTx
         \/ tx'.cmd = tx.cmd /\ tx'.wf = tx.wf /\ tx'.event = tx.event /\ tx'.step # "idle"
      /\ NoTx.cmd = "none" /\ NoTx.wf.status = "running"
  BY <1>3 DEF Tx, NoTx, NewWorkflow
<1>5. ~Reserving /\ ~Reserving' BY <1>4 DEF Reserving, LifeCommand
<1>6. EndsFinished(wf)'
  BY <1>3 DEF ReportingAgrees, EndsFinished, SaveWorkflow, Tx, Record
<1>7. EndsFinished(tx.wf)'
  BY <1>4 DEF ReportingAgrees, EndsFinished, Terminal, Unreported
<1>8. LockedSection'
  BY <1>4 DEF ReportingAgrees, LockedSection, Free, LifeCommand, DeliveryCommand
<1>9. FirstReservation' /\ OnlyReservation' /\ ReservedOnlyWhenFinished' /\ OnePermission'
  BY <1>1, <1>2, <1>5 DEF ReportingAgrees, FirstReservation, OnlyReservation,
     ReservedOnlyWhenFinished, OnePermission, Reserved
<1>10. UnlockedReads'
  <2>1. ASSUME NEW p \in Proc, call[p].stage = "reserve" PROVE wf' = wf
    BY <2>1 DEF ReportingAgrees, UnlockedReads, LockedSection
  <2> QED BY <1>1, <1>2, <1>5, <2>1 DEF ReportingAgrees, UnlockedReads, Reserved, LastEntry
<1> QED BY <1>6, <1>7, <1>8, <1>9, <1>10 DEF ReportingAgrees

\* Only a delivery_reserved line adds to the reservations of the log.
LEMMA ReservedKept ==
  ASSUME StoreTypeOK,
         \/ events' = events
         \/ \E event \in Event :
              event.type # "delivery_reserved" /\ events' = Append(events, event)
  PROVE  /\ Reserved' = Reserved
         /\ \A i \in Reserved : events'[i] = events[i]
<1>1. events \in Seq(Event) BY DEF StoreTypeOK
<1>2. Reserved \subseteq DOMAIN events BY DEF Reserved, EventsOf
<1>3. CASE events' = events BY <1>3 DEF Reserved, EventsOf
<1>4. ASSUME NEW event \in Event, event.type # "delivery_reserved",
             events' = Append(events, event)
      PROVE  /\ Reserved' = Reserved
             /\ \A i \in Reserved : events'[i] = events[i]
  BY <1>1, <1>2, <1>4, Appended DEF Reserved
<1> QED BY <1>3, <1>4

\* The writes of a checkpoint keep the invariant.
LEMMA CheckpointWriteAgrees ==
  ASSUME ReportingAgrees, StoreTypeOK, UNCHANGED channel, CheckpointWrite
  PROVE  ReportingAgrees'
<1>1. tx.cmd \in LifeCommand BY DEF CheckpointWrite, LifeCommand
<1>2. tx.event \in Event /\ tx.event.type # "delivery_reserved"
  BY <1>1 DEF StoreTypeOK, Tx, ReportingAgrees, LockedSection, DeliveryEvent
<1>3. Reserved' = Reserved
  BY <1>2, ReservedKept DEF CheckpointWrite, WritePendingCheckpoint, AppendEvent, AppendWorklog,
     SaveWorkflow, ClearPendingCheckpoint
<1>4. tx' = NoTx \/ (tx' = [tx EXCEPT !.step = tx'.step] /\ tx'.step # "idle")
  BY DEF CheckpointWrite, Proceed, StoreTypeOK, Tx
<1>5. \/ wf' = wf /\ (tx' = NoTx \/ wf.status \notin Terminal)
      \/ SaveWorkflow /\ tx.step # "clear" /\ (tx' = NoTx \/ tx'.step = "clear")
  <2>1. CASE tx.step = "save"
    BY <2>1 DEF CheckpointWrite, Proceed, CheckpointOrder, StoreTypeOK, Tx
  <2>2. CASE tx.step = "clear"
    BY <2>2 DEF CheckpointWrite, Proceed, CheckpointOrder, ClearPendingCheckpoint
  <2>3. CASE tx.step \notin {"save", "clear"}
    BY <1>1, <2>3 DEF CheckpointWrite, WritePendingCheckpoint, AppendEvent, AppendWorklog,
       ReportingAgrees, LockedSection
  <2> QED BY <2>1, <2>2, <2>3
<1> QED BY <1>1, <1>3, <1>4, <1>5, LifeWriteAgrees DEF CheckpointWrite

\* The writes of a note or a round keep the invariant.
LEMMA RecordWriteAgrees ==
  ASSUME ReportingAgrees, StoreTypeOK, UNCHANGED channel, NoteWrite \/ RoundWrite
  PROVE  ReportingAgrees'
<1>1. tx.cmd \in LifeCommand /\ tx.step # "clear" BY DEF NoteWrite, RoundWrite, LifeCommand
<1>2. tx.event \in Event /\ tx.event.type # "delivery_reserved" /\ wf.status \notin Terminal
  BY <1>1 DEF StoreTypeOK, Tx, ReportingAgrees, LockedSection, DeliveryEvent
<1>3. Reserved' = Reserved
  BY <1>2, ReservedKept DEF NoteWrite, RoundWrite, AppendEvent, AppendWorklog
<1>4. tx' = NoTx \/ (tx' = [tx EXCEPT !.step = tx'.step] /\ tx'.step # "idle")
  BY DEF NoteWrite, RoundWrite, Proceed, StoreTypeOK, Tx
<1>5. wf' = wf BY DEF NoteWrite, RoundWrite, AppendEvent, AppendWorklog
<1> QED BY <1>1, <1>2, <1>3, <1>4, <1>5, LifeWriteAgrees DEF NoteWrite, RoundWrite

\* The writes of a recover keep the invariant.
LEMMA RecoverWriteAgrees ==
  ASSUME ReportingAgrees, StoreTypeOK, UNCHANGED channel, RecoverWrite
  PROVE  ReportingAgrees'
<1>1. tx.cmd \in LifeCommand BY DEF RecoverWrite, LifeCommand
<1>2. tx.event \in Event /\ tx.event.type # "delivery_reserved"
  BY <1>1 DEF StoreTypeOK, Tx, ReportingAgrees, LockedSection, DeliveryEvent
<1>3. LeaseEvent("lease_released", wf.lease.id) \in Event
      /\ LeaseEvent("lease_released", wf.lease.id).type # "delivery_reserved"
  BY LeaseReleasedTyped DEF LeaseEvent, NoEvent
<1>4. Reserved' = Reserved
  BY <1>2, <1>3, ReservedKept DEF RecoverWrite, WritePendingRecovery, AppendEvent,
     SaveWorkflow, ClearPendingRecovery
<1>5. tx' = NoTx \/ (tx' = [tx EXCEPT !.step = tx'.step] /\ tx'.step # "idle")
  BY DEF RecoverWrite, Proceed, StoreTypeOK, Tx
<1>6. \/ wf' = wf /\ (tx' = NoTx \/ wf.status \notin Terminal)
      \/ SaveWorkflow /\ tx.step # "clear" /\ (tx' = NoTx \/ tx'.step = "clear")
  <2>1. CASE tx.step = "save"
    BY <2>1 DEF RecoverWrite, Proceed, RecoverOrder, StoreTypeOK, Tx
  <2>2. CASE tx.step = "clear"
    BY <2>2 DEF RecoverWrite, Proceed, RecoverOrder, ClearPendingRecovery
  <2>3. CASE tx.step \notin {"save", "clear"}
    BY <1>1, <2>3 DEF RecoverWrite, WritePendingRecovery, AppendEvent,
       ReportingAgrees, LockedSection
  <2> QED BY <2>1, <2>2, <2>3
<1> QED BY <1>1, <1>4, <1>5, <1>6, LifeWriteAgrees DEF RecoverWrite

-----------------------------------------------------------------------------
\* reserve-delivery, before the lock: only the last entry of a terminal workflow
\* can be the latest terminal checkpoint.
LEMMA ReserveReadAgrees ==
  ASSUME ReportingAgrees, StoreTypeOK, UNCHANGED channel, NEW p \in Proc, ReserveRead(p)
  PROVE  ReportingAgrees'
<1>1. /\ UNCHANGED <<wf, events, pendingChk, tx, owing, authorised, sent>>
      /\ wf.status \in Terminal /\ call[p].stage = "idle"
  BY DEF ReserveRead, Idle, files, channel, Terminal
<1>2. PICK k \in DOMAIN wf.index :
        /\ IsLatestTerminal(k)
        /\ call' = [call EXCEPT ![p] = [NoCall EXCEPT !.stage = "reserve", !.at = now,
                                                      !.id = wf.index[k].id]]
  BY DEF ReserveRead
<1>3. wf.index[k].id = LastEntry.id
  <2>1. wf.index \in Seq(Entry) BY DEF StoreTypeOK, Record
  <2>2. Len(wf.index) > 0 /\ wf.index[Len(wf.index)].status \in Unreported
    BY <1>1 DEF ReportingAgrees, EndsFinished
  <2>3. Len(wf.index) \in TerminalEntries BY <2>1, <2>2 DEF TerminalEntries
  <2>4. k \in Nat /\ k <= Len(wf.index) /\ Len(wf.index) <= k
    BY <1>2, <2>1, <2>3 DEF IsLatestTerminal
  <2> QED BY <2>1, <2>4 DEF LastEntry
<1>4. /\ call'[p].stage = "reserve" /\ call'[p].id = LastEntry.id
      /\ \A q \in Proc : q # p => call'[q] = call[q]
  BY <1>2, <1>3 DEF StoreTypeOK, NoCall
<1>5. UnlockedReads'
  <2>1. /\ LastEntry' = LastEntry /\ Reserved' = Reserved /\ Reserving' = Reserving
    BY <1>1 DEF LastEntry, Reserved, EventsOf, Reserving
  <2> QED BY <1>1, <1>4, <2>1 DEF ReportingAgrees, UnlockedReads, Reserved
<1>6. EndsFinished(wf)' /\ EndsFinished(tx.wf)' /\ LockedSection'
  BY <1>1 DEF ReportingAgrees, EndsFinished, LockedSection, Free
<1>7. FirstReservation' /\ OnlyReservation' /\ ReservedOnlyWhenFinished' /\ OnePermission'
  BY <1>1, <1>4 DEF ReportingAgrees, FirstReservation, OnlyReservation,
     ReservedOnlyWhenFinished, OnePermission, LastEntry, EventsOf, Reserving
<1> QED BY <1>5, <1>6, <1>7 DEF ReportingAgrees

\* reserve-delivery under the lock: the log holds no reservation at all, since
\* the only one it could hold is for the checkpoint asked for.
LEMMA ReserveBeginAgrees ==
  ASSUME ReportingAgrees, StoreTypeOK, UNCHANGED channel, NEW p \in Proc, ReserveBegin(p)
  PROVE  ReportingAgrees'
<1>1. /\ UNCHANGED <<wf, events, pendingChk, owing, authorised, sent>>
      /\ wf.status \in Terminal /\ call[p].stage = "reserve" /\ call[p].id = LastEntry.id
      /\ ReservedFor(call[p].id) = {} /\ pendingChk = {} /\ wf.snapshot
  BY DEF ReserveBegin, files, channel, MayReserve, Valid, CheckpointsValid, Terminal,
         ReportingAgrees, UnlockedReads
<1>2. Reserved = {}
  BY <1>1 DEF ReportingAgrees, ReservedOnlyWhenFinished, ReservedFor, Reserved
<1>3. PICK rsv \in Reservation, seconds \in LeaseSeconds :
        Open(p, "reserve", "append",
             [wf EXCEPT !.reservation = [rsv |-> rsv, chk |-> call[p].id,
                                         expires |-> call[p].at + seconds]],
             ReservedEvent(rsv, call[p].id), call[p].id)
  BY DEF ReserveBegin
<1>4. /\ Free /\ tx'.by = p /\ tx'.cmd = "reserve" /\ tx'.step = "append"
      /\ tx'.event.type = "delivery_reserved" /\ tx'.event.chk = LastEntry.id
  BY <1>1, <1>3 DEF Open, ReservedEvent, NoEvent
<1>5. /\ tx'.wf.status = wf.status /\ tx'.wf.index = wf.index /\ tx'.wf.cursor = wf.cursor
      /\ tx'.wf.lease = wf.lease /\ tx'.wf.snapshot = wf.snapshot
  BY <1>3 DEF Open, StoreTypeOK, Record
<1>6. /\ Reserving' /\ ~Free' /\ LastEntry' = LastEntry /\ Reserved' = {} /\ ~Reserving
  BY <1>1, <1>2, <1>4 DEF Reserving, Free, LastEntry, Reserved, EventsOf
<1>7. /\ call'[p].stage = "authorised" /\ \A q \in Proc : q # p => call'[q] = call[q]
  BY DEF ReserveBegin, StoreTypeOK, Call
<1>8. authorised = 0
  BY <1>2 DEF ReportingAgrees, OnePermission, Reserved
<1>9. UnlockedReads'
  BY <1>1, <1>2, <1>4, <1>6, <1>7, <1>8 DEF ReportingAgrees, UnlockedReads, Reserved
<1>10. EndsFinished(wf)' /\ EndsFinished(tx.wf)'
  BY <1>1, <1>5 DEF ReportingAgrees, EndsFinished
<1>11. LockedSection'
  BY <1>1, <1>4, <1>5, <1>6 DEF LockedSection, LifeCommand, DeliveryCommand, DeliveryEvent
<1>12. FirstReservation' /\ OnlyReservation' /\ ReservedOnlyWhenFinished' /\ OnePermission'
  BY <1>1, <1>4, <1>6, <1>8 DEF ReportingAgrees, FirstReservation, OnlyReservation,
     ReservedOnlyWhenFinished, OnePermission, Reserved, LifeCommand
<1> QED BY <1>9, <1>10, <1>11, <1>12 DEF ReportingAgrees

\* The answer is printed once: its process is the only one that was to print one.
LEMMA ReserveReplyAgrees ==
  ASSUME ReportingAgrees, StoreTypeOK, NEW p \in Proc, ReserveReply(p)
  PROVE  ReportingAgrees'
<1>1. /\ UNCHANGED <<wf, events, pendingChk, tx, sent>> /\ call[p].stage = "authorised"
      /\ tx.by # p
  BY DEF ReserveReply, files
<1>2. /\ LastEntry' = LastEntry /\ Reserved' = Reserved /\ Reserving' = Reserving
  BY <1>1 DEF LastEntry, Reserved, EventsOf, Reserving
<1>3. /\ authorised = 0 /\ Reserved # {}
      /\ \A q \in Proc : call[q].stage = "authorised" => q = p
  BY <1>1 DEF ReportingAgrees, UnlockedReads, Reserved
<1>4. /\ call'[p].stage = "idle" /\ \A q \in Proc : q # p => call'[q] = call[q]
  BY DEF ReserveReply, StoreTypeOK, NoCall
<1>5. UnlockedReads'
  BY <1>1, <1>2, <1>3, <1>4 DEF ReportingAgrees, UnlockedReads, Reserved
<1>6. ~Reserving BY <1>3 DEF ReportingAgrees, FirstReservation, Reserved
<1>7. OnePermission'
  <2>1. owing = {} /\ sent = {} BY <1>3 DEF ReportingAgrees, OnePermission
  <2>2. owing' = {p} /\ authorised' = 1 /\ sent' = {}
    BY <1>3, <2>1 DEF ReserveReply
  <2> QED BY <1>2, <1>3, <2>2 DEF OnePermission, Reserved
<1>8. EndsFinished(wf)' /\ EndsFinished(tx.wf)' /\ LockedSection'
  BY <1>1 DEF ReportingAgrees, EndsFinished, LockedSection, Free
<1>9. FirstReservation' /\ OnlyReservation' /\ ReservedOnlyWhenFinished'
  BY <1>1, <1>2, <1>6 DEF ReportingAgrees, FirstReservation, OnlyReservation,
     ReservedOnlyWhenFinished, Reserved
<1> QED BY <1>5, <1>7, <1>8, <1>9 DEF ReportingAgrees

\* The permission is used at most once.
LEMMA SendAgrees ==
  ASSUME ReportingAgrees, NEW p \in Proc, Send(p) \/ LoseSender(p)
  PROVE  ReportingAgrees'
<1>1. /\ UNCHANGED <<wf, events, pendingChk, tx, call, authorised>>
      /\ p \in owing /\ owing' = owing \ {p}
      /\ sent' = sent \/ \E msg \in Message : sent' = sent \cup {msg}
  BY DEF Send, LoseSender, storeVars, files
<1>2. /\ LastEntry' = LastEntry /\ Reserved' = Reserved /\ Reserving' = Reserving /\ Free' = Free
  BY <1>1 DEF LastEntry, Reserved, EventsOf, Reserving, Free
<1>3. OnePermission'
  <2>1. authorised = 1 /\ sent = {} /\ owing' = {}
    BY <1>1 DEF ReportingAgrees, OnePermission
  <2> QED BY <1>1, <1>2, <2>1 DEF ReportingAgrees, OnePermission, Reserved
<1>4. UnlockedReads' BY <1>1, <1>2 DEF ReportingAgrees, UnlockedReads, Reserved
<1>5. EndsFinished(wf)' /\ EndsFinished(tx.wf)' /\ LockedSection'
  BY <1>1 DEF ReportingAgrees, EndsFinished, LockedSection, Free
<1>6. FirstReservation' /\ OnlyReservation' /\ ReservedOnlyWhenFinished'
  BY <1>1, <1>2 DEF ReportingAgrees, FirstReservation, OnlyReservation,
     ReservedOnlyWhenFinished, Reserved
<1> QED BY <1>3, <1>4, <1>5, <1>6 DEF ReportingAgrees

-----------------------------------------------------------------------------
\* report-proof and complete-reported open the lock only when a reservation is
\* in the log, so on a finished workflow, and change nothing delivery was
\* reserved for.
LEMMA ReportOpenAgrees ==
  ASSUME ReportingAgrees, StoreTypeOK, UNCHANGED <<files, channel>>, Free, Reserved # {},
         tx'.cmd \in {"proof", "complete"}, tx'.step # "idle",
         tx'.event.type # "delivery_reserved",
         tx'.step = "append" => tx'.event.type \in DeliveryEvent,
         tx'.wf.status \in {wf.status, "reported"},
         tx'.wf.index = wf.index, tx'.wf.cursor = wf.cursor, tx'.wf.lease = wf.lease,
         tx'.wf.snapshot = wf.snapshot,
         \A p \in Proc : call'[p].stage \in {"reserve", "authorised"} => call'[p] = call[p]
  PROVE  ReportingAgrees'
<1>1. /\ UNCHANGED <<wf, events, pendingChk, owing, authorised, sent>>
      /\ LastEntry' = LastEntry /\ Reserved' = Reserved
  BY DEF files, channel, LastEntry, Reserved, EventsOf
<1>2. wf.status \in Terminal
  BY DEF ReportingAgrees, ReservedOnlyWhenFinished, Reserved
<1>3. ~Reserving /\ ~Reserving' /\ ~Free'
  BY DEF Reserving, Free
<1>4. EndsFinished(wf)' /\ EndsFinished(tx.wf)'
  BY <1>1, <1>2 DEF ReportingAgrees, EndsFinished
<1>5. LockedSection'
  BY <1>1, <1>2, <1>3 DEF LockedSection, LifeCommand, DeliveryCommand
<1>6. FirstReservation' /\ OnlyReservation' /\ ReservedOnlyWhenFinished' /\ OnePermission'
  BY <1>1, <1>3 DEF ReportingAgrees, FirstReservation, OnlyReservation,
     ReservedOnlyWhenFinished, OnePermission, Reserved, LifeCommand
<1>7. UnlockedReads'
  BY <1>1, <1>3 DEF ReportingAgrees, UnlockedReads, Reserved
<1> QED BY <1>4, <1>5, <1>6, <1>7 DEF ReportingAgrees

\* A key found once in the log is a reservation in the log.
LEMMA SingleReserved == ASSUME NEW rsv, Single(ReservedAs(rsv)) PROVE Reserved # {}
BY DEF Single, ReservedAs, Reserved

\* The line that records a proof or a report is a delivery event, not a
\* reservation.
LEMMA ReportEventNamed ==
  ASSUME NEW type, NEW proof
  PROVE  ReportEvent(type, proof).type = type
<1> DEFINE Line(chk, rsv, msg, manual) ==
             [NoEvent EXCEPT !.type = type, !.chk = chk, !.rsv = rsv, !.msg = msg, !.manual = manual]
<1>1. ASSUME NEW chk, NEW rsv, NEW msg, NEW manual
      PROVE  Line(chk, rsv, msg, manual).type = type
  BY DEF NoEvent
<1> DEFINE manual == type = "report_proof" /\ proof.manual
<1>2. ReportEvent(type, proof) = Line(ReservedChk(proof.rsv), proof.rsv, proof.msg, manual)
  BY Zenon DEF ReportEvent
<1> HIDE DEF manual
<1>3. Line(ReservedChk(proof.rsv), proof.rsv, proof.msg, manual).type = type BY <1>1
<1> HIDE DEF Line
<1> QED BY <1>2, <1>3

\* report-proof opens the lock so.
LEMMA ProofAgrees ==
  ASSUME ReportingAgrees, StoreTypeOK, UNCHANGED channel, NEW p \in Proc,
         ProofRecord(p) \/ ProofAdopt(p)
  PROVE  ReportingAgrees'
<1>1. PICK proof \in Claim :
        /\ Single(ReservedAs(proof.rsv))
        /\ \/ Open(p, "proof", "append", [wf EXCEPT !.proof = proof],
                   ReportEvent("report_proof", proof), NoId)
           \/ Open(p, "proof", "save", [wf EXCEPT !.proof = proof], NoEvent, NoId)
  BY DEF ProofRecord, ProofAdopt, ReportContext
<1>2. UNCHANGED <<files, call, channel>> BY DEF ProofRecord, ProofAdopt
<1>3. Reserved # {} BY <1>1, SingleReserved
<1>4. /\ Free /\ tx'.cmd = "proof" /\ tx'.step # "idle"
      /\ tx'.event.type # "delivery_reserved"
      /\ tx'.step = "append" => tx'.event.type \in DeliveryEvent
  BY <1>1, ReportEventNamed DEF Open, NoEvent, DeliveryEvent
<1>5. /\ tx'.wf.status = wf.status /\ tx'.wf.index = wf.index /\ tx'.wf.cursor = wf.cursor
      /\ tx'.wf.lease = wf.lease /\ tx'.wf.snapshot = wf.snapshot
  BY <1>1 DEF Open, StoreTypeOK, Record
<1> QED BY <1>2, <1>3, <1>4, <1>5, ReportOpenAgrees

\* complete-reported opens the lock so.
LEMMA CompleteAgrees ==
  ASSUME ReportingAgrees, StoreTypeOK, UNCHANGED channel, NEW p \in Proc,
         CompleteBegin(p) \/ CompleteAdopt(p)
  PROVE  ReportingAgrees'
<1> DEFINE proof == call[p].proof
<1>1. /\ Single(ReservedAs(proof.rsv))
      /\ \/ Open(p, "complete", "append", Reported(proof), ReportEvent("report_sent", proof), NoId)
         \/ Open(p, "complete", "save", Reported(proof), NoEvent, NoId)
  BY DEF CompleteBegin, CompleteAdopt, ReportContext
<1> HIDE DEF proof
<1>2. UNCHANGED <<files, channel>> BY DEF CompleteBegin, CompleteAdopt
<1>3. \A q \in Proc : call'[q].stage \in {"reserve", "authorised"} => call'[q] = call[q]
  BY DEF CompleteBegin, CompleteAdopt, StoreTypeOK, NoCall
<1>4. Reserved # {} BY <1>1, SingleReserved
<1>5. /\ Free /\ tx'.cmd = "complete" /\ tx'.step # "idle"
      /\ tx'.event.type # "delivery_reserved"
      /\ tx'.step = "append" => tx'.event.type \in DeliveryEvent
  BY <1>1, ReportEventNamed DEF Open, NoEvent, DeliveryEvent
<1>6. /\ tx'.wf.status = "reported" /\ tx'.wf.index = wf.index /\ tx'.wf.cursor = wf.cursor
      /\ tx'.wf.lease = wf.lease /\ tx'.wf.snapshot = wf.snapshot
  <2>1. tx'.wf = Reported(proof) BY <1>1 DEF Open
  <2> QED BY <2>1 DEF Reported, StoreTypeOK, Record
<1> QED BY <1>2, <1>3, <1>4, <1>5, <1>6, ReportOpenAgrees

-----------------------------------------------------------------------------
\* The reservation is logged.
LEMMA ReserveWriteAgrees ==
  ASSUME ReportingAgrees, StoreTypeOK, UNCHANGED channel, DeliveryWrite, Reserving
  PROVE  ReportingAgrees'
<1>1. /\ UNCHANGED <<wf, pendingChk, call, owing, authorised, sent>>
      /\ events' = Append(events, tx.event) /\ tx.event \in Event
  BY DEF DeliveryWrite, AppendEvent, Reserving, channel, StoreTypeOK, Tx
<1>2. /\ Reserved = {} /\ tx.event.type = "delivery_reserved" /\ tx.event.chk = LastEntry.id
      /\ wf.snapshot /\ pendingChk = {} /\ wf.status \in Terminal
  BY DEF ReportingAgrees, FirstReservation, LockedSection, Reserving, DeliveryCommand, Reserved
<1>3. /\ Reserved' = {Len(events) + 1} /\ events'[Len(events) + 1] = tx.event
  BY <1>1, <1>2, Appended DEF Reserved, StoreTypeOK
<1>4. tx' = [tx EXCEPT !.step = "save"]
  BY DEF DeliveryWrite, Proceed, DeliveryOrder, Reserving
<1>5. /\ tx'.cmd = "reserve" /\ tx'.wf = tx.wf /\ tx'.event = tx.event /\ tx'.step = "save"
      /\ tx.cmd = "reserve" /\ tx'.by = tx.by
  BY <1>4 DEF StoreTypeOK, Tx, Reserving
<1>6. LastEntry' = LastEntry /\ ~Reserving' /\ ~Free' BY <1>1, <1>5 DEF LastEntry, Reserving, Free
<1>7. EndsFinished(wf)' /\ EndsFinished(tx.wf)'
  BY <1>1, <1>5 DEF ReportingAgrees, EndsFinished
<1>8. LockedSection'
  BY <1>1, <1>5, <1>6 DEF ReportingAgrees, LockedSection, LifeCommand, DeliveryCommand
<1>9. FirstReservation' /\ OnlyReservation' /\ ReservedOnlyWhenFinished'
  BY <1>1, <1>2, <1>3, <1>5, <1>6 DEF FirstReservation, OnlyReservation,
     ReservedOnlyWhenFinished, Reserved, LifeCommand
<1>10. UnlockedReads'
  BY <1>1, <1>3, <1>6 DEF ReportingAgrees, UnlockedReads, Reserved
<1>11. OnePermission'
  BY <1>1, <1>3 DEF ReportingAgrees, OnePermission, Reserved
<1> QED BY <1>7, <1>8, <1>9, <1>10, <1>11 DEF ReportingAgrees

\* A proof or a report is logged, or workflow.json saved.
LEMMA ReportWriteAgrees ==
  ASSUME ReportingAgrees, StoreTypeOK, UNCHANGED channel, DeliveryWrite, ~Reserving
  PROVE  ReportingAgrees'
<1>1. UNCHANGED <<pendingChk, call, owing, authorised, sent>>
  BY DEF DeliveryWrite, AppendEvent, SaveWorkflow, channel
<1>2. /\ tx.cmd \in DeliveryCommand /\ wf.status \in Terminal
      /\ tx.wf.status \in {wf.status, "reported"} /\ tx.wf.index = wf.index
      /\ tx.wf.cursor = wf.cursor /\ tx.wf.lease = wf.lease /\ tx.wf.snapshot = wf.snapshot
      /\ tx.step = "append" => tx.event.type # "delivery_reserved"
      /\ tx.event \in Event /\ tx \in Tx /\ tx.wf \in Record
  BY DEF DeliveryWrite, ReportingAgrees, LockedSection, DeliveryCommand, Reserving, StoreTypeOK, Tx
<1>3. /\ Reserved' = Reserved /\ \A i \in Reserved : events'[i] = events[i]
  BY <1>2, ReservedKept DEF DeliveryWrite, AppendEvent, SaveWorkflow
<1>4. \/ /\ wf' = wf /\ tx.step = "append" /\ tx' = [tx EXCEPT !.step = "save"]
      \/ /\ wf' = [tx.wf EXCEPT !.lastActivity = now] /\ tx' = NoTx
  BY DEF DeliveryWrite, AppendEvent, SaveWorkflow, Proceed, DeliveryOrder
<1>5. /\ wf'.index = wf.index /\ wf'.snapshot = wf.snapshot /\ wf'.cursor = wf.cursor
      /\ wf'.lease = wf.lease /\ wf'.status \in {wf.status, "reported"}
  BY <1>2, <1>4 DEF Record
<1>6. /\ wf'.status \in Terminal /\ LastEntry' = LastEntry
  BY <1>2, <1>5 DEF LastEntry, Terminal
<1>7. EndsFinished(wf)'
  BY <1>2, <1>5, <1>6 DEF ReportingAgrees, EndsFinished
<1>8. \/ tx' = NoTx
      \/ /\ wf' = wf /\ tx'.cmd = tx.cmd /\ tx'.wf = tx.wf /\ tx'.event = tx.event
         /\ tx'.step = "save"
  BY <1>2, <1>4 DEF Tx
<1>9. /\ ~Reserving' /\ EndsFinished(tx.wf)' /\ LockedSection'
  <2>1. CASE tx' = NoTx
    BY <2>1 DEF NoTx, NewWorkflow, Reserving, EndsFinished, LockedSection, Terminal, Unreported,
       LifeCommand, DeliveryCommand, Free
  <2>2. CASE tx' # NoTx
    BY <1>2, <1>8, <2>2 DEF ReportingAgrees, Reserving, EndsFinished, LockedSection, LifeCommand,
       DeliveryCommand, Free
  <2> QED BY <2>1, <2>2
<1>10. FirstReservation' /\ OnlyReservation' /\ ReservedOnlyWhenFinished'
  <2>1. tx'.cmd \notin LifeCommand
    BY <1>2, <1>8 DEF LifeCommand, DeliveryCommand, NoTx
  <2> QED BY <1>1, <1>3, <1>5, <1>6, <1>9, <2>1 DEF ReportingAgrees, FirstReservation,
          OnlyReservation, ReservedOnlyWhenFinished, Reserved
<1>11. UnlockedReads'
  BY <1>1, <1>3, <1>6 DEF ReportingAgrees, UnlockedReads, Reserved
<1>12. OnePermission'
  BY <1>1, <1>3 DEF ReportingAgrees, OnePermission, Reserved
<1> QED BY <1>7, <1>9, <1>10, <1>11, <1>12 DEF ReportingAgrees

-----------------------------------------------------------------------------
\* A workflow just created satisfies the invariant.
LEMMA AgreesInit == Init => ReportingAgrees
<1> SUFFICES ASSUME Init PROVE ReportingAgrees OBVIOUS
<1>1. /\ wf = NewWorkflow /\ tx = NoTx /\ events = << >> /\ call = [p \in Proc |-> NoCall]
      /\ owing = {} /\ authorised = 0 /\ sent = {}
  BY DEF Init, StoreInit, ChannelInit
<1>2. EventsOf("delivery_reserved") = {} BY <1>1 DEF EventsOf
<1>3. /\ wf.status = "running" /\ tx.wf.status = "running" /\ tx.step = "idle" /\ tx.cmd = "none"
      /\ \A p \in Proc : call[p].stage = "idle"
  BY <1>1 DEF NewWorkflow, NoTx, NoCall
<1> QED BY <1>1, <1>2, <1>3 DEF ReportingAgrees, EndsFinished, LockedSection, FirstReservation,
        OnlyReservation, ReservedOnlyWhenFinished, UnlockedReads, OnePermission, Terminal,
        Unreported, LifeCommand, DeliveryCommand, Reserving

\* Every step keeps the invariant.
LEMMA AgreesStep == DeliveryTypeOK /\ ReportingAgrees /\ [Next]_deliveryVars => ReportingAgrees'
<1> SUFFICES ASSUME DeliveryTypeOK, ReportingAgrees, [Next]_deliveryVars PROVE ReportingAgrees'
  OBVIOUS
<1>0. StoreTypeOK BY DEF DeliveryTypeOK
<1>1. CASE LifeStep /\ UNCHANGED channel
  <2>1. CASE \/ \E p \in Proc : CheckpointRead(p) \/ RecoverRead(p) \/ RecoverReply(p) \/ Leave(p)
             \/ Tick
    BY <1>0, <1>1, <2>1, QuietAgrees
  <2>2. CASE Crash BY <1>0, <1>1, <2>2, CrashAgrees
  <2>3. ASSUME NEW p \in Proc,
               CheckpointBegin(p) \/ NoteBegin(p) \/ RoundBegin(p) \/ RecoverBegin(p)
        PROVE  ReportingAgrees'
    BY <1>0, <1>1, <2>3, CheckpointBeginAgrees, RecordBeginAgrees, RecoverBeginAgrees
  <2>4. CASE CheckpointWrite \/ NoteWrite \/ RoundWrite \/ RecoverWrite
    BY <1>0, <1>1, <2>4, CheckpointWriteAgrees, RecordWriteAgrees, RecoverWriteAgrees
  <2> QED BY <1>1, <2>1, <2>2, <2>3, <2>4 DEF LifeStep
<1>2. ASSUME NEW p \in Proc, Send(p) \/ LoseSender(p) PROVE ReportingAgrees'
  BY <1>2, SendAgrees
<1>3. ASSUME NEW p \in Proc, ReserveReply(p) PROVE ReportingAgrees'
  BY <1>0, <1>3, ReserveReplyAgrees
<1>4. ASSUME NEW p \in Proc, ReserveRead(p) \/ ReserveBegin(p) PROVE ReportingAgrees'
  <2>1. UNCHANGED channel BY <1>4 DEF ReserveRead, ReserveBegin
  <2> QED BY <1>0, <1>4, <2>1, ReserveReadAgrees, ReserveBeginAgrees
<1>5. ASSUME NEW p \in Proc, ProofRecord(p) \/ ProofAdopt(p) \/ ProofKnown(p)
      PROVE ReportingAgrees'
  <2>1. UNCHANGED channel BY <1>5 DEF ProofRecord, ProofAdopt, ProofKnown
  <2> QED BY <1>0, <1>5, <2>1, ProofAgrees, QuietAgrees
<1>6. ASSUME NEW p \in Proc, CompleteBegin(p) \/ CompleteAdopt(p) PROVE ReportingAgrees'
  <2>1. UNCHANGED channel BY <1>6 DEF CompleteBegin, CompleteAdopt
  <2> QED BY <1>0, <1>6, <2>1, CompleteAgrees
<1>7. CASE DeliveryWrite
  <2>1. UNCHANGED channel BY <1>7 DEF DeliveryWrite
  <2> QED BY <1>0, <1>7, <2>1, ReserveWriteAgrees, ReportWriteAgrees
<1>8. CASE UNCHANGED deliveryVars
  <2>1. UNCHANGED <<files, tx, channel, call>> BY <1>8 DEF deliveryVars, storeVars, files, channel
  <2> QED BY <2>1, CallAgrees
<1> QED BY <1>1, <1>2, <1>3, <1>4, <1>5, <1>6, <1>7, <1>8 DEF Next, ReportStep

\* The reservation, the locked section, what processes read outside the lock and
\* the permission to send agree in every reachable state.
THEOREM ReportingAlwaysAgrees == Spec => []ReportingAgrees
BY WorkflowTyped, AgreesInit, AgreesStep, PTL DEF Spec

\* reserve-delivery never authorises two sends, and never two messages are on
\* the channel, for any number of processes and crashes.
THEOREM AtMostOneSendHolds == Spec => []AtMostOneSend
<1>1. ReportingAgrees => AtMostOneSend
  BY DEF ReportingAgrees, OnePermission, AtMostOneSend
<1> QED BY <1>1, ReportingAlwaysAgrees, PTL

\* Delivery is only ever reserved for the last checkpoint of a finished workflow.
THEOREM ReservedOnlyWhenFinishedHolds == Spec => []ReservedOnlyWhenFinished
<1>1. ReportingAgrees => ReservedOnlyWhenFinished BY DEF ReportingAgrees
<1> QED BY <1>1, ReportingAlwaysAgrees, PTL

-----------------------------------------------------------------------------
\* What FinishedIsFrozen says of one step.
Frozen ==
  wf.status \in Terminal =>
    /\ wf'.index = wf.index /\ wf'.cursor = wf.cursor /\ wf'.lease = wf.lease
    /\ wf'.snapshot = wf.snapshot /\ wf'.status \in {wf.status, "reported"}
    /\ \A i \in DOMAIN events' \ DOMAIN events : events'[i].type \in DeliveryEvent

\* The last write of a checkpoint or of a recovery, the only one it can make
\* after the workflow became terminal, removes its marker.
LEMMA LifeWriteFrozen ==
  ASSUME ReportingAgrees, wf.status \in Terminal,
         CheckpointWrite \/ NoteWrite \/ RoundWrite \/ RecoverWrite
  PROVE  UNCHANGED <<wf, events>>
<1>1. tx.cmd \in LifeCommand /\ tx.step = "clear"
  BY DEF CheckpointWrite, NoteWrite, RoundWrite, RecoverWrite, LifeCommand, ReportingAgrees,
         LockedSection
<1> QED BY <1>1 DEF CheckpointWrite, NoteWrite, RoundWrite, RecoverWrite, ClearPendingCheckpoint,
        ClearPendingRecovery

\* The writes of a delivery command leave the frozen part alone.
LEMMA DeliveryWriteFrozen ==
  ASSUME ReportingAgrees, StoreTypeOK, DeliveryWrite
  PROVE  Frozen
<1>1. /\ tx.wf \in Record /\ tx.event \in Event /\ events \in Seq(Event)
      /\ tx.cmd \in DeliveryCommand
  BY DEF StoreTypeOK, Tx, DeliveryWrite, DeliveryCommand
<1>2. CASE tx.step = "append"
  <2>1. wf' = wf /\ events' = Append(events, tx.event) BY <1>2 DEF DeliveryWrite, AppendEvent
  <2>2. tx.event.type \in DeliveryEvent BY <1>1, <1>2 DEF ReportingAgrees, LockedSection
  <2> QED BY <1>1, <2>1, <2>2, Appended DEF Frozen
<1>3. CASE tx.step # "append"
  <2>1. wf' = [tx.wf EXCEPT !.lastActivity = now] /\ events' = events
    BY <1>3 DEF DeliveryWrite, SaveWorkflow
  <2> QED BY <1>1, <2>1 DEF Frozen, ReportingAgrees, LockedSection, Record
<1> QED BY <1>2, <1>3

\* No step of the specification changes the frozen part.
LEMMA StepFrozen == DeliveryTypeOK /\ ReportingAgrees /\ [Next]_deliveryVars => Frozen
<1> SUFFICES ASSUME DeliveryTypeOK, ReportingAgrees, [Next]_deliveryVars PROVE Frozen
  OBVIOUS
<1>0. StoreTypeOK BY DEF DeliveryTypeOK
<1>1. CASE UNCHANGED <<wf, events>> BY <1>1 DEF Frozen
<1>2. CASE CheckpointWrite \/ NoteWrite \/ RoundWrite \/ RecoverWrite
  BY <1>1, <1>2, LifeWriteFrozen DEF Frozen
<1>3. CASE DeliveryWrite BY <1>0, <1>3, DeliveryWriteFrozen
<1>4. CASE \/ \E p \in Proc :
                \/ CheckpointRead(p) \/ CheckpointBegin(p) \/ NoteBegin(p) \/ RoundBegin(p)
                \/ RecoverRead(p) \/ RecoverBegin(p) \/ RecoverReply(p) \/ Leave(p)
           \/ Crash \/ Tick
  BY <1>1, <1>4 DEF files, CheckpointRead, CheckpointBegin, NoteBegin, RoundBegin,
     RecoverRead, RecoverBegin,
     RecoverReply, Leave, Crash, Tick
<1>5. CASE \E p \in Proc :
             \/ ReserveRead(p) \/ ReserveBegin(p) \/ ReserveReply(p) \/ Send(p) \/ LoseSender(p)
             \/ ProofRecord(p) \/ ProofAdopt(p) \/ ProofKnown(p)
             \/ CompleteBegin(p) \/ CompleteAdopt(p)
  BY <1>1, <1>5 DEF files, storeVars, ReserveRead, ReserveBegin, ReserveReply, Send, LoseSender,
     ProofRecord, ProofAdopt, ProofKnown, CompleteBegin, CompleteAdopt
<1>6. CASE UNCHANGED deliveryVars BY <1>1, <1>6 DEF deliveryVars, storeVars
<1> QED BY <1>2, <1>3, <1>4, <1>5, <1>6 DEF Next, ReportStep, LifeStep

\* No checkpoint, note or recovery changes a workflow that has finished, even
\* one that read it before: what delivery was reserved for stays as it was.
THEOREM FinishedStaysFrozen == Spec => FinishedIsFrozen
<1>1. Frozen => [wf.status \in Terminal =>
        /\ wf'.index = wf.index /\ wf'.cursor = wf.cursor /\ wf'.lease = wf.lease
        /\ wf'.snapshot = wf.snapshot
        /\ wf'.status \in {wf.status, "reported"}
        /\ \A i \in DOMAIN events' \ DOMAIN events :
             events'[i].type \in {"delivery_reserved", "report_proof", "report_sent"}]_deliveryVars
  BY DEF Frozen, DeliveryEvent
<1> QED BY <1>1, StepFrozen, WorkflowTyped, ReportingAlwaysAgrees, PTL DEF Spec, FinishedIsFrozen
=============================================================================
