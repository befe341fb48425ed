---------------------------- MODULE DeliveryProofs ----------------------------
(***************************************************************************)
(* A report rests on what was logged before it: the reservation, then its  *)
(* proof, then the report, each once, whatever crashes in between; and     *)
(* what a reported workflow needs to pass its own validate command.        *)
(***************************************************************************)
EXTENDS RecoveryProofs, ReportOnceProofs

Proofs  == EventsOf("report_proof")
Reports == EventsOf("report_sent")

\* The log backs a proof: a line with its keys, after the reservation it names.
Backed(proof) == \E j \in ReservedAs(proof.rsv), k \in ProofLines(proof) : j < k

\* A checkpoint id of the log that is not a checkpoint's own is a reservation's.
Cited(chk) == chk = NoId \/ \E j \in Reserved : events[j].chk = chk

\* What workflow.json keeps of a report: its proof's keys, and no reservation.
IsReported(w) ==
  /\ w.proof \in Claim /\ w.reservation = NoDelivery
  /\ w.reported = [rsv |-> w.proof.rsv, msg |-> w.proof.msg]

\* workflow.json and the log agree about the proof and the report.
FilesAgree ==
  /\ wf.proof = NoProof \/ (wf.proof \in Claim /\ Backed(wf.proof))
  /\ \A k \in Proofs : \E j \in ReservedAs(events[k].rsv) : j < k
  /\ \A i, j \in Reports : i = j
  /\ \A i \in Reports :
       /\ wf.proof \in Claim /\ events[i].rsv = wf.proof.rsv /\ events[i].msg = wf.proof.msg
       /\ \E j \in ReservedAs(wf.proof.rsv), k \in ProofLines(wf.proof) : j < k /\ k < i
  /\ wf.status = "reported" => IsReported(wf) /\ Reports # {}
  /\ \A i \in DOMAIN events : events[i].type = "checkpoint" \/ Cited(events[i].chk)

\* What the open section will save: report-proof alone sets the proof, on a workflow without
\* one; complete-reported alone drops a reservation, with the report of that proof.
ProofSection ==
  /\ tx.cmd \notin {"none", "proof"} => tx.wf.proof = wf.proof
  /\ tx.cmd = "proof" =>
       /\ wf.proof = NoProof /\ tx.wf.proof \in Claim
       /\ tx.step = "append" =>
            /\ tx.event.type = "report_proof" /\ tx.event.rsv = tx.wf.proof.rsv
            /\ tx.event.msg = tx.wf.proof.msg /\ tx.event.manual = tx.wf.proof.manual
            /\ ReservedAs(tx.wf.proof.rsv) # {}
       /\ tx.step # "append" => Backed(tx.wf.proof)
  /\ tx.cmd \notin {"none", "reserve", "complete"} => tx.wf.reservation = wf.reservation
  /\ tx.cmd = "reserve" =>
       wf.reservation = NoDelivery /\ (tx.step # "append" => Reserved # {})

ReportSection ==
  /\ wf.status = "reported" => tx = NoTx
  /\ tx.cmd \notin {"none", "complete"} => tx.wf.status # "reported"
  /\ tx.cmd = "complete" =>
       /\ IsReported(tx.wf) /\ tx.wf.status = "reported"
       /\ tx.step = "append" =>
            /\ Reports = {} /\ tx.event.type = "report_sent"
            /\ tx.event.rsv = wf.proof.rsv /\ tx.event.msg = wf.proof.msg
       /\ tx.step # "append" => Reports # {}
  /\ tx.cmd \in LifeCommand => tx.event.type = "checkpoint" \/ tx.event.chk = NoId
  /\ tx.cmd \in {"proof", "complete"} /\ tx.step = "append" => Cited(tx.event.chk)

\* The proof complete-reported carries into its second section is the one on record.
CallsAgree ==
  \A p \in Proc : call[p].stage = "proved" => wf.proof \in Claim /\ call[p].proof = wf.proof

DeliveryAgrees == FilesAgree /\ ProofSection /\ ReportSection /\ CallsAgree

\* Until something crashes, a proof has one line in the log, and no line is left without its
\* proof on record.
OneProofLine ==
  crashes = 0 =>
    /\ \A i, j \in Proofs : i = j
    /\ Proofs # {} => wf.proof # NoProof \/ (tx.cmd = "proof" /\ tx.step = "save")

-----------------------------------------------------------------------------
\* A proof on record is told apart from none.
LEMMA NoProofIsNoClaim == NoProof \notin Claim
BY StoreAssumption DEF NoProof, Claim

\* A line appended: what it adds to reservations, proofs and reports.
LEMMA ReportLogGrows ==
  ASSUME StoreTypeOK, NEW event \in Event, AppendEvent(event)
  PROVE  LET n == Len(events) + 1 IN
         /\ Reserved' = Reserved \cup (IF event.type = "delivery_reserved" THEN {n} ELSE {})
         /\ Proofs' = Proofs \cup (IF event.type = "report_proof" THEN {n} ELSE {})
         /\ Reports' = Reports \cup (IF event.type = "report_sent" THEN {n} ELSE {})
         /\ DOMAIN events' = DOMAIN events \cup {n} /\ events'[n] = event /\ n \in Nat
         /\ \A i \in DOMAIN events : events'[i] = events[i] /\ i < n /\ i \in Nat
         /\ Reserved \cup Proofs \cup Reports \subseteq DOMAIN events
<1>1. events \in Seq(Event) /\ events' = Append(events, event) BY DEF StoreTypeOK, AppendEvent
<1>2. \A i \in DOMAIN events : events'[i] = events[i] /\ i < Len(events) + 1 /\ i \in Nat
  BY <1>1
<1>3. Reserved \cup Proofs \cup Reports \subseteq DOMAIN events
  BY DEF Reserved, Proofs, Reports, EventsOf
<1>4. ASSUME NEW type
      PROVE  EventsOf(type)' = EventsOf(type) \cup
               (IF event.type = type THEN {Len(events) + 1} ELSE {})
  BY <1>1, Appended
<1>5. /\ DOMAIN events' = DOMAIN events \cup {Len(events) + 1}
      /\ events'[Len(events) + 1] = event /\ Len(events) + 1 \in Nat
  BY <1>1
<1> QED BY <1>2, <1>3, <1>4, <1>5 DEF Reserved, Proofs, Reports

\* A log that only grows keeps what it backs and what it cites.
LogKept == \A i \in DOMAIN events : i \in DOMAIN events' /\ events'[i] = events[i]

LEMMA BackedStays ==
  ASSUME LogKept
  PROVE  /\ \A proof : Backed(proof) =>
              \E j \in Reserved', k \in Proofs' :
                /\ j < k /\ events'[j].rsv = proof.rsv /\ events'[k].rsv = proof.rsv
                /\ events'[k].msg = proof.msg /\ events'[k].manual = proof.manual
         /\ \A chk : Cited(chk) => chk = NoId \/ \E j \in Reserved' : events'[j].chk = chk
         /\ \A rsv : ReservedAs(rsv) # {} => \E j \in Reserved' : events'[j].rsv = rsv
BY DEF LogKept, Backed, Cited, ReservedAs, ProofLines, Reserved, Proofs, EventsOf

-----------------------------------------------------------------------------
\* A step that writes no file and changes no call about a proof keeps the invariant if the
\* section it leaves open does.
LEMMA NoFileAgrees ==
  ASSUME FilesAgree, UNCHANGED files, ProofSection', ReportSection', CallsAgree'
  PROVE  DeliveryAgrees'
<1>1. UNCHANGED <<wf, events>> BY DEF files
<1>2. FilesAgree'
  BY <1>1 DEF FilesAgree, Backed, ReservedAs, ProofLines, Reserved, Proofs, Reports, EventsOf,
     IsReported, Cited
<1> QED BY <1>2 DEF DeliveryAgrees

\* No section open: nothing to agree with.
LEMMA ClosedAgrees == tx' = NoTx => ProofSection' /\ ReportSection'
BY DEF NoTx, ProofSection, ReportSection, LifeCommand

\* The same section over the same files.
LEMMA SameSectionAgrees ==
  ASSUME ProofSection, ReportSection, UNCHANGED files, tx' = tx
  PROVE  ProofSection' /\ ReportSection'
<1>1. UNCHANGED <<wf, events, tx>> BY DEF files
<1> QED BY <1>1 DEF ProofSection, ReportSection, Backed, ReservedAs, ProofLines, Reserved,
           Proofs, Reports, EventsOf, IsReported, Cited

\* A section of a checkpoint, a note or a recovery.
LEMMA LifeSectionAgrees ==
  ASSUME tx'.cmd \in LifeCommand, wf'.status # "reported",
         tx'.wf.proof = wf'.proof, tx'.wf.reservation = wf'.reservation,
         tx'.wf.status # "reported",
         tx'.event.type = "checkpoint" \/ tx'.event.chk = NoId
  PROVE  ProofSection' /\ ReportSection'
BY DEF LifeCommand, ProofSection, ReportSection

\* Calls that are not about a proof.
LEMMA CallsKept ==
  ASSUME CallsAgree, wf' = wf,
         \A p \in Proc : call'[p].stage = "proved" => call'[p] = call[p]
  PROVE  CallsAgree'
BY DEF CallsAgree

-----------------------------------------------------------------------------
\* Reads, answers, sends, giving up and the clock.
LEMMA QuietDelivers ==
  ASSUME StoreTypeOK, DeliveryAgrees,
         \/ \E p \in Proc : \/ CheckpointRead(p) \/ RecoverRead(p) \/ RecoverReply(p) \/ Leave(p)
                            \/ ReserveRead(p) \/ ReserveReply(p) \/ Send(p) \/ LoseSender(p)
         \/ Tick
         \/ UNCHANGED storeVars
  PROVE  DeliveryAgrees'
<1>1. UNCHANGED <<files, tx>> /\ wf' = wf
  BY DEF CheckpointRead, RecoverRead, RecoverReply, Leave, ReserveRead, ReserveReply, Send,
         LoseSender, Tick, storeVars, files
<1>2. call \in [Proc -> Call] BY DEF StoreTypeOK
<1>3. CASE \/ \E p \in Proc : Send(p) \/ LoseSender(p)
           \/ Tick \/ UNCHANGED storeVars
  <2>1. call' = call BY <1>3 DEF Send, LoseSender, Tick, storeVars
  <2> QED BY <1>1, <2>1, CallsKept, SameSectionAgrees, NoFileAgrees DEF DeliveryAgrees
<1>4. ASSUME NEW p \in Proc, CheckpointRead(p) \/ RecoverRead(p) \/ ReserveRead(p)
                             \/ RecoverReply(p) \/ Leave(p) \/ ReserveReply(p)
      PROVE  DeliveryAgrees'
  <2>1. CASE CheckpointRead(p) \/ RecoverRead(p)
    <3>1. \A q \in Proc : call'[q].stage = "proved" => call'[q] = call[q]
      BY <1>2, <2>1 DEF CheckpointRead, RecoverRead, NoCall
    <3> QED BY <1>1, <3>1, CallsKept, SameSectionAgrees, NoFileAgrees DEF DeliveryAgrees
  <2>2. CASE ReserveRead(p)
    <3>1. PICK k \in DOMAIN wf.index :
            call' = [call EXCEPT ![p] = [NoCall EXCEPT !.stage = "reserve", !.at = now,
                                                      !.id = wf.index[k].id]]
      BY <2>2 DEF ReserveRead
    <3>2. \A q \in Proc : call'[q].stage = "proved" => call'[q] = call[q]
      BY <1>2, <3>1 DEF NoCall
    <3> QED BY <1>1, <3>2, CallsKept, SameSectionAgrees, NoFileAgrees DEF DeliveryAgrees
  <2>3. CASE RecoverReply(p) \/ Leave(p) \/ ReserveReply(p)
    <3>1. call' = [call EXCEPT ![p] = NoCall]
      BY <2>3 DEF RecoverReply, Leave, ReserveReply
    <3>2. \A q \in Proc : call'[q].stage = "proved" => call'[q] = call[q]
      BY <1>2, <3>1 DEF NoCall
    <3> QED BY <1>1, <3>2, CallsKept, SameSectionAgrees, NoFileAgrees DEF DeliveryAgrees
  <2> QED BY <1>4, <2>1, <2>2, <2>3
<1> QED BY <1>3, <1>4

\* A crash leaves the files as they are.
LEMMA CrashDelivers ==
  ASSUME StoreTypeOK, DeliveryAgrees, Crash
  PROVE  DeliveryAgrees'
<1>1. UNCHANGED files /\ tx' = NoTx /\ wf' = wf BY DEF Crash, files
<1>2. call \in [Proc -> Call] /\ call' = [call EXCEPT ![tx.by] = NoCall] BY DEF Crash, StoreTypeOK
<1>3. \A p \in Proc : call'[p].stage = "proved" => call'[p] = call[p]
  BY <1>2 DEF NoCall
<1> QED BY <1>1, <1>3, ClosedAgrees, CallsKept, NoFileAgrees DEF DeliveryAgrees

\* A checkpoint, a note or a recovery opens the lock on a workflow that is not reported.
LEMMA LifeOpenDelivers ==
  ASSUME StoreTypeOK, DeliveryAgrees, NEW p \in Proc,
         CheckpointBegin(p) \/ NoteBegin(p) \/ RoundBegin(p) \/ RecoverBegin(p)
  PROVE  DeliveryAgrees'
<1>0. wf \in Record /\ call \in [Proc -> Call] BY DEF StoreTypeOK
<1>1. UNCHANGED files /\ wf' = wf
  BY DEF CheckpointBegin, NoteBegin, RoundBegin, RecoverBegin, files
<1>2. CASE CheckpointBegin(p)
  <2>1. PICK status \in Asked, advance \in BOOLEAN, cited \in {NoId, held[p]},
             gated \in BOOLEAN, snapshot \in BOOLEAN :
          LET before == call[p].cursor
              after  == IF advance THEN before + 1 ELSE before
          IN /\ CanCheckpoint(status)
             /\ Open(p, "checkpoint", "mark",
                     Checkpointed(Fresh, before, after, status, gated, snapshot),
                     CheckpointEvent(Fresh, cited), Fresh)
    BY <1>2, CheckpointBeginParts
  <2>2. /\ tx'.cmd = "checkpoint" /\ tx'.wf.proof = wf.proof /\ tx'.wf.reservation = wf.reservation
        /\ tx'.wf.status = status /\ tx'.event.type = "checkpoint"
    BY <1>0, <2>1 DEF Open, Checkpointed, CheckpointEvent, NoEvent, Record
  <2>3. wf.status # "reported" /\ status # "reported" BY <2>1 DEF CanCheckpoint, Terminal
  <2>4. ProofSection' /\ ReportSection' BY <1>1, <2>2, <2>3, LifeSectionAgrees DEF LifeCommand
  <2>5. \A q \in Proc : call'[q].stage = "proved" => call'[q] = call[q]
    BY <1>0, <1>2 DEF CheckpointBegin, NoCall
  <2> QED BY <1>1, <2>4, <2>5, CallsKept, NoFileAgrees DEF DeliveryAgrees
<1>3. CASE NoteBegin(p) \/ RoundBegin(p)
  <2>1. PICK cmd \in {"note", "round"}, type \in {"owner_decision", "progress"} :
          Open(p, cmd, "append", wf, [NoEvent EXCEPT !.type = type], Fresh)
    BY <1>3, RecordOpens
  <2>2. tx'.cmd = cmd /\ tx'.wf = wf /\ tx'.event.chk = NoId BY <2>1 DEF Open, NoEvent
  <2>3. wf.status # "reported" /\ call' = call BY <1>3, RecordOpens DEF MayRecord, Terminal
  <2>4. ProofSection' /\ ReportSection' BY <1>1, <2>2, <2>3, LifeSectionAgrees DEF LifeCommand
  <2> QED BY <1>1, <2>3, <2>4, CallsKept, NoFileAgrees DEF DeliveryAgrees
<1>4. CASE RecoverBegin(p)
  <2> DEFINE lease(seconds) == [id |-> Fresh, cursor |-> wf.cursor, holder |-> p,
                                expires |-> call[p].at + seconds]
  <2>1. PICK seconds \in LeaseSeconds :
          Open(p, "recover", IF wf.lease.id = NoId THEN "mark" ELSE "release",
               [wf EXCEPT !.lease = lease(seconds)],
               LeaseEvent("recovery_lease_acquired", Fresh), Fresh)
    BY <1>4 DEF RecoverBegin
  <2> HIDE DEF lease
  <2>2. /\ tx'.cmd = "recover" /\ tx'.event.chk = NoId /\ tx'.wf.status = wf.status
        /\ tx'.wf.proof = wf.proof /\ tx'.wf.reservation = wf.reservation
    BY <1>0, <2>1 DEF Open, LeaseEvent, NoEvent, Record
  <2>3. wf.status # "reported"
    BY <1>4 DEF RecoverBegin, Resumable, Reason, Terminal, Unreported, Active
  <2>4. ProofSection' /\ ReportSection' BY <1>1, <2>2, <2>3, LifeSectionAgrees DEF LifeCommand
  <2>5. \A q \in Proc : call'[q].stage = "proved" => call'[q] = call[q]
    BY <1>0, <1>4 DEF RecoverBegin, NoCall
  <2> QED BY <1>1, <2>4, <2>5, CallsKept, NoFileAgrees DEF DeliveryAgrees
<1> QED BY <1>2, <1>3, <1>4

-----------------------------------------------------------------------------
\* What a reservation event and the line of a report carry.
LEMMA ReportEventKeys ==
  ASSUME NEW type, NEW proof
  PROVE  /\ ReportEvent(type, proof).rsv = proof.rsv /\ ReportEvent(type, proof).msg = proof.msg
         /\ ReportEvent(type, proof).chk = ReservedChk(proof.rsv)
         /\ type = "report_proof" /\ proof \in Claim =>
              ReportEvent(type, proof).manual = proof.manual
<1> DEFINE Line(chk, rsv, msg, manual) ==
             [NoEvent EXCEPT !.type = type, !.chk = chk, !.rsv = rsv, !.msg = msg, !.manual = manual]
<1>1. ASSUME NEW chk, NEW rsv, NEW msg, NEW manual
      PROVE  LET line == Line(chk, rsv, msg, manual)
             IN line.chk = chk /\ line.rsv = rsv /\ line.msg = msg /\ line.manual = manual
  BY DEF NoEvent
<1> DEFINE manual == type = "report_proof" /\ proof.manual
<1>2. ReportEvent(type, proof) = Line(ReservedChk(proof.rsv), proof.rsv, proof.msg, manual)
  BY Zenon DEF ReportEvent
<1>3. type = "report_proof" /\ proof \in Claim => manual = proof.manual
  <2>1. ASSUME proof \in Claim PROVE proof.manual \in BOOLEAN BY <2>1 DEF Claim
  <2> QED BY <2>1
<1> HIDE DEF manual, Line
<1> QED BY <1>1, <1>2, <1>3

\* The checkpoint of a line about a report is that of the reservation it names.
LEMMA ReservedChkCited == ASSUME NEW rsv, Single(ReservedAs(rsv)) PROVE Cited(ReservedChk(rsv))
<1>1. (CHOOSE i \in ReservedAs(rsv) : TRUE) \in ReservedAs(rsv) BY DEF Single
<1> QED BY <1>1 DEF ReservedChk, Cited, ReservedAs, Reserved

-----------------------------------------------------------------------------
\* reserve-delivery opens the lock on a workflow without a reservation.
LEMMA ReserveDelivers ==
  ASSUME StoreTypeOK, DeliveryAgrees, NEW p \in Proc, ReserveBegin(p)
  PROVE  DeliveryAgrees'
<1>0. wf \in Record /\ call \in [Proc -> Call] BY DEF StoreTypeOK
<1>1. UNCHANGED files /\ wf' = wf BY DEF ReserveBegin, files
<1> DEFINE booking(rsv, seconds) ==
             [rsv |-> rsv, chk |-> call[p].id, expires |-> call[p].at + seconds]
<1>2. PICK rsv \in Reservation, seconds \in LeaseSeconds :
        Open(p, "reserve", "append", [wf EXCEPT !.reservation = booking(rsv, seconds)],
             ReservedEvent(rsv, call[p].id), call[p].id)
  BY DEF ReserveBegin
<1> HIDE DEF booking
<1>3. /\ tx'.cmd = "reserve" /\ tx'.wf.proof = wf.proof /\ tx'.wf.status = wf.status
      /\ tx'.event.type = "delivery_reserved" /\ tx'.step = "append"
  BY <1>0, <1>2 DEF Open, ReservedEvent, NoEvent, Record
<1>4. wf.reservation = NoDelivery /\ wf.status # "reported"
  BY DEF ReserveBegin, MayReserve, Unreported
<1>5. ProofSection' BY <1>1, <1>3, <1>4 DEF ProofSection
<1>6. ReportSection' BY <1>1, <1>3, <1>4 DEF ReportSection, LifeCommand
<1>7. \A q \in Proc : call'[q].stage = "proved" => call'[q] = call[q]
  <2>1. call' = [call EXCEPT ![p].stage = "authorised"] BY DEF ReserveBegin
  <2> QED BY <1>0, <2>1 DEF Call
<1> QED BY <1>1, <1>5, <1>6, <1>7, CallsKept, NoFileAgrees DEF DeliveryAgrees

\* report-proof opens the lock on a workflow without proof, for a reservation of the log.
LEMMA ProofDelivers ==
  ASSUME StoreTypeOK, DeliveryAgrees, NEW p \in Proc, ProofRecord(p) \/ ProofAdopt(p)
  PROVE  DeliveryAgrees'
<1>0. wf \in Record BY DEF StoreTypeOK
<1>1. UNCHANGED <<wf, events, call>> /\ UNCHANGED files BY DEF ProofRecord, ProofAdopt, files
<1>2. PICK proof \in Claim :
        /\ wf.proof = NoProof /\ Single(ReservedAs(proof.rsv))
        /\ \/ Open(p, "proof", "append", [wf EXCEPT !.proof = proof],
                   ReportEvent("report_proof", proof), NoId)
           \/ /\ Single(ProofLines(proof))
              /\ Open(p, "proof", "save", [wf EXCEPT !.proof = proof], NoEvent, NoId)
  BY DEF ProofRecord, ProofAdopt, Unproved, ReportContext
<1>3. wf.status # "reported"
  BY <1>2, NoProofIsNoClaim DEF DeliveryAgrees, FilesAgree, IsReported
<1>4. /\ tx'.cmd = "proof" /\ tx'.wf.proof = proof /\ tx'.wf.status = wf.status
      /\ tx'.wf.reservation = wf.reservation
  BY <1>0, <1>2 DEF Open, Record
<1>5. ReservedAs(proof.rsv) # {} BY <1>2 DEF Single
<1>6. CASE Open(p, "proof", "append", [wf EXCEPT !.proof = proof],
                ReportEvent("report_proof", proof), NoId)
  <2>1. tx'.event = ReportEvent("report_proof", proof) /\ tx'.step = "append" BY <1>6 DEF Open
  <2>2. /\ tx'.event.type = "report_proof" /\ tx'.event.rsv = proof.rsv
        /\ tx'.event.msg = proof.msg /\ tx'.event.manual = proof.manual
        /\ Cited(tx'.event.chk)
    BY <1>2, <2>1, ReportEventNamed, ReportEventKeys, ReservedChkCited
  <2>4. ProofSection' BY <1>1, <1>2, <1>4, <1>5, <2>1, <2>2 DEF ProofSection, ReservedAs, EventsOf
  <2>5. ReportSection'
    BY <1>1, <1>3, <1>4, <2>2 DEF ReportSection, LifeCommand, Cited, Reserved, EventsOf
  <2> QED BY <1>1, <2>4, <2>5, CallsKept, NoFileAgrees DEF DeliveryAgrees
<1>7. CASE /\ Single(ProofLines(proof))
           /\ Open(p, "proof", "save", [wf EXCEPT !.proof = proof], NoEvent, NoId)
  <2>1. tx'.event.chk = NoId /\ tx'.step = "save" BY <1>7 DEF Open, NoEvent
  <2>2. Backed(proof)
    <3>1. PICK k \in Proofs : k \in ProofLines(proof) /\ events[k].rsv = proof.rsv
      BY <1>7 DEF Single, ProofLines, Proofs
    <3> QED BY <3>1 DEF Backed, DeliveryAgrees, FilesAgree
  <2>3. ProofSection'
    BY <1>1, <1>2, <1>4, <2>1, <2>2 DEF ProofSection, Backed, ReservedAs, ProofLines, EventsOf
  <2>4. ReportSection' BY <1>1, <1>3, <1>4, <2>1 DEF ReportSection, LifeCommand
  <2> QED BY <1>1, <2>3, <2>4, CallsKept, NoFileAgrees DEF DeliveryAgrees
<1> QED BY <1>2, <1>6, <1>7

\* complete-reported finds the proof already on record.
LEMMA ProofKnownDelivers ==
  ASSUME StoreTypeOK, DeliveryAgrees, NEW p \in Proc, ProofKnown(p)
  PROVE  DeliveryAgrees'
<1>1. UNCHANGED <<files, tx>> /\ wf' = wf BY DEF ProofKnown, files
<1>2. PICK proof \in Claim :
        /\ wf.proof = proof
        /\ call' = [call EXCEPT ![p] = [NoCall EXCEPT !.stage = "proved", !.proof = proof]]
  BY DEF ProofKnown
<1>3. call \in [Proc -> Call] BY DEF StoreTypeOK
<1>4. call'[p].proof = proof /\ \A q \in Proc : q # p => call'[q] = call[q]
  BY <1>2, <1>3 DEF NoCall
<1>5. CallsAgree' BY <1>1, <1>2, <1>4 DEF DeliveryAgrees, CallsAgree
<1> QED BY <1>1, <1>5, SameSectionAgrees, NoFileAgrees DEF DeliveryAgrees

\* complete-reported opens its second section with the proof on record.
LEMMA CompleteDelivers ==
  ASSUME StoreTypeOK, DeliveryAgrees, NEW p \in Proc, CompleteBegin(p) \/ CompleteAdopt(p)
  PROVE  DeliveryAgrees'
<1>0. wf \in Record /\ call \in [Proc -> Call] BY DEF StoreTypeOK
<1>1. UNCHANGED <<wf, events>> /\ UNCHANGED files BY DEF CompleteBegin, CompleteAdopt, files
<1> DEFINE proof == wf.proof
<1>2. proof \in Claim /\ call[p].proof = proof /\ wf.status # "reported"
  BY DEF CompleteBegin, CompleteAdopt, DeliveryAgrees, CallsAgree, Unreported
<1>3. /\ Single(ReservedAs(proof.rsv))
      /\ \/ /\ ReportLines(proof) = {}
            /\ Open(p, "complete", "append", Reported(proof), ReportEvent("report_sent", proof), NoId)
         \/ /\ Single(ReportLines(proof))
            /\ Open(p, "complete", "save", Reported(proof), NoEvent, NoId)
  BY <1>2 DEF CompleteBegin, CompleteAdopt, ReportContext
<1>4. tx'.cmd = "complete" /\ tx'.wf = Reported(proof) BY <1>3 DEF Open
<1>5. /\ tx'.wf.status = "reported" /\ tx'.wf.proof = proof /\ tx'.wf.reservation = NoDelivery
      /\ tx'.wf.reported = [rsv |-> proof.rsv, msg |-> proof.msg]
  BY <1>0, <1>4 DEF Reported, Record
<1>6. IsReported(tx'.wf) BY <1>2, <1>5 DEF IsReported
<1>7. \A q \in Proc : call'[q].stage = "proved" => call'[q] = call[q]
  BY <1>0 DEF CompleteBegin, CompleteAdopt, NoCall
<1>8. ProofSection' BY <1>1, <1>4, <1>5 DEF ProofSection
<1>9. CASE /\ ReportLines(proof) = {}
           /\ Open(p, "complete", "append", Reported(proof), ReportEvent("report_sent", proof), NoId)
  <2>1. tx'.event = ReportEvent("report_sent", proof) /\ tx'.step = "append" BY <1>9 DEF Open
  <2>2. /\ tx'.event.type = "report_sent" /\ tx'.event.rsv = proof.rsv
        /\ tx'.event.msg = proof.msg /\ Cited(tx'.event.chk)
    BY <1>3, <2>1, ReportEventNamed, ReportEventKeys, ReservedChkCited
  <2>3. Reports = {} BY <1>9 DEF DeliveryAgrees, FilesAgree, ReportLines, Reports
  <2>4. Reports' = {} /\ Cited(tx.event.chk)' BY <1>1, <2>2, <2>3 DEF Reports, Cited, Reserved, EventsOf
  <2>5. ReportSection'
    BY <1>1, <1>2, <1>4, <1>5, <1>6, <2>1, <2>2, <2>4 DEF ReportSection, IsReported, LifeCommand
  <2> QED BY <1>1, <1>7, <1>8, <2>5, CallsKept, NoFileAgrees DEF DeliveryAgrees
<1>10. CASE /\ Single(ReportLines(proof))
            /\ Open(p, "complete", "save", Reported(proof), NoEvent, NoId)
  <2>1. tx'.step = "save" BY <1>10 DEF Open
  <2>2. Reports # {} BY <1>10 DEF Single, ReportLines, Reports
  <2>3. Reports' # {} BY <1>1, <2>2 DEF Reports, EventsOf
  <2>4. ReportSection'
    BY <1>1, <1>2, <1>4, <1>5, <1>6, <2>1, <2>3 DEF ReportSection, IsReported, LifeCommand
  <2> QED BY <1>1, <1>7, <1>8, <2>4, CallsKept, NoFileAgrees DEF DeliveryAgrees
<1> QED BY <1>3, <1>9, <1>10

-----------------------------------------------------------------------------
\* A line about anything else, or none, and a save that keeps the proof.
LEMMA OtherWriteKeeps ==
  ASSUME StoreTypeOK, FilesAgree, wf'.proof = wf.proof, wf'.status # "reported",
         \/ events' = events
         \/ \E event \in Event :
              /\ AppendEvent(event) /\ event.type \notin DeliveryEvent
              /\ event.type = "checkpoint" \/ event.chk = NoId
  PROVE  FilesAgree'
<1>1. CASE events' = events
  BY <1>1 DEF FilesAgree, Backed, ReservedAs, ProofLines, Reserved, Proofs, Reports, EventsOf, Cited
<1>2. ASSUME NEW event \in Event, AppendEvent(event), event.type \notin DeliveryEvent,
             event.type = "checkpoint" \/ event.chk = NoId
      PROVE  FilesAgree'
  <2> DEFINE n == Len(events) + 1
  <2>1. /\ Reserved' = Reserved /\ Proofs' = Proofs /\ Reports' = Reports
        /\ DOMAIN events' = DOMAIN events \cup {n} /\ events'[n] = event
        /\ \A i \in DOMAIN events : events'[i] = events[i]
        /\ Reserved \cup Proofs \cup Reports \subseteq DOMAIN events
    BY <1>2, ReportLogGrows DEF DeliveryEvent
  <2> HIDE DEF n
  <2>2. \A i \in DOMAIN events' : events'[i].type = "checkpoint" \/ Cited(events[i].chk)'
    <3>1. ASSUME NEW i \in DOMAIN events
          PROVE  events'[i].type = "checkpoint" \/ Cited(events[i].chk)'
      BY <2>1 DEF FilesAgree, Cited
    <3>2. ASSUME NEW i \in DOMAIN events', i \notin DOMAIN events
          PROVE  events'[i].type = "checkpoint" \/ Cited(events[i].chk)'
      BY <1>2, <2>1, <3>2 DEF Cited
    <3> QED BY <3>1, <3>2
  <2>3. \A rsv : ReservedAs(rsv)' = ReservedAs(rsv) BY <2>1 DEF ReservedAs, Reserved
  <2>4. ProofLines(wf.proof)' = ProofLines(wf.proof) BY <2>1 DEF ProofLines, Proofs
  <2>5. ReservedAs(wf.proof.rsv)' = ReservedAs(wf.proof.rsv) BY <2>1 DEF ReservedAs, Reserved
  <2>6. Backed(wf.proof)' <=> Backed(wf.proof) BY <2>4, <2>5 DEF Backed
  <2>7. \A k \in Proofs' : \E j \in ReservedAs(events[k].rsv)' : j < k
    BY <2>1 DEF FilesAgree, ReservedAs, Reserved
  <2>8. \A i \in Reports' :
          /\ wf'.proof \in Claim /\ events'[i].rsv = wf'.proof.rsv /\ events'[i].msg = wf'.proof.msg
          /\ \E j \in ReservedAs(wf.proof.rsv)', k \in ProofLines(wf.proof)' : j < k /\ k < i
    BY <2>1, <2>4, <2>5 DEF FilesAgree
  <2> QED BY <2>1, <2>2, <2>6, <2>7, <2>8 DEF FilesAgree
<1> QED BY <1>1, <1>2

\* The writes of a checkpoint, a note or a recovery log nothing about delivery and save the
\* proof and the reservation they found.
LEMMA LifeWriteKeeps ==
  ASSUME StoreTypeOK, ReportingAgrees, DeliveryAgrees,
         CheckpointWrite \/ NoteWrite \/ RoundWrite \/ RecoverWrite
  PROVE  /\ tx.cmd \in LifeCommand /\ call' = call
         /\ wf'.proof = wf.proof /\ wf'.reservation = wf.reservation /\ wf'.status # "reported"
         /\ \/ events' = events
            \/ \E event \in Event :
                 /\ AppendEvent(event) /\ event.type \notin DeliveryEvent
                 /\ event.type = "checkpoint" \/ event.chk = NoId
         /\ ProofSection' /\ ReportSection' /\ tx'.cmd # "proof"
<1>0. tx \in Tx /\ tx.wf \in Record /\ tx.event \in Event /\ wf \in Record
  BY DEF StoreTypeOK, Tx
<1>1. tx.cmd \in LifeCommand /\ call' = call
  BY DEF CheckpointWrite, NoteWrite, RoundWrite, RecoverWrite, LifeCommand
<1>2. /\ wf.status # "reported" /\ tx.wf.status # "reported" /\ tx.wf.proof = wf.proof
      /\ tx.wf.reservation = wf.reservation
      /\ tx.event.type = "checkpoint" \/ tx.event.chk = NoId
  BY <1>1 DEF DeliveryAgrees, ProofSection, ReportSection, LifeCommand, NoTx
<1>3. tx.event.type \notin DeliveryEvent BY <1>1 DEF ReportingAgrees, LockedSection
<1>4. \/ tx' = NoTx
      \/ tx'.cmd = tx.cmd /\ tx'.wf = tx.wf /\ tx'.event = tx.event
  BY <1>0 DEF CheckpointWrite, NoteWrite, RoundWrite, RecoverWrite, Proceed, Tx
<1>5. /\ wf' = wf \/ wf' = [tx.wf EXCEPT !.lastActivity = now]
      /\ \/ events' = events
         \/ AppendEvent(tx.event) \/ AppendEvent(LeaseEvent("lease_released", wf.lease.id))
  BY DEF CheckpointWrite, NoteWrite, RoundWrite, RecoverWrite, WritePendingCheckpoint, AppendEvent,
     AppendWorklog, SaveWorkflow, ClearPendingCheckpoint, WritePendingRecovery, ClearPendingRecovery
<1>6. /\ wf'.proof = wf.proof /\ wf'.reservation = wf.reservation /\ wf'.status # "reported"
  BY <1>0, <1>2, <1>5 DEF Record
<1>7. /\ LeaseEvent("lease_released", wf.lease.id) \in Event
      /\ LeaseEvent("lease_released", wf.lease.id).type \notin DeliveryEvent
      /\ LeaseEvent("lease_released", wf.lease.id).chk = NoId
  BY LeaseReleasedTyped DEF LeaseEvent, NoEvent, DeliveryEvent
<1>8. ProofSection' /\ ReportSection'
  BY <1>1, <1>2, <1>4, <1>6, ClosedAgrees, LifeSectionAgrees
<1>9. tx'.cmd # "proof" BY <1>1, <1>4 DEF LifeCommand, NoTx
<1> QED BY <1>0, <1>1, <1>2, <1>3, <1>5, <1>6, <1>7, <1>8, <1>9

LEMMA LifeWriteDelivers ==
  ASSUME StoreTypeOK, ReportingAgrees, DeliveryAgrees,
         CheckpointWrite \/ NoteWrite \/ RoundWrite \/ RecoverWrite
  PROVE  DeliveryAgrees'
<1>1. FilesAgree' BY LifeWriteKeeps, OtherWriteKeeps DEF DeliveryAgrees
<1>2. CallsAgree' BY LifeWriteKeeps DEF DeliveryAgrees, CallsAgree
<1> QED BY <1>1, <1>2, LifeWriteKeeps DEF DeliveryAgrees

-----------------------------------------------------------------------------
\* What a delivery command does when it logs its line.
LEMMA DeliveryLogs ==
  ASSUME StoreTypeOK, DeliveryWrite, tx.step = "append"
  PROVE  /\ AppendEvent(tx.event) /\ tx.event \in Event /\ UNCHANGED <<wf, call>>
         /\ tx'.cmd = tx.cmd /\ tx'.wf = tx.wf /\ tx'.event = tx.event /\ tx'.step = "save"
<1>1. tx \in Tx /\ tx' = [tx EXCEPT !.step = "save"]
  BY DEF DeliveryWrite, Proceed, DeliveryOrder, StoreTypeOK
<1> QED BY <1>1 DEF DeliveryWrite, AppendEvent, Tx

\* The reservation is logged first: nothing is proved or reported before.
LEMMA ReserveLogs ==
  ASSUME StoreTypeOK, ReportingAgrees, DeliveryAgrees, DeliveryWrite, tx.step = "append",
         tx.cmd = "reserve"
  PROVE  DeliveryAgrees'
<1> DEFINE n == Len(events) + 1
<1>1. /\ AppendEvent(tx.event) /\ tx.event \in Event /\ UNCHANGED <<wf, call>>
      /\ tx'.cmd = "reserve" /\ tx'.wf = tx.wf /\ tx'.step = "save"
  BY DeliveryLogs
<1>2. Reserved = {} /\ tx.event.type = "delivery_reserved"
  BY DEF ReportingAgrees, FirstReservation, Reserving, Reserved
<1>3. /\ Reserved' = {n} /\ Proofs' = Proofs /\ Reports' = Reports
      /\ DOMAIN events' = DOMAIN events \cup {n} /\ events'[n] = tx.event
      /\ \A i \in DOMAIN events : events'[i] = events[i]
  BY <1>1, <1>2, ReportLogGrows
<1> HIDE DEF n
<1>4. Proofs = {} /\ Reports = {} /\ wf.proof = NoProof
  BY <1>2 DEF DeliveryAgrees, FilesAgree, Backed, ReservedAs, Reserved
<1>5. \A i \in DOMAIN events' : events'[i].type = "checkpoint" \/ Cited(events[i].chk)'
  <2>1. ASSUME NEW i \in DOMAIN events
        PROVE  events'[i].type = "checkpoint" \/ Cited(events[i].chk)'
    BY <1>2, <1>3 DEF DeliveryAgrees, FilesAgree, Cited
  <2>2. ASSUME NEW i \in DOMAIN events', i \notin DOMAIN events
        PROVE  events'[i].type = "checkpoint" \/ Cited(events[i].chk)'
    BY <1>3, <2>2 DEF Cited
  <2> QED BY <2>1, <2>2
<1>6. wf.status # "reported" BY DEF DeliveryAgrees, ReportSection, NoTx
<1>7. FilesAgree' BY <1>1, <1>3, <1>4, <1>5, <1>6 DEF FilesAgree
<1>8. ProofSection' BY <1>1, <1>3 DEF DeliveryAgrees, ProofSection
<1>9. ReportSection' BY <1>1, <1>6 DEF DeliveryAgrees, ReportSection, LifeCommand
<1>10. CallsAgree' BY <1>1 DEF DeliveryAgrees, CallsAgree
<1> QED BY <1>7, <1>8, <1>9, <1>10 DEF DeliveryAgrees

\* The proof is logged after the reservation it names.
LEMMA ProofLogs ==
  ASSUME StoreTypeOK, DeliveryAgrees, DeliveryWrite, tx.step = "append", tx.cmd = "proof"
  PROVE  DeliveryAgrees'
<1> DEFINE n == Len(events) + 1
           proof == tx.wf.proof
<1>1. /\ AppendEvent(tx.event) /\ tx.event \in Event /\ UNCHANGED <<wf, call>>
      /\ tx'.cmd = "proof" /\ tx'.wf = tx.wf /\ tx'.step = "save"
  BY DeliveryLogs
<1>2. /\ wf.proof = NoProof /\ proof \in Claim /\ ReservedAs(proof.rsv) # {}
      /\ tx.event.type = "report_proof" /\ tx.event.rsv = proof.rsv
      /\ tx.event.msg = proof.msg /\ tx.event.manual = proof.manual /\ Cited(tx.event.chk)
      /\ wf.status # "reported" /\ tx.wf.reservation = wf.reservation
      /\ tx.wf.status # "reported"
  BY DEF DeliveryAgrees, ProofSection, ReportSection, NoTx
<1>3. /\ Reserved' = Reserved /\ Proofs' = Proofs \cup {n} /\ Reports' = Reports
      /\ DOMAIN events' = DOMAIN events \cup {n} /\ events'[n] = tx.event
      /\ \A i \in DOMAIN events : events'[i] = events[i] /\ i < n
      /\ Reserved \cup Proofs \cup Reports \subseteq DOMAIN events
  BY <1>1, <1>2, ReportLogGrows
<1> HIDE DEF n, proof
<1>4. Reports = {} BY <1>2, NoProofIsNoClaim DEF DeliveryAgrees, FilesAgree
<1>5. \A i \in DOMAIN events' : events'[i].type = "checkpoint" \/ Cited(events[i].chk)'
  <2>1. ASSUME NEW i \in DOMAIN events
        PROVE  events'[i].type = "checkpoint" \/ Cited(events[i].chk)'
    BY <1>3 DEF DeliveryAgrees, FilesAgree, Cited
  <2>2. ASSUME NEW i \in DOMAIN events', i \notin DOMAIN events
        PROVE  events'[i].type = "checkpoint" \/ Cited(events[i].chk)'
    BY <1>2, <1>3, <2>2 DEF Cited
  <2> QED BY <2>1, <2>2
<1>6. \A k \in Proofs' : \E j \in ReservedAs(events[k].rsv)' : j < k
  <2>1. ASSUME NEW k \in Proofs PROVE \E j \in ReservedAs(events[k].rsv)' : j < k
    <3>1. PICK j \in ReservedAs(events[k].rsv) : j < k BY DEF DeliveryAgrees, FilesAgree
    <3>2. j \in ReservedAs(events[k].rsv)' BY <1>3, <3>1 DEF ReservedAs, Reserved
    <3> QED BY <3>1, <3>2
  <2>2. PICK j \in ReservedAs(proof.rsv) : TRUE BY <1>2
  <2>3. j \in Reserved /\ events[j].rsv = proof.rsv /\ j < n /\ events'[j] = events[j]
    BY <1>3, <2>2 DEF ReservedAs, Reserved
  <2>4. ASSUME NEW k \in Proofs', k \notin Proofs PROVE \E i \in ReservedAs(events[k].rsv)' : i < k
    <3>1. k = n /\ events'[k].rsv = proof.rsv BY <1>2, <1>3, <2>4
    <3> QED BY <1>3, <2>3, <3>1 DEF ReservedAs, Reserved
  <2> QED BY <2>1, <2>4
<1>7. FilesAgree' BY <1>1, <1>2, <1>3, <1>4, <1>5, <1>6 DEF FilesAgree
<1>8. Backed(tx.wf.proof)'
  <2>1. PICK j \in ReservedAs(proof.rsv) : TRUE BY <1>2
  <2>2. j \in Reserved' /\ events'[j].rsv = proof.rsv /\ j < n
    BY <1>3, <2>1 DEF ReservedAs, Reserved
  <2>3. n \in Proofs' /\ events'[n] = tx.event BY <1>3
  <2>4. tx'.wf.proof = proof BY <1>1 DEF proof
  <2> QED BY <1>2, <2>2, <2>3, <2>4 DEF Backed, ReservedAs, ProofLines, Reserved, Proofs
<1>9. ProofSection' BY <1>1, <1>2, <1>8 DEF ProofSection, proof
<1>10. ReportSection' BY <1>1, <1>2 DEF ReportSection, LifeCommand
<1>11. CallsAgree' BY <1>1 DEF DeliveryAgrees, CallsAgree
<1> QED BY <1>7, <1>9, <1>10, <1>11 DEF DeliveryAgrees

\* The report is logged once, after its proof.
LEMMA ReportLogs ==
  ASSUME StoreTypeOK, DeliveryAgrees, DeliveryWrite, tx.step = "append", tx.cmd = "complete"
  PROVE  DeliveryAgrees'
<1> DEFINE n == Len(events) + 1
           proof == wf.proof
<1>1. /\ AppendEvent(tx.event) /\ tx.event \in Event /\ UNCHANGED <<wf, call>>
      /\ tx'.cmd = "complete" /\ tx'.wf = tx.wf /\ tx'.step = "save"
  BY DeliveryLogs
<1>2. /\ IsReported(tx.wf) /\ tx.wf.status = "reported" /\ tx.wf.proof = proof /\ Reports = {}
      /\ tx.event.type = "report_sent" /\ tx.event.rsv = proof.rsv
      /\ tx.event.msg = proof.msg /\ Cited(tx.event.chk) /\ wf.status # "reported"
  BY DEF DeliveryAgrees, ProofSection, ReportSection, NoTx
<1>3. /\ Reserved' = Reserved /\ Proofs' = Proofs /\ Reports' = {n}
      /\ DOMAIN events' = DOMAIN events \cup {n} /\ events'[n] = tx.event
      /\ \A i \in DOMAIN events : events'[i] = events[i] /\ i < n
      /\ Reserved \cup Proofs \cup Reports \subseteq DOMAIN events
  BY <1>1, <1>2, ReportLogGrows
<1> HIDE DEF n, proof
<1>4. \A i \in DOMAIN events' : events'[i].type = "checkpoint" \/ Cited(events[i].chk)'
  <2>1. ASSUME NEW i \in DOMAIN events
        PROVE  events'[i].type = "checkpoint" \/ Cited(events[i].chk)'
    BY <1>3 DEF DeliveryAgrees, FilesAgree, Cited
  <2>2. ASSUME NEW i \in DOMAIN events', i \notin DOMAIN events
        PROVE  events'[i].type = "checkpoint" \/ Cited(events[i].chk)'
    BY <1>2, <1>3, <2>2 DEF Cited
  <2> QED BY <2>1, <2>2
<1>5. proof \in Claim /\ Backed(proof)
  BY <1>2, NoProofIsNoClaim DEF IsReported, DeliveryAgrees, FilesAgree, proof
<1>6. \A k \in Proofs' : \E j \in ReservedAs(events[k].rsv)' : j < k
  BY <1>3 DEF DeliveryAgrees, FilesAgree, ReservedAs, Reserved
<1>7. PICK j \in Reserved, k \in Proofs :
        /\ j < k /\ events[j].rsv = proof.rsv /\ events[k].rsv = proof.rsv
        /\ events[k].msg = proof.msg /\ events[k].manual = proof.manual
  BY <1>5 DEF Backed, ReservedAs, ProofLines, Reserved, Proofs
<1>8. wf'.proof = proof BY <1>1 DEF proof
<1>9. /\ j \in ReservedAs(wf.proof.rsv)' /\ k \in ProofLines(wf.proof)' /\ j < k /\ k < n
  BY <1>3, <1>7, <1>8 DEF ReservedAs, ProofLines, Reserved, Proofs
<1>10. FilesAgree'
  <2>1. Backed(wf.proof)' BY <1>9 DEF Backed
  <2>2. \A i \in Reports' : i = n /\ events'[i].rsv = wf'.proof.rsv /\ events'[i].msg = wf'.proof.msg
    BY <1>2, <1>3, <1>8
  <2> QED BY <1>1, <1>2, <1>3, <1>4, <1>5, <1>6, <1>8, <1>9, <2>1, <2>2 DEF FilesAgree
<1>11. ProofSection' BY <1>1 DEF DeliveryAgrees, ProofSection
<1>12. ReportSection' BY <1>1, <1>2, <1>3 DEF ReportSection, IsReported, LifeCommand
<1>13. CallsAgree' BY <1>1 DEF DeliveryAgrees, CallsAgree
<1> QED BY <1>10, <1>11, <1>12, <1>13 DEF DeliveryAgrees

\* workflow.json is saved: with the proof that was logged, with the report that was logged,
\* or with the reservation.
LEMMA DeliverySaves ==
  ASSUME StoreTypeOK, DeliveryAgrees, DeliveryWrite, tx.step # "append"
  PROVE  DeliveryAgrees'
<1>0. tx.wf \in Record /\ tx.cmd \in {"reserve", "proof", "complete"}
  BY DEF StoreTypeOK, Tx, DeliveryWrite
<1>1. /\ wf' = [tx.wf EXCEPT !.lastActivity = now] /\ events' = events /\ tx' = NoTx
      /\ call' = call
  BY DEF DeliveryWrite, SaveWorkflow, Proceed, DeliveryOrder
<1>2. /\ wf'.proof = tx.wf.proof /\ wf'.status = tx.wf.status
      /\ wf'.reservation = tx.wf.reservation /\ wf'.reported = tx.wf.reported
  BY <1>0, <1>1 DEF Record
<1>3. ProofSection' /\ ReportSection' BY <1>1, ClosedAgrees
<1>4. CASE tx.cmd = "reserve"
  <2>1. wf'.proof = wf.proof /\ wf'.status # "reported"
    BY <1>2, <1>4 DEF DeliveryAgrees, ProofSection, ReportSection
  <2>2. FilesAgree' BY <1>1, <2>1, OtherWriteKeeps DEF DeliveryAgrees
  <2>3. CallsAgree' BY <1>1, <2>1 DEF DeliveryAgrees, CallsAgree
  <2> QED BY <1>3, <2>2, <2>3 DEF DeliveryAgrees
<1>5. CASE tx.cmd = "proof"
  <2>1. /\ wf.proof = NoProof /\ wf'.proof \in Claim /\ Backed(wf'.proof)
        /\ wf'.status # "reported"
    BY <1>2, <1>5 DEF DeliveryAgrees, ProofSection, ReportSection
  <2>2. Reports = {} /\ \A p \in Proc : call[p].stage # "proved"
    BY <2>1, NoProofIsNoClaim DEF DeliveryAgrees, FilesAgree, CallsAgree
  <2>3. FilesAgree'
    BY <1>1, <2>1, <2>2 DEF DeliveryAgrees, FilesAgree, Backed, ReservedAs, ProofLines, Reserved,
       Proofs, Reports, EventsOf, Cited
  <2>4. CallsAgree' BY <1>1, <2>2 DEF CallsAgree
  <2> QED BY <1>3, <2>3, <2>4 DEF DeliveryAgrees
<1>6. CASE tx.cmd = "complete"
  <2>1. wf'.proof = wf.proof /\ IsReported(wf') /\ Reports # {}
    BY <1>2, <1>6 DEF DeliveryAgrees, ProofSection, ReportSection, IsReported
  <2>2. FilesAgree'
    BY <1>1, <2>1 DEF DeliveryAgrees, FilesAgree, Backed, ReservedAs, ProofLines, Reserved,
       Proofs, Reports, EventsOf, Cited
  <2>3. CallsAgree' BY <1>1, <2>1 DEF DeliveryAgrees, CallsAgree
  <2> QED BY <1>3, <2>2, <2>3 DEF DeliveryAgrees
<1> QED BY <1>0, <1>4, <1>5, <1>6

-----------------------------------------------------------------------------
\* Every step keeps the invariant.
LEMMA DeliveryStep ==
  DeliveryTypeOK /\ ReportingAgrees /\ DeliveryAgrees /\ [Next]_deliveryVars => DeliveryAgrees'
<1> SUFFICES ASSUME DeliveryTypeOK, ReportingAgrees, DeliveryAgrees, [Next]_deliveryVars
             PROVE  DeliveryAgrees'
  OBVIOUS
<1>0. StoreTypeOK BY DEF DeliveryTypeOK
<1>1. CASE \/ \E p \in Proc :
                \/ CheckpointRead(p) \/ RecoverRead(p) \/ RecoverReply(p) \/ Leave(p)
                \/ ReserveRead(p) \/ ReserveReply(p) \/ Send(p) \/ LoseSender(p)
           \/ Tick \/ UNCHANGED deliveryVars
  <2>1. UNCHANGED deliveryVars => UNCHANGED storeVars BY DEF deliveryVars
  <2> QED BY <1>0, <1>1, <2>1, QuietDelivers
<1>2. CASE Crash BY <1>0, <1>2, CrashDelivers
<1>3. ASSUME NEW p \in Proc,
             CheckpointBegin(p) \/ NoteBegin(p) \/ RoundBegin(p) \/ RecoverBegin(p)
      PROVE  DeliveryAgrees'
  BY <1>0, <1>3, LifeOpenDelivers
<1>4. CASE CheckpointWrite \/ NoteWrite \/ RoundWrite \/ RecoverWrite
  BY <1>0, <1>4, LifeWriteDelivers
<1>5. ASSUME NEW p \in Proc,
             \/ ReserveBegin(p) \/ ProofRecord(p) \/ ProofAdopt(p) \/ ProofKnown(p)
             \/ CompleteBegin(p) \/ CompleteAdopt(p)
      PROVE  DeliveryAgrees'
  BY <1>0, <1>5, ReserveDelivers, ProofDelivers, ProofKnownDelivers, CompleteDelivers
<1>6. CASE DeliveryWrite
  <2>1. tx.cmd \in {"reserve", "proof", "complete"} BY <1>6 DEF DeliveryWrite
  <2> QED BY <1>0, <1>6, <2>1, ReserveLogs, ProofLogs, ReportLogs, DeliverySaves
<1> QED BY <1>1, <1>2, <1>3, <1>4, <1>5, <1>6 DEF Next, LifeStep, ReportStep

\* A workflow just created has no proof, no report and an empty log.
LEMMA DeliveryAgreesInit == Init => DeliveryAgrees
<1> SUFFICES ASSUME Init PROVE DeliveryAgrees OBVIOUS
<1>1. wf = NewWorkflow /\ tx = NoTx /\ events = << >> /\ call = [p \in Proc |-> NoCall]
  BY DEF Init, StoreInit
<1>2. Proofs = {} /\ Reports = {} /\ Reserved = {} /\ DOMAIN events = {}
  BY <1>1 DEF Proofs, Reports, Reserved, EventsOf
<1>3. /\ wf.proof = NoProof /\ wf.status = "running" /\ tx.cmd = "none"
      /\ \A p \in Proc : call[p].stage = "idle"
  BY <1>1 DEF NewWorkflow, NoTx, NoCall
<1>4. FilesAgree BY <1>2, <1>3 DEF FilesAgree
<1>5. ProofSection /\ ReportSection /\ CallsAgree
  BY <1>3 DEF ProofSection, ReportSection, CallsAgree, LifeCommand
<1> QED BY <1>4, <1>5 DEF DeliveryAgrees

\* Nor has one that its first checkpoint has just finished.
LEMMA FinishedAgreesInit == DeliveryInit => DeliveryAgrees
<1> SUFFICES ASSUME DeliveryInit PROVE DeliveryAgrees OBVIOUS
<1>1. /\ \E status \in Unreported : wf = FinishedWorkflow(status)
      /\ events = <<[NoEvent EXCEPT !.type = "checkpoint", !.chk = 1]>>
      /\ tx = NoTx /\ call = [p \in Proc |-> NoCall]
  BY DEF DeliveryInit, TerminalInit
<1>2. DOMAIN events = {1} /\ events[1].type = "checkpoint"
  <2> DEFINE line == [NoEvent EXCEPT !.type = "checkpoint", !.chk = 1]
  <2>1. line.type = "checkpoint" BY DEF NoEvent
  <2> HIDE DEF line
  <2>2. events = <<line>> BY <1>1 DEF line
  <2> QED BY <2>1, <2>2
<1>3. Proofs = {} /\ Reports = {} /\ Reserved = {} BY <1>2 DEF Proofs, Reports, Reserved, EventsOf
<1>4. /\ wf.proof = NoProof /\ wf.status # "reported" /\ tx.cmd = "none"
      /\ \A p \in Proc : call[p].stage = "idle"
  BY <1>1 DEF FinishedWorkflow, NewWorkflow, Unreported, NoTx, NoCall
<1>5. FilesAgree BY <1>2, <1>3, <1>4 DEF FilesAgree
<1>6. ProofSection /\ ReportSection /\ CallsAgree
  BY <1>4 DEF ProofSection, ReportSection, CallsAgree, LifeCommand
<1> QED BY <1>5, <1>6 DEF DeliveryAgrees

\* Proof, report and the section under way agree in every reachable state.
THEOREM DeliveryAlwaysAgrees == Spec => []DeliveryAgrees
BY DeliveryAgreesInit, DeliveryStep, WorkflowTyped, ReportingAlwaysAgrees, PTL DEF Spec

\* A delivery command writes only after a reservation, or writes the reservation: no marker
\* is there then, so it touches neither the index nor the lease, nor a torn transaction.
LEMMA DeliveryWriteFenced ==
  ASSUME StoreTypeOK, RecoveryAgrees, ReportingAgrees, DeliveryAgrees, DeliveryWrite
  PROVE  Exclusive /\ Fenced /\ TornStops
<1>1. Aside BY DeliveryWriteAside
<1>2. /\ tx.cmd \in {"reserve", "proof", "complete"} /\ tx.step \in {"append", "save"}
      /\ wf.status \in Terminal
  BY DEF DeliveryWrite, ReportingAgrees, LockedSection, DeliveryCommand
<1>3. pendingRec = {} BY <1>2 DEF RecoveryAgrees, FinishedHasNoLease, TerminalIsReleased
<1>4. Reserved # {} => pendingChk = {} BY DEF ReportingAgrees, ReservedOnlyWhenFinished, Reserved
<1>5. pendingChk = {}
  <2>1. CASE tx.cmd = "reserve" /\ tx.step = "append"
    BY <2>1 DEF ReportingAgrees, FirstReservation, Reserving
  <2>2. CASE tx.cmd = "reserve" /\ tx.step = "save"
    BY <1>4, <2>2 DEF DeliveryAgrees, ProofSection
  <2>3. CASE tx.cmd = "proof"
    <3>1. ReservedAs(tx.wf.proof.rsv) # {} BY <1>2, <2>3 DEF DeliveryAgrees, ProofSection, Backed
    <3> QED BY <1>4, <3>1 DEF ReservedAs, Reserved
  <2>4. CASE tx.cmd = "complete"
    <3>1. wf.proof \in Claim
      BY <2>4 DEF DeliveryAgrees, ProofSection, ReportSection, IsReported
    <3>2. Backed(wf.proof) BY <3>1, NoProofIsNoClaim DEF DeliveryAgrees, FilesAgree
    <3> QED BY <1>4, <3>2 DEF Backed, ReservedAs, Reserved
  <2> QED BY <1>2, <2>1, <2>2, <2>3, <2>4
<1> QED BY <1>1, <1>3, <1>5 DEF Aside, Exclusive, Fenced, TornStops

\* The fences of Recovery stand from the creation of a workflow to its report: while delivery
\* commands write to the record too, a new lease replaces none or an expired one, only the
\* process that was given a lease commits under it, and nobody writes over what a dead
\* checkpoint or recover left half written.
THEOREM WorkflowKeepsFences == Spec => LeaseIsExclusive /\ LeaseFencesCommits /\ TornMeansFrozen
<1> DEFINE Inv == DeliveryTypeOK /\ RecoveryAgrees /\ ReportingAgrees /\ DeliveryAgrees
<1>1. ASSUME Inv, [Next]_deliveryVars PROVE Exclusive /\ Fenced /\ TornStops
  <2>1. StoreTypeOK BY <1>1 DEF DeliveryTypeOK
  <2>2. CASE LifeStep \/ UNCHANGED storeVars BY <1>1, <2>1, <2>2, LifeFenced
  <2>3. CASE DeliveryWrite BY <1>1, <2>1, <2>3, DeliveryWriteFenced
  <2>4. ASSUME NEW p \in Proc,
               \/ ReserveRead(p) \/ ReserveBegin(p) \/ ReserveReply(p)
               \/ Send(p) \/ LoseSender(p)
               \/ ProofRecord(p) \/ ProofAdopt(p) \/ ProofKnown(p)
               \/ CompleteBegin(p) \/ CompleteAdopt(p)
        PROVE  UNCHANGED <<wf, events, worklog>>
    BY <2>4, OnlyWritesWrite
  <2>5. CASE UNCHANGED <<wf, events, worklog>> BY <2>5 DEF Exclusive, Fenced, TornStops
  <2>6. UNCHANGED deliveryVars => UNCHANGED storeVars BY DEF deliveryVars
  <2> QED BY <1>1, <2>2, <2>3, <2>4, <2>5, <2>6 DEF Next, ReportStep
<1>2. Inv /\ [Next]_deliveryVars
        => [wf'.lease.id \notin {NoId, wf.lease.id}
              => wf.lease.id = NoId \/ Expired(wf.lease, now)]_storeVars
  BY <1>1 DEF Exclusive
<1>3. Inv /\ [Next]_deliveryVars
        => [wf'.index # wf.index /\ wf.lease.id # NoId
              => held[tx.by] = wf.lease.id /\ wf'.lease = NoLease]_storeVars
  BY <1>1 DEF Fenced
<1>4. Inv /\ [Next]_deliveryVars
        => [/\ pendingChk \ {tx.id} # {} => UNCHANGED <<wf, events, worklog>>
            /\ pendingRec \ {tx.id} # {} =>
                 /\ UNCHANGED wf
                 /\ UNCHANGED <<events, worklog>> \/ tx.cmd \in {"note", "round"}]_storeVars
  BY <1>1 DEF TornStops
<1>5. Spec => []Inv
  BY WorkflowTyped, WorkflowAlwaysRecoverable, ReportingAlwaysAgrees, DeliveryAlwaysAgrees, PTL
<1> QED BY <1>2, <1>3, <1>4, <1>5, PTL
        DEF Spec, LeaseIsExclusive, LeaseFencesCommits, TornMeansFrozen

LEMMA AgreedReportIsProved == ReportingAgrees /\ DeliveryAgrees => ReportIsProved
BY DEF ReportingAgrees, OnlyReservation, DeliveryAgrees, FilesAgree, ReportIsProved, Reports

\* The log holds at most one reservation and at most one report, whose keys are those of the
\* proof in workflow.json and which was logged after its reservation and its proof.
THEOREM ReportIsProvedHolds == Spec => []ReportIsProved
BY AgreedReportIsProved, ReportingAlwaysAgrees, DeliveryAlwaysAgrees, PTL

-----------------------------------------------------------------------------
\* What ProofIsFinal says of one step.
Final ==
  /\ wf.proof # NoProof => wf'.proof = wf.proof
  /\ wf.reservation # NoDelivery =>
       wf'.reservation = wf.reservation \/ wf'.status = "reported"

LEMMA StepFinal ==
  ASSUME StoreTypeOK, ReportingAgrees, DeliveryAgrees, [Next]_deliveryVars
  PROVE  Final
<1>1. CASE wf' = wf BY <1>1 DEF Final
<1>2. CASE CheckpointWrite \/ NoteWrite \/ RoundWrite \/ RecoverWrite
  BY <1>2, LifeWriteKeeps DEF Final
<1>3. CASE DeliveryWrite
  <2>1. CASE tx.step = "append" BY <1>1, <1>3, <2>1, DeliveryLogs
  <2>2. CASE tx.step # "append"
    <3>1. tx.wf \in Record /\ wf' = [tx.wf EXCEPT !.lastActivity = now]
      BY <1>3, <2>2 DEF DeliveryWrite, SaveWorkflow, StoreTypeOK, Tx
    <3>2. wf'.proof = tx.wf.proof /\ wf'.reservation = tx.wf.reservation /\ wf'.status = tx.wf.status
      BY <3>1 DEF Record
    <3>3. tx.cmd \in {"reserve", "proof", "complete"} BY <1>3 DEF DeliveryWrite
    <3> QED BY <3>2, <3>3 DEF Final, DeliveryAgrees, ProofSection, ReportSection
  <2> QED BY <2>1, <2>2
<1>4. Next \/ UNCHANGED storeVars BY DEF deliveryVars
<1>5. LifeStep \/ ReportStep \/ UNCHANGED storeVars BY <1>4 DEF Next
<1>6. \/ CheckpointWrite \/ NoteWrite \/ RoundWrite \/ RecoverWrite \/ DeliveryWrite
      \/ UNCHANGED <<wf, events, worklog>>
  BY <1>5, OnlyWritesWrite DEF LifeStep, ReportStep
<1> QED BY <1>1, <1>2, <1>3, <1>6

\* The proof of a workflow is never replaced, and a reservation leaves workflow.json only
\* with the report.
THEOREM ProofIsFinalHolds == Spec => ProofIsFinal
<1>1. DeliveryTypeOK /\ ReportingAgrees /\ DeliveryAgrees /\ [Next]_deliveryVars
        => [/\ wf.proof # NoProof => wf'.proof = wf.proof
            /\ wf.reservation # NoDelivery =>
                 wf'.reservation = wf.reservation \/ wf'.status = "reported"]_deliveryVars
  BY StepFinal DEF Final, DeliveryTypeOK
<1> QED BY <1>1, WorkflowTyped, ReportingAlwaysAgrees, DeliveryAlwaysAgrees, PTL DEF Spec, ProofIsFinal

\* No command opens the lock on a reported workflow: its files never change again.
LEMMA ReportedStays ==
  ASSUME DeliveryAgrees, [Next]_deliveryVars, wf.status = "reported"
  PROVE  UNCHANGED files
<1>1. tx.cmd = "none" BY DEF DeliveryAgrees, ReportSection, NoTx
<1>2. CASE \/ \E p \in Proc :
                \/ CheckpointRead(p) \/ CheckpointBegin(p) \/ NoteBegin(p) \/ RoundBegin(p)
                \/ RecoverRead(p) \/ RecoverBegin(p) \/ RecoverReply(p) \/ Leave(p)
           \/ Crash \/ Tick
  BY <1>2 DEF CheckpointRead, CheckpointBegin, NoteBegin, RoundBegin,
     RecoverRead, RecoverBegin,
     RecoverReply, Leave, Crash, Tick
<1>3. CASE \E p \in Proc :
             \/ ReserveRead(p) \/ ReserveBegin(p) \/ ReserveReply(p)
             \/ ProofRecord(p) \/ ProofAdopt(p) \/ ProofKnown(p)
             \/ CompleteBegin(p) \/ CompleteAdopt(p)
  BY <1>3 DEF ReserveRead, ReserveBegin, ReserveReply, ProofRecord, ProofAdopt, ProofKnown,
     CompleteBegin, CompleteAdopt
<1>4. CASE \/ \E p \in Proc : Send(p) \/ LoseSender(p)
           \/ UNCHANGED deliveryVars
  BY <1>4 DEF Send, LoseSender, files, storeVars, deliveryVars
<1>5. ~CheckpointWrite /\ ~NoteWrite /\ ~RoundWrite /\ ~RecoverWrite /\ ~DeliveryWrite
  BY <1>1 DEF CheckpointWrite, NoteWrite, RoundWrite, RecoverWrite, DeliveryWrite
<1> QED BY <1>2, <1>3, <1>4, <1>5 DEF Next, LifeStep, ReportStep

\* A reported workflow is final: nothing is written to its files any more, whatever was read
\* before.
THEOREM ReportedIsFinal == Spec => [][wf.status = "reported" => UNCHANGED files]_deliveryVars
<1>1. DeliveryAgrees /\ [Next]_deliveryVars
        => [wf.status = "reported" => UNCHANGED files]_deliveryVars
  BY ReportedStays
<1> QED BY <1>1, DeliveryAlwaysAgrees, PTL DEF Spec

-----------------------------------------------------------------------------
\* A reported workflow was reserved, and everything else of its record is in order: only a
\* second line for its proof keeps it from validating.
LEMMA ReportedIsReserved ==
  ASSUME ReportingAgrees, DeliveryAgrees, wf.status = "reported"
  PROVE  /\ \E i \in Reserved : Reserved = {i} /\ events[i].chk = LastEntry.id
         /\ ReservedAs(wf.proof.rsv) = Reserved
         /\ wf.snapshot /\ pendingChk = {} /\ IsReported(wf)
<1>1. IsReported(wf) /\ Reports # {} BY DEF DeliveryAgrees, FilesAgree
<1>2. PICK j \in ReservedAs(wf.proof.rsv) : TRUE BY <1>1 DEF DeliveryAgrees, FilesAgree
<1>3. j \in Reserved /\ events[j].rsv = wf.proof.rsv BY <1>2 DEF ReservedAs, Reserved
<1>4. /\ \A i, k \in Reserved : i = k
      /\ wf.snapshot /\ pendingChk = {} /\ \A i \in Reserved : events[i].chk = LastEntry.id
  BY <1>3 DEF ReportingAgrees, OnlyReservation, ReservedOnlyWhenFinished, Reserved
<1>5. Reserved = {j} BY <1>3, <1>4
<1>6. ReservedAs(wf.proof.rsv) = Reserved BY <1>3, <1>5 DEF ReservedAs, Reserved
<1> QED BY <1>1, <1>3, <1>4, <1>5, <1>6

LEMMA AuditParts ==
  ASSUME StoreTypeOK, RecoveryAgrees, ReportingAgrees, DeliveryAgrees, wf.status = "reported"
  PROVE  Valid(wf) <=> Single(Proofs)
<1>1. PICK r \in Reserved : Reserved = {r} /\ events[r].chk = LastEntry.id BY ReportedIsReserved
<1>2. /\ ReservedAs(wf.proof.rsv) = Reserved /\ wf.snapshot /\ pendingChk = {} /\ IsReported(wf)
  BY ReportedIsReserved
<1>3. /\ Len(wf.index) > 0 /\ wf.index \in Seq(Entry)
      /\ wf.index[Len(wf.index)].status \in Unreported
  BY DEF ReportingAgrees, EndsFinished, Terminal, StoreTypeOK, Record
<1>4. Len(wf.index) \in DOMAIN wf.index /\ Len(wf.index) \in TerminalEntries
  BY <1>3 DEF TerminalEntries
<1>5. TornWritesAreMarked /\ IndexIsBacked BY AgreementPromises DEF RecoveryPromises
<1>6. CheckpointsValid(wf)
  <2>1. ASSUME NEW i \in DOMAIN events PROVE events[i].chk \in IndexIds \cup {NoId}
    <3>1. CASE events[i].type = "checkpoint"
      BY <1>2, <1>5, <3>1 DEF TornWritesAreMarked, EventsOf
    <3>2. CASE events[i].type # "checkpoint"
      <4>1. events[i].chk \in {NoId, LastEntry.id}
        BY <1>1, <3>2 DEF DeliveryAgrees, FilesAgree, Cited
      <4> QED BY <1>4, <4>1 DEF LastEntry, IndexIds
    <3> QED BY <3>1, <3>2
  <2>2. ASSUME NEW id \in IndexIds
        PROVE  id \in worklog /\ Single({i \in EventsOf("checkpoint") : events[i].chk = id})
    BY <1>5 DEF IndexIsBacked, IndexIds, Single
  <2>3. TerminalEntries # {} /\ wf.snapshot BY <1>2, <1>4
  <2> QED BY <1>2, <2>1, <2>2, <2>3 DEF CheckpointsValid, IndexIds
<1>7. DeliveryValid(wf)
  <2>1. wf.reservation = NoDelivery BY <1>2 DEF IsReported
  <2>2. ReservedFor(events[r].chk) = {r} BY <1>1 DEF ReservedFor, Reserved
  <2>3. wf.index[Len(wf.index)].id = events[r].chk BY <1>1 DEF LastEntry
  <2> QED BY <1>1, <1>4, <2>1, <2>2, <2>3 DEF DeliveryValid, Single, Reserved
<1>8. Single(Proofs) => ReportValid(wf)
  <2>1. wf.proof # NoProof BY <1>2, NoProofIsNoClaim DEF IsReported
  <2>2. ProofLines(wf.proof) # {} BY <2>1 DEF DeliveryAgrees, FilesAgree, Backed
  <2>3. Single(ReservedAs(wf.proof.rsv)) BY <1>1, <1>2 DEF Single
  <2>4. /\ wf.reported.rsv = wf.proof.rsv /\ wf.reported.msg = wf.proof.msg
        /\ wf.reported.rsv # None
    BY <1>2, StoreAssumption DEF IsReported, Claim
  <2>5. wf.reported # NoReport BY <2>4 DEF NoReport
  <2>6. PICK k \in Reports : events[k].rsv = wf.proof.rsv /\ events[k].msg = wf.proof.msg
    BY DEF DeliveryAgrees, FilesAgree
  <2>7. Single(Reports) BY <2>6 DEF DeliveryAgrees, FilesAgree, Single
  <2>8. ReportLines(wf.reported) # {} BY <2>4, <2>6 DEF ReportLines, Reports
  <2> QED BY <2>1, <2>2, <2>3, <2>4, <2>5, <2>7, <2>8 DEF ReportValid, Proofs, Reports
<1>9. Valid(wf) => Single(Proofs)
  <2>1. wf.proof # NoProof BY <1>2, NoProofIsNoClaim DEF IsReported
  <2> QED BY <2>1 DEF Valid, ReportValid, Proofs
<1> QED BY <1>6, <1>7, <1>8, <1>9 DEF Valid

\* A reported workflow passes its own validate command exactly when its proof has one line in
\* the log: the second line a crashed report-proof leads to is the only way to fail.
THEOREM AuditFailsByProofLinesOnly ==
  Spec => [](wf.status = "reported" => (Valid(wf) <=> Single(EventsOf("report_proof"))))
<1>1. DeliveryTypeOK /\ RecoveryAgrees /\ ReportingAgrees /\ DeliveryAgrees
        => (wf.status = "reported" => (Valid(wf) <=> Single(EventsOf("report_proof"))))
  BY AuditParts DEF Proofs, DeliveryTypeOK
<1> QED BY <1>1, WorkflowTyped, WorkflowAlwaysRecoverable, ReportingAlwaysAgrees,
           DeliveryAlwaysAgrees, PTL

-----------------------------------------------------------------------------
\* A step that is not a crash of a behaviour without crashes.
LEMMA CalmStep ==
  ASSUME StoreTypeOK, [Next]_deliveryVars, crashes' = 0
  PROVE  crashes = 0 /\ ~Crash /\ ~(\E p \in Proc : LoseSender(p))
<1>1. crashes \in Nat BY DEF StoreTypeOK
<1>2. ~Crash /\ ~(\E p \in Proc : LoseSender(p)) BY <1>1 DEF Crash, LoseSender
<1>3. CASE \/ \E p \in Proc :
                \/ CheckpointRead(p) \/ CheckpointBegin(p) \/ NoteBegin(p) \/ RoundBegin(p)
                \/ RecoverRead(p) \/ RecoverBegin(p) \/ RecoverReply(p) \/ Leave(p)
           \/ Tick \/ UNCHANGED deliveryVars
  BY <1>2, <1>3 DEF CheckpointRead, CheckpointBegin, NoteBegin, RoundBegin,
     RecoverRead, RecoverBegin,
     RecoverReply, Leave, Tick, bounds, deliveryVars, storeVars
<1>4. CASE \E p \in Proc :
             \/ ReserveRead(p) \/ ReserveBegin(p) \/ ReserveReply(p) \/ Send(p)
             \/ ProofRecord(p) \/ ProofAdopt(p) \/ ProofKnown(p)
             \/ CompleteBegin(p) \/ CompleteAdopt(p)
  BY <1>2, <1>4 DEF ReserveRead, ReserveBegin, ReserveReply, Send, ProofRecord, ProofAdopt,
     ProofKnown, CompleteBegin, CompleteAdopt, bounds, storeVars
<1>5. CASE CheckpointWrite \/ NoteWrite \/ RoundWrite \/ RecoverWrite \/ DeliveryWrite
  BY <1>2, <1>5 DEF CheckpointWrite, NoteWrite, RoundWrite, RecoverWrite, DeliveryWrite, bounds
<1> QED BY <1>2, <1>3, <1>4, <1>5 DEF Next, LifeStep, ReportStep

\* The log has one proof line, written by a section that goes on to save the proof.
LEMMA OneProofLineStep ==
  ASSUME StoreTypeOK, ReportingAgrees, DeliveryAgrees, OneProofLine, [Next]_deliveryVars
  PROVE  OneProofLine'
<1> SUFFICES ASSUME crashes' = 0
             PROVE  /\ \A i, j \in Proofs' : i = j
                    /\ Proofs' # {} => wf'.proof # NoProof \/ (tx'.cmd = "proof" /\ tx'.step = "save")
  BY DEF OneProofLine
<1>0. /\ ~Crash /\ ~(\E p \in Proc : LoseSender(p)) /\ \A i, j \in Proofs : i = j
      /\ Proofs # {} => wf.proof # NoProof \/ (tx.cmd = "proof" /\ tx.step = "save")
  BY CalmStep DEF OneProofLine
<1>1. CASE UNCHANGED <<files, tx>>
  BY <1>0, <1>1 DEF files, Proofs, EventsOf
<1>2. ASSUME NEW p \in Proc,
             \/ CheckpointRead(p) \/ RecoverRead(p) \/ RecoverReply(p) \/ Leave(p)
             \/ ReserveRead(p) \/ ReserveReply(p) \/ Send(p) \/ ProofKnown(p)
      PROVE  UNCHANGED <<files, tx>>
  BY <1>2 DEF CheckpointRead, RecoverRead, RecoverReply, Leave, ReserveRead, ReserveReply, Send,
     ProofKnown, storeVars, files
<1>3. Tick \/ UNCHANGED deliveryVars => UNCHANGED <<files, tx>>
  BY DEF Tick, deliveryVars, storeVars, files
<1>4. ASSUME NEW p \in Proc,
             \/ CheckpointBegin(p) \/ NoteBegin(p) \/ RoundBegin(p) \/ RecoverBegin(p)
             \/ ReserveBegin(p) \/ ProofRecord(p) \/ ProofAdopt(p) \/ CompleteBegin(p) \/ CompleteAdopt(p)
      PROVE  UNCHANGED files /\ tx.step = "idle"
  BY <1>4 DEF CheckpointBegin, NoteBegin, RoundBegin, RecoverBegin, ReserveBegin,
     ProofRecord, ProofAdopt, CompleteBegin, CompleteAdopt, Open, Free
<1>5. CASE UNCHANGED files /\ tx.step = "idle"
  BY <1>0, <1>5 DEF files, Proofs, EventsOf
<1>6. CASE CheckpointWrite \/ NoteWrite \/ RoundWrite \/ RecoverWrite
  <2>1. Proofs' = Proofs
    <3>1. \/ events' = events
          \/ \E event \in Event : AppendEvent(event) /\ event.type # "report_proof"
      BY <1>6, LifeWriteKeeps DEF DeliveryEvent
    <3>2. events' = events => Proofs' = Proofs BY DEF Proofs, EventsOf
    <3> QED BY <3>1, <3>2, ReportLogGrows
  <2>2. wf'.proof = wf.proof /\ tx.cmd # "proof" BY <1>6, LifeWriteKeeps DEF LifeCommand
  <2> QED BY <1>0, <2>1, <2>2
<1>7. CASE DeliveryWrite /\ tx.step = "append"
  <2>1. /\ AppendEvent(tx.event) /\ tx.event \in Event /\ wf' = wf
        /\ tx'.cmd = tx.cmd /\ tx'.step = "save" /\ tx.cmd \in {"reserve", "proof", "complete"}
    BY <1>7, DeliveryLogs DEF DeliveryWrite
  <2>2. CASE tx.cmd = "proof"
    <3>1. Proofs = {} BY <1>0, <1>7, <2>2 DEF DeliveryAgrees, ProofSection
    <3> QED BY <2>1, <2>2, <3>1, ReportLogGrows
  <2>3. CASE tx.cmd # "proof"
    <3>1. tx.event.type # "report_proof"
      BY <1>7, <2>1, <2>3 DEF ReportingAgrees, FirstReservation, Reserving, DeliveryAgrees, ReportSection
    <3>2. Proofs' = Proofs BY <2>1, <3>1, ReportLogGrows
    <3> QED BY <1>0, <2>1, <2>3, <3>2
  <2> QED BY <2>2, <2>3
<1>8. CASE DeliveryWrite /\ tx.step # "append"
  <2>1. /\ tx.wf \in Record /\ wf' = [tx.wf EXCEPT !.lastActivity = now] /\ events' = events
        /\ tx.cmd \in {"reserve", "proof", "complete"}
    BY <1>8 DEF DeliveryWrite, SaveWorkflow, StoreTypeOK, Tx
  <2>2. wf'.proof = tx.wf.proof /\ Proofs' = Proofs BY <2>1 DEF Record, Proofs, EventsOf
  <2>3. wf'.proof = wf.proof \/ wf'.proof \in Claim
    BY <2>1, <2>2 DEF DeliveryAgrees, ProofSection
  <2>4. tx.cmd = "proof" => wf'.proof \in Claim BY <2>2 DEF DeliveryAgrees, ProofSection
  <2> QED BY <1>0, <2>2, <2>3, <2>4, NoProofIsNoClaim
<1> QED BY <1>0, <1>1, <1>2, <1>3, <1>4, <1>5, <1>6, <1>7, <1>8 DEF Next, LifeStep, ReportStep

\* Without a crash a report has one proof line, so the workflow validates.
LEMMA CalmIsAuditable ==
  ASSUME StoreTypeOK, RecoveryAgrees, ReportingAgrees, DeliveryAgrees, OneProofLine
  PROVE  crashes = 0 => ReportedIsAuditable
<1> SUFFICES ASSUME crashes = 0, wf.status = "reported" PROVE Valid(wf)
  BY DEF ReportedIsAuditable
<1>1. wf.proof # NoProof BY NoProofIsNoClaim DEF DeliveryAgrees, FilesAgree, IsReported
<1>2. ProofLines(wf.proof) # {} BY <1>1 DEF DeliveryAgrees, FilesAgree, Backed
<1>3. Proofs # {} BY <1>2 DEF ProofLines, Proofs
<1>4. Single(Proofs) BY <1>3 DEF OneProofLine, Single
<1> QED BY <1>4, AuditParts

-----------------------------------------------------------------------------
\* The same of a workflow that its first checkpoint has just finished, once an id can be drawn.
LEMMA FinishedTyped == MaxIds > 0 /\ DeliveryInit => DeliveryTypeOK
<1> SUFFICES ASSUME MaxIds > 0, DeliveryInit PROVE DeliveryTypeOK OBVIOUS
<1>1. NoId \in Id /\ 1 \in Id /\ 1 # NoId /\ 0 \in Cursor
  BY StoreAssumption DEF NoId, Id, Cursor
<1>2. PICK status \in Unreported : wf = FinishedWorkflow(status)
  BY DEF DeliveryInit, TerminalInit
<1>3. wf \in Record
  <2> DEFINE entry == [id |-> 1, status |-> status, before |-> 0, after |-> 0]
  <2>1. entry \in Entry BY <1>1 DEF Entry, Status, Terminal
  <2> HIDE DEF entry
  <2>2. <<entry>> \in Seq(Entry) BY <2>1
  <2>3. NewWorkflow \in Record /\ status \in Status BY NewTyped DEF Status, Terminal
  <2>4. wf = [NewWorkflow EXCEPT !.status = status, !.gated = TRUE, !.snapshot = TRUE,
                                 !.index = <<entry>>]
    BY <1>2 DEF FinishedWorkflow, entry
  <2> QED BY <2>2, <2>3, <2>4 DEF Record
<1>4. events \in Seq(Event)
  <2> DEFINE line == [NoEvent EXCEPT !.type = "checkpoint", !.chk = 1]
  <2>1. line \in Event BY <1>1, NothingTyped DEF Event, EventType
  <2>2. events = <<line>> BY DEF DeliveryInit, TerminalInit
  <2> HIDE DEF line
  <2> QED BY <2>1, <2>2
<1>5. tx \in Tx /\ call \in [Proc -> Call] /\ held \in [Proc -> Id]
  BY <1>1, NewTyped, NothingTyped DEF DeliveryInit, TerminalInit
<1>6. worklog = {1} /\ pendingChk = {} /\ pendingRec = {} /\ now = 0 /\ minted = 1 /\ crashes = 0
  BY DEF DeliveryInit, TerminalInit
<1>7. owing = {} /\ authorised = 0 /\ sent = {} BY DEF DeliveryInit, ChannelInit
<1> QED BY <1>1, <1>3, <1>4, <1>5, <1>6, <1>7 DEF DeliveryTypeOK, StoreTypeOK

LEMMA FinishedAgrees == MaxIds > 0 /\ DeliveryInit => RecoveryAgrees /\ ReportingAgrees /\ OneProofLine
<1> SUFFICES ASSUME MaxIds > 0, DeliveryInit PROVE RecoveryAgrees /\ ReportingAgrees /\ OneProofLine
  OBVIOUS
<1> DEFINE line == [NoEvent EXCEPT !.type = "checkpoint", !.chk = 1]
<1>1. PICK status \in Unreported : wf = FinishedWorkflow(status)
  BY DEF DeliveryInit, TerminalInit
<1> DEFINE entry == [id |-> 1, status |-> status, before |-> 0, after |-> 0]
<1>2. entry.id = 1 /\ entry.status = status /\ entry.before = 0 /\ entry.after = 0 OBVIOUS
<1>3. line.type = "checkpoint" /\ line.chk = 1 /\ line.lease = NoId BY DEF NoEvent
<1>4. events = <<line>> /\ worklog = {1} /\ pendingChk = {} /\ pendingRec = {} /\ tx = NoTx
      /\ call = [p \in Proc |-> NoCall] /\ now = 0 /\ minted = 1
      /\ owing = {} /\ authorised = 0 /\ sent = {}
  BY DEF DeliveryInit, TerminalInit, ChannelInit
<1>5. /\ wf.index = <<entry>> /\ wf.status = status /\ wf.cursor = 0 /\ wf.lease = NoLease
      /\ wf.proof = NoProof
  BY <1>1 DEF FinishedWorkflow, NewWorkflow
<1> HIDE DEF line, entry
<1>6. DOMAIN events = {1} /\ events[1] = line BY <1>4
<1>7. Len(wf.index) = 1 /\ DOMAIN wf.index = {1} /\ wf.index[1] = entry BY <1>5
<1>8. /\ Commits = {1} /\ Grants = {} /\ Releases = {} /\ Decisions = {} /\ Reserved = {}
      /\ Proofs = {}
  BY <1>3, <1>6 DEF Commits, Grants, Releases, Decisions, Reserved, Proofs, EventsOf
<1>9. Acquired = {} /\ Consumed = {}
  BY <1>3, <1>6, <1>8 DEF Acquired, Consumed, Commits, Grants, Releases
<1>10. /\ tx.cmd = "none" /\ tx.step = "idle" /\ tx.event.type = "none" /\ tx.event.lease = NoId
       /\ tx.wf.status = "running" /\ \A p \in Proc : call[p].stage = "idle"
  BY <1>4 DEF NoTx, NoEvent, NewWorkflow, NoCall
<1>11. IndexIds = {1} BY <1>2, <1>7 DEF IndexIds
<1>12. RecoveryAgrees
  <2>1. IdsAreDrawn BY <1>3, <1>4, <1>6, <1>8, <1>9, <1>10 DEF IdsAreDrawn
  <2>2. Sections /\ Markers BY <1>4, <1>10 DEF Sections, Markers
  <2>3. IndexIsLogged BY <1>3, <1>4, <1>6, <1>8, <1>10, <1>11 DEF IndexIsLogged
  <2>4. IndexGrows BY <1>2, <1>5, <1>7, <1>10 DEF IndexGrows, IndexIsAChain, Committing
  <2>5. BlocksAreDecided BY <1>7, <1>10 DEF BlocksAreDecided, BlockedNeedsDecision, Committing
  <2>6. LeasesAreBooked
    <3>1. LeaseIsSpentOnce BY <1>3, <1>6, <1>8 DEF LeaseIsSpentOnce, Commits
    <3> QED BY <1>4, <1>5, <1>8, <1>9, <3>1 DEF LeasesAreBooked, NoLease
  <2>7. LeaseIsCited /\ LeaseIsReplaced BY <1>10 DEF LeaseIsCited, LeaseIsReplaced, Committing
  <2>8. FinishedHasNoLease
    BY <1>4, <1>5, <1>10 DEF FinishedHasNoLease, TerminalIsReleased, Committing, NoLease
  <2> QED BY <2>1, <2>2, <2>3, <2>4, <2>5, <2>6, <2>7, <2>8 DEF RecoveryAgrees
<1>13. ReportingAgrees
  <2>1. EndsFinished(wf) BY <1>2, <1>5, <1>7 DEF EndsFinished
  <2> QED BY <1>4, <1>8, <1>10, <2>1 DEF ReportingAgrees, EndsFinished, LockedSection, FirstReservation,
          OnlyReservation, ReservedOnlyWhenFinished, UnlockedReads, OnePermission, Terminal,
          Unreported, LifeCommand, DeliveryCommand, Reserving, Reserved
<1>14. OneProofLine BY <1>8 DEF OneProofLine
<1> QED BY <1>12, <1>13, <1>14

\* The commands of delivery on their own are steps of the whole workflow.
LEMMA DeliveryIsWorkflow == [DeliveryNext]_deliveryVars => [Next]_deliveryVars
BY DEF DeliveryNext, Next, LifeStep

\* All the invariants together, which is what a step needs to keep each of them.
Agreement ==
  DeliveryTypeOK /\ RecoveryAgrees /\ ReportingAgrees /\ DeliveryAgrees /\ OneProofLine

LEMMA AgreementStep == Agreement /\ [Next]_deliveryVars => Agreement'
<1> SUFFICES ASSUME Agreement, [Next]_deliveryVars PROVE Agreement' OBVIOUS
<1>1. DeliveryTypeOK' /\ ReportingAgrees' BY TypeStep, AgreesStep DEF Agreement
<1>2. RecoveryAgrees'
  <2>1. LifeStep \/ ReportStep \/ UNCHANGED storeVars BY DEF Next, deliveryVars
  <2> QED BY <1>1, <2>1, RecoveryStep DEF Agreement, DeliveryTypeOK
<1>3. DeliveryAgrees' /\ OneProofLine'
  BY DeliveryStep, OneProofLineStep DEF Agreement, DeliveryTypeOK
<1> QED BY <1>1, <1>2, <1>3 DEF Agreement

\* As long as nothing crashed, a reported workflow passes its own validate command.
THEOREM CalmReportIsAuditable == Spec => [](crashes = 0 => ReportedIsAuditable)
<1>1. Init => Agreement
  <2>1. Init => DeliveryTypeOK
    BY RecoveryInit DEF Init, ChannelInit, DeliveryTypeOK
  <2>2. Init => OneProofLine
    <3>1. events = << >> => Proofs = {} BY DEF Proofs, EventsOf
    <3> QED BY <3>1 DEF Init, StoreInit, OneProofLine
  <2> QED BY <2>1, <2>2, RecoveryInit, AgreesInit, DeliveryAgreesInit DEF Init, Agreement
<1>2. Agreement => (crashes = 0 => ReportedIsAuditable)
  BY CalmIsAuditable DEF Agreement, DeliveryTypeOK
<1> QED BY <1>1, <1>2, AgreementStep, PTL DEF Spec

\* The commands of delivery on a workflow just finished keep the same agreement.
THEOREM FinishedAlwaysAgrees ==
  ASSUME MaxIds > 0
  PROVE  DeliverySpec => []Agreement
<1>1. DeliveryInit => Agreement
  BY FinishedTyped, FinishedAgrees, FinishedAgreesInit DEF Agreement
<1> QED BY <1>1, DeliveryIsWorkflow, AgreementStep, PTL DEF DeliverySpec

\* And a run of them that may not crash ends in a report that validates.
THEOREM ReportedIsAuditableHolds ==
  ASSUME MaxIds > 0, MaxCrashes = 0
  PROVE  DeliverySpec => []ReportedIsAuditable
<1>1. DeliveryTypeOK /\ crashes = 0 /\ [Next]_deliveryVars => crashes' = 0
  <2> SUFFICES ASSUME DeliveryTypeOK, crashes = 0, [Next]_deliveryVars
               PROVE  crashes' = 0
    OBVIOUS
  <2>1. ~Crash /\ ~(\E p \in Proc : LoseSender(p)) BY DEF Crash, LoseSender
  <2>2. CASE \/ \E p \in Proc :
                  \/ CheckpointRead(p) \/ CheckpointBegin(p) \/ NoteBegin(p) \/ RoundBegin(p)
                  \/ RecoverRead(p) \/ RecoverBegin(p) \/ RecoverReply(p) \/ Leave(p)
             \/ Tick \/ UNCHANGED deliveryVars
    BY <2>2 DEF CheckpointRead, CheckpointBegin, NoteBegin, RoundBegin,
     RecoverRead, RecoverBegin,
       RecoverReply, Leave, Tick, bounds, deliveryVars, storeVars
  <2>3. CASE \E p \in Proc :
               \/ ReserveRead(p) \/ ReserveBegin(p) \/ ReserveReply(p) \/ Send(p)
               \/ ProofRecord(p) \/ ProofAdopt(p) \/ ProofKnown(p)
               \/ CompleteBegin(p) \/ CompleteAdopt(p)
    BY <2>3 DEF ReserveRead, ReserveBegin, ReserveReply, Send, ProofRecord, ProofAdopt,
       ProofKnown, CompleteBegin, CompleteAdopt, bounds, storeVars
  <2>4. CASE CheckpointWrite \/ NoteWrite \/ RoundWrite \/ RecoverWrite \/ DeliveryWrite
    BY <2>4 DEF CheckpointWrite, NoteWrite, RoundWrite, RecoverWrite, DeliveryWrite, bounds
  <2> QED BY <2>1, <2>2, <2>3, <2>4 DEF Next, LifeStep, ReportStep
<1>2. DeliveryInit => crashes = 0 BY DEF DeliveryInit, TerminalInit
<1>3. Agreement => (crashes = 0 => ReportedIsAuditable)
  BY CalmIsAuditable DEF Agreement, DeliveryTypeOK
<1>4. Agreement /\ crashes = 0 /\ [DeliveryNext]_deliveryVars => (crashes = 0)'
  BY <1>1, DeliveryIsWorkflow DEF Agreement
<1> QED BY <1>2, <1>3, <1>4, FinishedAlwaysAgrees, PTL DEF DeliverySpec

\* The reservation of a finished workflow, the answers to its senders and its two
\* completions do no more than the abstract report: the right to send is reserved,
\* given away and used once, and the message recorded once.
THEOREM DeliveryImplementsReportOnce ==
  ASSUME MaxIds > 0
  PROVE  DeliverySpec => ReportsOnce
<1>1. DeliveryTypeOK /\ ReportingAgrees /\ ReportAgrees /\ [DeliveryNext]_deliveryVars
        => ReportAgrees' /\ [Once!OnceNext]_(Once!onceVars)
  BY StepImplements, DeliveryIsWorkflow DEF View, Once!onceVars, Reserved
<1>2. DeliveryInit => ReportAgrees /\ Once!OnceInit
  <2> SUFFICES ASSUME DeliveryInit PROVE ReportAgrees /\ Once!OnceInit OBVIOUS
  <2>1. PICK status \in Unreported : wf = FinishedWorkflow(status)
    BY DEF DeliveryInit, TerminalInit
  <2>2. /\ events = <<[NoEvent EXCEPT !.type = "checkpoint", !.chk = 1]>>
        /\ tx = NoTx /\ call = [p \in Proc |-> NoCall] /\ authorised = 0 /\ sent = {}
    BY DEF DeliveryInit, TerminalInit, ChannelInit
  <2> DEFINE line == [NoEvent EXCEPT !.type = "checkpoint", !.chk = 1]
  <2>3. line.type = "checkpoint" BY DEF NoEvent
  <2>4. events = <<line>> BY <2>2
  <2> HIDE DEF line
  <2>5. events[1].type = "checkpoint" /\ DOMAIN events = {1} BY <2>3, <2>4
  <2>6. EventsOf("delivery_reserved") = {} BY <2>5 DEF EventsOf
  <2>7. wf.reported.msg = None /\ tx.cmd = "none" /\ \A p \in Proc : call[p].stage = "idle"
    BY <2>1, <2>2 DEF FinishedWorkflow, NewWorkflow, NoReport, NoTx, NoCall
  <2> QED BY <2>2, <2>6, <2>7 DEF ReportAgrees, Once!OnceInit
<1>3. Agreement => DeliveryTypeOK /\ ReportingAgrees BY DEF Agreement
<1> QED BY <1>1, <1>2, <1>3, FinishedAlwaysAgrees, PTL
        DEF DeliverySpec, ReportsOnce, Once!OnceSpec
===============================================================================
