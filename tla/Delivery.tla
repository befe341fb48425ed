------------------------------ MODULE Delivery -------------------------------
(***************************************************************************)
(* Reporting a terminal workflow once (converge/cli.py): reserve-delivery  *)
(* authorises one send, the caller sends the message over its own channel, *)
(* report-proof records the message id, complete-reported marks the        *)
(* workflow reported.  Converge never sees the channel: the send is a step *)
(* of the environment.                                                     *)
(*                                                                         *)
(* complete-reported runs report-proof's section under the lock and then   *)
(* its own under a second one.  The first is the model's ProofRecord or    *)
(* ProofAdopt followed by ProofKnown, which finds the recorded proof equal *)
(* to its arguments.                                                       *)
(***************************************************************************)
EXTENDS Store

VARIABLES
  owing,       \* processes told send_authorized that have not sent yet
  authorised,  \* how many times reserve-delivery printed send_authorized
  sent         \* messages on the visible channel

channel      == <<owing, authorised, sent>>
deliveryVars == <<storeVars, channel>>

\* Faulty: workflow.json is not saved after the event.
DeliveryOrderUnsaved == [append |-> "idle", save |-> "idle"]

\* The write that follows each write of reserve-delivery, report-proof and
\* complete-reported.
DeliveryOrder == [append |-> "save", save |-> "idle"]

-----------------------------------------------------------------------------
TerminalEntries == {k \in DOMAIN wf.index : wf.index[k].status \in Unreported}

\* _latest_terminal_checkpoint_id
IsLatestTerminal(k) == k \in TerminalEntries /\ \A j \in TerminalEntries : j <= k

ReservedFor(chk) == {i \in EventsOf("delivery_reserved") : events[i].chk = chk}
ReservedAs(rsv)  == {i \in EventsOf("delivery_reserved") : events[i].rsv = rsv}

\* The checkpoint a reservation of the log is for.
ReservedChk(rsv) == events[CHOOSE i \in ReservedAs(rsv) : TRUE].chk

Single(S) == \E x \in S : S = {x}

\* Log lines carrying the key of a proof or of a report.
ProofLines(proof) ==
  {i \in EventsOf("report_proof") :
     /\ events[i].rsv = proof.rsv /\ events[i].msg = proof.msg
     /\ events[i].manual = proof.manual}
ReportLines(proof) ==
  {i \in EventsOf("report_sent") : events[i].rsv = proof.rsv /\ events[i].msg = proof.msg}

\* _report_context: the active reservation, alive unless reconciled by hand, or
\* with --manual-reconcile a reservation of the log.
ReportContext(proof) ==
  /\ Single(ReservedAs(proof.rsv))
  /\ IF wf.reservation # NoDelivery
     THEN /\ proof.rsv = wf.reservation.rsv
          /\ Expired(wf.reservation, now) => proof.manual
     ELSE proof.manual

\* Faulty: the marker of a torn checkpoint is overlooked.
CheckpointsValidUnmarked(w) == w.status \in Terminal => TerminalEntries # {} /\ w.snapshot

\* The checkpoint part of _validate_workflow_integrity, for workflow w.
CheckpointsValid(w) ==
  LET ids == {w.index[k].id : k \in DOMAIN w.index} IN
  /\ pendingChk = {}
  /\ \A i \in DOMAIN events : events[i].chk \in ids \cup {NoId}
  /\ \A id \in ids : id \in worklog
       /\ Single({i \in EventsOf("checkpoint") : events[i].chk = id})
  /\ w.status \in Terminal => TerminalEntries # {} /\ w.snapshot

\* Its delivery part.
DeliveryValid(w) ==
  /\ w.reservation # NoDelivery =>
       w.status \in Unreported /\ Single(ReservedAs(w.reservation.rsv))
  /\ \A i \in EventsOf("delivery_reserved") :
       /\ Single(ReservedFor(events[i].chk))
       /\ \E k \in TerminalEntries : wf.index[k].id = events[i].chk

\* _validate_report_event_integrity
ReportValid(w) ==
  /\ IF w.proof = NoProof
     THEN EventsOf("report_proof") = {}
     ELSE /\ Single(EventsOf("report_proof")) /\ ProofLines(w.proof) # {}
          /\ Single(ReservedAs(w.proof.rsv))
  /\ IF w.status = "reported"
     THEN /\ w.proof # NoProof /\ w.reported # NoReport
          /\ Single(EventsOf("report_sent")) /\ ReportLines(w.reported) # {}
          /\ w.reported.rsv = w.proof.rsv /\ w.reported.msg = w.proof.msg
     ELSE w.reported = NoReport /\ EventsOf("report_sent") = {}

Valid(w) == CheckpointsValid(w) /\ DeliveryValid(w) /\ ReportValid(w)

ReservedEvent(rsv, chk) ==
  [NoEvent EXCEPT !.type = "delivery_reserved", !.chk = chk, !.rsv = rsv]
ReportEvent(type, proof) ==
  [NoEvent EXCEPT !.type = type, !.chk = ReservedChk(proof.rsv), !.rsv = proof.rsv,
                  !.msg = proof.msg, !.manual = type = "report_proof" /\ proof.manual]

\* Faulty: the report forgets its message.
ReportedUnnamed(proof) ==
  [wf EXCEPT !.status = "reported", !.reservation = NoDelivery,
             !.reported = [rsv |-> proof.rsv, msg |-> None]]

\* _apply_reported_transition
Reported(proof) ==
  [wf EXCEPT !.status = "reported", !.reservation = NoDelivery,
             !.reported = [rsv |-> proof.rsv, msg |-> proof.msg]]

-----------------------------------------------------------------------------
\* reserve-delivery before the lock: status, reservation and log are read, the
\* checkpoint to report and the expiry are fixed.
ReserveRead(p) ==
  /\ Idle(p)
  /\ wf.status \in Unreported
  /\ wf.reservation = NoDelivery
  /\ \E k \in DOMAIN wf.index :
       /\ IsLatestTerminal(k)
       /\ ReservedFor(wf.index[k].id) = {}
       /\ call' = [call EXCEPT ![p] = [NoCall EXCEPT !.stage = "reserve", !.at = now,
                                                     !.id = wf.index[k].id]]
  /\ UNCHANGED <<files, tx, held, bounds, channel>>

\* Faulty: the reads made before the lock are trusted, or the log is not asked
\* for an earlier reservation.
MayReserveUnlocked(chk) == wf.status \in Unreported /\ Valid(wf)
MayReserveForgetful(chk) == wf.reservation = NoDelivery /\ wf.status \in Unreported

\* reserve-delivery under the lock: everything is read again.
MayReserve(chk) ==
  /\ wf.reservation = NoDelivery
  /\ wf.status \in Unreported
  /\ ReservedFor(chk) = {}
  /\ Valid(wf)

ReserveBegin(p) ==
  /\ call[p].stage = "reserve"
  /\ MayReserve(call[p].id)
  /\ \E rsv \in Reservation, seconds \in LeaseSeconds :
       Open(p, "reserve", "append",
            [wf EXCEPT !.reservation = [rsv |-> rsv, chk |-> call[p].id,
                                        expires |-> call[p].at + seconds]],
            ReservedEvent(rsv, call[p].id), call[p].id)
  /\ call' = [call EXCEPT ![p].stage = "authorised"]
  /\ UNCHANGED <<files, held, bounds, channel>>

\* send_authorized is printed after the lock is released.
ReserveReply(p) ==
  /\ call[p].stage = "authorised" /\ tx.by # p
  /\ call' = [call EXCEPT ![p] = NoCall]
  /\ owing' = owing \cup {p}
  /\ authorised' = authorised + 1
  /\ UNCHANGED <<files, tx, held, bounds, sent>>

\* The authorised caller posts the report on the channel.
Send(p) ==
  /\ p \in owing
  /\ \E msg \in Message \ sent : sent' = sent \cup {msg}
  /\ owing' = owing \ {p}
  /\ UNCHANGED <<storeVars, authorised>>

\* An authorised caller dies before it posts.
LoseSender(p) ==
  /\ p \in owing
  /\ crashes < MaxCrashes
  /\ crashes' = crashes + 1
  /\ owing' = owing \ {p}
  /\ UNCHANGED <<files, tx, call, held, now, minted, authorised, sent>>

\* Faulty: a proof on record may be replaced.
UnprovedByLog(proof) == ProofLines(proof) = {}

\* No proof on record, and none with these keys in the log.
Unproved(proof) == wf.proof = NoProof /\ ProofLines(proof) = {}

\* report-proof, first time: the event, then workflow.json.
ProofRecord(p) ==
  /\ Idle(p)
  /\ \E proof \in Claim :
       /\ Unproved(proof)
       /\ ReportContext(proof)
       /\ Open(p, "proof", "append", [wf EXCEPT !.proof = proof],
               ReportEvent("report_proof", proof), NoId)
  /\ UNCHANGED <<files, call, held, bounds, channel>>

\* report-proof finds its event in the log of a workflow without proof: it
\* finishes the transaction that a crash cut.
ProofAdopt(p) ==
  /\ Idle(p)
  /\ \E proof \in Claim :
       /\ wf.proof = NoProof /\ Single(ProofLines(proof))
       /\ Single(ReservedAs(proof.rsv))
       /\ Open(p, "proof", "save", [wf EXCEPT !.proof = proof], NoEvent, NoId)
  /\ UNCHANGED <<files, call, held, bounds, channel>>

\* complete-reported finds the proof it would record already there.
ProofKnown(p) ==
  /\ Idle(p) /\ Free
  /\ \E proof \in Claim :
       /\ wf.proof = proof /\ Single(ProofLines(proof))
       /\ Single(ReservedAs(proof.rsv))
       /\ call' = [call EXCEPT ![p] = [NoCall EXCEPT !.stage = "proved", !.proof = proof]]
  /\ UNCHANGED <<files, tx, held, bounds, channel>>

\* complete-reported's own section: the event, then workflow.json.
CompleteBegin(p) ==
  /\ call[p].stage = "proved"
  /\ wf.status \in Unreported
  /\ LET proof == call[p].proof IN
       /\ ReportContext(proof)
       /\ ReportLines(proof) = {}
       /\ Open(p, "complete", "append", Reported(proof),
               ReportEvent("report_sent", proof), NoId)
  /\ call' = [call EXCEPT ![p] = NoCall]
  /\ UNCHANGED <<files, held, bounds, channel>>

\* complete-reported finds its event in the log: only workflow.json is saved,
\* after the whole record validates.
CompleteAdopt(p) ==
  /\ call[p].stage = "proved"
  /\ wf.status \in Unreported
  /\ LET proof == call[p].proof IN
       /\ ReportContext(proof)
       /\ Single(ReportLines(proof))
       /\ Valid(Reported(proof))
       /\ Open(p, "complete", "save", Reported(proof), NoEvent, NoId)
  /\ call' = [call EXCEPT ![p] = NoCall]
  /\ UNCHANGED <<files, held, bounds, channel>>

\* One durable write of reserve-delivery, report-proof or complete-reported.
DeliveryWrite ==
  /\ tx.cmd \in {"reserve", "proof", "complete"}
  /\ \/ tx.step = "append" /\ AppendEvent(tx.event)
     \/ tx.step = "save" /\ SaveWorkflow
  /\ Proceed(DeliveryOrder)
  /\ UNCHANGED <<call, held, bounds, channel>>

-----------------------------------------------------------------------------
\* A workflow whose first checkpoint has just finished it.
FinishedWorkflow(status) ==
  [NewWorkflow EXCEPT
     !.status = status, !.gated = TRUE, !.snapshot = TRUE,
     !.index = <<[id |-> 1, status |-> status, before |-> 0, after |-> 0]>>]

TerminalInit ==
  /\ \E status \in Unreported : wf = FinishedWorkflow(status)
  /\ events = <<[NoEvent EXCEPT !.type = "checkpoint", !.chk = 1]>>
  /\ worklog = {1} /\ pendingChk = {} /\ pendingRec = {}
  /\ tx = NoTx
  /\ call = [p \in Proc |-> NoCall]
  /\ held = [p \in Proc |-> NoId]
  /\ now = 0 /\ minted = 1 /\ crashes = 0

ChannelInit == owing = {} /\ authorised = 0 /\ sent = {}

DeliveryInit == TerminalInit /\ ChannelInit

ReportStep ==
  \/ \E p \in Proc :
       \/ ReserveRead(p) \/ ReserveBegin(p) \/ ReserveReply(p)
       \/ Send(p) \/ LoseSender(p)
       \/ ProofRecord(p) \/ ProofAdopt(p) \/ ProofKnown(p)
       \/ CompleteBegin(p) \/ CompleteAdopt(p)
  \/ DeliveryWrite

DeliveryNext ==
  \/ ReportStep
  \/ (Crash \/ Tick \/ \E p \in Proc : Leave(p)) /\ UNCHANGED channel

DeliverySpec == DeliveryInit /\ [][DeliveryNext]_deliveryVars

\* The owner session is woken by the watchdog until the workflow is reported: a
\* command that could go through again and again is tried until it does, one
\* that holds the lock makes its writes, and an authorised session sends.
DeliveryFairness ==
  /\ WF_deliveryVars(DeliveryWrite)
  /\ \A p \in Proc : WF_deliveryVars(ReserveReply(p)) /\ WF_deliveryVars(Send(p))
  /\ SF_deliveryVars(\E p \in Proc : ReserveRead(p))
  /\ SF_deliveryVars(\E p \in Proc : ReserveBegin(p))
  /\ SF_deliveryVars(\E p \in Proc : ProofRecord(p))
  /\ SF_deliveryVars(\E p \in Proc : ProofKnown(p))
  /\ SF_deliveryVars(\E p \in Proc : CompleteBegin(p))

FairDeliverySpec == DeliverySpec /\ DeliveryFairness

-----------------------------------------------------------------------------
\* Every part of the record and of the channel keeps its type.
DeliveryTypeOK ==
  /\ StoreTypeOK
  /\ owing \subseteq Proc /\ authorised \in Nat /\ sent \subseteq Message

\* Two sessions, a crash anywhere and an expired reservation never lead to two
\* authorisations, nor to two messages on the channel.
AtMostOneSend == authorised <= 1 /\ \A m, n \in sent : m = n

\* The log holds at most one reservation, and at most one report, whose keys are
\* those of the proof in workflow.json and which was logged after its
\* reservation and its proof.
ReportIsProved ==
  /\ \A i, j \in EventsOf("delivery_reserved") : i = j
  /\ \A i, j \in EventsOf("report_sent") : i = j
  /\ \A i \in EventsOf("report_sent") :
       /\ events[i].rsv = wf.proof.rsv /\ events[i].msg = wf.proof.msg
       /\ \E j \in ReservedAs(wf.proof.rsv), k \in ProofLines(wf.proof) : j < k /\ k < i

\* A reported workflow passes its own validate command.
ReportedIsAuditable == Free /\ wf.status = "reported" => Valid(wf)

\* Proof recorded for a workflow is never replaced, and a reservation leaves
\* workflow.json only when the workflow becomes reported.
ProofIsFinal ==
  [][/\ wf.proof # NoProof => wf'.proof = wf.proof
     /\ wf.reservation # NoDelivery =>
          wf'.reservation = wf.reservation \/ wf'.status = "reported"]_deliveryVars

\* The promise of module ReportOnce.
Once == INSTANCE ReportOnce WITH
  reserved <- EventsOf("delivery_reserved") # {},
  reported <- wf.reported.msg
ReportsOnce == Once!OnceSpec

\* Without crash and before the reservation expires, a finished workflow ends
\* reported, with its message on the channel.
EventuallyReported == <>(wf.status = "reported" /\ sent # {})
=============================================================================
