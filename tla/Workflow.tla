------------------------------ MODULE Workflow -------------------------------
(***************************************************************************)
(* One workflow from its creation to its report: checkpoints, notes and    *)
(* recovery (Recovery) and the visible report (Delivery) over the same     *)
(* files and the same lock, with crashes anywhere.                         *)
(***************************************************************************)
EXTENDS Recovery, Delivery

Init == StoreInit /\ ChannelInit

Next == ReportStep \/ (LifeStep /\ UNCHANGED channel)

Spec == Init /\ [][Next]_deliveryVars

-----------------------------------------------------------------------------
LastEntry == wf.index[Len(wf.index)]

\* Delivery authority is only ever logged for the latest checkpoint of a
\* finished workflow, one that delivery can validate: never for a workflow that
\* still runs, nor beside the marker of a torn checkpoint.
ReservedOnlyWhenFinished ==
  EventsOf("delivery_reserved") # {} =>
    /\ wf.status \in Terminal /\ wf.snapshot /\ pendingChk = {}
    /\ \A i \in EventsOf("delivery_reserved") : events[i].chk = LastEntry.id

\* The record a finished workflow is reported from never moves: no checkpoint,
\* note or recovery of another process changes it, and only delivery events
\* follow in the log.
FinishedIsFrozen ==
  [][wf.status \in Terminal =>
       /\ wf'.index = wf.index /\ wf'.cursor = wf.cursor /\ wf'.lease = wf.lease
       /\ wf'.snapshot = wf.snapshot
       /\ wf'.status \in {wf.status, "reported"}
       /\ \A i \in DOMAIN events' \ DOMAIN events :
            events'[i].type \in {"delivery_reserved", "report_proof", "report_sent"}]_deliveryVars

\* The promise of ReportOnce, from the creation of the workflow.
WorkflowReportsOnce == Once!OnceSpec

-----------------------------------------------------------------------------
(***************************************************************************)
(* Why a workflow is reported once: an invariant that every step keeps.    *)
(***************************************************************************)
LifeCommand     == {"checkpoint", "recover", "note", "round"}
DeliveryCommand == {"reserve", "proof", "complete"}
DeliveryEvent   == {"delivery_reserved", "report_proof", "report_sent"}
Reserving       == tx.cmd = "reserve" /\ tx.step = "append"

\* The last checkpoint of a terminal workflow, saved or about to be, is the one
\* that finished it.
EndsFinished(w) ==
  w.status \in Terminal => Len(w.index) > 0 /\ w.index[Len(w.index)].status \in Unreported

\* What the open locked section may be.
LockedSection ==
  /\ Free => tx = NoTx
  /\ tx.cmd \in LifeCommand =>
       /\ tx.step # "clear" => wf.status \notin Terminal
       /\ tx.event.type \notin DeliveryEvent
  /\ tx.cmd \in DeliveryCommand =>
       /\ wf.status \in Terminal /\ tx.wf.status \in {wf.status, "reported"}
       /\ tx.wf.index = wf.index /\ tx.wf.cursor = wf.cursor /\ tx.wf.lease = wf.lease
       /\ tx.wf.snapshot = wf.snapshot
       /\ tx.step = "append" => tx.event.type \in DeliveryEvent
       /\ tx.event.type = "delivery_reserved" => tx.cmd = "reserve"

\* A reservation about to be logged is the first one, for the last checkpoint.
FirstReservation ==
  Reserving =>
    /\ EventsOf("delivery_reserved") = {}
    /\ tx.event.type = "delivery_reserved" /\ tx.event.chk = LastEntry.id
    /\ wf.snapshot /\ pendingChk = {}

\* A reservation in the log is the only one, and its workflow is finished.
OnlyReservation ==
  /\ \A i, j \in EventsOf("delivery_reserved") : i = j
  /\ EventsOf("delivery_reserved") # {} => tx.cmd \notin LifeCommand

\* What processes have read, or will be told, outside the lock.
UnlockedReads ==
  \A p \in Proc :
    /\ call[p].stage = "reserve" => wf.status \in Terminal /\ call[p].id = LastEntry.id
    /\ call[p].stage = "authorised" =>
         /\ authorised = 0
         /\ EventsOf("delivery_reserved") # {} \/ (Reserving /\ tx.by = p)
         /\ \A q \in Proc : call[q].stage = "authorised" => q = p

\* The permission to send is given once and used once.
OnePermission ==
  /\ authorised \in {0, 1}
  /\ authorised = 0 => owing = {} /\ sent = {}
  /\ authorised = 1 => EventsOf("delivery_reserved") # {}
  /\ owing # {} => sent = {}
  /\ \A p, q \in owing : p = q
  /\ \A m, n \in sent : m = n

\* The checkpoint, the reservation, the locked section and the permission agree,
\* whatever crashed in between.
ReportingAgrees ==
  /\ EndsFinished(wf) /\ EndsFinished(tx.wf)
  /\ LockedSection
  /\ FirstReservation /\ OnlyReservation /\ ReservedOnlyWhenFinished
  /\ UnlockedReads /\ OnePermission

\* What the report of a workflow may be, saved or about to be: complete-reported
\* alone writes it, once, from a proof, after the reservation.
ReportAgrees ==
  /\ wf.status # "reported" => wf.reported.msg = None
  /\ tx.cmd \notin {"none", "complete"} => tx.wf.reported = wf.reported
  /\ tx.cmd = "complete" =>
       /\ wf.reported.msg = None /\ EventsOf("delivery_reserved") # {}
       /\ tx.wf.status = "reported" /\ tx.wf.reported.msg \in Message
  /\ \A p \in Proc : call[p].stage = "proved" => call[p].proof \in Claim
=============================================================================
