------------------------------ MODULE Recovery -------------------------------
(***************************************************************************)
(* recover_workflow (converge/recovery.py) and the classification that     *)
(* scan, watchdog-check and recover share, running against checkpoints and *)
(* notes of other processes.                                               *)
(*                                                                         *)
(* recover reads the clock before it waits for the lock, classifies the    *)
(* workflow by that time, and gives its caller a lease on the current      *)
(* cursor; while the lease lives only its holder may checkpoint.  The      *)
(* cursor and context-manifest mismatches and the stalled native panel     *)
(* launch are not modelled: the first cannot arise from these commands,    *)
(* the others depend on files and modes outside this module.               *)
(***************************************************************************)
EXTENDS Checkpoint

\* The write that follows each write of recover_workflow.
RecoverOrder ==
  [release |-> "mark", mark |-> "append", append |-> "save", save |-> "clear",
   clear |-> "idle"]

-----------------------------------------------------------------------------
\* _checkpoint_mismatch_reason: an indexed checkpoint whose event or worklog
\* block is missing.  (An event the index does not know is not noticed.)
CheckpointMismatch ==
  \E k \in DOMAIN wf.index :
    \/ \A i \in EventsOf("checkpoint") : events[i].chk # wf.index[k].id
    \/ wf.index[k].id \notin worklog

Acquired == {events[i].lease : i \in EventsOf("recovery_lease_acquired")}
Consumed ==
  {events[i].lease : i \in EventsOf("lease_released") \cup EventsOf("checkpoint")} \ {NoId}

\* The lease books: every consumed lease was acquired, the active one too, and
\* an acquired lease is consumed or active.
LeaseMismatch ==
  \/ ~(Consumed \subseteq Acquired)
  \/ wf.lease.id # NoId /\ wf.lease.id \notin Acquired
  \/ ~(Acquired \ Consumed \subseteq {wf.lease.id})

\* _recovery_transaction_mismatch_reason
RecoveryMismatch == pendingRec # {} \/ LeaseMismatch

HasLease(t) == wf.lease.id # NoId /\ ~Expired(wf.lease, t)
Stale(t)    == t - wf.lastActivity > StaleAfter
Due(t)      == t - wf.lastActivity > ReminderAfter

\* Faulty: markers of torn transactions, or a live lease, are overlooked.
ReasonUnmarked(t) ==
  IF wf.status = "reported" THEN "clean"
  ELSE IF HasLease(t) THEN "active_recovery_lease_exists"
  ELSE IF wf.status \in Unreported THEN "terminal_unreported"
  ELSE IF wf.gated THEN "risky_side_effect_requires_approval"
  ELSE IF wf.status \in Active /\ Stale(t) THEN "stale_active"
  ELSE "clean"
ReasonUnleased(t) ==
  IF wf.status \in Terminal THEN "clean"
  ELSE IF pendingChk # {} THEN "pending_checkpoint"
  ELSE IF RecoveryMismatch THEN "pending_recovery_lease"
  ELSE IF wf.status \in Active /\ Stale(t) THEN "stale_active"
  ELSE "clean"

\* _classify_workflow at time t, in its order of precedence.
Reason(t) ==
  IF wf.status = "reported" THEN "clean"
  ELSE IF pendingChk # {} THEN "pending_checkpoint"
  ELSE IF CheckpointMismatch THEN "event_log_mismatch"
  ELSE IF RecoveryMismatch THEN "pending_recovery_lease"
  ELSE IF HasLease(t) THEN "active_recovery_lease_exists"
  ELSE IF wf.status \in Unreported THEN "terminal_unreported"
  ELSE IF wf.gated THEN "risky_side_effect_requires_approval"
  ELSE IF wf.status = "waiting_user" /\ Due(t) THEN "waiting_user_reminder_due"
  ELSE IF wf.status \in Active /\ Stale(t) THEN "stale_active"
  ELSE "clean"

BlockedReasons ==
  {"pending_checkpoint", "event_log_mismatch", "pending_recovery_lease",
   "risky_side_effect_requires_approval"}

\* recover gives out a lease only for these; terminal_unreported is sent to
\* reserve-delivery instead.
Resumable(t) == Reason(t) \in {"waiting_user_reminder_due", "stale_active"}

LeaseEvent(type, id) == [NoEvent EXCEPT !.type = type, !.lease = id]

-----------------------------------------------------------------------------
\* recover reads the clock, then asks for the lock.
RecoverRead(p) ==
  /\ Idle(p)
  /\ call' = [call EXCEPT ![p] = [NoCall EXCEPT !.stage = "recover", !.at = now]]
  /\ UNCHANGED <<files, tx, held, bounds>>

\* recover classifies the workflow and prepares a lease; a lease that expired
\* is released in the log first.
RecoverBegin(p) ==
  /\ call[p].stage = "recover"
  /\ minted < MaxIds
  /\ LET at == call[p].at IN
       /\ Resumable(at)
       /\ \E seconds \in LeaseSeconds :
            Open(p, "recover",
                 IF wf.lease.id = NoId THEN "mark" ELSE "release",
                 [wf EXCEPT !.lease = [id |-> Fresh, cursor |-> wf.cursor, holder |-> p,
                                       expires |-> at + seconds]],
                 LeaseEvent("recovery_lease_acquired", Fresh), Fresh)
  /\ minted' = Fresh
  /\ call' = [call EXCEPT ![p] = [NoCall EXCEPT !.stage = "leased", !.id = Fresh]]
  /\ UNCHANGED <<files, held, now, crashes>>

\* One durable write of a recover.
RecoverWrite ==
  /\ tx.cmd = "recover"
  /\ \/ tx.step = "release" /\ AppendEvent(LeaseEvent("lease_released", wf.lease.id))
     \/ tx.step = "mark" /\ WritePendingRecovery
     \/ tx.step = "append" /\ AppendEvent(tx.event)
     \/ tx.step = "save" /\ SaveWorkflow
     \/ tx.step = "clear" /\ ClearPendingRecovery
  /\ Proceed(RecoverOrder)
  /\ UNCHANGED <<call, held, bounds>>

\* The lease is printed to the caller after the lock is released.
RecoverReply(p) ==
  /\ call[p].stage = "leased" /\ tx.by # p
  /\ held' = [held EXCEPT ![p] = call[p].id]
  /\ call' = [call EXCEPT ![p] = NoCall]
  /\ UNCHANGED <<files, tx, bounds>>

-----------------------------------------------------------------------------
LifeStep ==
  \/ \E p \in Proc :
       \/ CheckpointRead(p) \/ CheckpointBegin(p) \/ NoteBegin(p) \/ RoundBegin(p)
       \/ RecoverRead(p) \/ RecoverBegin(p) \/ RecoverReply(p)
       \/ Leave(p)
  \/ CheckpointWrite \/ NoteWrite \/ RoundWrite \/ RecoverWrite
  \/ Crash \/ Tick

RecoverySpec == StoreInit /\ [][LifeStep]_storeVars

-----------------------------------------------------------------------------
\* Every part of the record keeps its type.
TypeOK == StoreTypeOK

IndexIds == {wf.index[k].id : k \in DOMAIN wf.index}

\* A checkpoint or lease event that reached the log but not workflow.json has
\* its marker on disk: a crash between the writes of record_checkpoint or of
\* recover_workflow is never silent.
TornWritesAreMarked ==
  /\ \A i \in EventsOf("checkpoint") : events[i].chk \in IndexIds \cup pendingChk
  /\ Acquired \subseteq Consumed \cup {wf.lease.id} \cup pendingRec

\* Every indexed checkpoint has one event and one worklog block: no crash makes
\* workflow.json claim a checkpoint the append-only files do not hold.
IndexIsBacked ==
  \A k \in DOMAIN wf.index :
    /\ \E i \in EventsOf("checkpoint") :
         {j \in EventsOf("checkpoint") : events[j].chk = wf.index[k].id} = {i}
    /\ wf.index[k].id \in worklog

\* Without a marker on disk recover never finds the lease books unbalanced,
\* whatever was crashed, superseded or released before.
LeaseBooksBalance == pendingRec = {} => ~LeaseMismatch

\* A torn transaction stops every later one before it starts: there is never
\* more than one marker to reconcile.
OneMarker == Cardinality(pendingChk \cup pendingRec) <= 1

\* The accepted checkpoints form a chain from the first step to the cursor, by
\* single steps, although two processes may advance from the same read.
IndexIsAChain ==
  LET n == Len(wf.index) IN
  /\ \A k \in 1 .. n :
       /\ wf.index[k].before = IF k = 1 THEN 0 ELSE wf.index[k - 1].after
       /\ wf.index[k].after \in {wf.index[k].before, wf.index[k].before + 1}
  /\ wf.cursor = IF n = 0 THEN 0 ELSE wf.index[n].after

\* A blocked workflow leaves the block only after an owner decision or rescope
\* logged between the two checkpoints.
BlockedNeedsDecision ==
  \A k \in 2 .. Len(wf.index) :
    wf.index[k - 1].status = "blocked" /\ wf.index[k].status # "blocked" =>
      \E d \in EventsOf("owner_decision"), b, c \in EventsOf("checkpoint") :
        /\ events[b].chk = wf.index[k - 1].id /\ events[c].chk = wf.index[k].id
        /\ b < d /\ d < c

\* A lease is spent at most once, by a checkpoint logged while it is the latest
\* lease and was not released: a superseded holder never commits.
LeaseIsSpentOnce ==
  \A c \in EventsOf("checkpoint") : events[c].lease # NoId =>
    /\ \A d \in EventsOf("checkpoint") : events[d].lease = events[c].lease => d = c
    /\ \A r \in EventsOf("lease_released") : events[r].lease # events[c].lease
    /\ \E a \in EventsOf("recovery_lease_acquired") :
         /\ a < c /\ events[a].lease = events[c].lease
         /\ \A b \in EventsOf("recovery_lease_acquired") : a < b => c < b

\* A finished workflow holds no recovery lease and no recovery marker.
TerminalIsReleased ==
  wf.status \in Terminal => wf.lease.id = NoId /\ pendingRec = {}

\* At rest, an event workflow.json does not know makes the scan report the
\* workflow as blocked, so nobody resumes from half a transaction.
ScanSeesTornWrites ==
  Free /\ (\/ \E i \in EventsOf("checkpoint") : events[i].chk \notin IndexIds
           \/ LeaseMismatch)
    => Reason(now) \in BlockedReasons

\* A new lease replaces none or an expired one: two recover commands never both
\* own the cursor.
LeaseIsExclusive ==
  [][wf'.lease.id \notin {NoId, wf.lease.id}
       => wf.lease.id = NoId \/ Expired(wf.lease, now)]_storeVars

\* While a lease is on disk only the process recover returned it to commits a
\* checkpoint, and the commit ends the lease.
LeaseFencesCommits ==
  [][wf'.index # wf.index /\ wf.lease.id # NoId
       => held[tx.by] = wf.lease.id /\ wf'.lease = NoLease]_storeVars

\* What a dead command left half written stays as it left it until somebody
\* reconciles it: beside the marker of a checkpoint nobody writes workflow.json,
\* the log or the worklog; beside the marker of a recover nobody writes
\* workflow.json, and only event and append-round, which do not ask for that
\* marker, still add to the log and the worklog.
TornMeansFrozen ==
  [][/\ pendingChk \ {tx.id} # {} => UNCHANGED <<wf, events, worklog>>
     /\ pendingRec \ {tx.id} # {} =>
          /\ UNCHANGED wf
          /\ UNCHANGED <<events, worklog>> \/ tx.cmd \in {"note", "round"}]_storeVars
=============================================================================
