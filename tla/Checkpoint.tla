----------------------------- MODULE Checkpoint ------------------------------
(***************************************************************************)
(* record_checkpoint (converge/checkpoint.py), the one command that moves  *)
(* a workflow: its guards, the new workflow it computes, and its five      *)
(* durable writes; and the two that record without moving it: event logs a *)
(* note, append-round logs progress and adds a block to the worklog.       *)
(*                                                                         *)
(* Guards that only look at the text of the arguments (evidence shape,     *)
(* side-effect prefixes, worklog anchors, the mode's own state validators, *)
(* the context manifest's file hashes) can refuse a checkpoint the model   *)
(* takes and change nothing else, so they are left out.                    *)
(***************************************************************************)
EXTENDS Store

CONSTANTS
  Asked,     \* statuses callers ask for as status_after
  Notes      \* notes callers log with event

ASSUME CheckpointAssumption ==
  /\ Asked \subseteq Status \ {"reported"}
  /\ Notes \subseteq {"owner_decision", "progress"}

\* Faulty orders: the marker removed before workflow.json is saved, and
\* workflow.json saved before the append-only files.
CheckpointOrderClearFirst ==
  [mark |-> "append", append |-> "worklog", worklog |-> "clear", clear |-> "save",
   save |-> "idle"]
CheckpointOrderSaveFirst ==
  [mark |-> "save", save |-> "append", append |-> "worklog", worklog |-> "clear",
   clear |-> "idle"]

\* The write that follows each write of record_checkpoint.
CheckpointOrder ==
  [mark |-> "append", append |-> "worklog", worklog |-> "save", save |-> "clear",
   clear |-> "idle"]

NoteOrder  == [append |-> "idle"]
RoundOrder == [append |-> "worklog", worklog |-> "idle"]

-----------------------------------------------------------------------------
\* Faulty: recovery markers overlooked.
NothingPendingButRecovery == pendingChk = {}

\* require_no_pending_checkpoint and require_no_pending_recovery
NothingPending == pendingChk = {} /\ pendingRec = {}

\* Faulty: a finished workflow may go on.
CanCheckpointFinished(status) == status # "reported"

\* _validate_workflow_can_checkpoint
CanCheckpoint(status) ==
  /\ wf.status \notin Terminal
  /\ status # "reported"
  /\ wf.status \in Waiting => status \in {wf.status, "running", "failed_unreported"}

\* Faulty: a decision unblocks for ever.
DecidedEver == EventsOf("owner_decision") # {}

\* A decision or rescope with no checkpoint-owned event after it.
Decided ==
  \E i \in EventsOf("owner_decision") : \A j \in EventsOf("checkpoint") : j < i

\* _validate_blocked_unblock
Unblocked(status) == wf.status = "blocked" /\ status # "blocked" => Decided

\* Faulty: a checkpoint that names no lease passes.
LeaseAdmitsUnnamed(p, cited, before) ==
  cited # NoId => cited = wf.lease.id /\ wf.lease.holder = p /\ ~Expired(wf.lease, now)

\* _validate_recovery_lease: cited is the lease id p passes, NoId for none.
LeaseAdmits(p, cited, before) ==
  IF wf.lease.id = NoId
  THEN cited = NoId
  ELSE /\ cited = wf.lease.id /\ wf.lease.holder = p
       /\ ~Expired(wf.lease, now)
       /\ wf.lease.cursor = before

\* Faulty: the cursor read before the lock is trusted, or the last step is passed.
CursorMayStale(before, status, advance) ==
  advance => before < LastStep /\ status \notin Unreported
CursorMayOverrun(before, status, advance) ==
  before = wf.cursor /\ (advance => wf.cursor <= LastStep /\ status \notin Unreported)

\* validate_cursor_transition with the terminal, advance and checkpoint rules of
\* the state update's contract: only an advance moves the cursor, by one step,
\* and the last step's target needs a terminal checkpoint.
CursorMay(before, status, advance) ==
  /\ before = wf.cursor
  /\ advance => wf.cursor < LastStep /\ status \notin Unreported

\* _default_next_action asks for the owner's approval of a blocked workflow; a
\* next action the caller supplies may be gated or not.
NextActions(status) == IF status \in Unreported THEN {TRUE} ELSE BOOLEAN

\* Faulty: the lease survives its checkpoint, or survives one that stays on its
\* cursor.
CheckpointedKeepsLease(id, before, after, status, gated, snapshot) ==
  [wf EXCEPT
     !.status = status, !.cursor = after, !.gated = gated, !.snapshot = snapshot,
     !.index = Append(@, [id |-> id, status |-> status, before |-> before, after |-> after])]
CheckpointedKeepsLeaseOnStep(id, before, after, status, gated, snapshot) ==
  [CheckpointedKeepsLease(id, before, after, status, gated, snapshot) EXCEPT
     !.lease = IF after # before THEN NoLease ELSE @]

\* The workflow record_checkpoint will save.
Checkpointed(id, before, after, status, gated, snapshot) ==
  [wf EXCEPT
     !.status = status, !.cursor = after, !.gated = gated, !.snapshot = snapshot,
     !.index = Append(@, [id |-> id, status |-> status, before |-> before, after |-> after]),
     !.lease = IF @.cursor = before THEN NoLease ELSE @]

\* Faulty: the event does not carry the lease.
CheckpointEventUnleased(id, cited) == [NoEvent EXCEPT !.type = "checkpoint", !.chk = id]

CheckpointEvent(id, cited) ==
  [NoEvent EXCEPT !.type = "checkpoint", !.chk = id, !.lease = cited]

-----------------------------------------------------------------------------
\* The caller looks at the workflow; advance reads the cursor itself, unlocked.
CheckpointRead(p) ==
  /\ Idle(p)
  /\ call' = [call EXCEPT ![p] = [NoCall EXCEPT !.stage = "checkpoint", !.cursor = wf.cursor]]
  /\ UNCHANGED <<files, tx, held, bounds>>

\* record_checkpoint takes the lock, every guard passes, the new workflow is
\* computed in memory.
CheckpointBegin(p) ==
  /\ call[p].stage = "checkpoint"
  /\ minted < MaxIds
  /\ NothingPending
  /\ \E status \in Asked, advance \in BOOLEAN, cited \in {NoId, held[p]} :
       LET before == call[p].cursor
           after  == IF advance THEN before + 1 ELSE before
       IN /\ CanCheckpoint(status)
          /\ Unblocked(status)
          /\ LeaseAdmits(p, cited, before)
          /\ CursorMay(before, status, advance)
          /\ \E gated \in NextActions(status),
                snapshot \in IF status \in Unreported THEN BOOLEAN ELSE {FALSE} :
               Open(p, "checkpoint", "mark",
                    Checkpointed(Fresh, before, after, status, gated, snapshot),
                    CheckpointEvent(Fresh, cited), Fresh)
  /\ minted' = Fresh
  /\ call' = [call EXCEPT ![p] = NoCall]
  /\ UNCHANGED <<files, held, now, crashes>>

\* One durable write of a checkpoint.
CheckpointWrite ==
  /\ tx.cmd = "checkpoint"
  /\ \/ tx.step = "mark" /\ WritePendingCheckpoint
     \/ tx.step = "append" /\ AppendEvent(tx.event)
     \/ tx.step = "worklog" /\ AppendWorklog
     \/ tx.step = "save" /\ SaveWorkflow
     \/ tx.step = "clear" /\ ClearPendingCheckpoint
  /\ Proceed(CheckpointOrder)
  /\ UNCHANGED <<call, held, bounds>>

\* event and append-round: a torn recovery does not stop them, only a pending
\* checkpoint and a terminal status do, and workflow.json stays as it is (not
\* even last_activity_at moves).
MayRecord(p) ==
  /\ Idle(p)
  /\ minted < MaxIds
  /\ pendingChk = {} /\ wf.status \notin Terminal

\* event takes the lock for a note of the caller's.
NoteBegin(p) ==
  /\ MayRecord(p)
  /\ \E type \in Notes :
       Open(p, "note", "append", wf, [NoEvent EXCEPT !.type = type], Fresh)
  /\ minted' = Fresh
  /\ UNCHANGED <<files, call, held, now, crashes>>

\* Its only durable write.
NoteWrite ==
  /\ tx.cmd = "note" /\ tx.step = "append"
  /\ AppendEvent(tx.event)
  /\ Proceed(NoteOrder)
  /\ UNCHANGED <<call, held, bounds>>

\* append-round takes the lock for a round of progress.
RoundBegin(p) ==
  /\ MayRecord(p)
  /\ Open(p, "round", "append", wf, [NoEvent EXCEPT !.type = "progress"], Fresh)
  /\ minted' = Fresh
  /\ UNCHANGED <<files, call, held, now, crashes>>

\* One durable write of a round: its line in the log, then its block in the
\* worklog, which no marker announces.
RoundWrite ==
  /\ tx.cmd = "round"
  /\ \/ tx.step = "append" /\ AppendEvent(tx.event)
     \/ tx.step = "worklog" /\ AppendWorklog
  /\ Proceed(RoundOrder)
  /\ UNCHANGED <<call, held, bounds>>
=============================================================================
