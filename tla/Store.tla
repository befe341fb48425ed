-------------------------------- MODULE Store --------------------------------
(***************************************************************************)
(* The durable record of one workflow (converge/store.py): workflow.json,  *)
(* events.jsonl, worklog.md and the .pending-* markers, the per-workflow   *)
(* flock, and the single writes a command makes while it holds the lock.   *)
(*                                                                         *)
(* A command is a process of its own.  Reads it makes before it takes the  *)
(* lock are kept in call[p].  Its locked section is a transaction tx: the  *)
(* guards are read and the new workflow is computed in memory when it      *)
(* opens, then every durable write is a separate step, in the order the    *)
(* command makes them, and a crash may fall between any two.  The flock is *)
(* exclusive and the kernel drops it when its holder dies, so there is at  *)
(* most one transaction and a crash closes it.  An exception raised by a   *)
(* write (disk full, schema error) has the same effect as a crash.         *)
(*                                                                         *)
(* Ids (uuid4 in the code) are numbers drawn from minted; time is counted  *)
(* in coarse units.  A reservation key stands for the pair of reservation  *)
(* id and visible route, which the code always compares together.          *)
(***************************************************************************)
EXTENDS Integers, Sequences, FiniteSets

CONSTANTS
  Proc,            \* command processes: sessions, watchdog wakes, operators
  Nobody,          \* holder of a free lock or lease
  Reservation,     \* reservation id and route pairs callers may ask for
  Message,         \* delivery message ids callers may cite
  None,            \* absent reservation or message
  LastStep,        \* index of the last continuation step (0: conv, plan, verify; 2: goal)
  StaleAfter,      \* stale_after_seconds
  ReminderAfter,   \* reminder_after_seconds
  LeaseSeconds,    \* lease lengths callers ask for
  MaxIds,          \* bound on the ids drawn in a behaviour
  MaxNow,          \* bound on the clock
  MaxCrashes       \* bound on the crashes of a behaviour

ASSUME StoreAssumption ==
  /\ Nobody \notin Proc
  /\ None \notin Reservation \cup Message
  /\ LastStep \in Nat /\ StaleAfter \in Nat /\ ReminderAfter \in Nat
  /\ LeaseSeconds \subseteq Nat \ {0}
  /\ MaxIds \in Nat /\ MaxNow \in Nat /\ MaxCrashes \in Nat

VARIABLES
  wf,          \* workflow.json
  events,      \* events.jsonl, in order
  worklog,     \* ids of the checkpoints and rounds whose block is in worklog.md
  pendingChk,  \* .pending-chk-*.json markers
  pendingRec,  \* .pending-recovery-*.json markers
  tx,          \* the locked section in progress
  call,        \* per process: what a command has read or will print outside the lock
  held,        \* per process: the last recovery lease recover returned to it
  now, minted, crashes

files     == <<wf, events, worklog, pendingChk, pendingRec>>
bounds    == <<now, minted, crashes>>
storeVars == <<wf, events, worklog, pendingChk, pendingRec, tx, call, held, now, minted, crashes>>

-----------------------------------------------------------------------------
Unreported == {"completed_unreported", "failed_unreported"}
Terminal   == Unreported \cup {"reported"}
Waiting    == {"waiting_user", "waiting_subagent", "verifying"}
Active     == {"running", "waiting_subagent", "verifying", "blocked"}
Status     == Active \cup {"waiting_user"} \cup Terminal

NoId == 0
Id   == 0 .. MaxIds

Cursor == 0 .. LastStep

NoLease    == [id |-> NoId, cursor |-> 0, holder |-> Nobody, expires |-> 0]
Lease      == [id : Id \ {NoId}, cursor : Cursor, holder : Proc, expires : Nat] \cup {NoLease}
NoDelivery == [rsv |-> None, chk |-> NoId, expires |-> 0]
Delivery   == [rsv : Reservation, chk : Id, expires : Nat] \cup {NoDelivery}
Claim      == [rsv : Reservation, msg : Message, manual : BOOLEAN]
NoProof    == [rsv |-> None, msg |-> None, manual |-> FALSE]
Proof      == Claim \cup {NoProof}
NoReport   == [rsv |-> None, msg |-> None]
Report     == [rsv : Reservation, msg : Message] \cup {NoReport}

\* One entry of checkpoint_index; its position is checkpoint_seq.
Entry == [id : Id \ {NoId}, status : Status, before : Cursor, after : Cursor]

\* workflow.json.  gated: the next safe action may not be resumed by recover
\* without an approval (approval required, risky class, or side effect already
\* performed).  snapshot: the terminal checkpoint carried the mode state and
\* the evidence that delivery validates later.
Record ==
  [status : Status, cursor : Cursor, gated : BOOLEAN, snapshot : BOOLEAN,
   index : Seq(Entry), lease : Lease, reservation : Delivery,
   proof : Proof, reported : Report, lastActivity : Nat]

EventType ==
  {"none", "checkpoint", "owner_decision", "progress",
   "recovery_lease_acquired", "lease_released",
   "delivery_reserved", "report_proof", "report_sent"}

\* One line of events.jsonl.  "checkpoint" stands for the four checkpoint-owned
\* types, "owner_decision" for every note that unblocks a blocked workflow (a
\* rescope, an owner_decision in the workflow's scope), "progress" for the rest.
Event ==
  [type : EventType, chk : Id, lease : Id, rsv : Reservation \cup {None},
   msg : Message \cup {None}, manual : BOOLEAN]
NoEvent ==
  [type |-> "none", chk |-> NoId, lease |-> NoId, rsv |-> None, msg |-> None,
   manual |-> FALSE]

EventsOf(type) == {i \in DOMAIN events : events[i].type = type}

\* A workflow just created by create_workflow.
NewWorkflow ==
  [status |-> "running", cursor |-> 0, gated |-> FALSE, snapshot |-> FALSE,
   index |-> << >>, lease |-> NoLease, reservation |-> NoDelivery,
   proof |-> NoProof, reported |-> NoReport, lastActivity |-> 0]

Command ==
  {"none", "checkpoint", "recover", "note", "round", "reserve", "proof", "complete"}
Step    == {"idle", "release", "mark", "append", "worklog", "save", "clear"}
Tx   == [by : Proc \cup {Nobody}, cmd : Command, step : Step, wf : Record,
         event : Event, id : Id]
NoTx == [by |-> Nobody, cmd |-> "none", step |-> "idle", wf |-> NewWorkflow,
         event |-> NoEvent, id |-> NoId]

Stage == {"idle", "checkpoint", "recover", "leased", "reserve", "authorised", "proved"}
Call  == [stage : Stage, at : Nat, cursor : Cursor, id : Id, proof : Proof]
NoCall == [stage |-> "idle", at |-> 0, cursor |-> 0, id |-> NoId, proof |-> NoProof]

-----------------------------------------------------------------------------
\* The record as create_workflow leaves it, nobody running a command.
StoreInit ==
  /\ wf = NewWorkflow
  /\ events = << >> /\ worklog = {} /\ pendingChk = {} /\ pendingRec = {}
  /\ tx = NoTx
  /\ call = [p \in Proc |-> NoCall]
  /\ held = [p \in Proc |-> NoId]
  /\ now = 0 /\ minted = 0 /\ crashes = 0

Free    == tx.step = "idle"
Idle(p) == call[p].stage = "idle" /\ tx.by # p
Fresh   == minted + 1

Expired(lease, t) == lease.expires <= t

\* Take the lock with every guard passed; copy is the workflow to be saved.
Open(p, cmd, step, copy, event, id) ==
  /\ Free
  /\ tx' = [by |-> p, cmd |-> cmd, step |-> step, wf |-> copy, event |-> event, id |-> id]

\* The write at tx.step is done: go to the next one, or release the lock.
Proceed(order) ==
  tx' = IF order[tx.step] = "idle" THEN NoTx ELSE [tx EXCEPT !.step = order[tx.step]]

WritePendingCheckpoint ==
  /\ pendingChk' = pendingChk \cup {tx.id}
  /\ UNCHANGED <<wf, events, worklog, pendingRec>>
WritePendingRecovery ==
  /\ pendingRec' = pendingRec \cup {tx.id}
  /\ UNCHANGED <<wf, events, worklog, pendingChk>>
AppendEvent(event) ==
  /\ events' = Append(events, event)
  /\ UNCHANGED <<wf, worklog, pendingChk, pendingRec>>
AppendWorklog ==
  /\ worklog' = worklog \cup {tx.id}
  /\ UNCHANGED <<wf, events, pendingChk, pendingRec>>
SaveWorkflow ==
  /\ wf' = [tx.wf EXCEPT !.lastActivity = now]
  /\ UNCHANGED <<events, worklog, pendingChk, pendingRec>>
ClearPendingCheckpoint ==
  /\ pendingChk' = pendingChk \ {tx.id}
  /\ UNCHANGED <<wf, events, worklog, pendingRec>>
ClearPendingRecovery ==
  /\ pendingRec' = pendingRec \ {tx.id}
  /\ UNCHANGED <<wf, events, worklog, pendingChk>>

\* The command holding the lock dies, or one of its writes raises.
Crash ==
  /\ ~Free /\ crashes < MaxCrashes
  /\ crashes' = crashes + 1
  /\ tx' = NoTx
  /\ call' = [call EXCEPT ![tx.by] = NoCall]
  /\ UNCHANGED <<files, held, now, minted>>

\* A command that read something ends without writing: a guard refused it, or
\* it died before it had the lock.  (One that dies before it printed its answer
\* is one that never takes its reply step.)
Leave(p) ==
  /\ call[p].stage \in {"checkpoint", "recover", "reserve", "proved"}
  /\ call' = [call EXCEPT ![p] = NoCall]
  /\ UNCHANGED <<files, tx, held, bounds>>

Tick ==
  /\ now < MaxNow
  /\ now' = now + 1
  /\ UNCHANGED <<files, tx, call, held, minted, crashes>>

\* Types of the durable record, the transaction and the callers.
StoreTypeOK ==
  /\ wf \in Record
  /\ events \in Seq(Event)
  /\ worklog \in SUBSET Id /\ pendingChk \in SUBSET Id /\ pendingRec \in SUBSET Id
  /\ tx \in Tx
  /\ call \in [Proc -> Call]
  /\ held \in [Proc -> Id]
  /\ now \in Nat /\ minted \in Id /\ crashes \in Nat
=============================================================================
