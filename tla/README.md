# A TLA+ model of Converge

Converge (`src/converge/`) keeps long-running agent work on disk.  A *workflow* is a
directory; every command (`python -m converge ...`) is a short process that reads it,
changes it under a file lock and exits.  Sessions, operators and a watchdog run commands
concurrently, and any of them may die between two writes.  The promises worth checking
are those that hold across commands: no half-made checkpoint is taken for a whole one,
one recovering session at a time owns the cursor, and a finished workflow is reported to
its owner once.

## Inventory

| Part | State it keeps | Operations | What makes it correct |
|---|---|---|---|
| Store (`store.py`) | `workflow.json`, `events.jsonl`, `worklog.md`, `.pending-chk-*`, `.pending-recovery-*`, the lock file | lock, load, save, append, mark, clear | every crash leaves files that later commands classify correctly |
| Checkpoints (`checkpoint.py`, `continuation.py`) | status, cursor, next safe action, `checkpoint_index` | `checkpoint`, `advance`, `event`, `append-round` | index, log and worklog agree; the cursor moves by single steps; a block opens only on a decision |
| Recovery (`recovery.py`) | `active_recovery_lease` | `scan`, `watchdog-check`, `recover` | a lease is exclusive, spent once, never left on a finished workflow |
| Delivery (`cli.py`) | `active_delivery_reservation`, `visible_delivery_state` | `reserve-delivery`, `report-proof`, `complete-reported`, `validate` | one authorised send, one report, bound to its proof |
| Goal mode (`modes/goal.py`, `child_result.py`) | parent and child links, child records | `goal`, child start and collection | a child is created and collected once; parent and child do not both report |
| Verify mode (`modes/verify.py`, `verify_execution.py`) | `verify_state`; report, checks and findings artifacts | `verify`, with a packet or a native panel | a success rests on files and children that were really inspected; what is finished can be delivered |
| Conv mode (`modes/conv.py`, `conv_execution.py`) | `conv_state`; rounds, findings, result and report artifacts | `conv`, with a packet, a panel or a fix runner's result | every accepted fix of a success is in its file, once |
| Fix runner (`modes/fix_runner.py`) | the user's files, a result file | `fix-runner` | it applies all edits, or takes back those it made |
| Plan mode (`modes/plan.py`) | `plan_state`, one report | `plan` | a plan is written and registered before the workflow ends |
| Specialist panel (`modes/specialist_panel.py`) | none; packets in the mode state | collect, arbitrate, review | duplicates are merged, and what blocks or needs a fix is decided by the gravest |
| Evidence (`modes/evidence_contract.py`, `execution_truth.py`, `base.py`) | none | truth gate, terminal contract | no terminal success without evidence that work was done |
| Native agents (`agents/`) | none on disk; the session store and transcripts of the children | launch, collect, prove | an answer counts only if the child's transcript shows what it claims |
| Adapter (`command_adapter.py`, `route_parity.py`) | none | chat command to workflow | a repeated command does not start a second workflow |
| Watchdog (`scripts/`) | none | scan, wake | a stale workflow is looked at again |

Commands interact only through the files of a workflow: there are no messages between
them.  What is hard: the lock covers a command's writes but not its first reads; five
files change one after another; the clock is read before the lock; a lease, a
reservation and a staleness limit expire on different clocks; artifact files and the
user's own files are written outside any lock, and a native panel runs for minutes between
the load of a workflow and the report about it; and the visible channel and the child
sessions are outside the program.

## Modules

| Module | Models |
|---|---|
| `Store` | the files, the lock as one transaction `tx`, single durable writes, crashes, the clock |
| `Checkpoint` | `record_checkpoint` with its guards, the workflow it computes and its five writes; the notes of `event` and the rounds of `append-round` |
| `Recovery` | the classification of `scan` and `recover`, `recover`'s lease transaction; composes with `Checkpoint` |
| `Delivery` | `reserve-delivery`, `report-proof`, `complete-reported`, the validation they run, the channel |
| `ReportOnce` | what delivery promises, in four variables |
| `Workflow` | all of the above over one record, and the inductive invariant |
| `GoalChildren` | the `goal` command over a goal and its children: unlocked saves, crashes, retries, and the delivery of goal and children |
| `Panel` | pure rules: which answer of a child counts, what the collected findings decide, the truth gate, the terminal evidence contract |
| `VerifyMode` | `finalize_verify` by several processes, with the native panel, the blocked panel, recovery of a stalled one, edits of the target, and the audit by delivery |
| `ConvMode` | `finalize_conv` by several processes, the fix runner with its failures and crashes, result files handed in late, and the audit by delivery |
| `WorkflowProofs`, `ReportingProofs`, `ReportOnceProofs` | the theorems about `Workflow` |
| `RecoveryProofs` | the theorems about `Recovery`, and that they hold of all of `Workflow` |
| `DeliveryProofs` | the theorems about `Delivery` |
| `GoalProofs` | the theorems about `GoalChildren` |
| `VerifyProofs` | the theorems about `VerifyMode` |
| `ConvProofs` | the theorems about `ConvMode` |
| `MCRecovery`, `MCDelivery`, `MCWorkflow`, `MCGoal`, `MCVerify`, `MCConv` | values and symmetry sets for TLC |

How they are put together.  `Checkpoint`, `Recovery` and `Delivery` extend `Store` and share
its variables, so that a command of one can meet a torn write of another.  `Workflow` takes
the disjunction of their next-state relations over one record.  `GoalChildren` is about
several records and about the one command that saves without the lock; it keeps the lock, the
order of the writes and the guards of the others and abstracts what is inside a locked section.
`VerifyMode` and `ConvMode` extend `Panel` and are the commands that apply its rules.  In both a
checkpoint is one step, since `Checkpoint` takes its torn writes apart.  `VerifyMode` keeps
every load, file write, registration, event and checkpoint apart and models the recovery
lease; `ConvMode` is coarser, for what is hard there is the fix runner: an artifact is written
and registered in one step and leases are left out.

Variables and code, first the workflow modules: `wf` is `workflow.json`, `log` is
`events.jsonl`, `worklog` the ids in `worklog.md`, `pendingChk` and `pendingRec` the marker
files, `tx` the flock with the write its holder makes next, `call` what a process has read
before it takes the lock, `now` the clock, `owing`, `authorised` and `sent` the sessions that
were told `send_authorized`, how many were, and the messages on the channel.  In
`GoalChildren`, `file` and `log` are those files for each workflow, `planFile` is
`artifacts/goal-plan.md`, `cmd` the memory of a command (with `copy` the record it loaded), and
`delivery` how far the report of each workflow has come.

In the mode modules `wf` is `workflow.json` with the mode's state, `arts` its `artifacts` list
(what each file said when it was registered, which is what the hash stands for), `disk` the
artifact files, `events` the last event of each type that the audit looks for, `raws` the
registered blocked answers, `cmd` the memory of a command, `target` and `file` the user's
files, `session` the transcripts of the child sessions, `runner` the fix runner and `written`
the result files it left.  `hist` is history only: it bounds the behaviours and lets
properties say *calls did not overlap* or *nothing was edited*.

An action is one durable write, one read, or the guards of a locked section up to its first
write; the name of the function it models is in its comment and in the map.

## Runs

| Run | Bounds | What it shows |
|---|---|---|
| `recovery` | 2 processes, 4 ids, clock 0..2, leases of 1 and 2, 1 crash, one step left | torn checkpoints and torn recoveries are marked and seen by `scan`; beside a torn checkpoint nobody writes, beside a torn recovery only notes and rounds are still written and `workflow.json` stands still; leases are exclusive, spent once and fence late commits; the index is a chain; a block opens only on a newer decision |
| `delivery` | 2 processes, 2 reservation ids, 2 messages, clock 0..2, 2 crashes | one authorisation, one message; a report follows its proof and neither is replaced; `ReportOnce` is implemented |
| `delivery_calm` | the same with one reservation id, without crashes and expiry, fair | a finished workflow is reported in the end and passes `validate` |
| `workflow` | 2 processes, 3 ids, clock 0..2, 1 crash | the inductive invariant of the proofs; nothing late disturbs a finished workflow; delivery, too, leaves alone what a crash left half written; the whole implements `ReportOnce` |
| `goal` | 1 goal command at a time, 2 children, one may block and the other fail, 1 crash, fair | a finished goal can be delivered unless a child changed after its collection; links precede the event that announces them; where the owner approves by a decision, as in this run, one acceptance, of the plan on disk; the goal becomes reported only beside silent children; a goal so approved is finished after a crash anywhere, unless a marker freezes it, a child waits for its owner, or was reported early |
| `verify` | 2 processes, 2 calls, a panel of 3 about one file, 1 crash, 1 lease, 1 edit, each kind of request | a success that passes the audit rests on files as they were inspected, or on findings that ask for no fix by the code's arbitration and children that each read every file; finalizing again after a crash at any step ends deliverable; what is deliverable stays so, one call at a time; a held lease fences a late panel |
| `conv` | 2 processes, 3 calls, 1 run of the fix runner, 2 files with an edit each, 1 crash, 1 outside edit | every accepted fix a deliverable success still speaks of is in its file, once, and nothing else is (a plain call drops a pending fix, below; the second run of a fix runner is the theorem's); a retry after a crash ends deliverable; a runner that gives up takes back every edit but the file whose write failed |
| `crashed_proof`, `double_report`, `lost_update`, `blocked_retry`, `replayed_fix` | as small as shows it | one disagreement each, below |

Why the bounds are enough.  Two processes are enough for every race in the code: what
excludes a process is the lock or a flag, and a third process can only do what the second
does.  Four ids let a lease, two checkpoints and a late third one coexist.  The clock needs
one tick before, at and after an expiry.  One crash reaches every torn state, since a torn
state freezes the workflow until it is repaired; delivery, which has no marker, gets two, so
that the retry of a retry is covered.  Two children are all a goal has; their order is the
code's.  One goal command is the use the code intends (`lost_update` shows what two do), and
one crash with any number of retries covers every first missing step.  Two verify calls are a
first one that dies or is overtaken and its retry; the answers of the three children cover a
good one, one that needs a fix, a late one, a false claim, and a read nobody asked for.  Three
conv calls are one that asks for a fix, one that hands the result in, and one that overlaps
or repeats either; two files let the runner fail between them.  The theorems below
remove the bounds from every safety property of `recovery`, `delivery`, `workflow`, `goal`,
`verify` and `conv`; where one needs an assumption on the number of commands or crashes, a run
shows what happens without it.
`CHECK_DEADLOCK FALSE` stands in every run because a reported, finished or frozen workflow is
the end of it.

## Fairness

`DeliveryFairness`: a process that holds the lock and does not crash goes on writing
(WF); a command is tried again and again by the owner session, which the watchdog wakes
while the workflow is unreported, so a command that is possible infinitely often is run
(SF); an authorised session sends (WF).  `GoalFairness`: the owner approves in the end (SF,
`Approve` may be blocked by the lock), and the session the watchdog wakes runs the goal
command again whenever it is idle and goes on with it otherwise (WF).  No fairness is
assumed of crashes, of the clock, or of delivery of children.  Verify and conv mode have no
liveness property: each call ends by itself, and what would have to be promised of the
retries is the safety property `FinishedIsDeliverable`.

## What is proved

`WorkflowProofs`, `ReportingProofs` and `ReportOnceProofs` hold for any set of processes,
ids, messages and lease times, and any number of crashes and ticks, under
`StoreAssumption` and `CheckpointAssumption` (the null values are not values, the bounds are
numbers).

- `WorkflowTyped`: types, in particular of the record an open transaction is about to save.
- `ReportingAlwaysAgrees`: the inductive invariant `ReportingAgrees`.  *At most one send*
  is not inductive by itself: a process is told to send outside the lock, from what it wrote
  inside.  The invariant follows that permission: the last checkpoint of a finished workflow
  is the one that finished it (`EndsFinished`); what the holder of the lock may be about to
  write (`LockedSection`); a reservation is logged only where there is none, for that
  checkpoint (`FirstReservation`, `OnlyReservation`); no checkpoint, note or recovery is open
  beside it (`ReservedOnlyWhenFinished`); whoever is to be told was the one that logged it
  (`UnlockedReads`); it is used once (`OnePermission`).
- `AtMostOneSendHolds`, `ReservedOnlyWhenFinishedHolds`, `FinishedStaysFrozen`: consequences,
  the last one an action property.
- `WorkflowImplementsReportOnce`: with `ReportAgrees` (what the saved and the unsaved report
  may be), every step of the whole system is a step of the abstract `ReportOnce` or a stutter.

They, and the next two modules, take for granted that every save of `workflow.json` happens
under the lock.  That is true of every command except `goal` (and `GoalChildren` shows what
follows from that).

`RecoveryProofs` holds under the same assumptions, for `Recovery` alone and for the whole
`Workflow` (`WorkflowAlwaysRecoverable`, `WorkflowKeepsPromises`).  None
of the ten invariants of the run is inductive, because each compares files that one
transaction changes one after another.  `RecoveryAgrees` says how far it has come:

- which marker is there at which write, that it is alone, and that a note or a round is only
  open where no checkpoint is torn (`Markers`); that an id is drawn
  before it is written anywhere (`IdsAreDrawn`);
- which of log, worklog and index already have the open checkpoint (`IndexIsLogged`), and
  that what it will save is the present index and one entry (`IndexGrows`);
- that a decision which lets it leave a block was logged after the block (`BlocksAreDecided`);
- that `wf.lease` is the last lease event nobody closed (`LeasesAreBooked`), and what an open
  checkpoint or `recover` is about to do to it (`LeaseIsCited`, `LeaseIsReplaced`,
  `FinishedHasNoLease`).

From it follow `OneMarkerHolds`, `TornWritesAreMarkedHolds`, `IndexIsBackedHolds`,
`IndexIsAChainHolds`, `BlockedNeedsDecisionHolds`, `LeaseBooksBalanceHolds`,
`LeaseIsSpentOnceHolds`, `TerminalIsReleasedHolds`, `ScanSeesTornWritesHolds`, and the action
properties `LeaseIsExclusiveHolds`, `LeaseFencesCommitsHolds` and `TornMeansFrozenHolds`.

`DeliveryProofs` adds `DeliveryAgrees`: a proof in `workflow.json` has its line in the log after
its reservation (`FilesAgree`), the locked section that writes proof or report carries what the
files say (`ProofSection`, `ReportSection`), and the proof a process carries into its second
locked section is the one on record (`CallsAgree`).  From it follow `ReportIsProvedHolds`, `ProofIsFinalHolds` and
`ReportedIsFinal`.  `WorkflowKeepsFences` carries the three action properties of
`RecoveryProofs` over to the whole workflow, where delivery commands write to the record too;
`TornMeansFrozen` rests there on `ProofSection` and `ReportSection`, which say that delivery
never holds the lock beside a marker.  `AuditFailsByProofLinesOnly` says exactly what a crash can spoil: a reported
workflow passes the audit if and only if its log holds one proof event; `CalmReportIsAuditable`
and `ReportedIsAuditableHolds` that it does as long as nothing has crashed (finding 1 is what
happens otherwise).  `DeliveryImplementsReportOnce` is the refinement for delivery on its own,
which starts on a finished workflow (`FinishedAlwaysAgrees`).  `MaxIds > 0` in both says that
the finished workflow has its checkpoint.

`GoalProofs` holds for any roles of the children and any way they end, under
`GoalAssumption`.  `GoalTyped` is proved for any number of goal commands.  The others assume
`OneCommand`, one command at a time with any number of crashes and retries: `goal` saves
`workflow.json` without the lock, and `lost_update` shows that two commands break them.
`GoalAgrees` follows that command through its steps: which lock it holds (`LocksAgree`) and
that the record in its memory is the one on disk but for what a child's own commands may have
done since (`CopyAgrees`); which events and links of a child are there at which step
(`StageAgrees`, `ChildAgrees`, `LogAgrees`); that what was collected is what the child was, or
is older (`CollectionAgrees`, `CollectingAgrees`); that the registered plan is the one on disk and
the one the command will accept (`PlanIsOnDisk`, `PlanAgrees`); that there is one acceptance
(`AcceptanceAgrees`), and what a finished goal has (`FinishedAgrees`).  From it follow
`CreatedMeansLinkedHolds`, `ParentIsDeliverableHolds`, `ReportedBesideSilentChildrenHolds`, and
`AcceptanceIsBackedHolds`, which also assumes that the owner approves by a decision: an owner's
own `plan_accepted` event carries a hash that is the owner's to choose.

`VerifyProofs` holds for any number of finalizers, calls, crashes, leases and edits, any
files, any packets and any answers of the children, under `PanelAssumption` (three or five
children, as the code launches; asked-for and other files are disjoint) and
`VerifyAssumption` (the constants are of their types).

- `VerifyTyped`: types, and where a call may stand (`Place`): a file is there whenever its
  registration reads its hash.
- `StalledPanelStaysFenced`: a call that is past the launch of a native panel cites no lease
  (`Fenced`), and once any call cites one, a lease is held until the workflow is finished
  (`Guarded`); so the checkpoint refuses every outcome of the panel while a lease is there.
- `DeliverableStays`: *deliverable stays deliverable* is not inductive: a call that wrote a
  file long ago registers it now.  `Keep` says that, while calls do not overlap, only one
  process is under way (`OneAtATime`), that the report of a finished workflow is on disk and
  registered as it stands (`ReportIsThere`), and that a call that comes after the end can
  only stand where it adds nothing new (`OnlyLate`, `Late`).
- `VerdictStaysBacked`: `Backing` adds that what an admitted panel carries is proved by the
  transcripts, which only grow (`ChildrenAreProved`); that only a blocked call has a reason
  (`OnlyBlockedHasReason`); what a success was decided on (`SuccessIsBacked`); and that, while
  calls do not overlap, no inspection on disk is newer than the running call or the report,
  and neither is newer than the target (`VersionsAreOrdered`, `Newest`).
- `FinishedIsDeliverableHolds`: the audit compares what a call writes, registers, logs and
  checkpoints in steps of their own, each of which a crash or another call may follow.  `Story`
  says what is there as long as nothing disturbs it (`Quiet`, which no step
  brings back once it is lost): what is registered is on disk as it was registered, and the reports,
  findings and events of packets and plain calls say what any such call would say
  (`OneStory`); each call that is under way is of the one kind (`SameKind`), and finds at each
  of its stages the inspection, findings, events and report it takes for granted
  (`ChecksAreThere`, `FindingsAreThere`, `ReportIsReady`) and, of a native panel, nothing it did
  not write itself (`PanelIsFirst`); and what is finished is deliverable.  Calls may overlap
  when there is no file to inspect: a second one then writes what the first wrote, so that
  nothing registered or logged changes (`Grows`).

`ConvProofs` holds for any number of processes, calls, runs of the fix runner, crashes and
outside edits, any files, edits and packets, under `PanelAssumption` and `ConvAssumption`.

- `ConvTyped`: types; a file says of an edit that it was made at most as often as the runner
  ran (`Counted`).
- `SuccessIsInPlaceHolds` rests on `ConvFits`: what becomes of a fix is what the findings, their
  edits and the result allow, in a call that has judged them (`CallFits`) and in a finished
  workflow (`SuccessFits`).  What the audit recomputes of the result then puts every edit in
  its file.
- `RunnerLeavesNoPartHolds`: while the runner works, every file it means to rewrite is as it
  was or was rewritten by it; after a failed write one file at most is neither, and that one
  is torn (`RunnerAgrees`).  Each edit it takes back keeps that.
- `FinishedIsDeliverableHolds`: the audit compares artifacts, events, files and
  `workflow.json`, which a call writes one after another and a crash may leave anywhere between.
  `CalmAgrees` says what a retry finds, while calls do not overlap: one call or one run is under
  way (`OneAtATime`), of the one kind, with the one packet (`OneKind`); what is registered,
  logged and recorded so far is what that call would register, log and record (`OneStory`);
  what each step takes for granted is there (`Progress`: the reports it looked up, the
  rounds, the findings, the fix and its result); and what is finished is deliverable.

Only model-checked: `EventuallyReported` and `GoalFinishes`, since liveness under fairness is
out of the prover's reach.

## Findings

1. `crashed_proof` (`cli.py:1674`): after a crash between the proof event and the save, a retry
   with other keys adds a second proof event; the report it leads to fails `validate`.
2. `double_report` (`cli.py:1242`): `complete-reported` of a child reads the goal's guard in its
   first section only, so goal and child can both be reported; `validate` then refuses the goal.
3. `lost_update` (`modes/goal.py:646`): the unlocked save of the goal brings a finished goal
   back to life.
4. `blocked_retry` (`modes/verify.py:641`): a blocked panel registers its report under the id of
   the final one, so no retry of it ever ends, although the backlog item it leaves asks for one.
5. `replayed_fix` (`modes/fix_runner.py:141`): the fix runner writes the files and then its
   result and keeps no journal; after a crash in between, a fix whose new text still contains
   the old is applied twice.

2 and 3 were also seen by running the commands of the repository in that order.

Further behaviours the same models show, or that were read on the way, and that have no run
of their own.  Delivery, recovery and goals:

- once a reservation expires between proof and `complete-reported`, neither form of
  `complete-reported` is accepted unless the proof was a manual one (`cli.py:1541`, `1697`);
- an owner's own `plan_accepted` event resumes a goal no command can finish
  (`modes/goal.py:250`), and a child that was reported before its goal collected it stops the
  goal for good, with a `TypeError` (`modes/goal.py:980`);
- a lease that expired cannot be replaced until the workflow is stale (`recovery.py:618`),
  though nobody may checkpoint meanwhile;
- nobody can be authorised after an authorised sender stopped before it sent (`cli.py:864`);
- a child that ended can be delivered before its goal has ended, since its guard is only
  stored then (`cli.py:2533`), although `docs/converge/execution-parity-plan.md:636` says that
  such a child emits no visible message.

Verify mode and panels:

- the report may name another version of the target than was audited, when calls overlap or
  an edit is undone; nothing compares the two;
- a child that claims more than it was asked to read is accepted by the launcher and refused
  by the review, after the launch was recorded (`modes/specialist_panel.py:894`);
- the session key is the same in every launch, so earlier reads prove later claims, and one
  unexpected call fails every retry (`agents/openclaw_cli.py:577`);
- `recover` of a stalled native panel hands out a lease under which native finalization is
  always refused;
- arbitration takes the first of the gravest findings of a group and rejects the group if that
  one is unconfident (`modes/specialist_panel.py:1315`), so a panel that raised a P1 ends as a
  success, in the run `verify` too, while `docs/converge/mvp-spec.md:130` counts every P0 and P1
  issue as needing a fix and says nothing of confidence.  `VerdictIsBacked` takes the code's
  arbitration for its rule and does not speak against these successes;
- a slower finalizer overwrites a file another one registered, a panel launched again after
  its findings were registered, and a target edited between inspection and rerun, all end in
  a workflow that is finished and can never be delivered.  `DeliverableIsKept` and
  `FinishedIsDeliverable` exclude these cases in their antecedents.

Conv mode and the fix runner:

- calling `conv` without the packet while a fix is pending drops the fix, and the workflow
  can end as a deliverable success (`modes/conv.py:1145`); no document or test calls conv that
  way (`tests/smoke/converge_conv_mode_smoke.py:899` speaks of the workflow that waits for the
  fix result, not of a plain call in between);
- the file whose write failed half way is not restored with the others;
- an edit of a fragment can be applied, but its result is never accepted, because the
  mutation proof hashes whole texts; two edits of one file are both computed from the
  original and the first is lost;
- after a crash in the middle of a fix that replaces a text, the rerun is refused.

## Abstractions

- A reservation's key is the pair (id, route); message text, summaries, evidence and next
  actions are left out, and so is the phase, which follows the status.  A `checkpoint` event
  stands for `checkpoint`, `advance`, `complete` and `fail`.
- Ids are numbers handed out in order; random ids of the code do not collide.
- Guards that only reject malformed arguments (evidence shape, `final_status`, context
  manifests) are left out: a command they reject changes nothing.  In `Workflow` whether a
  finished workflow has what delivery asks for is the flag `snapshot`; `VerifyMode` and
  `ConvMode` spell it out as `Deliverable`.
- A round of `append-round` is its line in the log and then its block in `worklog.md`, both
  under one id.  A crash in between leaves the line alone and no marker: nothing reads the
  block back, and a retry adds a round of its own.
- `create_workflow` is one step.  `flock` excludes, and dies with its process.
- `gated` stands for pending approvals and duplicate side effects.  No command writes an
  approval.
- `complete-reported` is its proof section and its own section; on a reported workflow it
  changes nothing.
- Statuses `draft` and `abandoned` are never reached by a command.
- In `GoalChildren`: a checkpoint is its marker and then its other four writes; a child's own
  finalisation is its last checkpoint; a section of a delivery command is one step; the plan
  is its rendering, which says *completed* or *blocked* of each child; the owner approves once;
  the goal always asks for execution.
- In `Panel`: a transcript is a set of classified tool calls; a finding is its failure mode,
  severity and whether it is confident; which findings are duplicates is their failure mode.
- In the mode modules a file's content is what tells two of them apart: the version of the
  target an inspection saw, the review a findings file holds, the verdict a report states, and
  for the user's files in `ConvMode` which edits were made and how often.
- A request asks for a plan only, names files, or has only words; which one, and whether the
  text asks for execution, is an input.

## Not modelled

- Plan mode: one process writes a report, registers it and records a terminal checkpoint, the
  steps of the plain path of `VerifyMode` without evidence, panel or audit of its own.
- The command adapter and route parity (`command_adapter.py`): text in, a workflow out.
- The watchdog's own loop, and `recovery_wake_delivered`.
- The matching and consumption of approvals and the side-effect ledger; no command writes an
  approval.
- Plan-only and scaffold goals, and the lease of a resumed goal.
- The JSON schema interpreter, the shape of profile registry entries and packets, target
  references, the shell grammar that classifies a child's calls, message text, argument
  parsing: pure functions over text without protocol state.
- The in-memory agent backend of `agents/contracts.py`, which only tests use.
- The global `events.jsonl` mirror (nothing reads it back), unreadable files, changed context
  manifests.

Four hazards have no property.  That nobody can send after an authorised sender died
(`cli.py:864`) is a choice of the code: no command withdraws a reservation, and nothing live can
be stated.  That a pending fix can be dropped (`modes/conv.py:1145`) is a step of `ConvMode`, but
the code states no rule it would break.  A child that claims more than it was asked for
(`modes/specialist_panel.py:894`) is a step of `VerifyMode` that leaves the workflow running, of
which no safety property speaks.  A terminal checkpoint without its mode's state
(`checkpoint.py:354`) is refused by a guard that no modelled command runs into, since each mode
hands its state over; a workflow finished without what delivery asks for is only the flag
`snapshot` in `Workflow`.

## Plan

Done, in this order: `Store`, `Checkpoint`, `Recovery`, `Delivery`, `ReportOnce`, `Workflow`
with its proofs, `GoalChildren`, `Panel`, `VerifyMode` with its proofs, `ConvMode`, the proofs
about recovery, delivery, goals and conv mode.  Left, in order of importance:

1. The command adapter's idempotent start and the watchdog loop over several workflows.
2. Approvals and the side-effect ledger of recovery, once a command writes them.
