---------------------------- MODULE GoalChildren -----------------------------
(***************************************************************************)
(* A goal and its required children (converge/modes/goal.py, and what      *)
(* cli.py checks of them).  A goal command drafts a plan and waits for the *)
(* owner, then creates, links, finishes and collects one child workflow    *)
(* per role, registers the plan, logs its acceptance and finishes the      *)
(* goal.  It may die anywhere and be run again, while sessions report the  *)
(* goal and the children.                                                  *)
(*                                                                         *)
(* Unlike every other command it saves workflow.json without the lock      *)
(* (goal.py:632 and 646): load and save are separate steps, and the copy   *)
(* that is saved may be stale.  A locked section is a step that takes the  *)
(* lock and one that saves and releases it; the order of the writes in     *)
(* between, and the delivery commands, are those of Checkpoint and         *)
(* Delivery.  A marker a crash left freezes its workflow.                  *)
(***************************************************************************)
EXTENDS Integers, Sequences, SequencesExt

CONSTANTS
  Proc,        \* processes that run the goal command
  Nobody,      \* holder of a free lock
  Roles,       \* child roles, in the order they are run: <<"verify", "conv">>
  Ends,        \* Ends[r]: how the finalisation of child r may leave it
  Approvals,   \* how the owner may approve the draft
  MaxCrashes   \* bound on the crashes of a behaviour

Role     == ToSet(Roles)
Workflow == {"goal"} \cup Role

Unreported == {"completed_unreported", "failed_unreported"}
Terminal   == Unreported \cup {"reported"}
Collectable == Terminal \cup {"blocked"}
Status == {"absent", "running", "waiting_user"} \cup Collectable

ASSUME GoalAssumption ==
  /\ Nobody \notin Proc
  /\ "goal" \notin Role /\ Roles \in Seq(Role) \ {<< >>}
  /\ Ends \in [Role -> (SUBSET (Unreported \cup {"blocked"})) \ {{}}]
  /\ Approvals \subseteq {"owner_decision", "plan_accepted"}
  /\ MaxCrashes \in Nat

VARIABLES
  file,      \* workflow.json of the goal and of each child
  log,       \* the events of each workflow these checks look at
  planFile,  \* what artifacts/goal-plan.md says of each child
  pending,   \* workflows with a .pending-chk-* marker
  lock,      \* holder of each workflow's flock
  cmd,       \* each process's goal command
  delivery,  \* how far the visible report of each workflow has come
  crashes

goalVars == <<file, log, planFile, pending, lock, cmd, delivery, crashes>>

-----------------------------------------------------------------------------
\* A plan renders one word for each child; its hash is the plan itself.
\* OwnerPlan is the hash an owner puts in a plan_accepted event of his own.
Plan      == [Role -> {"completed", "blocked"}]
NoPlan    == [r \in Role |-> "none"]
OwnerPlan == [r \in Role |-> "owner"]

\* child_workflow_refs: status, result and report proof of each child when it was
\* collected.
Result == {"none", "pass", "blocked"}
NoRef  == [status |-> "absent", result |-> "none", proof |-> FALSE]
Ref    == [status : Status, result : Result, proof : BOOLEAN]
NoRefs == [r \in Role |-> NoRef]

\* workflow.json.  proof: has a report proof; linked: parent_workflow_id; kids:
\* child_workflow_ids; plan: hash of the registered plan artifact; refs and
\* accepted: goal_state.
File == [status : Status, result : Result, proof : BOOLEAN, linked : BOOLEAN,
         kids : SUBSET Role, draft : BOOLEAN, plan : Plan \cup {NoPlan},
         refs : [Role -> Ref], accepted : Plan \cup {NoPlan}]
NoFile == [status |-> "absent", result |-> "none", proof |-> FALSE,
           linked |-> FALSE, kids |-> {}, draft |-> FALSE, plan |-> NoPlan, refs |-> NoRefs, accepted |-> NoPlan]
Created == [NoFile EXCEPT !.status = "running"]

Event == [type : {"owner_decision", "plan_accepted", "artifact", "terminal",
                  "child_creation_intent", "parent_linked",
                  "child_workflow_created", "child_workflow_collected"},
          role : Role \cup {"goal"}, ref : Ref, plan : Plan \cup {NoPlan, OwnerPlan}]
Note(type)        == [type |-> type, role |-> "goal", ref |-> NoRef, plan |-> NoPlan]
ChildNote(type, r) == [Note(type) EXCEPT !.role = r]
Collected(r, ref) ==   \* says nothing of a proof
  [ChildNote("child_workflow_collected", r) EXCEPT !.ref = [ref EXCEPT !.proof = FALSE]]
Acceptance(plan)  == [Note("plan_accepted") EXCEPT !.plan = plan]

Logged(w, type) == {i \in DOMAIN log[w] : log[w][i].type = type}
LoggedFor(type, r) == {i \in Logged("goal", type) : log["goal"][i].role = r}

\* _existing_plan_accepted_payload
AcceptedPlan ==
  IF Logged("goal", "plan_accepted") = {} THEN NoPlan
  ELSE log["goal"][CHOOSE i \in Logged("goal", "plan_accepted") : TRUE].plan

Step == {"idle", "draft", "draftSave", "wait", "waitSave", "resume", "resumeSave",
         "intent", "create", "link", "linked", "adopt", "adoptSave", "created",
         "finish", "finishSave", "collect", "collected", "plan", "register",
         "registerSave", "accept", "terminal", "terminalSave"}

\* A goal command: next step, current child, the record in memory, what it has
\* collected, the acceptance and the plan artifact it found when it started.
Cmd == [step : Step, k : 1 .. Len(Roles), copy : File, refs : [Role -> Ref],
        accepted : Plan \cup {NoPlan, OwnerPlan}, plan : Plan \cup {NoPlan}]
NoCmd == [step |-> "idle", k |-> 1, copy |-> NoFile, refs |-> NoRefs,
          accepted |-> NoPlan, plan |-> NoPlan]

\* Draft or no draft, the goal exists and no command runs.
GoalInit ==
  /\ file = [w \in Workflow |-> IF w = "goal" THEN Created ELSE NoFile]
  /\ log = [w \in Workflow |-> << >>]
  /\ planFile = NoPlan
  /\ pending = {}
  /\ lock = [w \in Workflow |-> Nobody]
  /\ cmd = [p \in Proc |-> NoCmd]
  /\ delivery = [w \in Workflow |-> "none"]
  /\ crashes = 0

-----------------------------------------------------------------------------
At(p, step) == cmd[p].step = step
Child(p)    == Roles[cmd[p].k]
Free(w)     == lock[w] = Nobody

Go(p, step) == cmd' = [cmd EXCEPT ![p].step = step]
Load(p, w, step) == cmd' = [cmd EXCEPT ![p].step = step, ![p].copy = file[w]]
\* The command raises, or is done.
Quit(p) == cmd' = [cmd EXCEPT ![p] = NoCmd]

\* Take the lock of w with the record to be saved in memory.
Enter(p, w, copy, step) ==
  /\ lock' = [lock EXCEPT ![w] = p]
  /\ cmd' = [cmd EXCEPT ![p].step = step, ![p].copy = copy]
SaveAndRelease(p, w) ==
  /\ file' = [file EXCEPT ![w] = cmd[p].copy]
  /\ lock' = [lock EXCEPT ![w] = Nobody]

Log(w, event) == log' = [log EXCEPT ![w] = Append(@, event)]

\* _append_idempotent_event: an event with this id is not logged again.  Its id
\* is looked up before the lock is taken; a command that lost the race raises.
LogOnce(p, w, event, then) ==
  /\ Free(w)
  /\ \/ /\ event \notin ToSet(log[w])
        /\ Log(w, event) /\ then
     \/ /\ event \in ToSet(log[w])
        /\ then \/ ((\E q \in Proc \ {p} : ~At(q, "idle")) /\ Quit(p))
        /\ UNCHANGED log

\* The locked section of record_checkpoint on w: guards and marker, then the
\* event, the save and the removal of the marker.
CheckpointMay(w, status) ==
  /\ w \notin pending
  /\ file[w].status \notin Terminal
  /\ file[w].status = "waiting_user" =>
       status \in {"waiting_user", "running", "failed_unreported"}
CheckpointBegin(p, w, copy, step) ==
  /\ Free(w)
  /\ \/ /\ CheckpointMay(w, copy.status)
        /\ Enter(p, w, copy, step)
        /\ pending' = pending \cup {w}
     \/ /\ ~CheckpointMay(w, copy.status)
        /\ Quit(p) /\ UNCHANGED <<lock, pending>>
  /\ UNCHANGED <<file, log, planFile, delivery, crashes>>
CheckpointEnd(p, w) ==
  /\ SaveAndRelease(p, w)
  /\ pending' = pending \ {w}
  /\ IF cmd[p].copy.status \in Terminal THEN Log(w, Note("terminal")) ELSE UNCHANGED log
  /\ UNCHANGED <<planFile, delivery, crashes>>

-----------------------------------------------------------------------------
\* The owner approves the draft: event --type owner_decision or plan_accepted.
\* (Once of each: the code refuses a goal with two.)
Approve ==
  /\ Free("goal")
  /\ file["goal"].status \notin Terminal /\ "goal" \notin pending
  /\ \E type \in Approvals :
       /\ Logged("goal", type) = {}
       /\ Log("goal", IF type = "plan_accepted" THEN Acceptance(OwnerPlan) ELSE Note(type))
  /\ UNCHANGED <<file, planFile, pending, lock, cmd, delivery, crashes>>

\* cmd_goal on an existing workflow, and the reads finalize_goal starts with.
GoalStart(p) ==
  LET approved == AcceptedPlan # NoPlan \/ Logged("goal", "owner_decision") # {}
  IN /\ At(p, "idle")
     /\ file["goal"].status \notin {"completed_unreported", "reported"}
     /\ cmd' = [cmd EXCEPT ![p] =
          [NoCmd EXCEPT
             !.step = IF ~approved THEN "draft"
                      ELSE IF AcceptedPlan # NoPlan /\ file["goal"].status = "waiting_user"
                      THEN "resume" ELSE "intent",
             !.accepted = AcceptedPlan, !.plan = file["goal"].plan]]
     /\ UNCHANGED <<file, log, planFile, pending, lock, delivery, crashes>>

\* prepare_goal_draft: register the draft unless it is, then wait for the owner.
\* Registering is a locked section without a marker: event, then save.
DraftRegister(p) ==
  /\ \/ /\ At(p, "draft") /\ file["goal"].draft
        /\ Go(p, "wait") /\ UNCHANGED <<file, log, lock>>
     \/ /\ At(p, "draft") /\ ~file["goal"].draft /\ Free("goal")
        /\ IF file["goal"].status \notin Terminal /\ "goal" \notin pending
           THEN /\ Enter(p, "goal", [file["goal"] EXCEPT !.draft = TRUE], "draftSave")
                /\ Log("goal", Note("artifact"))
           ELSE Quit(p) /\ UNCHANGED <<log, lock>>
        /\ UNCHANGED file
     \/ /\ At(p, "draftSave")
        /\ SaveAndRelease(p, "goal") /\ Go(p, "wait") /\ UNCHANGED log
  /\ UNCHANGED <<planFile, pending, delivery, crashes>>

DraftWait(p) ==
  \/ /\ At(p, "wait")
     /\ CheckpointBegin(p, "goal", [file["goal"] EXCEPT !.status = "waiting_user"], "waitSave")
  \/ /\ At(p, "waitSave")
     /\ CheckpointEnd(p, "goal") /\ Quit(p)

\* finalize_goal of a goal whose acceptance is logged and that still waits.
GoalResume(p) ==
  \/ /\ At(p, "resume")
     /\ CheckpointBegin(p, "goal", [file["goal"] EXCEPT !.status = "running"], "resumeSave")
  \/ /\ At(p, "resumeSave")
     /\ CheckpointEnd(p, "goal")
     /\ cmd' = [cmd EXCEPT ![p].step = "intent", ![p].plan = cmd[p].copy.plan]

-----------------------------------------------------------------------------
\* _create_or_link_child.
ChildIntent(p) ==
  /\ At(p, "intent")
  /\ LogOnce(p, "goal", ChildNote("child_creation_intent", Child(p)), Go(p, "create"))
  /\ UNCHANGED <<file, planFile, pending, lock, delivery, crashes>>

\* create_workflow, or load_workflow when the child exists: either way the
\* record stays in memory until it is saved.
ChildCreate(p) ==
  LET c == Child(p)
      found == IF file[c].status = "absent" THEN Created ELSE file[c]
  IN /\ At(p, "create") /\ Free(c)
     /\ file' = [file EXCEPT ![c] = found]
     /\ cmd' = [cmd EXCEPT ![p].step = IF found.linked THEN "linked" ELSE "link",
                           ![p].copy = found]
     /\ UNCHANGED <<log, planFile, pending, lock, delivery, crashes>>

\* Faulty: the link is set in memory and never saved.
ChildLinkForgotten(p) ==
  /\ At(p, "link")
  /\ Go(p, "linked")
  /\ UNCHANGED <<file, log, planFile, pending, lock, delivery, crashes>>

\* save_workflow(child), without the lock.
ChildLink(p) ==
  /\ At(p, "link")
  /\ file' = [file EXCEPT ![Child(p)] = [cmd[p].copy EXCEPT !.linked = TRUE]]
  /\ Go(p, "linked")
  /\ UNCHANGED <<log, planFile, pending, lock, delivery, crashes>>

ChildLinked(p) ==
  /\ At(p, "linked")
  /\ LogOnce(p, Child(p), ChildNote("parent_linked", Child(p)), Go(p, "adopt"))
  /\ UNCHANGED <<file, planFile, pending, lock, delivery, crashes>>

\* load_workflow(parent), without the lock.
GoalAdoptLoad(p) ==
  /\ At(p, "adopt")
  /\ Load(p, "goal", IF Child(p) \in file["goal"].kids THEN "created" ELSE "adoptSave")
  /\ UNCHANGED <<file, log, planFile, pending, lock, delivery, crashes>>

\* save_workflow(parent), without the lock.
GoalAdoptSave(p) ==
  /\ At(p, "adoptSave")
  /\ file' = [file EXCEPT !["goal"] = [cmd[p].copy EXCEPT !.kids = @ \cup {Child(p)}]]
  /\ Go(p, "created")
  /\ UNCHANGED <<log, planFile, pending, lock, delivery, crashes>>

ChildCreated(p) ==
  /\ At(p, "created")
  /\ LogOnce(p, "goal", ChildNote("child_workflow_created", Child(p)),
             Load(p, Child(p), "finish"))
  /\ UNCHANGED <<file, planFile, pending, lock, delivery, crashes>>

\* A running child is finished in the same command (finalize_verify,
\* finalize_conv): its last checkpoint ends it one way or another.
ChildFinish(p) ==
  \/ /\ At(p, "finish") /\ cmd[p].copy.status # "running"
     /\ Go(p, "collect")
     /\ UNCHANGED <<file, log, planFile, pending, lock, delivery, crashes>>
  \/ /\ At(p, "finish") /\ cmd[p].copy.status = "running"
     /\ \E end \in Ends[Child(p)] :
          CheckpointBegin(p, Child(p),
            [file[Child(p)] EXCEPT !.status = end,
               !.result = IF end = "completed_unreported" THEN "pass" ELSE "blocked"],
            "finishSave")
  \/ /\ At(p, "finishSave")
     /\ CheckpointEnd(p, Child(p)) /\ Go(p, "collect")

\* The child is loaded once more; only an ended child is collected.
ChildCollectLoad(p) ==
  /\ At(p, "collect")
  /\ IF file[Child(p)].status \in Collectable THEN Load(p, Child(p), "collected") ELSE Quit(p)
  /\ UNCHANGED <<file, log, planFile, pending, lock, delivery, crashes>>

\* _record_child_collected and _child_ref_from_workflow.
ChildCollected(p) ==
  LET child == cmd[p].copy
      ref == [status |-> child.status, result |-> child.result, proof |-> child.proof]
  IN /\ At(p, "collected")
     /\ LogOnce(p, "goal", Collected(Child(p), ref),
          cmd' = [cmd EXCEPT ![p].refs[Child(p)] = ref,
                    ![p].step = IF cmd[p].k < Len(Roles) THEN "intent" ELSE "plan",
                    ![p].k = IF @ < Len(Roles) THEN @ + 1 ELSE @])
     /\ UNCHANGED <<file, planFile, pending, lock, delivery, crashes>>

-----------------------------------------------------------------------------
\* Faulty: the plan says the status a child ended with.
OutcomeUnmapped(ref) == ref.status

Outcome(ref) ==
  IF ref.status \in {"completed_unreported", "reported"} /\ ref.result = "pass"
  THEN "completed" ELSE "blocked"

\* render_goal_plan
Rendered(refs) == [r \in Role |-> Outcome(refs[r])]

\* Faulty: a registered plan is reused without reading the file again.
PlanReused(p) ==
  LET plan == Rendered(cmd[p].refs)
  IN /\ At(p, "plan")
     /\ \/ /\ cmd[p].plan # NoPlan
           /\ Go(p, "accept") /\ UNCHANGED planFile
        \/ /\ cmd[p].plan = NoPlan
           /\ planFile' = plan /\ Go(p, "register")
     /\ UNCHANGED <<file, log, pending, lock, delivery, crashes>>

\* Faulty: a registered plan is not looked for.
PlanWriteAnew(p) ==
  /\ At(p, "plan")
  /\ planFile' = Rendered(cmd[p].refs) /\ Go(p, "register")
  /\ UNCHANGED <<file, log, pending, lock, delivery, crashes>>

\* _existing_goal_artifact: reuse a registered plan only if the file still says
\* what would be rendered; else write the file, without the lock.
PlanWrite(p) ==
  LET plan == Rendered(cmd[p].refs)
  IN /\ At(p, "plan")
     /\ \/ /\ cmd[p].plan # NoPlan /\ planFile = plan
           /\ Go(p, "accept") /\ UNCHANGED planFile
        \/ /\ cmd[p].plan # NoPlan /\ planFile # plan
           /\ Quit(p) /\ UNCHANGED planFile
        \/ /\ cmd[p].plan = NoPlan /\ cmd[p].accepted # NoPlan
           /\ Quit(p) /\ UNCHANGED planFile
        \/ /\ cmd[p].plan = NoPlan /\ cmd[p].accepted = NoPlan
           /\ planFile' = plan /\ Go(p, "register")
     /\ UNCHANGED <<file, log, pending, lock, delivery, crashes>>

\* record_workflow_artifact: the event, then the save, under the lock and
\* without a marker.
PlanRegister(p) ==
  /\ \/ /\ At(p, "register") /\ Free("goal")
        /\ IF file["goal"].status \notin Terminal /\ "goal" \notin pending
                /\ file["goal"].plan = NoPlan
           THEN /\ Enter(p, "goal", [file["goal"] EXCEPT !.plan = planFile], "registerSave")
                /\ Log("goal", Note("artifact"))
           ELSE Quit(p) /\ UNCHANGED <<log, lock>>
        /\ UNCHANGED file
     \/ /\ At(p, "registerSave")
        /\ SaveAndRelease(p, "goal")
        /\ cmd' = [cmd EXCEPT ![p].step = "accept", ![p].plan = cmd[p].copy.plan]
        /\ UNCHANGED log
  /\ UNCHANGED <<planFile, pending, delivery, crashes>>

\* validate_goal_state: every child is parent_summary_only, and such a child must
\* not carry a report proof.
StateValid(refs) == \A r \in Role : ~refs[r].proof

\* Faulty: a plan accepted before is not looked for.
PlanAcceptAgain(p) ==
  /\ At(p, "accept") /\ Free("goal") /\ StateValid(cmd[p].refs)
  /\ Log("goal", Acceptance(cmd[p].plan)) /\ Go(p, "terminal")
  /\ UNCHANGED <<file, planFile, pending, lock, delivery, crashes>>

\* The new state is validated, then _record_plan_acceptance.
PlanAccept(p) ==
  /\ At(p, "accept") /\ Free("goal")
  /\ \/ /\ StateValid(cmd[p].refs) /\ AcceptedPlan = NoPlan
        /\ Log("goal", Acceptance(cmd[p].plan)) /\ Go(p, "terminal")
     \/ /\ StateValid(cmd[p].refs) /\ AcceptedPlan = cmd[p].plan
        /\ Go(p, "terminal") /\ UNCHANGED log
     \/ /\ ~StateValid(cmd[p].refs) \/ AcceptedPlan \notin {NoPlan, cmd[p].plan}
        /\ Quit(p) /\ UNCHANGED log
  /\ UNCHANGED <<file, planFile, pending, lock, delivery, crashes>>

\* The terminal checkpoint stores what was collected.
GoalFinish(p) ==
  \/ /\ At(p, "terminal")
     /\ CheckpointBegin(p, "goal",
          [file["goal"] EXCEPT
             !.status = IF \E r \in Role : Outcome(cmd[p].refs[r]) = "blocked"
                        THEN "failed_unreported" ELSE "completed_unreported",
             !.refs = cmd[p].refs, !.accepted = cmd[p].plan],
          "terminalSave")
  \/ /\ At(p, "terminalSave")
     /\ CheckpointEnd(p, "goal") /\ Quit(p)

GoalStep(p) ==
  \/ GoalStart(p) \/ DraftRegister(p) \/ DraftWait(p) \/ GoalResume(p)
  \/ ChildIntent(p) \/ ChildCreate(p) \/ ChildLink(p) \/ ChildLinked(p)
  \/ GoalAdoptLoad(p) \/ GoalAdoptSave(p) \/ ChildCreated(p) \/ ChildFinish(p)
  \/ ChildCollectLoad(p) \/ ChildCollected(p)
  \/ PlanWrite(p) \/ PlanRegister(p) \/ PlanAccept(p) \/ GoalFinish(p)

\* A goal command dies; a lock it holds is released, a marker stays.
GoalCrash(p) ==
  /\ ~At(p, "idle") /\ crashes < MaxCrashes
  /\ crashes' = crashes + 1
  /\ Quit(p)
  /\ lock' = [w \in Workflow |-> IF lock[w] = p THEN Nobody ELSE lock[w]]
  /\ UNCHANGED <<file, log, planFile, pending, delivery>>

\* A blocked child is resumed after a decision of its owner.
ChildUnblock(r) ==
  /\ file[r].status = "blocked" /\ r \notin pending /\ Free(r)
  /\ file' = [file EXCEPT ![r].status = "running"]
  /\ UNCHANGED <<log, planFile, pending, lock, cmd, delivery, crashes>>

-----------------------------------------------------------------------------
\* _validate_goal_child_execution of the goal's record g, as the files are now.
ChildExecutionValid(g) ==
  /\ g.kids = Role
  /\ \A r \in Role :
       LET intent    == LoggedFor("child_creation_intent", r)
           created   == LoggedFor("child_workflow_created", r)
           collected == LoggedFor("child_workflow_collected", r)
       IN /\ file[r].linked
          /\ file[r].status \in Collectable /\ g.refs[r].status \in Collectable
          /\ \/ file[r].status = g.refs[r].status
             \/ file[r].status = "reported" /\ g.refs[r].status \in Unreported
          /\ file[r].result = g.refs[r].result
          /\ \E i \in intent, j \in created, k \in collected :
               /\ intent = {i} /\ created = {j} /\ \A l \in collected : l <= k
               /\ i < j /\ j < k
               /\ log["goal"][k] = Collected(r, g.refs[r])
          /\ \E i \in Logged(r, "parent_linked") : Logged(r, "parent_linked") = {i}
          /\ g.status = "reported" => file[r].status # "reported"

\* _validate_goal_state_integrity of a finished goal.
GoalDeliverable(g) ==
  /\ ChildExecutionValid(g) /\ StateValid(g.refs)
  /\ g.accepted = g.plan /\ planFile = Rendered(g.refs)
  /\ \E i \in Logged("goal", "plan_accepted") :
       Logged("goal", "plan_accepted") = {i} /\ log["goal"][i].plan = g.accepted

\* _child_visible_report_block_reason: the goal's state holds a
\* duplicate_report_guard and summarises this child.
ChildReportBlocked(w) ==
  w # "goal" /\ file[w].linked /\ file["goal"].refs[w] # NoRef

Reported(g) == [g EXCEPT !.status = "reported"]

\* reserve-delivery reads the goal's guard before it takes the child's lock.
DeliveryAsk(w) ==
  /\ delivery[w] = "none"
  /\ file[w].status \in Unreported /\ ~ChildReportBlocked(w)
  /\ delivery' = [delivery EXCEPT ![w] = "asked"]
  /\ UNCHANGED <<file, log, planFile, pending, lock, cmd, crashes>>

\* The first reservation authorises the send, and the message goes out.
DeliverySend(w) ==
  /\ delivery[w] = "asked"
  /\ Free(w) /\ w \notin pending
  /\ file[w].status \in Unreported
  /\ w = "goal" => GoalDeliverable(file["goal"])
  /\ delivery' = [delivery EXCEPT ![w] = "sent"]
  /\ UNCHANGED <<file, log, planFile, pending, lock, cmd, crashes>>

\* complete-reported: a goal's preflight, and the proof section, which reads the
\* guard again under the child's lock (not the goal's).
DeliveryProve(w) ==
  /\ delivery[w] = "sent"
  /\ Free(w)
  /\ file[w].status \in Unreported /\ ~ChildReportBlocked(w)
  /\ w = "goal" => ChildExecutionValid(Reported(file["goal"]))
  /\ file' = [file EXCEPT ![w].proof = TRUE]
  /\ delivery' = [delivery EXCEPT ![w] = "proved"]
  /\ UNCHANGED <<log, planFile, pending, lock, cmd, crashes>>

\* Faulty: the goal's preflight is taken for good.
DeliveryReportUnchecked(w) ==
  /\ delivery[w] = "proved"
  /\ Free(w)
  /\ file[w].status \in Unreported
  /\ file' = [file EXCEPT ![w] = Reported(@)]
  /\ delivery' = [delivery EXCEPT ![w] = "reported"]
  /\ UNCHANGED <<log, planFile, pending, lock, cmd, crashes>>

\* complete-reported: the last section, which validates a goal once more.
DeliveryReport(w) ==
  /\ delivery[w] = "proved"
  /\ Free(w)
  /\ file[w].status \in Unreported
  /\ w = "goal" => ChildExecutionValid(Reported(file["goal"]))
  /\ file' = [file EXCEPT ![w] = Reported(@)]
  /\ delivery' = [delivery EXCEPT ![w] = "reported"]
  /\ UNCHANGED <<log, planFile, pending, lock, cmd, crashes>>

\* A delivery command dies between its sections; it can be run again.
DeliveryAbandon(w) ==
  /\ delivery[w] \in {"asked", "proved"}
  /\ delivery' = [delivery EXCEPT ![w] = IF @ = "asked" THEN "none" ELSE "sent"]
  /\ UNCHANGED <<file, log, planFile, pending, lock, cmd, crashes>>

GoalNext ==
  \/ \E p \in Proc : GoalStep(p) \/ GoalCrash(p)
  \/ Approve
  \/ \E r \in Role : ChildUnblock(r)
  \/ \E w \in Workflow :
       DeliveryAsk(w) \/ DeliverySend(w) \/ DeliveryProve(w) \/ DeliveryReport(w)
         \/ DeliveryAbandon(w)

GoalSpec == GoalInit /\ [][GoalNext]_goalVars

\* The owner approves in the end, and the watchdog wakes the owner session, which
\* runs the goal command, until the goal is finished.
GoalFairness ==
  /\ SF_goalVars(Approve)
  /\ \A p \in Proc : WF_goalVars(GoalStep(p))

FairGoalSpec == GoalSpec /\ GoalFairness

-----------------------------------------------------------------------------
(***************************************************************************)
(* Properties.                                                             *)
(***************************************************************************)
\* Files, logs, commands and deliveries keep their types.
GoalTypeOK ==
  /\ file \in [Workflow -> File]
  /\ \A w \in Workflow : \A i \in DOMAIN log[w] : log[w][i] \in Event
  /\ planFile \in Plan \cup {NoPlan}
  /\ pending \subseteq Workflow
  /\ lock \in [Workflow -> Proc \cup {Nobody}]
  /\ cmd \in [Proc -> Cmd]
  /\ delivery \in [Workflow -> {"none", "asked", "sent", "proved", "reported"}]
  /\ crashes \in 0 .. MaxCrashes

\* Whatever crashed on the way, a finished goal is one that delivery accepts, as
\* long as its children are as it collected them: its links, the order of its
\* log, its plan file and its acceptance agree (goal.py:179-374).
ParentIsDeliverable ==
  /\ file["goal"].status \in Unreported
  /\ \A r \in Role : file[r].status = file["goal"].refs[r].status
  => GoalDeliverable(file["goal"])

\* Once child_workflow_created is logged, the two records and the child's log
\* already point at each other: a crash never leaves the event without the links
\* (goal.py:600-655).
CreatedMeansLinked ==
  \A r \in Role :
    LoggedFor("child_workflow_created", r) # {} =>
      /\ LoggedFor("child_creation_intent", r) # {}
      /\ file[r].linked /\ r \in file["goal"].kids
      /\ Logged(r, "parent_linked") # {}

\* Where the owner approves by an owner_decision, the accepted plan is the
\* registered one and the one on disk, and is accepted once, however often the
\* command died after it (goal.py:195-290, 349-374).  The hash in a plan_accepted
\* event of the owner's own is the owner's to choose; no run has one.
AcceptanceIsBacked ==
  \A i \in Logged("goal", "plan_accepted") :
    /\ Logged("goal", "plan_accepted") = {i}
    /\ log["goal"][i].plan = file["goal"].plan
    /\ log["goal"][i].plan = planFile

\* A goal becomes reported only while none of the children it summarises is
\* reported, although a child may be reported between the two sections of
\* complete-reported (cli.py:1172, 1183).
ReportedBesideSilentChildren ==
  [][file["goal"].status # "reported" /\ file'["goal"].status = "reported" =>
       \A r \in Role : file[r].status # "reported"]_goalVars

\* A goal approved by an owner_decision is finished in the end, by however many
\* commands it takes, unless a crash left a marker that freezes it, a child was reported before it
\* was collected, or a child ended blocked and waits for its owner (goal.py:179-347).
Frozen == \E w \in pending : Free(w)
GoalFinishes ==
  <>(\/ file["goal"].status \in Terminal \/ Frozen
     \/ \E r \in Role : file[r].proof \/ file[r].status = "blocked")

\* cli.py:2459: a reported goal's child must not be separately reported.
ParentReportsAlone ==
  file["goal"].status = "reported" => \A r \in Role : file[r].status # "reported"

\* mvp-spec.md:826-827: workflow JSON is only updated under the lock, so that what
\* was finished stays finished (goal.py:632, 646).
FinishedStaysFinished ==
  [][\A w \in Workflow :
       file[w].status \in Terminal => file'[w].status \in {file[w].status, "reported"}]_goalVars
=============================================================================
