----------------------------- MODULE GoalProofs ------------------------------
(***************************************************************************)
(* Proofs about GoalChildren, for any roles, any way children end and any  *)
(* number of crashes.  The types hold for any number of goal commands.     *)
(* What relates the records does not: workflow.json is saved without the   *)
(* lock (the run lost_update shows what two commands do to it), so from    *)
(* OneCommand on there is one command at a time, beside its crashes, the   *)
(* owner, the sessions that unblock a child and every delivery.            *)
(***************************************************************************)
EXTENDS GoalChildren, TLAPS

Typed ==
  /\ GoalTypeOK
  /\ log \in [Workflow -> Seq(Event)]

\* One goal command at a time: what every invariant below is about.
OneCommand == \A p, q \in Proc : p = q

-----------------------------------------------------------------------------
(***************************************************************************)
(* The inductive invariant.                                                *)
(***************************************************************************)
GoalSection == {"draftSave", "waitSave", "resumeSave", "registerSave", "terminalSave"}

InSection(p, w) ==
  \/ w = "goal" /\ cmd[p].step \in GoalSection
  \/ w = Child(p) /\ At(p, "finishSave")

\* A lock is held exactly in the sections it guards.
LocksAgree == \A p \in Proc, w \in Workflow : lock[w] = p <=> InSection(p, w)

\* What a command is about to save is what the file says, but for the fields it
\* sets.
CopyAgrees(p) ==
  LET copy == cmd[p].copy
      goal == file["goal"]
      c    == Child(p)
  IN /\ cmd[p].step \in GoalSection => goal.status \notin Terminal
     /\ At(p, "draftSave")    => copy = [goal EXCEPT !.draft = TRUE]
     /\ At(p, "waitSave")     => copy = [goal EXCEPT !.status = "waiting_user"]
     /\ At(p, "resumeSave")   => copy = [goal EXCEPT !.status = "running"]
     /\ At(p, "registerSave") => copy = [goal EXCEPT !.plan = planFile] /\ goal.plan = NoPlan
     /\ At(p, "terminalSave") => \E status \in {"completed_unreported", "failed_unreported"} :
          copy = [goal EXCEPT !.status = status, !.refs = cmd[p].refs, !.accepted = cmd[p].plan]
     /\ At(p, "adoptSave")    => copy = goal /\ c \notin goal.kids
     /\ At(p, "link")         => copy = file[c] /\ ~copy.linked /\ copy.status # "absent"
     /\ At(p, "finishSave")   => /\ file[c].status \notin Terminal
                                 /\ \E end \in Ends[c] : copy = [file[c] EXCEPT !.status = end,
                                      !.result = IF end = "completed_unreported" THEN "pass" ELSE "blocked"]

\* What is logged and linked when a command has come as far as it has.
Linking    == {"create", "link"}
LinkedStep == {"linked"}
Adopting   == {"adopt", "adoptSave"}
Adopted    == {"created"}
Collecting == {"finish", "finishSave", "collect", "collected"}

Reached(s, c) ==
  /\ s \in Linking \cup LinkedStep \cup Adopting \cup Adopted \cup Collecting =>
       LoggedFor("child_creation_intent", c) # {}
  /\ s \in LinkedStep \cup Adopting \cup Adopted \cup Collecting => file[c].linked
  /\ s \in Adopting \cup Adopted \cup Collecting => Logged(c, "parent_linked") # {}
  /\ s \in Adopted \cup Collecting => c \in file["goal"].kids
  /\ s \in Collecting => LoggedFor("child_workflow_created", c) # {}
StageAgrees(p) == Reached(cmd[p].step, Child(p))

\* A child is linked before it ends; its result goes with how it ended; a report
\* leaves its proof.
ChildAgrees(r) ==
  /\ file[r].status = "absent" => file[r] = NoFile
  /\ file[r].status \in Collectable => file[r].linked
  /\ file[r].status = "completed_unreported" => file[r].result = "pass"
  /\ file[r].status \in {"failed_unreported", "blocked"} => file[r].result = "blocked"
  /\ file[r].status = "reported" => file[r].proof
  /\ delivery[r] = "proved" => file[r].proof

\* The log of the goal has one form of each event, once, in its order.
OncePerRole == {"child_creation_intent", "child_workflow_created"}
LogAgrees ==
  /\ \A i \in DOMAIN log["goal"] : LET e == log["goal"][i] IN
       /\ e.type \in OncePerRole => e = ChildNote(e.type, e.role)
       /\ e.type = "child_workflow_collected" => e = Collected(e.role, e.ref)
  /\ \A i, j \in DOMAIN log["goal"] :
       log["goal"][i] = log["goal"][j]
         /\ log["goal"][i].type \in OncePerRole \cup {"child_workflow_collected"} => i = j
  /\ \A r \in Role :
       /\ \A i \in Logged(r, "parent_linked") : log[r][i] = ChildNote("parent_linked", r)
       /\ \A i, j \in Logged(r, "parent_linked") : i = j
       /\ \A j \in LoggedFor("child_workflow_created", r) :
            \E i \in LoggedFor("child_creation_intent", r) : i < j
       /\ \A k \in LoggedFor("child_workflow_collected", r) :
            \E j \in LoggedFor("child_workflow_created", r) : j < k

\* How a child was once collected, seen from how it is now: only a blocked child
\* may have gone on, and a finished one has at most been reported.
Past(ref, r) ==
  \/ ref.status = "blocked" /\ ref.result = "blocked"
  \/ /\ ref.status \in Unreported /\ file[r].status \in {ref.status, "reported"}
     /\ ref.result = file[r].result
     /\ ref.status = "completed_unreported" <=> ref.result = "pass"
  \/ /\ ref.status = "reported" /\ file[r].status = "reported"
     /\ ref.result = file[r].result
Older(s, t) ==
  \/ s = "blocked" /\ t # "blocked"
  \/ s \in Unreported /\ t = "reported"

CollectedFor(r) == LoggedFor("child_workflow_collected", r)
RefAt(k)        == log["goal"][k].ref
CollectionAgrees ==
  \A r \in Role :
    /\ \A k \in CollectedFor(r) : Past(RefAt(k), r)
    /\ \A k, l \in CollectedFor(r) : k < l => Older(RefAt(k).status, RefAt(l).status)

RefIsLogged(r, ref) ==
  /\ \E k \in CollectedFor(r) : log["goal"][k] = Collected(r, ref)
  /\ ref.status = "reported" => ref.proof

Ending    == {"terminal", "terminalSave"}
Accepting == {"accept"} \cup Ending
Planning  == {"register", "registerSave"} \cup Accepting

\* The roles a command has collected.
Done(p) ==
  IF cmd[p].step \in {"plan"} \cup Planning
  THEN Role ELSE {Roles[i] : i \in 1 .. cmd[p].k - 1}

CollectingAgrees(p) ==
  /\ At(p, "collected") => LET copy == cmd[p].copy IN
       /\ copy.status \in Collectable
       /\ Past([status |-> copy.status, result |-> copy.result, proof |-> copy.proof], Child(p))
       /\ copy.status = "reported" => copy.proof
       /\ copy.status = "blocked" => file[Child(p)].status \notin Terminal
       /\ \A k \in CollectedFor(Child(p)) : ~Older(copy.status, RefAt(k).status)
  /\ \A r \in Done(p) : RefIsLogged(r, cmd[p].refs[r])

\* The plan a command knows is the registered one and the one on disk, and says
\* what was collected; it finishes only on its acceptance.
PlanIsOnDisk == file["goal"].plan # NoPlan => planFile = file["goal"].plan
PlanAgrees(p) ==
  LET s == cmd[p].step IN
  /\ s # "idle" => cmd[p].plan = file["goal"].plan
  /\ s \in Planning => planFile = Rendered(cmd[p].refs)
  /\ s \in Accepting => cmd[p].plan = planFile
  /\ s \in Ending =>
       StateValid(cmd[p].refs) /\ AcceptedPlan = cmd[p].plan

Acceptances == Logged("goal", "plan_accepted")
AcceptanceAgrees ==
  /\ \A i, j \in Acceptances : i = j
  /\ \A i \in Acceptances :
       LET plan == log["goal"][i].plan IN
       \/ plan = OwnerPlan /\ "plan_accepted" \in Approvals
       \/ plan # NoPlan /\ plan = file["goal"].plan

\* A goal finishes with what it collected, its plan and its acceptance in place.
FinishedAgrees ==
  LET goal == file["goal"] IN
  goal.status \in Terminal =>
    /\ \A r \in Role : RefIsLogged(r, goal.refs[r])
    /\ StateValid(goal.refs)
    /\ goal.accepted = goal.plan /\ goal.plan = Rendered(goal.refs)
    /\ AcceptedPlan = goal.plan

GoalAgrees ==
  /\ LocksAgree /\ LogAgrees /\ CreatedMeansLinked /\ CollectionAgrees
  /\ PlanIsOnDisk /\ AcceptanceAgrees /\ FinishedAgrees
  /\ \A r \in Role : ChildAgrees(r)
  /\ \A p \in Proc :
       CopyAgrees(p) /\ StageAgrees(p) /\ CollectingAgrees(p) /\ PlanAgrees(p)

-----------------------------------------------------------------------------
(***************************************************************************)
(* Types, for any number of commands.                                      *)
(***************************************************************************)
LEMMA SomeRole == Role # {} /\ Len(Roles) \in Nat \ {0} /\ \A k \in 1 .. Len(Roles) : Roles[k] \in Role
BY GoalAssumption DEF Role

LEMMA ChildIsRole ==
  ASSUME cmd \in [Proc -> Cmd], NEW p \in Proc
  PROVE  Child(p) \in Role /\ Child(p) \in Workflow /\ Child(p) # "goal" /\ "goal" \in Workflow
BY SomeRole, GoalAssumption DEF Child, Cmd, Workflow

LEMMA NothingTyped == NoFile \in File /\ Created \in File /\ NoCmd \in Cmd /\ NoRef \in Ref
<1>1. NoRef \in Ref BY DEF NoRef, Ref, Status, Result
<1>2. NoRefs \in [Role -> Ref] BY <1>1 DEF NoRefs
<1>3. NoFile \in File BY <1>2 DEF NoFile, File, Status, Result
<1>4. Created \in File BY <1>3 DEF Created, File, Status
<1>5. NoCmd \in Cmd BY <1>2, <1>3, SomeRole DEF NoCmd, Cmd, Step
<1> QED BY <1>1, <1>3, <1>4, <1>5

LEMMA NoteTyped ==
  ASSUME NEW type \in {"owner_decision", "artifact", "terminal", "plan_accepted",
                       "child_creation_intent", "parent_linked", "child_workflow_created",
                       "child_workflow_collected"}
  PROVE  /\ Note(type) \in Event
         /\ \A r \in Role : ChildNote(type, r) \in Event
<1>1. Note(type) \in Event BY NothingTyped DEF Note, Event
<1> QED BY <1>1 DEF ChildNote, Event

LEMMA AcceptanceTyped ==
  ASSUME NEW plan \in Plan \cup {NoPlan, OwnerPlan} PROVE Acceptance(plan) \in Event
<1>1. Note("plan_accepted") \in Event BY NoteTyped
<1> QED BY <1>1 DEF Acceptance, Event

LEMMA CollectedTyped ==
  ASSUME NEW r \in Role, NEW ref \in Ref PROVE Collected(r, ref) \in Event
<1>1. ChildNote("child_workflow_collected", r) \in Event BY NoteTyped
<1>2. [ref EXCEPT !.proof = FALSE] \in Ref BY DEF Ref
<1> QED BY <1>1, <1>2 DEF Collected, Event

LEMMA RenderedTyped == ASSUME NEW refs PROVE Rendered(refs) \in Plan
BY DEF Rendered, Outcome, Plan

LEMMA AcceptedPlanTyped ==
  log \in [Workflow -> Seq(Event)] => AcceptedPlan \in Plan \cup {NoPlan, OwnerPlan}
<1> SUFFICES ASSUME log \in [Workflow -> Seq(Event)], Logged("goal", "plan_accepted") # {}
             PROVE  AcceptedPlan \in Plan \cup {NoPlan, OwnerPlan}
  BY DEF AcceptedPlan
<1>1. PICK i \in Logged("goal", "plan_accepted") :
        i = CHOOSE j \in Logged("goal", "plan_accepted") : TRUE
  OBVIOUS
<1>2. i \in DOMAIN log["goal"] BY <1>1 DEF Logged
<1>3. log["goal"] \in Seq(Event) BY DEF Workflow
<1>4. log["goal"][i] \in Event BY <1>2, <1>3
<1> QED BY <1>1, <1>4 DEF AcceptedPlan, Event

\* Moves of a command.
LEMMA Moved ==
  ASSUME cmd \in [Proc -> Cmd], file \in [Workflow -> File], NEW p \in Proc, NEW step \in Step
  PROVE  /\ Go(p, step) => cmd' \in [Proc -> Cmd]
         /\ \A w \in Workflow : Load(p, w, step) => cmd' \in [Proc -> Cmd]
         /\ \A w \in Workflow, copy \in File : Enter(p, w, copy, step) => cmd' \in [Proc -> Cmd]
         /\ Quit(p) => cmd' \in [Proc -> Cmd]
<1>1. ASSUME NEW copy \in File PROVE [cmd[p] EXCEPT !.step = step, !.copy = copy] \in Cmd
  BY <1>1 DEF Cmd
<1>2. [cmd[p] EXCEPT !.step = step] \in Cmd BY DEF Cmd
<1>3. ASSUME NEW c \in Cmd PROVE [cmd EXCEPT ![p] = c] \in [Proc -> Cmd] BY <1>3
<1>4. ASSUME NEW w \in Workflow, Load(p, w, step) PROVE cmd' \in [Proc -> Cmd]
  BY <1>1, <1>4 DEF Load
<1>5. ASSUME NEW w \in Workflow, NEW copy \in File, Enter(p, w, copy, step) PROVE cmd' \in [Proc -> Cmd]
  BY <1>1, <1>5 DEF Enter
<1> QED BY <1>2, <1>3, <1>4, <1>5, NothingTyped DEF Go, Quit

LEMMA Written ==
  ASSUME log \in [Workflow -> Seq(Event)], NEW w \in Workflow, NEW event \in Event, Log(w, event)
  PROVE  log' \in [Workflow -> Seq(Event)]
BY DEF Log

LEMMA WrittenOnce ==
  ASSUME Typed, NEW p \in Proc, NEW w \in Workflow, NEW event \in Event, NEW then,
         LogOnce(p, w, event, then)
  PROVE  log' \in [Workflow -> Seq(Event)] /\ (then \/ Quit(p))
BY Written DEF LogOnce, Typed

LEMMA CheckpointBegun ==
  ASSUME Typed, NEW p \in Proc, NEW w \in Workflow, NEW copy \in File, NEW step \in Step,
         CheckpointBegin(p, w, copy, step)
  PROVE  Typed'
<1>1. cmd' \in [Proc -> Cmd]
  <2>1. Enter(p, w, copy, step) \/ Quit(p) BY DEF CheckpointBegin
  <2>2. cmd \in [Proc -> Cmd] /\ file \in [Workflow -> File] BY DEF Typed, GoalTypeOK
  <2> QED BY <2>1, <2>2, Moved
<1>2. lock' \in [Workflow -> Proc \cup {Nobody}] BY DEF CheckpointBegin, Enter, Typed, GoalTypeOK
<1>3. pending' \subseteq Workflow BY DEF CheckpointBegin, Typed, GoalTypeOK
<1> QED BY <1>1, <1>2, <1>3 DEF CheckpointBegin, Typed, GoalTypeOK

LEMMA Saved ==
  ASSUME Typed, NEW p \in Proc, NEW w \in Workflow, SaveAndRelease(p, w)
  PROVE  file' \in [Workflow -> File] /\ lock' \in [Workflow -> Proc \cup {Nobody}]
<1>1. cmd[p].copy \in File BY DEF Typed, GoalTypeOK, Cmd
<1> QED BY <1>1 DEF SaveAndRelease, Typed, GoalTypeOK

LEMMA CheckpointEnded ==
  ASSUME Typed, NEW p \in Proc, NEW w \in Workflow, CheckpointEnd(p, w), cmd' \in [Proc -> Cmd]
  PROVE  Typed'
<1>1. file' \in [Workflow -> File] /\ lock' \in [Workflow -> Proc \cup {Nobody}]
  BY Saved DEF CheckpointEnd
<1>2. log' \in [Workflow -> Seq(Event)]
  BY NoteTyped, Written DEF CheckpointEnd, Typed
<1>3. pending' \subseteq Workflow BY DEF CheckpointEnd, Typed, GoalTypeOK
<1> QED BY <1>1, <1>2, <1>3 DEF CheckpointEnd, Typed, GoalTypeOK

\* A field of a record, set to a value of its type.
LEMMA FieldTyped ==
  ASSUME NEW f \in File
  PROVE  /\ [f EXCEPT !.draft = TRUE] \in File
         /\ [f EXCEPT !.linked = TRUE] \in File
         /\ [f EXCEPT !.proof = TRUE] \in File
         /\ \A s \in Status : [f EXCEPT !.status = s] \in File
         /\ \A r \in Role : [f EXCEPT !.kids = @ \cup {r}] \in File
         /\ \A plan \in Plan \cup {NoPlan} : [f EXCEPT !.plan = plan] \in File
         /\ \A s \in Status, x \in Result : [f EXCEPT !.status = s, !.result = x] \in File
         /\ \A s \in Status, refs \in [Role -> Ref], plan \in Plan \cup {NoPlan} :
              [f EXCEPT !.status = s, !.refs = refs, !.accepted = plan] \in File
BY DEF File

\* The steps of a command, one by one.
LEMMA StartTyped == ASSUME Typed, NEW p \in Proc, GoalStart(p) PROVE Typed'
<1> DEFINE start == [NoCmd EXCEPT
             !.step = IF ~(AcceptedPlan # NoPlan \/ Logged("goal", "owner_decision") # {}) THEN "draft"
                      ELSE IF AcceptedPlan # NoPlan /\ file["goal"].status = "waiting_user"
                      THEN "resume" ELSE "intent",
             !.accepted = AcceptedPlan, !.plan = file["goal"].plan]
<1>1. AcceptedPlan \in Plan \cup {NoPlan, OwnerPlan} BY AcceptedPlanTyped DEF Typed
<1>2. file["goal"].plan \in Plan \cup {NoPlan} BY DEF Typed, GoalTypeOK, File, Workflow
<1>3. start \in Cmd BY <1>1, <1>2, NothingTyped DEF Cmd, Step
<1>4. cmd' = [cmd EXCEPT ![p] = start] BY DEF GoalStart
<1> HIDE DEF start
<1>5. cmd' \in [Proc -> Cmd] BY <1>3, <1>4 DEF Typed, GoalTypeOK
<1> QED BY <1>5 DEF GoalStart, Typed, GoalTypeOK

LEMMA DraftTyped ==
  ASSUME Typed, NEW p \in Proc, DraftRegister(p) \/ DraftWait(p) \/ GoalResume(p)
  PROVE  Typed'
<1>0. "goal" \in Workflow /\ file["goal"] \in File /\ cmd[p].copy \in File
      /\ cmd \in [Proc -> Cmd] /\ file \in [Workflow -> File]
  BY DEF Typed, GoalTypeOK, Workflow, Cmd
<1> DEFINE drafted == [file["goal"] EXCEPT !.draft = TRUE]
           waiting == [file["goal"] EXCEPT !.status = "waiting_user"]
           resumed == [file["goal"] EXCEPT !.status = "running"]
<1>1. drafted \in File /\ waiting \in File /\ resumed \in File
  BY <1>0, FieldTyped DEF Status
<1>2. CASE DraftRegister(p)
  <2>1. Go(p, "wait") \/ Enter(p, "goal", drafted, "draftSave") \/ Quit(p)
    BY <1>2 DEF DraftRegister
  <2>2. cmd' \in [Proc -> Cmd] BY <1>0, <1>1, <2>1, Moved DEF Step
  <2>3. UNCHANGED log \/ Log("goal", Note("artifact")) BY <1>2 DEF DraftRegister
  <2>4. log' \in [Workflow -> Seq(Event)] BY <1>0, <2>3, NoteTyped, Written DEF Typed
  <2>5. (UNCHANGED <<file, lock>>) \/ (Enter(p, "goal", drafted, "draftSave") /\ UNCHANGED file)
        \/ SaveAndRelease(p, "goal")
    BY <1>2 DEF DraftRegister
  <2>6. file' \in [Workflow -> File] /\ lock' \in [Workflow -> Proc \cup {Nobody}]
    BY <1>0, <2>5, Saved DEF Enter, Typed, GoalTypeOK
  <2> QED BY <1>2, <2>2, <2>4, <2>6 DEF DraftRegister, Typed, GoalTypeOK
<1>3. CASE DraftWait(p)
  <2>1. CASE CheckpointBegin(p, "goal", waiting, "waitSave")
    BY <1>0, <1>1, <2>1, CheckpointBegun DEF Step
  <2>2. CASE CheckpointEnd(p, "goal") /\ Quit(p)
    <3>1. cmd' \in [Proc -> Cmd] BY <1>0, <2>2, Moved DEF Step
    <3> QED BY <1>0, <2>2, <3>1, CheckpointEnded
  <2> QED BY <1>3, <2>1, <2>2 DEF DraftWait
<1>4. CASE GoalResume(p)
  <2>1. CASE CheckpointBegin(p, "goal", resumed, "resumeSave")
    BY <1>0, <1>1, <2>1, CheckpointBegun DEF Step
  <2>2. CASE /\ CheckpointEnd(p, "goal")
             /\ cmd' = [cmd EXCEPT ![p].step = "intent", ![p].plan = cmd[p].copy.plan]
    <3>1. cmd' \in [Proc -> Cmd]
      <4>1. cmd[p].copy.plan \in Plan \cup {NoPlan} BY <1>0 DEF File
      <4>2. [cmd[p] EXCEPT !.step = "intent", !.plan = cmd[p].copy.plan] \in Cmd
        BY <1>0, <4>1 DEF Cmd, Step
      <4> QED BY <1>0, <2>2, <4>2
    <3> QED BY <1>0, <2>2, <3>1, CheckpointEnded
  <2> QED BY <1>4, <2>1, <2>2 DEF GoalResume
<1> QED BY <1>2, <1>3, <1>4

LEMMA ChildTyped ==
  ASSUME Typed, NEW p \in Proc,
         \/ ChildIntent(p) \/ ChildCreate(p) \/ ChildLink(p) \/ ChildLinked(p)
         \/ GoalAdoptLoad(p) \/ GoalAdoptSave(p) \/ ChildCreated(p)
  PROVE  Typed'
<1>0. /\ "goal" \in Workflow /\ Child(p) \in Workflow /\ Child(p) \in Role
      /\ file["goal"] \in File /\ cmd[p].copy \in File
      /\ cmd \in [Proc -> Cmd] /\ file \in [Workflow -> File]
      /\ log \in [Workflow -> Seq(Event)]
  BY ChildIsRole DEF Typed, GoalTypeOK, Workflow, Cmd
<1>1. CASE ChildIntent(p)
  <2>1. /\ log' \in [Workflow -> Seq(Event)]
        /\ Go(p, "create") \/ Quit(p)
    BY <1>0, <1>1, NoteTyped, WrittenOnce DEF ChildIntent
  <2>2. cmd' \in [Proc -> Cmd] BY <1>0, <2>1, Moved DEF Step
  <2> QED BY <1>1, <2>1, <2>2 DEF ChildIntent, Typed, GoalTypeOK
<1>2. CASE ChildCreate(p)
  <2> DEFINE found == IF file[Child(p)].status = "absent" THEN Created ELSE file[Child(p)]
             step  == IF found.linked THEN "linked" ELSE "link"
  <2>1. found \in File BY <1>0, NothingTyped
  <2>2. file' = [file EXCEPT ![Child(p)] = found]
        /\ cmd' = [cmd EXCEPT ![p].step = step, ![p].copy = found]
    BY <1>2 DEF ChildCreate
  <2>3. step \in Step BY DEF Step
  <2> HIDE DEF found, step
  <2>4. [cmd[p] EXCEPT !.step = step, !.copy = found] \in Cmd BY <1>0, <2>1, <2>3 DEF Cmd
  <2>5. cmd' \in [Proc -> Cmd] /\ file' \in [Workflow -> File] BY <1>0, <2>1, <2>2, <2>4
  <2> QED BY <1>2, <2>5 DEF ChildCreate, Typed, GoalTypeOK
<1>3. CASE ChildLink(p)
  <2> DEFINE copy == [cmd[p].copy EXCEPT !.linked = TRUE]
  <2>1. copy \in File BY <1>0, FieldTyped
  <2>2. cmd' \in [Proc -> Cmd] BY <1>0, <1>3, Moved DEF ChildLink, Step
  <2>3. file' \in [Workflow -> File] BY <1>0, <1>3, <2>1 DEF ChildLink
  <2> QED BY <1>3, <2>2, <2>3 DEF ChildLink, Typed, GoalTypeOK
<1>4. CASE ChildLinked(p)
  <2>1. /\ log' \in [Workflow -> Seq(Event)]
        /\ Go(p, "adopt") \/ Quit(p)
    BY <1>0, <1>4, NoteTyped, WrittenOnce DEF ChildLinked
  <2>2. cmd' \in [Proc -> Cmd] BY <1>0, <2>1, Moved DEF Step
  <2> QED BY <1>4, <2>1, <2>2 DEF ChildLinked, Typed, GoalTypeOK
<1>5. CASE GoalAdoptLoad(p)
  <2>1. cmd' \in [Proc -> Cmd] BY <1>0, <1>5, Moved DEF GoalAdoptLoad, Step
  <2> QED BY <1>5, <2>1 DEF GoalAdoptLoad, Typed, GoalTypeOK
<1>6. CASE GoalAdoptSave(p)
  <2> DEFINE copy == [cmd[p].copy EXCEPT !.kids = @ \cup {Child(p)}]
  <2>1. copy \in File BY <1>0, FieldTyped
  <2>2. cmd' \in [Proc -> Cmd] BY <1>0, <1>6, Moved DEF GoalAdoptSave, Step
  <2>3. file' \in [Workflow -> File] BY <1>0, <1>6, <2>1 DEF GoalAdoptSave
  <2> QED BY <1>6, <2>2, <2>3 DEF GoalAdoptSave, Typed, GoalTypeOK
<1>7. CASE ChildCreated(p)
  <2>1. /\ log' \in [Workflow -> Seq(Event)]
        /\ Load(p, Child(p), "finish") \/ Quit(p)
    BY <1>0, <1>7, NoteTyped, WrittenOnce DEF ChildCreated
  <2>2. cmd' \in [Proc -> Cmd] BY <1>0, <2>1, Moved DEF Step
  <2> QED BY <1>7, <2>1, <2>2 DEF ChildCreated, Typed, GoalTypeOK
<1> QED BY <1>1, <1>2, <1>3, <1>4, <1>5, <1>6, <1>7

LEMMA CollectTyped ==
  ASSUME Typed, NEW p \in Proc,
         ChildFinish(p) \/ ChildCollectLoad(p) \/ ChildCollected(p)
  PROVE  Typed'
<1>0. /\ "goal" \in Workflow /\ Child(p) \in Workflow /\ Child(p) \in Role
      /\ file[Child(p)] \in File /\ cmd[p].copy \in File
      /\ cmd \in [Proc -> Cmd] /\ file \in [Workflow -> File]
      /\ log \in [Workflow -> Seq(Event)]
  BY ChildIsRole DEF Typed, GoalTypeOK, Workflow, Cmd
<1>1. CASE ChildFinish(p)
  <2>1. CASE /\ Go(p, "collect")
             /\ UNCHANGED <<file, log, planFile, pending, lock, delivery, crashes>>
    <3>1. cmd' \in [Proc -> Cmd] BY <1>0, <2>1, Moved DEF Step
    <3> QED BY <2>1, <3>1 DEF Typed, GoalTypeOK
  <2>2. ASSUME NEW end \in Ends[Child(p)],
               CheckpointBegin(p, Child(p),
                 [file[Child(p)] EXCEPT !.status = end,
                    !.result = IF end = "completed_unreported" THEN "pass" ELSE "blocked"],
                 "finishSave")
        PROVE  Typed'
    <3>1. end \in Status BY <1>0, GoalAssumption DEF Status, Collectable, Terminal
    <3>2. [file[Child(p)] EXCEPT !.status = end,
             !.result = IF end = "completed_unreported" THEN "pass" ELSE "blocked"] \in File
      BY <1>0, <3>1, FieldTyped DEF Result
    <3> QED BY <1>0, <2>2, <3>2, CheckpointBegun DEF Step
  <2>3. CASE CheckpointEnd(p, Child(p)) /\ Go(p, "collect")
    <3>1. cmd' \in [Proc -> Cmd] BY <1>0, <2>3, Moved DEF Step
    <3> QED BY <1>0, <2>3, <3>1, CheckpointEnded
  <2> QED BY <1>1, <2>1, <2>2, <2>3 DEF ChildFinish
<1>2. CASE ChildCollectLoad(p)
  <2>1. cmd' \in [Proc -> Cmd] BY <1>0, <1>2, Moved DEF ChildCollectLoad, Step
  <2> QED BY <1>2, <2>1 DEF ChildCollectLoad, Typed, GoalTypeOK
<1>3. CASE ChildCollected(p)
  <2> DEFINE child == cmd[p].copy
             ref  == [status |-> child.status, result |-> child.result, proof |-> child.proof]
             next == cmd' = [cmd EXCEPT ![p].refs[Child(p)] = ref,
                       ![p].step = IF cmd[p].k < Len(Roles) THEN "intent" ELSE "plan",
                       ![p].k = IF @ < Len(Roles) THEN @ + 1 ELSE @]
  <2>1. ref \in Ref BY <1>0 DEF File, Ref
  <2>2. LogOnce(p, "goal", Collected(Child(p), ref), next) BY <1>3 DEF ChildCollected
  <2>3. ASSUME next PROVE cmd' \in [Proc -> Cmd]
    <3> HIDE DEF ref
    <3>1. [cmd[p] EXCEPT !.refs[Child(p)] = ref,
             !.step = IF cmd[p].k < Len(Roles) THEN "intent" ELSE "plan",
             !.k = IF @ < Len(Roles) THEN @ + 1 ELSE @] \in Cmd
      <4>1. cmd[p] \in Cmd BY <1>0
      <4>2. [cmd[p].refs EXCEPT ![Child(p)] = ref] \in [Role -> Ref] BY <4>1, <2>1 DEF Cmd
      <4>3. (IF cmd[p].k < Len(Roles) THEN cmd[p].k + 1 ELSE cmd[p].k) \in 1 .. Len(Roles)
        BY <4>1, SomeRole DEF Cmd
      <4> QED BY <4>1, <4>2, <4>3 DEF Cmd, Step
    <3> QED BY <1>0, <2>3, <3>1
  <2> HIDE DEF ref, next
  <2>4. log' \in [Workflow -> Seq(Event)] /\ (next \/ Quit(p))
    BY <1>0, <2>1, <2>2, CollectedTyped, WrittenOnce
  <2>5. cmd' \in [Proc -> Cmd] BY <1>0, <2>3, <2>4, Moved DEF Step
  <2> QED BY <1>3, <2>4, <2>5 DEF ChildCollected, Typed, GoalTypeOK
<1> QED BY <1>1, <1>2, <1>3

\* A command that registered the plan remembers which one it will accept.
LEMMA PlanKnown ==
  \A c \in Cmd, plan \in Plan \cup {NoPlan} :
    [c EXCEPT !.step = "accept", !.plan = plan] \in Cmd
BY DEF Cmd, Step

LEMMA PlanTyped ==
  ASSUME Typed, NEW p \in Proc,
         PlanWrite(p) \/ PlanRegister(p) \/ PlanAccept(p) \/ GoalFinish(p)
  PROVE  Typed'
<1>0. /\ "goal" \in Workflow /\ file["goal"] \in File /\ cmd[p].copy \in File
      /\ cmd \in [Proc -> Cmd] /\ file \in [Workflow -> File]
      /\ log \in [Workflow -> Seq(Event)] /\ planFile \in Plan \cup {NoPlan}
      /\ cmd[p].plan \in Plan \cup {NoPlan} /\ cmd[p].refs \in [Role -> Ref]
  BY DEF Typed, GoalTypeOK, Workflow, Cmd
<1>1. CASE PlanWrite(p)
  <2>1. Go(p, "accept") \/ Quit(p) \/ Go(p, "register") BY <1>1 DEF PlanWrite
  <2>2. cmd' \in [Proc -> Cmd] BY <1>0, <2>1, Moved DEF Step
  <2>3. planFile' \in Plan \cup {NoPlan} BY <1>0, <1>1, RenderedTyped DEF PlanWrite
  <2> QED BY <1>1, <2>2, <2>3 DEF PlanWrite, Typed, GoalTypeOK
<1>2. CASE PlanRegister(p)
  <2> DEFINE planned == [file["goal"] EXCEPT !.plan = planFile]
  <2>1. planned \in File BY <1>0, FieldTyped
  <2>2. CASE /\ At(p, "register")
             /\ \/ Enter(p, "goal", planned, "registerSave") /\ Log("goal", Note("artifact"))
                \/ Quit(p) /\ UNCHANGED <<log, lock>>
             /\ UNCHANGED file
    <3>1. cmd' \in [Proc -> Cmd] BY <1>0, <2>1, <2>2, Moved DEF Step
    <3>2. log' \in [Workflow -> Seq(Event)] BY <1>0, <2>2, NoteTyped, Written
    <3>3. lock' \in [Workflow -> Proc \cup {Nobody}] BY <2>2 DEF Enter, Typed, GoalTypeOK
    <3> QED BY <1>2, <2>2, <3>1, <3>2, <3>3 DEF PlanRegister, Typed, GoalTypeOK
  <2>3. CASE /\ At(p, "registerSave")
             /\ SaveAndRelease(p, "goal")
             /\ cmd' = [cmd EXCEPT ![p].step = "accept", ![p].plan = cmd[p].copy.plan]
             /\ UNCHANGED log
    <3>1. cmd[p].copy.plan \in Plan \cup {NoPlan} BY <1>0 DEF File
    <3>2. [cmd[p] EXCEPT !.step = "accept", !.plan = cmd[p].copy.plan] \in Cmd
      BY <1>0, <3>1, PlanKnown
    <3>3. cmd' \in [Proc -> Cmd] BY <1>0, <2>3, <3>2
    <3>4. file' \in [Workflow -> File] /\ lock' \in [Workflow -> Proc \cup {Nobody}]
      BY <1>0, <2>3, Saved
    <3> QED BY <1>2, <2>3, <3>3, <3>4 DEF PlanRegister, Typed, GoalTypeOK
  <2> QED BY <1>2, <2>2, <2>3 DEF PlanRegister
<1>3. CASE PlanAccept(p)
  <2>1. Go(p, "terminal") \/ Quit(p) BY <1>3 DEF PlanAccept
  <2>2. cmd' \in [Proc -> Cmd] BY <1>0, <2>1, Moved DEF Step
  <2>3. UNCHANGED log \/ Log("goal", Acceptance(cmd[p].plan)) BY <1>3 DEF PlanAccept
  <2>4. log' \in [Workflow -> Seq(Event)] BY <1>0, <2>3, AcceptanceTyped, Written
  <2> QED BY <1>3, <2>2, <2>4 DEF PlanAccept, Typed, GoalTypeOK
<1>4. CASE GoalFinish(p)
  <2> DEFINE status == IF \E r \in Role : Outcome(cmd[p].refs[r]) = "blocked"
                       THEN "failed_unreported" ELSE "completed_unreported"
             finished == [file["goal"] EXCEPT !.status = status,
                            !.refs = cmd[p].refs, !.accepted = cmd[p].plan]
  <2>1. finished \in File
    <3>1. status \in Status BY DEF Status, Collectable, Terminal, Unreported
    <3> HIDE DEF status
    <3> QED BY <1>0, <3>1, FieldTyped
  <2>2. \/ CheckpointBegin(p, "goal", finished, "terminalSave")
        \/ CheckpointEnd(p, "goal") /\ Quit(p)
    BY <1>4 DEF GoalFinish
  <2> HIDE DEF finished
  <2>3. CASE CheckpointBegin(p, "goal", finished, "terminalSave")
    BY <1>0, <2>1, <2>3, CheckpointBegun DEF Step
  <2>4. CASE CheckpointEnd(p, "goal") /\ Quit(p)
    <3>1. cmd' \in [Proc -> Cmd] BY <1>0, <2>4, Moved DEF Step
    <3> QED BY <1>0, <2>4, <3>1, CheckpointEnded
  <2> QED BY <2>2, <2>3, <2>4
<1> QED BY <1>1, <1>2, <1>3, <1>4

\* Everything beside the commands.
BesideStep ==
  \/ \E p \in Proc : GoalCrash(p)
  \/ Approve
  \/ \E r \in Role : ChildUnblock(r)
  \/ \E w \in Workflow :
       DeliveryAsk(w) \/ DeliverySend(w) \/ DeliveryProve(w) \/ DeliveryReport(w)
         \/ DeliveryAbandon(w)

LEMMA BesideTyped == ASSUME Typed, BesideStep PROVE Typed'
<1>0. /\ "goal" \in Workflow /\ cmd \in [Proc -> Cmd] /\ file \in [Workflow -> File]
      /\ log \in [Workflow -> Seq(Event)]
  BY DEF Typed, GoalTypeOK, Workflow
<1>1. ASSUME NEW p \in Proc, GoalCrash(p) PROVE Typed'
  <2>1. cmd' \in [Proc -> Cmd] BY <1>0, <1>1, Moved DEF GoalCrash, Step
  <2>2. lock' \in [Workflow -> Proc \cup {Nobody}] BY <1>1 DEF GoalCrash, Typed, GoalTypeOK
  <2>3. crashes' \in 0 .. MaxCrashes
    BY <1>1, GoalAssumption DEF GoalCrash, Typed, GoalTypeOK
  <2> QED BY <1>1, <2>1, <2>2, <2>3 DEF GoalCrash, Typed, GoalTypeOK
<1>2. CASE Approve
  <2>1. PICK type \in Approvals :
          Log("goal", IF type = "plan_accepted" THEN Acceptance(OwnerPlan) ELSE Note(type))
    BY <1>2 DEF Approve
  <2>2. (IF type = "plan_accepted" THEN Acceptance(OwnerPlan) ELSE Note(type)) \in Event
    BY AcceptanceTyped, NoteTyped, GoalAssumption
  <2>3. log' \in [Workflow -> Seq(Event)] BY <1>0, <2>1, <2>2, Written
  <2> QED BY <1>2, <2>3 DEF Approve, Typed, GoalTypeOK
<1>3. ASSUME NEW w \in Workflow,
             \/ w \in Role /\ ChildUnblock(w)
             \/ DeliveryAsk(w) \/ DeliverySend(w) \/ DeliveryProve(w) \/ DeliveryReport(w)
             \/ DeliveryAbandon(w)
      PROVE  Typed'
  <2>1. /\ [file[w] EXCEPT !.status = "running"] \in File
        /\ [file[w] EXCEPT !.proof = TRUE] \in File
        /\ Reported(file[w]) \in File
    BY <1>0, FieldTyped DEF Reported, Status, Collectable, Terminal
  <2>2. file' \in [Workflow -> File]
    BY <1>0, <1>3, <2>1 DEF ChildUnblock, DeliveryAsk, DeliverySend, DeliveryProve,
       DeliveryReport, DeliveryAbandon
  <2>3. delivery' \in [Workflow -> {"none", "asked", "sent", "proved", "reported"}]
    BY <1>3 DEF ChildUnblock, DeliveryAsk, DeliverySend, DeliveryProve, DeliveryReport,
       DeliveryAbandon, Typed, GoalTypeOK
  <2> QED BY <1>3, <2>2, <2>3 DEF ChildUnblock, DeliveryAsk, DeliverySend, DeliveryProve,
       DeliveryReport, DeliveryAbandon, Typed, GoalTypeOK
<1> QED BY <1>1, <1>2, <1>3 DEF BesideStep, Workflow

LEMMA NextIsStep ==
  GoalNext <=> BesideStep \/ \E p \in Proc : GoalStep(p)
BY DEF GoalNext, BesideStep

LEMMA StepTyped == Typed /\ [GoalNext]_goalVars => Typed'
<1> SUFFICES ASSUME Typed, [GoalNext]_goalVars PROVE Typed' OBVIOUS
<1>1. ASSUME NEW p \in Proc, GoalStep(p) PROVE Typed'
  BY <1>1, StartTyped, DraftTyped, ChildTyped, CollectTyped, PlanTyped DEF GoalStep
<1>2. CASE UNCHANGED goalVars BY <1>2 DEF goalVars, Typed, GoalTypeOK
<1> QED BY <1>1, <1>2, BesideTyped, NextIsStep

LEMMA InitTyped == GoalInit => Typed
<1> SUFFICES ASSUME GoalInit PROVE Typed OBVIOUS
<1>1. file \in [Workflow -> File] BY NothingTyped DEF GoalInit
<1>2. cmd \in [Proc -> Cmd] BY NothingTyped DEF GoalInit
<1>3. log \in [Workflow -> Seq(Event)] BY DEF GoalInit
<1> QED BY <1>1, <1>2, <1>3, GoalAssumption DEF GoalInit, Typed, GoalTypeOK

\* Files, logs, commands and deliveries keep their types, whatever the commands,
\* the owner and the deliveries do.
THEOREM GoalTyped == GoalSpec => []GoalTypeOK
<1>1. Typed => GoalTypeOK BY DEF Typed
<1> QED BY <1>1, InitTyped, StepTyped, PTL DEF GoalSpec

-----------------------------------------------------------------------------
(***************************************************************************)
(* What one step may do to the files and to the logs.                      *)
(***************************************************************************)
ChildMove(r) ==
  \/ file'[r] = file[r]
  \/ file[r].status = "absent" /\ file'[r] = Created
  \/ /\ ~file[r].linked /\ file[r].status # "absent"
     /\ file'[r] = [file[r] EXCEPT !.linked = TRUE]
  \/ /\ file[r].linked /\ file[r].status \notin Terminal
     /\ \E end \in Ends[r] : file'[r] = [file[r] EXCEPT !.status = end,
          !.result = IF end = "completed_unreported" THEN "pass" ELSE "blocked"]
  \/ file[r].status = "blocked" /\ file'[r] = [file[r] EXCEPT !.status = "running"]
  \/ file[r].status \in Unreported /\ file'[r] = [file[r] EXCEPT !.proof = TRUE]
  \/ /\ file[r].status \in Unreported /\ delivery[r] = "proved"
     /\ file'[r] = [file[r] EXCEPT !.status = "reported"]
ProofMove(r) == delivery'[r] = "proved" => delivery[r] = "proved" \/ file'[r].proof

GoalEnds(p) ==
  /\ At(p, "terminalSave") /\ file["goal"].status \notin Terminal
  /\ \E status \in {"completed_unreported", "failed_unreported"} :
       file'["goal"] = [file["goal"] EXCEPT !.status = status, !.refs = cmd[p].refs,
                          !.accepted = cmd[p].plan]
GoalReported ==
  /\ file["goal"].status \in Unreported
  /\ \/ file'["goal"] = [file["goal"] EXCEPT !.proof = TRUE]
     \/ /\ file'["goal"] = [file["goal"] EXCEPT !.status = "reported"]
        /\ ChildExecutionValid(Reported(file["goal"]))
GoalMove ==
  LET goal == file["goal"]
      new  == file'["goal"]
  IN \/ new = goal
     \/ /\ goal.status \notin Terminal
        /\ \/ new = [goal EXCEPT !.draft = TRUE]
           \/ \E status \in {"waiting_user", "running"} : new = [goal EXCEPT !.status = status]
           \/ \E r \in Role : new = [goal EXCEPT !.kids = @ \cup {r}]
           \/ goal.plan = NoPlan /\ new = [goal EXCEPT !.plan = planFile]
     \/ \E p \in Proc : GoalEnds(p)
     \/ GoalReported

PlanMove == UNCHANGED planFile \/ (file["goal"].plan = NoPlan /\ UNCHANGED file)

\* An event that may be logged now for w.
Fresh(w, e) == \A i \in DOMAIN log[w] : log[w][i] # e
MayLog(w, e) ==
  \/ e.type \in {"artifact", "terminal", "owner_decision"}
  \/ \E r \in Role :
       \/ /\ w = "goal" /\ e = ChildNote("child_creation_intent", r) /\ Fresh(w, e)
       \/ w = r /\ e = ChildNote("parent_linked", r) /\ Fresh(w, e)
       \/ /\ w = "goal" /\ e = ChildNote("child_workflow_created", r) /\ Fresh(w, e)
          /\ LoggedFor("child_creation_intent", r) # {}
          /\ file[r].linked /\ r \in file["goal"].kids /\ Logged(r, "parent_linked") # {}
       \/ \E ref \in Ref :
            /\ w = "goal" /\ e = Collected(r, ref) /\ Fresh(w, e)
            /\ LoggedFor("child_workflow_created", r) # {}
            /\ Past(ref, r) /\ \A k \in CollectedFor(r) : ~Older(ref.status, RefAt(k).status)
  \/ \E plan \in Plan \cup {OwnerPlan} :
       /\ w = "goal" /\ e = Acceptance(plan) /\ Acceptances = {}
       /\ \/ plan = OwnerPlan /\ "plan_accepted" \in Approvals
          \/ plan # NoPlan /\ plan = file["goal"].plan
LogMove ==
  \/ UNCHANGED log
  \/ \E w \in Workflow : \E e \in Event : Log(w, e) /\ MayLog(w, e)

Effect ==
  /\ \A r \in Role : ChildMove(r) /\ ProofMove(r)
  /\ GoalMove /\ PlanMove /\ LogMove

\* A log only grows, and by one event at a time.
LEMMA Appended ==
  ASSUME log \in [Workflow -> Seq(Event)], NEW w \in Workflow, NEW e \in Event, Log(w, e),
         NEW n, n = Len(log[w]) + 1
  PROVE  /\ n \notin DOMAIN log[w] /\ DOMAIN log'[w] = DOMAIN log[w] \cup {n}
         /\ \A i \in DOMAIN log[w] : i \in Nat /\ i < n /\ log'[w][i] = log[w][i]
         /\ log'[w][n] = e /\ n \in Nat
         /\ \A v \in Workflow \ {w} : log'[v] = log[v]
<1>1. log[w] \in Seq(Event) OBVIOUS
<1>2. log' = [log EXCEPT ![w] = Append(log[w], e)] BY DEF Log
<1>3. log'[w] = Append(log[w], e) BY <1>2
<1>4. DOMAIN log[w] = 1 .. Len(log[w]) /\ Len(log[w]) \in Nat BY <1>1
<1>5. DOMAIN Append(log[w], e) = 1 .. n BY <1>1
<1>6. \A i \in 1 .. Len(log[w]) : Append(log[w], e)[i] = log[w][i] BY <1>1
<1>7. Append(log[w], e)[n] = e BY <1>1
<1> QED BY <1>2, <1>3, <1>4, <1>5, <1>6, <1>7

LEMMA LogIndex ==
  ASSUME log \in [Workflow -> Seq(Event)], NEW w \in Workflow, NEW i \in DOMAIN log[w]
  PROVE  i \in Nat /\ log[w][i] \in Event
<1>1. log[w] \in Seq(Event) OBVIOUS
<1> QED BY <1>1

Grown ==
  \A w \in Workflow : \A i \in DOMAIN log[w] : i \in DOMAIN log'[w] /\ log'[w][i] = log[w][i]

LEMMA LogGrows == ASSUME Typed, LogMove PROVE Grown
<1>1. ASSUME NEW w \in Workflow, NEW e \in Event, Log(w, e) PROVE Grown
  <2>1. PICK n : n = Len(log[w]) + 1 OBVIOUS
  <2> QED BY <1>1, <2>1, Appended DEF Grown, Typed
<1> QED BY <1>1 DEF LogMove, Grown

\* What was logged stays logged.
LEMMA StaysLogged ==
  ASSUME Grown
  PROVE  /\ \A type : \A w \in Workflow : Logged(w, type) \subseteq Logged(w, type)'
         /\ \A type : \A r \in Role : LoggedFor(type, r) \subseteq LoggedFor(type, r)'
         /\ \A r \in Role, ref \in Ref : RefIsLogged(r, ref) => RefIsLogged(r, ref)'
<1>0. "goal" \in Workflow BY DEF Workflow
<1>1. ASSUME NEW type, NEW w \in Workflow PROVE Logged(w, type) \subseteq Logged(w, type)'
  BY DEF Grown, Logged
<1>2. ASSUME NEW type, NEW r PROVE LoggedFor(type, r) \subseteq LoggedFor(type, r)'
  BY <1>0 DEF Grown, Logged, LoggedFor
<1>3. ASSUME NEW r, NEW ref, RefIsLogged(r, ref) PROVE RefIsLogged(r, ref)'
  <2>1. PICK k \in CollectedFor(r) : log["goal"][k] = Collected(r, ref)
    BY <1>3 DEF RefIsLogged
  <2>2. k \in CollectedFor(r)' BY <2>1, <1>2 DEF CollectedFor
  <2>3. log'["goal"][k] = Collected(r, ref) BY <1>0, <2>1 DEF Grown, CollectedFor, LoggedFor, Logged
  <2> QED BY <1>3, <2>2, <2>3 DEF RefIsLogged, Collected, ChildNote, Note
<1> QED BY <1>1, <1>2, <1>3

LEMMA Fields ==
  /\ \A type, r : /\ ChildNote(type, r).type = type /\ ChildNote(type, r).role = r
                  /\ Note(type).type = type /\ Note(type).role = "goal"
  /\ \A plan : Acceptance(plan).type = "plan_accepted" /\ Acceptance(plan).plan = plan
  /\ \A r, ref : /\ Collected(r, ref).type = "child_workflow_collected"
                 /\ Collected(r, ref).role = r
                 /\ Collected(r, ref).ref = [ref EXCEPT !.proof = FALSE]
<1>1. \A type : Note(type).type = type /\ Note(type).role = "goal" BY DEF Note
<1>2. \A type, r : ChildNote(type, r).type = type /\ ChildNote(type, r).role = r
  BY DEF ChildNote, Note
<1>3. \A plan : Acceptance(plan).type = "plan_accepted" /\ Acceptance(plan).plan = plan
  BY DEF Acceptance, Note
<1>4. \A r, ref : /\ Collected(r, ref).type = "child_workflow_collected"
                  /\ Collected(r, ref).role = r
                  /\ Collected(r, ref).ref = [ref EXCEPT !.proof = FALSE]
  BY DEF Collected, ChildNote, Note
<1> QED BY <1>1, <1>2, <1>3, <1>4

LEMMA CollectedForm ==
  ASSUME NEW r \in Role, NEW ref \in Ref
  PROVE  /\ Collected(r, Collected(r, ref).ref) = Collected(r, ref)
         /\ Collected(r, ref).ref.status = ref.status /\ Collected(r, ref).ref.result = ref.result
         /\ ~Collected(r, ref).ref.proof
<1>1. Collected(r, ref).ref = [ref EXCEPT !.proof = FALSE] BY Fields
<1>2. [[ref EXCEPT !.proof = FALSE] EXCEPT !.proof = FALSE] = [ref EXCEPT !.proof = FALSE]
      /\ [ref EXCEPT !.proof = FALSE].status = ref.status
      /\ [ref EXCEPT !.proof = FALSE].result = ref.result
      /\ ~[ref EXCEPT !.proof = FALSE].proof
  BY DEF Ref
<1> QED BY <1>1, <1>2 DEF Collected

\* The logs keep their form, their order and their single entries.
LEMMA LogAgreesStep == ASSUME Typed, LogAgrees, LogMove PROVE LogAgrees'
<1>0. log \in [Workflow -> Seq(Event)] /\ "goal" \in Workflow /\ Role \subseteq Workflow
      /\ "goal" \notin Role
  BY GoalAssumption DEF Typed, Workflow
<1>1. CASE UNCHANGED log
  BY <1>1 DEF LogAgrees, Logged, LoggedFor
<1>2. ASSUME NEW w \in Workflow, NEW e \in Event, Log(w, e), MayLog(w, e),
             NEW n, n = Len(log[w]) + 1
      PROVE  LogAgrees'
  <2>1. /\ n \notin DOMAIN log[w] /\ DOMAIN log'[w] = DOMAIN log[w] \cup {n}
        /\ \A i \in DOMAIN log[w] : i \in Nat /\ i < n /\ log'[w][i] = log[w][i]
        /\ log'[w][n] = e /\ n \in Nat
        /\ \A v \in Workflow \ {w} : log'[v] = log[v]
    BY <1>0, <1>2, Appended
  <2>2. /\ e.type \in OncePerRole => w = "goal" /\ e = ChildNote(e.type, e.role) /\ Fresh(w, e)
        /\ e.type = "parent_linked" => w \in Role /\ e = ChildNote("parent_linked", w) /\ Fresh(w, e)
        /\ e.type = "child_workflow_collected" =>
             w = "goal" /\ e = Collected(e.role, e.ref) /\ Fresh(w, e)
        /\ e.type = "child_workflow_created" => LoggedFor("child_creation_intent", e.role) # {}
        /\ e.type = "child_workflow_collected" => LoggedFor("child_workflow_created", e.role) # {}
    BY <1>2, Fields, CollectedForm DEF MayLog, OncePerRole
  <2>3. ASSUME NEW i \in DOMAIN log'["goal"]
        PROVE  LET x == log'["goal"][i] IN
               /\ x.type \in OncePerRole => x = ChildNote(x.type, x.role)
               /\ x.type = "child_workflow_collected" => x = Collected(x.role, x.ref)
    BY <1>0, <2>1, <2>2, <2>3 DEF LogAgrees
  <2>4. ASSUME NEW i \in DOMAIN log'["goal"], NEW j \in DOMAIN log'["goal"],
               log'["goal"][i] = log'["goal"][j],
               log'["goal"][i].type \in OncePerRole \cup {"child_workflow_collected"}
        PROVE  i = j
    <3>1. CASE w = "goal"
      <4>1. i # n /\ j # n => i = j BY <2>1, <2>4, <3>1 DEF LogAgrees
      <4>2. (i = n \/ j = n) => Fresh(w, e) BY <2>1, <2>2, <2>4, <3>1
      <4>3. (i = n /\ j # n) \/ (i # n /\ j = n) => FALSE BY <2>1, <2>4, <3>1, <4>2 DEF Fresh
      <4> QED BY <4>1, <4>3
    <3>2. CASE w # "goal"
      BY <1>0, <2>1, <2>4, <3>2 DEF LogAgrees
    <3> QED BY <3>1, <3>2
  <2>5. ASSUME NEW r \in Role
        PROVE  /\ \A i \in Logged(r, "parent_linked")' : log'[r][i] = ChildNote("parent_linked", r)
               /\ \A i, j \in Logged(r, "parent_linked")' : i = j
    <3>1. CASE w = r
      <4>1. \A i \in Logged(r, "parent_linked")' : log'[r][i] = ChildNote("parent_linked", r)
        BY <2>1, <2>2, <3>1 DEF LogAgrees, Logged
      <4>2. ASSUME NEW i \in Logged(r, "parent_linked")', NEW j \in Logged(r, "parent_linked")'
            PROVE  i = j
        <5>1. log'[r][i] = log'[r][j] /\ log'[r][i].type = "parent_linked"
          BY <4>1, Fields DEF Logged
        <5>2. i # n /\ j # n => i = j BY <2>1, <3>1 DEF LogAgrees, Logged
        <5>3. (i = n \/ j = n) => Fresh(w, e) BY <2>1, <2>2, <3>1, <5>1
        <5>4. (i = n /\ j # n) \/ (i # n /\ j = n) => FALSE
          BY <2>1, <3>1, <5>1, <5>3 DEF Fresh, Logged
        <5> QED BY <5>2, <5>4
      <4> QED BY <4>1, <4>2
    <3>2. CASE w # r
      <4>1. log'[r] = log[r] BY <1>0, <2>1, <3>2
      <4>2. Logged(r, "parent_linked")' = Logged(r, "parent_linked") BY <4>1 DEF Logged
      <4> QED BY <4>1, <4>2 DEF LogAgrees
    <3> QED BY <3>1, <3>2
  <2>6. ASSUME NEW r \in Role, NEW before, NEW after,
               \A j \in LoggedFor(after, r) : \E i \in LoggedFor(before, r) : i < j,
               w = "goal" /\ e.type = after /\ e.role = r => LoggedFor(before, r) # {}
        PROVE  \A j \in LoggedFor(after, r)' : \E i \in LoggedFor(before, r)' : i < j
    <3>1. ASSUME NEW j \in LoggedFor(after, r)' PROVE \E i \in LoggedFor(before, r)' : i < j
      <4>1. CASE j \in DOMAIN log["goal"] /\ log'["goal"][j] = log["goal"][j]
        <5>1. j \in LoggedFor(after, r) BY <3>1, <4>1 DEF LoggedFor, Logged
        <5>2. PICK i \in LoggedFor(before, r) : i < j BY <2>6, <5>1
        <5>3. i \in LoggedFor(before, r)' BY <1>0, <2>1, <5>2 DEF LoggedFor, Logged
        <5> QED BY <5>2, <5>3
      <4>2. CASE w = "goal" /\ j = n
        <5>1. e.type = after /\ e.role = r BY <2>1, <3>1, <4>2 DEF LoggedFor, Logged
        <5>2. PICK i \in LoggedFor(before, r) : TRUE BY <2>6, <4>2, <5>1
        <5>3. i \in DOMAIN log["goal"] BY <5>2 DEF LoggedFor, Logged
        <5>4. i < n /\ i \in LoggedFor(before, r)'
          BY <2>1, <4>2, <5>2, <5>3 DEF LoggedFor, Logged
        <5> QED BY <4>2, <5>4
      <4> QED BY <1>0, <2>1, <3>1, <4>1, <4>2 DEF LoggedFor, Logged
    <3> QED BY <3>1
  <2>7. ASSUME NEW r \in Role
        PROVE  /\ \A j \in LoggedFor("child_workflow_created", r)' :
                    \E i \in LoggedFor("child_creation_intent", r)' : i < j
               /\ \A k \in LoggedFor("child_workflow_collected", r)' :
                    \E j \in LoggedFor("child_workflow_created", r)' : j < k
    BY <2>2, <2>6 DEF LogAgrees
  <2> QED BY <2>3, <2>4, <2>5, <2>7 DEF LogAgrees
<1> QED BY <1>0, <1>1, <1>2 DEF LogMove

\* A child stays linked, and what it was collected as stays true of it.
LEMMA ChildStep ==
  ASSUME Typed, NEW r \in Role, ChildAgrees(r), ChildMove(r), ProofMove(r)
  PROVE  /\ ChildAgrees(r)'
         /\ file[r].linked => file'[r].linked
         /\ \A ref \in Ref : Past(ref, r) => Past(ref, r)'
         /\ file[r].status \in Collectable /\ file[r].status # "blocked" =>
              /\ file'[r].status \in {file[r].status, "reported"} /\ file'[r].result = file[r].result
<1>0. file[r] \in File /\ Ends[r] \subseteq Unreported \cup {"blocked"} /\ "reported" \notin Unreported
  BY GoalAssumption DEF Typed, GoalTypeOK, Workflow, Unreported
<1> DEFINE old == file[r]
           new == file'[r]
<1>1. \/ new = old
      \/ /\ old.status = "absent" /\ new.status = "running" /\ ~new.proof
         /\ new.result = old.result /\ new.linked = old.linked
      \/ /\ ~old.linked /\ old.status # "absent" /\ new.linked
         /\ new.status = old.status /\ new.result = old.result /\ new.proof = old.proof
      \/ /\ old.linked /\ new.linked /\ old.status \notin Terminal
         /\ new.status \in Unreported \cup {"blocked"} /\ new.proof = old.proof
         /\ new.result = IF new.status = "completed_unreported" THEN "pass" ELSE "blocked"
      \/ /\ old.status = "blocked" /\ new.status = "running" /\ new.linked = old.linked
         /\ new.proof = old.proof
      \/ /\ old.status \in Unreported /\ new.status = old.status /\ new.proof
         /\ new.result = old.result /\ new.linked = old.linked
      \/ /\ old.status \in Unreported /\ new.status = "reported" /\ delivery[r] = "proved"
         /\ new.result = old.result /\ new.linked = old.linked /\ new.proof = old.proof
  <2>1. CASE old.status = "absent" /\ new = Created
    <3>1. old = NoFile BY <2>1 DEF ChildAgrees
    <3> QED BY <2>1, <3>1 DEF Created, NoFile
  <2>2. CASE ~old.linked /\ old.status # "absent" /\ new = [old EXCEPT !.linked = TRUE]
    BY <1>0, <2>2 DEF File
  <2>3. ASSUME NEW end \in Ends[r], old.linked, old.status \notin Terminal,
               new = [old EXCEPT !.status = end,
                        !.result = IF end = "completed_unreported" THEN "pass" ELSE "blocked"]
        PROVE  /\ new.linked /\ new.status \in Unreported \cup {"blocked"} /\ new.proof = old.proof
               /\ new.result = IF new.status = "completed_unreported" THEN "pass" ELSE "blocked"
    BY <1>0, <2>3 DEF File
  <2>4. CASE old.status = "blocked" /\ new = [old EXCEPT !.status = "running"]
    BY <1>0, <2>4 DEF File
  <2>5. CASE old.status \in Unreported /\ new = [old EXCEPT !.proof = TRUE]
    BY <1>0, <2>5 DEF File
  <2>6. CASE old.status \in Unreported /\ delivery[r] = "proved"
             /\ new = [old EXCEPT !.status = "reported"]
    BY <1>0, <2>6 DEF File
  <2> QED BY <2>1, <2>2, <2>3, <2>4, <2>5, <2>6 DEF ChildMove
<1>2. new.status = "absent" => new = NoFile
  BY <1>1 DEF ChildAgrees, Unreported
<1>3. delivery'[r] = "proved" => new.proof
  <2>1. old.status = "absent" => ~old.proof BY DEF ChildAgrees, NoFile
  <2> QED BY <1>1, <2>1 DEF ChildAgrees, ProofMove
<1> HIDE DEF old, new
<1>4. /\ new.status \in Collectable => new.linked
      /\ new.status = "completed_unreported" => new.result = "pass"
      /\ new.status \in {"failed_unreported", "blocked"} => new.result = "blocked"
      /\ new.status = "reported" => new.proof
  <2>1. /\ old.status \in Collectable => old.linked
        /\ old.status = "completed_unreported" => old.result = "pass"
        /\ old.status \in {"failed_unreported", "blocked"} => old.result = "blocked"
        /\ old.status = "reported" => old.proof
        /\ delivery[r] = "proved" => old.proof
    BY DEF ChildAgrees, old
  <2> QED BY <1>1, <2>1 DEF Collectable, Terminal, Unreported
<1>5. ChildAgrees(r)' BY <1>2, <1>3, <1>4 DEF ChildAgrees, new
<1>6. old.linked => new.linked BY <1>1 DEF ChildAgrees, NoFile, old
<1>7. ASSUME NEW ref \in Ref, Past(ref, r) PROVE Past(ref, r)'
  BY <1>1, <1>7 DEF Past, Terminal, Unreported, old, new
<1>8. old.status \in Collectable /\ old.status # "blocked" =>
        new.status \in {old.status, "reported"} /\ new.result = old.result
  BY <1>1 DEF Collectable, Terminal, Unreported
<1> QED BY <1>5, <1>6, <1>7, <1>8 DEF old, new

\* The goal keeps its children and its plan, and stays finished.
LEMMA GoalKeeps ==
  ASSUME Typed, GoalMove, PlanIsOnDisk
  PROVE  LET goal == file["goal"]
             new  == file'["goal"]
         IN /\ goal.kids \subseteq new.kids
            /\ goal.plan # NoPlan => new.plan = goal.plan
            /\ goal.status \in Terminal =>
                 /\ new.status \in Terminal /\ new.refs = goal.refs
                 /\ new.accepted = goal.accepted /\ new.plan = goal.plan
            /\ goal.status \notin Terminal /\ new.status \in Terminal =>
                 \E p \in Proc : GoalEnds(p)
            /\ goal.status \in Terminal /\ new # goal => goal.status \in Unreported
            /\ new.plan # goal.plan => new.plan = planFile
<1>0. file["goal"] \in File BY DEF Typed, GoalTypeOK, Workflow
<1> DEFINE goal == file["goal"]
           new == file'["goal"]
<1>1. CASE new = goal BY <1>1
<1>2. CASE goal.status \notin Terminal
             /\ \/ new = [goal EXCEPT !.draft = TRUE]
                \/ \E status \in {"waiting_user", "running"} : new = [goal EXCEPT !.status = status]
                \/ \E r \in Role : new = [goal EXCEPT !.kids = @ \cup {r}]
                \/ goal.plan = NoPlan /\ new = [goal EXCEPT !.plan = planFile]
  BY <1>0, <1>2 DEF File, Terminal, Unreported
<1>3. ASSUME NEW p \in Proc, GoalEnds(p)
      PROVE  goal.status \notin Terminal /\ new.kids = goal.kids /\ new.plan = goal.plan
  BY <1>0, <1>3 DEF GoalEnds, File
<1>4. CASE GoalReported
  BY <1>0, <1>4 DEF GoalReported, File, Terminal
<1> QED BY <1>1, <1>2, <1>3, <1>4 DEF GoalMove

\* An entry that was not there before is the one event this step logs.
LEMMA WhatIsNew ==
  ASSUME Typed, LogMove, NEW type, NEW r, NEW j \in LoggedFor(type, r)',
         j \notin LoggedFor(type, r)
  PROVE  \E e \in Event :
           /\ MayLog("goal", e) /\ e.type = type /\ e.role = r
           /\ log'["goal"][j] = e /\ j \notin DOMAIN log["goal"]
           /\ DOMAIN log'["goal"] = DOMAIN log["goal"] \cup {j} /\ j \in Nat
           /\ \A i \in DOMAIN log["goal"] : i \in Nat /\ i < j /\ log'["goal"][i] = log["goal"][i]
<1>0. log \in [Workflow -> Seq(Event)] /\ "goal" \in Workflow BY DEF Typed, Workflow
<1>1. PICK w \in Workflow, e \in Event : Log(w, e) /\ MayLog(w, e)
  BY DEF LogMove, LoggedFor, Logged
<1>2. PICK n : n = Len(log[w]) + 1 OBVIOUS
<1>3. /\ n \notin DOMAIN log[w] /\ DOMAIN log'[w] = DOMAIN log[w] \cup {n}
      /\ \A i \in DOMAIN log[w] : i \in Nat /\ i < n /\ log'[w][i] = log[w][i]
      /\ log'[w][n] = e /\ n \in Nat
      /\ \A v \in Workflow \ {w} : log'[v] = log[v]
  BY <1>0, <1>1, <1>2, Appended
<1>4. w = "goal" BY <1>0, <1>3 DEF LoggedFor, Logged
<1>5. j = n BY <1>3, <1>4 DEF LoggedFor, Logged
<1> QED BY <1>1, <1>3, <1>4, <1>5 DEF LoggedFor, Logged

LEMMA CreatedStep ==
  ASSUME Typed, Effect, CreatedMeansLinked, PlanIsOnDisk, \A r \in Role : ChildAgrees(r)
  PROVE  CreatedMeansLinked'
<1>1. /\ \A r \in Role : file[r].linked => file'[r].linked
      /\ file["goal"].kids \subseteq file'["goal"].kids
  BY ChildStep, GoalKeeps DEF Effect
<1>2. Grown BY LogGrows DEF Effect
<1>3. ASSUME NEW r \in Role, LoggedFor("child_workflow_created", r)' # {}
      PROVE  /\ LoggedFor("child_creation_intent", r)' # {}
             /\ file'[r].linked /\ r \in file'["goal"].kids
             /\ Logged(r, "parent_linked")' # {}
  <2>1. PICK j \in LoggedFor("child_workflow_created", r)' : TRUE BY <1>3
  <2>2. /\ LoggedFor("child_creation_intent", r) # {}
        /\ file[r].linked /\ r \in file["goal"].kids
        /\ Logged(r, "parent_linked") # {}
    <3>1. CASE j \in LoggedFor("child_workflow_created", r)
      BY <3>1 DEF CreatedMeansLinked
    <3>2. CASE j \notin LoggedFor("child_workflow_created", r)
      <4>1. PICK e \in Event : /\ MayLog("goal", e) /\ e.type = "child_workflow_created"
                               /\ e.role = r
        BY <2>1, <3>2, WhatIsNew DEF Effect
      <4> QED BY <4>1, Fields, GoalAssumption DEF MayLog
    <3> QED BY <3>1, <3>2
  <2>3. /\ Logged(r, "parent_linked") \subseteq Logged(r, "parent_linked")'
        /\ LoggedFor("child_creation_intent", r) \subseteq LoggedFor("child_creation_intent", r)'
    BY <1>2, StaysLogged DEF Workflow
  <2> QED BY <1>1, <2>2, <2>3
<1> QED BY <1>3 DEF CreatedMeansLinked

LEMMA OlderOrSame ==
  ASSUME NEW a \in Ref, NEW b \in Ref, NEW r \in Role, Past(a, r), Past(b, r),
         ~Older(b.status, a.status)
  PROVE  Older(a.status, b.status) \/ (a.status = b.status /\ a.result = b.result)
BY DEF Past, Older, Unreported

\* What was collected of a child is in the order in which the child went on.
LEMMA CollectionStep ==
  ASSUME Typed, Effect, LogAgrees, CollectionAgrees, \A r \in Role : ChildAgrees(r)
  PROVE  CollectionAgrees'
<1>0. log \in [Workflow -> Seq(Event)] /\ "goal" \in Workflow BY DEF Typed, Workflow
<1>1. \A r \in Role : \A ref \in Ref : Past(ref, r) => Past(ref, r)'
  BY ChildStep DEF Effect
<1>2. SUFFICES ASSUME NEW r \in Role
               PROVE  /\ \A k \in CollectedFor(r)' : Past(RefAt(k), r)'
                      /\ \A k, l \in CollectedFor(r)' :
                           k < l => Older(RefAt(k)'.status, RefAt(l)'.status)
  BY DEF CollectionAgrees
<1>3. \A k \in CollectedFor(r) :
        /\ RefAt(k) \in Ref /\ RefAt(k)' = RefAt(k)
        /\ k \in CollectedFor(r)' /\ k \in DOMAIN log["goal"]
        /\ log["goal"][k] = Collected(r, RefAt(k))
  <2> TAKE k \in CollectedFor(r)
  <2>1. /\ k \in DOMAIN log["goal"] /\ log["goal"][k].role = r
        /\ log["goal"][k].type = "child_workflow_collected"
    BY DEF CollectedFor, LoggedFor, Logged
  <2>2. log["goal"][k] \in Event BY <1>0, <2>1, LogIndex
  <2>3. RefAt(k) \in Ref BY <2>2 DEF Event, RefAt
  <2>4. k \in DOMAIN log'["goal"] /\ log'["goal"][k] = log["goal"][k]
    BY <1>0, <2>1, LogGrows DEF Grown, Effect
  <2> QED BY <2>1, <2>3, <2>4 DEF LogAgrees, RefAt, CollectedFor, LoggedFor, Logged
<1>4. ASSUME NEW l \in CollectedFor(r)', l \notin CollectedFor(r)
      PROVE  /\ Past(RefAt(l), r)'
             /\ \A k \in CollectedFor(r) : k < l /\ Older(RefAt(k).status, RefAt(l)'.status)
             /\ CollectedFor(r)' = CollectedFor(r) \cup {l} /\ l \in Nat
  <2>1. PICK e \in Event :
           /\ MayLog("goal", e) /\ e.type = "child_workflow_collected" /\ e.role = r
           /\ log'["goal"][l] = e /\ l \notin DOMAIN log["goal"]
           /\ DOMAIN log'["goal"] = DOMAIN log["goal"] \cup {l} /\ l \in Nat
           /\ \A i \in DOMAIN log["goal"] : i \in Nat /\ i < l /\ log'["goal"][i] = log["goal"][i]
    <3>1. l \in LoggedFor("child_workflow_collected", r)'
          /\ l \notin LoggedFor("child_workflow_collected", r)
      BY <1>4 DEF CollectedFor
    <3> QED BY <3>1, WhatIsNew DEF Effect
  <2>2. PICK ref \in Ref :
          /\ e = Collected(r, ref) /\ Fresh("goal", e) /\ Past(ref, r)
          /\ \A k \in CollectedFor(r) : ~Older(ref.status, RefAt(k).status)
    BY <2>1, Fields, GoalAssumption DEF MayLog
  <2>3. /\ RefAt(l)' = e.ref /\ e.ref \in Ref
        /\ e.ref.status = ref.status /\ e.ref.result = ref.result
    BY <2>1, <2>2, CollectedForm DEF RefAt, Event
  <2>4. Past(e.ref, r) BY <2>2, <2>3 DEF Past
  <2>5. Past(RefAt(l), r)' BY <1>1, <2>3, <2>4
  <2>6. ASSUME NEW k \in CollectedFor(r)
        PROVE  k < l /\ Older(RefAt(k).status, RefAt(l)'.status)
    <3>1. Past(RefAt(k), r) BY DEF CollectionAgrees
    <3>2. \/ Older(RefAt(k).status, ref.status)
          \/ RefAt(k).status = ref.status /\ RefAt(k).result = ref.result
      BY <1>3, <2>2, <3>1, OlderOrSame
    <3>3. ASSUME RefAt(k).status = ref.status, RefAt(k).result = ref.result PROVE FALSE
      <4>1. [RefAt(k) EXCEPT !.proof = FALSE] = [ref EXCEPT !.proof = FALSE]
        BY <1>3, <3>3 DEF Ref
      <4>2. Collected(r, RefAt(k)) = Collected(r, ref) BY <4>1 DEF Collected
      <4> QED BY <1>3, <2>2, <4>2 DEF Fresh
    <3> QED BY <1>3, <2>1, <2>3, <3>2, <3>3
  <2>7. CollectedFor(r)' = CollectedFor(r) \cup {l}
    BY <1>3, <1>4, <2>1 DEF CollectedFor, LoggedFor, Logged
  <2> QED BY <2>1, <2>5, <2>6, <2>7
<1>5. \A k \in CollectedFor(r)' : Past(RefAt(k), r)'
  <2> TAKE k \in CollectedFor(r)'
  <2>1. CASE k \in CollectedFor(r) BY <1>1, <1>3, <2>1 DEF CollectionAgrees
  <2> QED BY <1>4, <2>1
<1>6. \A k, l \in CollectedFor(r)' : k < l => Older(RefAt(k)'.status, RefAt(l)'.status)
  <2> SUFFICES ASSUME NEW k \in CollectedFor(r)', NEW l \in CollectedFor(r)', k < l
               PROVE  Older(RefAt(k)'.status, RefAt(l)'.status)
    OBVIOUS
  <2>1. CASE k \in CollectedFor(r) /\ l \in CollectedFor(r)
    BY <1>3, <2>1 DEF CollectionAgrees
  <2>2. CASE k \in CollectedFor(r) /\ l \notin CollectedFor(r)
    BY <1>3, <1>4, <2>2
  <2>3. CASE k \notin CollectedFor(r)
    <3>1. l = k \/ l \in CollectedFor(r) BY <1>4, <2>3
    <3>2. k \in Nat /\ \A m \in CollectedFor(r) : m < k /\ m \in Nat
      BY <1>0, <1>3, <1>4, <2>3, LogIndex
    <3> QED BY <3>1, <3>2
  <2> QED BY <2>1, <2>2, <2>3
<1> QED BY <1>5, <1>6

-----------------------------------------------------------------------------
(***************************************************************************)
(* The plan, its acceptance and the finished goal.                         *)
(***************************************************************************)
LEMMA PlansDiffer == NoPlan \notin Plan /\ OwnerPlan \notin Plan /\ OwnerPlan # NoPlan
<1>1. PICK r \in Role : TRUE BY SomeRole
<1> QED BY <1>1 DEF Plan, NoPlan, OwnerPlan

LEMMA AcceptedPlanIs ==
  ASSUME AcceptanceAgrees
  PROVE  /\ Acceptances = {} => AcceptedPlan = NoPlan
         /\ \A i \in Acceptances :
              /\ Acceptances = {i} /\ AcceptedPlan = log["goal"][i].plan
              /\ AcceptedPlan # NoPlan
<1>1. Acceptances = {} => AcceptedPlan = NoPlan BY DEF AcceptedPlan, Acceptances
<1>2. ASSUME NEW i \in Acceptances
      PROVE  Acceptances = {i} /\ AcceptedPlan = log["goal"][i].plan /\ AcceptedPlan # NoPlan
  <2>1. Acceptances = {i} BY DEF AcceptanceAgrees
  <2>2. AcceptedPlan = log["goal"][i].plan BY <2>1 DEF AcceptedPlan, Acceptances
  <2>3. log["goal"][i].plan # NoPlan BY PlansDiffer DEF AcceptanceAgrees
  <2> QED BY <2>1, <2>2, <2>3
<1> QED BY <1>1, <1>2

\* An acceptance logged now is the first, and every other stays.
LEMMA AcceptancesMove ==
  ASSUME Typed, LogMove
  PROVE  \/ /\ Acceptances' = Acceptances
            /\ \A i \in Acceptances : log'["goal"][i] = log["goal"][i]
         \/ /\ Acceptances = {}
            /\ \E n, plan : /\ Acceptances' = {n} /\ log'["goal"][n].plan = plan
                            /\ \/ plan = OwnerPlan /\ "plan_accepted" \in Approvals
                               \/ plan # NoPlan /\ plan = file["goal"].plan
<1>0. log \in [Workflow -> Seq(Event)] /\ "goal" \in Workflow BY DEF Typed, Workflow
<1>1. CASE UNCHANGED log BY <1>1 DEF Acceptances, Logged
<1>2. ASSUME NEW w \in Workflow, NEW e \in Event, Log(w, e), MayLog(w, e),
             NEW n, n = Len(log[w]) + 1
      PROVE  \/ /\ Acceptances' = Acceptances
                /\ \A i \in Acceptances : log'["goal"][i] = log["goal"][i]
             \/ /\ Acceptances = {}
                /\ \E m, plan : /\ Acceptances' = {m} /\ log'["goal"][m].plan = plan
                                /\ \/ plan = OwnerPlan /\ "plan_accepted" \in Approvals
                                   \/ plan # NoPlan /\ plan = file["goal"].plan
  <2>1. /\ n \notin DOMAIN log[w] /\ DOMAIN log'[w] = DOMAIN log[w] \cup {n}
        /\ \A i \in DOMAIN log[w] : i \in Nat /\ i < n /\ log'[w][i] = log[w][i]
        /\ log'[w][n] = e /\ n \in Nat
        /\ \A v \in Workflow \ {w} : log'[v] = log[v]
    BY <1>0, <1>2, Appended
  <2>2. CASE e.type # "plan_accepted" \/ w # "goal"
    <3>1. Acceptances' = Acceptances BY <1>0, <2>1, <2>2 DEF Acceptances, Logged
    <3>2. \A i \in Acceptances : log'["goal"][i] = log["goal"][i]
      BY <1>0, <2>1, <2>2 DEF Acceptances, Logged
    <3> QED BY <3>1, <3>2
  <2>3. CASE e.type = "plan_accepted" /\ w = "goal"
    <3>1. PICK plan \in Plan \cup {OwnerPlan} :
            /\ e = Acceptance(plan) /\ Acceptances = {}
            /\ \/ plan = OwnerPlan /\ "plan_accepted" \in Approvals
               \/ plan # NoPlan /\ plan = file["goal"].plan
      BY <1>2, <2>3, Fields DEF MayLog
    <3>2. Acceptances' = {n} BY <2>1, <2>3, <3>1 DEF Acceptances, Logged
    <3>3. log'["goal"][n].plan = plan BY <2>1, <2>3, <3>1, Fields
    <3> QED BY <3>1, <3>2, <3>3
  <2> QED BY <2>2, <2>3
<1> QED BY <1>1, <1>2 DEF LogMove

LEMMA AcceptanceStep ==
  ASSUME Typed, Effect, AcceptanceAgrees, PlanIsOnDisk
  PROVE  /\ AcceptanceAgrees' /\ PlanIsOnDisk'
         /\ AcceptedPlan # NoPlan => AcceptedPlan' = AcceptedPlan
<1>1. file["goal"].plan # NoPlan => file'["goal"].plan = file["goal"].plan
  BY GoalKeeps DEF Effect
<1>2. PlanIsOnDisk'
  <2>1. file'["goal"].plan # file["goal"].plan => file'["goal"].plan = planFile
    BY GoalKeeps DEF Effect
  <2> QED BY <1>1, <2>1 DEF PlanIsOnDisk, Effect, PlanMove
<1>3. CASE Acceptances' = Acceptances /\ \A i \in Acceptances : log'["goal"][i] = log["goal"][i]
  <2>1. AcceptanceAgrees' BY <1>1, <1>3 DEF AcceptanceAgrees
  <2>2. ASSUME NEW i \in Acceptances PROVE AcceptedPlan' = AcceptedPlan
    <3>1. Acceptances = {i} BY <2>2, AcceptedPlanIs
    <3> QED BY <1>3, <3>1 DEF AcceptedPlan, Acceptances
  <2>3. AcceptedPlan # NoPlan => \E i \in Acceptances : TRUE BY AcceptedPlanIs
  <2> QED BY <1>2, <2>1, <2>2, <2>3
<1>4. CASE /\ Acceptances = {}
           /\ \E n, plan : /\ Acceptances' = {n} /\ log'["goal"][n].plan = plan
                           /\ \/ plan = OwnerPlan /\ "plan_accepted" \in Approvals
                              \/ plan # NoPlan /\ plan = file["goal"].plan
  <2>1. AcceptanceAgrees' BY <1>1, <1>4 DEF AcceptanceAgrees
  <2>2. AcceptedPlan = NoPlan BY <1>4, AcceptedPlanIs
  <2> QED BY <1>2, <2>1, <2>2
<1> QED BY <1>3, <1>4, AcceptancesMove DEF Effect

LEMMA FinishedStep ==
  ASSUME Typed, Effect, AcceptanceAgrees, PlanIsOnDisk, FinishedAgrees,
         \A p \in Proc : CollectingAgrees(p) /\ PlanAgrees(p)
  PROVE  FinishedAgrees'
<1>0. file["goal"] \in File /\ cmd \in [Proc -> Cmd] BY DEF Typed, GoalTypeOK, Workflow
<1>1. Grown BY LogGrows DEF Effect
<1>2. AcceptedPlan # NoPlan => AcceptedPlan' = AcceptedPlan BY AcceptanceStep
<1>3. SUFFICES ASSUME file'["goal"].status \in Terminal
               PROVE  LET goal == file'["goal"] IN
                      /\ \A r \in Role : RefIsLogged(r, file["goal"].refs[r])'
                      /\ StateValid(goal.refs)
                      /\ goal.accepted = goal.plan /\ goal.plan = Rendered(goal.refs)
                      /\ AcceptedPlan' = goal.plan
  BY DEF FinishedAgrees, StateValid, Rendered
<1>4. CASE file["goal"].status \in Terminal
  <2>1. /\ file'["goal"].refs = file["goal"].refs /\ file'["goal"].plan = file["goal"].plan
        /\ file'["goal"].accepted = file["goal"].accepted
    BY <1>4, GoalKeeps DEF Effect
  <2>2. file["goal"].plan # NoPlan /\ \A r \in Role : file["goal"].refs[r] \in Ref
    BY <1>0, <1>4, RenderedTyped, PlansDiffer DEF FinishedAgrees, File
  <2>3. ASSUME NEW r \in Role PROVE RefIsLogged(r, file["goal"].refs[r])'
    <3>1. PICK ref : ref = file["goal"].refs[r] OBVIOUS
    <3>2. RefIsLogged(r, ref)' BY <1>1, <1>4, <2>2, <3>1, StaysLogged DEF FinishedAgrees
    <3> QED BY <2>1, <3>1, <3>2 DEF RefIsLogged
  <2> QED BY <1>2, <1>4, <2>1, <2>2, <2>3 DEF FinishedAgrees
<1>5. CASE file["goal"].status \notin Terminal
  <2>1. PICK p \in Proc : GoalEnds(p) BY <1>3, <1>5, GoalKeeps DEF Effect
  <2>2. /\ At(p, "terminalSave") /\ Done(p) = Role /\ cmd[p].refs \in [Role -> Ref]
    BY <1>0, <2>1 DEF GoalEnds, At, Done, Cmd, Planning, Accepting, Ending
  <2>3. /\ file'["goal"].refs = cmd[p].refs /\ file'["goal"].accepted = cmd[p].plan
        /\ file'["goal"].plan = file["goal"].plan
    BY <1>0, <2>1 DEF GoalEnds, File
  <2>4. /\ cmd[p].plan = file["goal"].plan /\ planFile = Rendered(cmd[p].refs)
        /\ cmd[p].plan = planFile
        /\ StateValid(cmd[p].refs) /\ AcceptedPlan = cmd[p].plan
    BY <2>2 DEF PlanAgrees, At, Planning, Accepting, Ending
  <2>5. AcceptedPlan' = AcceptedPlan
    BY <1>2, <2>4, RenderedTyped, PlansDiffer
  <2>6. ASSUME NEW r \in Role PROVE RefIsLogged(r, file["goal"].refs[r])'
    <3>1. PICK ref : ref = cmd[p].refs[r] OBVIOUS
    <3>2. RefIsLogged(r, ref)' BY <1>1, <2>2, <3>1, StaysLogged DEF CollectingAgrees
    <3> QED BY <2>3, <3>1, <3>2 DEF RefIsLogged
  <2> QED BY <2>3, <2>4, <2>5, <2>6
<1> QED BY <1>4, <1>5

-----------------------------------------------------------------------------
(***************************************************************************)
(* What a command knows of itself.                                         *)
(***************************************************************************)
OwnAgrees(p) == CopyAgrees(p) /\ StageAgrees(p) /\ CollectingAgrees(p) /\ PlanAgrees(p)

Inv == OneCommand /\ Typed /\ GoalAgrees

\* What a step leaves to be shown: its effect, the locks, and the command's own part.
LEMMA StepAgrees ==
  ASSUME Inv, Effect, LocksAgree', \A p \in Proc : OwnAgrees(p)'
  PROVE  GoalAgrees'
<1>1. Typed /\ GoalAgrees BY DEF Inv
<1>2. LogAgrees' BY <1>1, LogAgreesStep DEF GoalAgrees, Effect
<1>3. CreatedMeansLinked' BY <1>1, CreatedStep DEF GoalAgrees
<1>4. CollectionAgrees' BY <1>1, CollectionStep DEF GoalAgrees
<1>5. PlanIsOnDisk' /\ AcceptanceAgrees' BY <1>1, AcceptanceStep DEF GoalAgrees
<1>6. FinishedAgrees' BY <1>1, FinishedStep DEF GoalAgrees
<1>7. \A r \in Role : ChildAgrees(r)' BY <1>1, ChildStep DEF GoalAgrees, Effect
<1> QED BY <1>2, <1>3, <1>4, <1>5, <1>6, <1>7 DEF GoalAgrees, OwnAgrees

\* A finished goal has all its children.
LEMMA FinishedHasChildren ==
  ASSUME GoalAgrees, file["goal"].status \in Terminal, NEW r \in Role
  PROVE  /\ r \in file["goal"].kids /\ file[r].linked
         /\ LoggedFor("child_creation_intent", r) # {}
         /\ LoggedFor("child_workflow_created", r) # {}
         /\ Logged(r, "parent_linked") # {}
<1>1. CollectedFor(r) # {} BY DEF GoalAgrees, FinishedAgrees, RefIsLogged
<1>2. LoggedFor("child_workflow_created", r) # {}
  BY <1>1 DEF GoalAgrees, LogAgrees, CollectedFor
<1> QED BY <1>2 DEF GoalAgrees, CreatedMeansLinked

\* The move of a command that keeps its child, its refs and its plan.
Turn(p, s) ==
  /\ cmd'[p].step = s /\ cmd'[p].k = cmd[p].k
  /\ cmd'[p].refs = cmd[p].refs /\ cmd'[p].plan = cmd[p].plan

LEMMA Turned ==
  ASSUME cmd \in [Proc -> Cmd], NEW p \in Proc
  PROVE  /\ \A s : Go(p, s) => Turn(p, s) /\ cmd'[p].copy = cmd[p].copy
         /\ \A w, s : Load(p, w, s) => Turn(p, s) /\ cmd'[p].copy = file[w]
         /\ \A w, copy, s : Enter(p, w, copy, s) => Turn(p, s) /\ cmd'[p].copy = copy
         /\ Quit(p) => cmd'[p] = NoCmd
<1>1. ASSUME NEW s, NEW copy, cmd' = [cmd EXCEPT ![p].step = s, ![p].copy = copy]
      PROVE  Turn(p, s) /\ cmd'[p].copy = copy
  BY <1>1 DEF Turn, Cmd
<1>2. ASSUME NEW s, Go(p, s) PROVE Turn(p, s) /\ cmd'[p].copy = cmd[p].copy
  BY <1>2 DEF Go, Turn, Cmd
<1>3. ASSUME NEW s, NEW w, Load(p, w, s) PROVE Turn(p, s) /\ cmd'[p].copy = file[w]
  BY <1>1, <1>3 DEF Load
<1>4. ASSUME NEW s, NEW w, NEW copy, Enter(p, w, copy, s)
      PROVE  Turn(p, s) /\ cmd'[p].copy = copy
  BY <1>1, <1>4 DEF Enter
<1>5. Quit(p) => cmd'[p] = NoCmd BY DEF Quit
<1> QED BY <1>2, <1>3, <1>4, <1>5

LEMMA SameChild == ASSUME NEW p \in Proc, cmd'[p].k = cmd[p].k PROVE Child(p)' = Child(p)
BY DEF Child

\* A command that is done, or died, knows nothing.
LEMMA IdleAgrees ==
  ASSUME NEW p \in Proc, cmd'[p] = NoCmd
  PROVE  OwnAgrees(p)' /\ \A w \in Workflow : ~InSection(p, w)'
<1>1. cmd'[p].step = "idle" /\ cmd'[p].k = 1 BY DEF NoCmd
<1>2. Done(p)' = {} BY <1>1 DEF Done, Planning, Accepting, Ending
<1>3. CopyAgrees(p)' BY <1>1 DEF CopyAgrees, At, GoalSection
<1>4. StageAgrees(p)'
  BY <1>1 DEF StageAgrees, Reached, Linking, LinkedStep, Adopting, Adopted, Collecting
<1>5. CollectingAgrees(p)' BY <1>1, <1>2 DEF CollectingAgrees, At
<1>6. PlanAgrees(p)' BY <1>1 DEF PlanAgrees, Planning, Accepting, Ending
<1> QED BY <1>1, <1>3, <1>4, <1>5, <1>6 DEF OwnAgrees, InSection, At, GoalSection

\* Most steps carry nothing to be saved.
LEMMA PlainCopy ==
  ASSUME NEW p \in Proc, cmd'[p].step \notin GoalSection \cup {"adoptSave", "link", "finishSave"}
  PROVE  CopyAgrees(p)' /\ \A w \in Workflow : ~InSection(p, w)'
<1>1. CopyAgrees(p)' BY DEF CopyAgrees, At, GoalSection
<1> QED BY <1>1 DEF InSection, At

\* What a command has reached stays reached.
LEMMA Steady ==
  ASSUME Inv, Effect, NEW r \in Role
  PROVE  /\ \A s : Reached(s, r) => Reached(s, r)'
         /\ file[r].linked => file'[r].linked
         /\ r \in file["goal"].kids => r \in file'["goal"].kids
         /\ \A type : LoggedFor(type, r) # {} => LoggedFor(type, r)' # {}
         /\ \A type : Logged(r, type) # {} => Logged(r, type)' # {}
         /\ \A ref \in Ref : Past(ref, r) => Past(ref, r)'
         /\ \A ref \in Ref : RefIsLogged(r, ref) => RefIsLogged(r, ref)'
<1>1. Typed /\ ChildAgrees(r) /\ PlanIsOnDisk BY DEF Inv, GoalAgrees
<1>2. /\ file[r].linked => file'[r].linked
      /\ \A ref \in Ref : Past(ref, r) => Past(ref, r)'
  BY <1>1, ChildStep DEF Effect
<1>3. file["goal"].kids \subseteq file'["goal"].kids BY <1>1, GoalKeeps DEF Effect
<1>4. Grown BY <1>1, LogGrows DEF Effect
<1>5. /\ \A type : LoggedFor(type, r) \subseteq LoggedFor(type, r)'
      /\ \A type : Logged(r, type) \subseteq Logged(r, type)'
      /\ \A ref \in Ref : RefIsLogged(r, ref) => RefIsLogged(r, ref)'
  BY <1>4, StaysLogged DEF Workflow
<1>6. ASSUME NEW s, Reached(s, r) PROVE Reached(s, r)'
  <2>1. /\ LoggedFor("child_creation_intent", r) # {} => LoggedFor("child_creation_intent", r)' # {}
        /\ LoggedFor("child_workflow_created", r) # {} => LoggedFor("child_workflow_created", r)' # {}
        /\ Logged(r, "parent_linked") # {} => Logged(r, "parent_linked")' # {}
    BY <1>5
  <2> QED BY <1>2, <1>3, <1>6, <2>1 DEF Reached
<1> QED BY <1>2, <1>3, <1>5, <1>6

LEMMA DoneStays ==
  ASSUME Inv, Effect, NEW p \in Proc, Done(p)' \subseteq Done(p), cmd'[p].refs = cmd[p].refs
  PROVE  \A r \in Done(p)' : RefIsLogged(r, cmd[p].refs[r])'
<1> SUFFICES ASSUME NEW r \in Done(p)' PROVE RefIsLogged(r, cmd[p].refs[r])' OBVIOUS
<1>1. PICK ref : ref = cmd[p].refs[r] OBVIOUS
<1>2. r \in Role /\ ref \in Ref
  BY <1>1, SomeRole DEF Inv, Typed, GoalTypeOK, Cmd, Done
<1>3. RefIsLogged(r, ref) BY <1>1 DEF Inv, GoalAgrees, CollectingAgrees
<1>4. RefIsLogged(r, ref)' BY <1>2, <1>3, Steady
<1> QED BY <1>1, <1>4 DEF RefIsLogged

LEMMA CollectingStays ==
  ASSUME Inv, Effect, NEW p \in Proc, NEW s, Turn(p, s), s # "collected",
         s \in {"plan"} \cup Planning => cmd[p].step \in {"plan"} \cup Planning
  PROVE  CollectingAgrees(p)'
<1>1. Done(p)' \subseteq Done(p)
  <2>1. cmd[p].k \in 1 .. Len(Roles) BY DEF Inv, Typed, GoalTypeOK, Cmd
  <2>2. \A i \in 1 .. cmd[p].k - 1 : Roles[i] \in Role BY <2>1, SomeRole
  <2> QED BY <2>2 DEF Done, Turn
<1>2. \A r \in Done(p)' : RefIsLogged(r, cmd[p].refs[r])' BY <1>1, DoneStays DEF Turn
<1> QED BY <1>2 DEF CollectingAgrees, At, Turn

LEMMA PlanStays ==
  ASSUME Inv, Effect, NEW p \in Proc, NEW s, Turn(p, s), UNCHANGED planFile,
         cmd[p].step # "idle", file'["goal"].plan = file["goal"].plan,
         s \in Planning => cmd[p].step \in Planning,
         s \in Accepting => cmd[p].step \in Accepting,
         s \in Ending => cmd[p].step \in Ending
  PROVE  PlanAgrees(p)'
<1>1. PlanAgrees(p) BY DEF Inv, GoalAgrees
<1>2. Rendered(cmd[p].refs)' = Rendered(cmd[p].refs) BY DEF Turn, Rendered, Outcome
<1>3. StateValid(cmd[p].refs)' <=> StateValid(cmd[p].refs) BY DEF Turn, StateValid
<1>4. cmd[p].step \in Ending => AcceptedPlan' = AcceptedPlan
  <2>1. cmd[p].step \in Ending => AcceptedPlan # NoPlan
    BY <1>1, RenderedTyped, PlansDiffer DEF PlanAgrees, Planning, Accepting
  <2> QED BY <2>1, AcceptanceStep DEF Inv, GoalAgrees
<1> QED BY <1>1, <1>2, <1>3, <1>4 DEF PlanAgrees, Turn

\* Locks taken, given back and left alone.
LEMMA LocksStay ==
  ASSUME Inv, NEW p \in Proc, lock' = lock,
         \A w \in Workflow : ~InSection(p, w) /\ ~InSection(p, w)'
  PROVE  LocksAgree'
BY DEF Inv, GoalAgrees, LocksAgree, OneCommand

LEMMA LockTaken ==
  ASSUME Inv, NEW p \in Proc, NEW w \in Workflow, lock' = [lock EXCEPT ![w] = p],
         \A v \in Workflow : ~InSection(p, v),
         \A v \in Workflow : InSection(p, v)' <=> v = w
  PROVE  LocksAgree'
BY DEF Inv, GoalAgrees, LocksAgree, OneCommand, Typed, GoalTypeOK

LEMMA LockReleased ==
  ASSUME Inv, NEW p \in Proc, NEW w \in Workflow, lock' = [lock EXCEPT ![w] = Nobody],
         \A v \in Workflow : v # w => ~InSection(p, v),
         \A v \in Workflow : ~InSection(p, v)'
  PROVE  LocksAgree'
BY GoalAssumption DEF Inv, GoalAgrees, LocksAgree, OneCommand, Typed, GoalTypeOK

-----------------------------------------------------------------------------
(***************************************************************************)
(* The steps of a command, one by one.                                     *)
(***************************************************************************)
LEMMA Untouched ==
  ASSUME UNCHANGED <<file, delivery>>
  PROVE  GoalMove /\ \A r \in Role : ChildMove(r) /\ ProofMove(r)
BY DEF GoalMove, ChildMove, ProofMove

LEMMA LoggedOnce ==
  ASSUME Inv, NEW p \in Proc, NEW w \in Workflow, NEW e \in Event, NEW then,
         LogOnce(p, w, e, then), Fresh(w, e) => MayLog(w, e)
  PROVE  LogMove /\ then /\ \E i \in DOMAIN log'[w] : log'[w][i] = e
<1>1. CASE e \notin ToSet(log[w]) /\ Log(w, e) /\ then
  <2>1. Fresh(w, e) BY <1>1 DEF ToSet, Fresh
  <2>2. PICK n : n = Len(log[w]) + 1 OBVIOUS
  <2>3. n \in DOMAIN log'[w] /\ log'[w][n] = e BY <1>1, <2>2, Appended DEF Inv, Typed
  <2> QED BY <1>1, <2>1, <2>3 DEF LogMove
<1>2. CASE e \in ToSet(log[w]) /\ then /\ UNCHANGED log
  BY <1>2 DEF ToSet, LogMove
<1> QED BY <1>1, <1>2 DEF LogOnce, Inv, OneCommand

LEMMA IsLoggedFor ==
  ASSUME NEW type, NEW r \in Role, \E i \in DOMAIN log'["goal"] : log'["goal"][i] = ChildNote(type, r)
  PROVE  LoggedFor(type, r)' # {}
BY Fields DEF LoggedFor, Logged

LEMMA QuitAgrees ==
  ASSUME Inv, NEW p \in Proc, Quit(p), \A w \in Workflow : ~InSection(p, w),
         UNCHANGED <<file, log, planFile, lock, delivery>>
  PROVE  GoalAgrees'
<1>1. cmd'[p] = NoCmd BY Turned DEF Inv, Typed, GoalTypeOK
<1>2. Effect BY Untouched DEF Effect, LogMove, PlanMove
<1>3. LocksAgree' BY <1>1, IdleAgrees, LocksStay
<1>4. \A q \in Proc : OwnAgrees(q)' BY <1>1, IdleAgrees DEF Inv, OneCommand
<1> QED BY <1>2, <1>3, <1>4, StepAgrees

\* A step of p that leaves every file, every lock and the plan alone.
LEMMA PlainAgrees ==
  ASSUME Inv, NEW p \in Proc, NEW s, Turn(p, s), cmd[p].step # "idle",
         UNCHANGED <<file, planFile, lock, delivery>>, LogMove,
         \A w \in Workflow : ~InSection(p, w),
         s \notin GoalSection \cup {"adoptSave", "link", "finishSave", "collected"},
         s \in {"plan"} \cup Planning => cmd[p].step \in {"plan"} \cup Planning,
         s \in Planning => cmd[p].step \in Planning,
         s \in Accepting => cmd[p].step \in Accepting,
         s \in Ending => cmd[p].step \in Ending,
         Reached(s, Child(p))'
  PROVE  GoalAgrees'
<1>1. Effect BY Untouched DEF Effect, PlanMove
<1>2. CopyAgrees(p)' /\ LocksAgree' BY PlainCopy, LocksStay DEF Turn
<1>3. CollectingAgrees(p)' BY <1>1, CollectingStays
<1>4. PlanAgrees(p)' BY <1>1, PlanStays
<1>5. StageAgrees(p)' BY DEF StageAgrees, Turn
<1>6. \A q \in Proc : OwnAgrees(q)' BY <1>2, <1>3, <1>4, <1>5 DEF OwnAgrees, Inv, OneCommand
<1> QED BY <1>1, <1>2, <1>6, StepAgrees

LEMMA NotInSection ==
  ASSUME NEW p \in Proc, cmd[p].step \notin GoalSection, cmd[p].step # "finishSave"
  PROVE  \A w \in Workflow : ~InSection(p, w)
BY DEF InSection, At

\* A locked section of record_checkpoint is entered with a copy that will do, or
\* the command raises.
LEMMA BeginAgrees ==
  ASSUME Inv, NEW p \in Proc, NEW w \in Workflow, NEW copy \in File, NEW s,
         CheckpointBegin(p, w, copy, s), cmd[p].step # "idle",
         \A v \in Workflow : ~InSection(p, v),
         \/ w = "goal" /\ s \in GoalSection
         \/ w = Child(p) /\ s = "finishSave",
         Turn(p, s) /\ cmd'[p].copy = copy /\ file[w].status \notin Terminal
            /\ UNCHANGED <<file, planFile>> => CopyAgrees(p)',
         s \in {"plan"} \cup Planning => cmd[p].step \in {"plan"} \cup Planning,
         s \in Planning => cmd[p].step \in Planning,
         s \in Accepting => cmd[p].step \in Accepting,
         s \in Ending => cmd[p].step \in Ending,
         UNCHANGED <<file, log>> => Reached(s, Child(p))'
  PROVE  GoalAgrees'
<1>1. UNCHANGED <<file, log, planFile, delivery>> BY DEF CheckpointBegin
<1>2. CASE Quit(p) /\ UNCHANGED lock BY <1>1, <1>2, QuitAgrees
<1>3. CASE CheckpointMay(w, copy.status) /\ Enter(p, w, copy, s)
  <2>1. Effect BY <1>1, Untouched DEF Effect, LogMove, PlanMove
  <2>2. Turn(p, s) /\ cmd'[p].copy = copy BY <1>3, Turned DEF Inv, Typed, GoalTypeOK
  <2>3. file[w].status \notin Terminal BY <1>3 DEF CheckpointMay
  <2>4. CopyAgrees(p)' BY <1>1, <2>2, <2>3
  <2>5. LocksAgree'
    <3>1. Child(p)' = Child(p) BY <2>2, SameChild DEF Turn
    <3>2. \A v \in Workflow : InSection(p, v)' <=> v = w
      BY <2>2, <3>1, ChildIsRole DEF InSection, At, Turn, GoalSection, Inv, Typed, GoalTypeOK
    <3>3. lock' = [lock EXCEPT ![w] = p] BY <1>3 DEF Enter
    <3> QED BY <3>2, <3>3, LockTaken
  <2>6. CollectingAgrees(p)'
    <3>1. s # "collected" BY DEF GoalSection
    <3> QED BY <2>1, <2>2, <3>1, CollectingStays
  <2>7. PlanAgrees(p)' BY <1>1, <2>1, <2>2, PlanStays
  <2>8. StageAgrees(p)' BY <1>1, <2>2 DEF StageAgrees, Turn
  <2>9. \A q \in Proc : OwnAgrees(q)'
    BY <2>4, <2>6, <2>7, <2>8 DEF OwnAgrees, Inv, OneCommand
  <2> QED BY <2>1, <2>5, <2>9, StepAgrees
<1> QED BY <1>2, <1>3 DEF CheckpointBegin

\* A locked section ends: what it saves is what CopyAgrees says.
LEMMA SaveAgrees ==
  ASSUME Inv, NEW p \in Proc, NEW w \in Workflow, SaveAndRelease(p, w), InSection(p, w),
         UNCHANGED <<planFile, delivery>>, LogMove,
         w = "goal" => GoalMove, w # "goal" => ChildMove(w),
         cmd'[p].step \notin GoalSection \cup {"adoptSave", "link", "finishSave"},
         Effect => StageAgrees(p)' /\ CollectingAgrees(p)' /\ PlanAgrees(p)'
  PROVE  GoalAgrees'
<1>1. /\ file' = [file EXCEPT ![w] = cmd[p].copy] /\ lock' = [lock EXCEPT ![w] = Nobody]
      /\ file \in [Workflow -> File] /\ Role \subseteq Workflow /\ "goal" \notin Role
  BY GoalAssumption DEF SaveAndRelease, Inv, Typed, GoalTypeOK, Workflow
<1>2. \A v \in Workflow : v # w => file'[v] = file[v] BY <1>1
<1>3. Effect
  <2>1. GoalMove BY <1>2 DEF GoalMove, Workflow
  <2>2. ASSUME NEW r \in Role PROVE ChildMove(r)
    <3>1. CASE r = w BY <1>1, <3>1
    <3>2. CASE r # w BY <1>1, <1>2, <3>2 DEF ChildMove
    <3> QED BY <3>1, <3>2
  <2> QED BY <2>1, <2>2 DEF Effect, ProofMove, PlanMove
<1>4. CopyAgrees(p)' /\ \A v \in Workflow : ~InSection(p, v)' BY PlainCopy
<1>5. \A v \in Workflow : v # w => ~InSection(p, v)
  BY DEF InSection, At, GoalSection
<1>6. LocksAgree' BY <1>1, <1>4, <1>5, LockReleased
<1>7. \A q \in Proc : OwnAgrees(q)' BY <1>3, <1>4 DEF OwnAgrees, Inv, OneCommand
<1> QED BY <1>3, <1>6, <1>7, StepAgrees

LEMMA NoteMayBeLogged ==
  ASSUME Typed, NEW w \in Workflow, NEW type \in {"artifact", "terminal"},
         UNCHANGED log \/ Log(w, Note(type))
  PROVE  LogMove
<1>1. Note(type) \in Event BY NoteTyped
<1>2. MayLog(w, Note(type)) BY Fields DEF MayLog
<1> QED BY <1>1, <1>2 DEF LogMove

LEMMA StartAgrees == ASSUME Inv, NEW p \in Proc, GoalStart(p) PROVE GoalAgrees'
<1>0. cmd \in [Proc -> Cmd] BY DEF Inv, Typed, GoalTypeOK
<1>1. /\ cmd'[p].step \in {"draft", "resume", "intent"} /\ cmd'[p].k = 1
      /\ cmd'[p].plan = file["goal"].plan
  BY <1>0 DEF GoalStart, NoCmd
<1>2. UNCHANGED <<file, log, planFile, lock, delivery>> /\ cmd[p].step = "idle"
  BY DEF GoalStart, At
<1>3. Effect BY <1>2, Untouched DEF Effect, LogMove, PlanMove
<1>4. CopyAgrees(p)' /\ LocksAgree'
  BY <1>1, <1>2, NotInSection, PlainCopy, LocksStay DEF GoalSection
<1>5. StageAgrees(p)'
  BY <1>1 DEF StageAgrees, Reached, Linking, LinkedStep, Adopting, Adopted, Collecting
<1>6. CollectingAgrees(p)'
  <2>1. Done(p)' = {} BY <1>1 DEF Done, Planning, Accepting, Ending
  <2> QED BY <1>1, <2>1 DEF CollectingAgrees, At
<1>7. PlanAgrees(p)' BY <1>1, <1>2 DEF PlanAgrees, Planning, Accepting, Ending
<1>8. \A q \in Proc : OwnAgrees(q)' BY <1>4, <1>5, <1>6, <1>7 DEF OwnAgrees, Inv, OneCommand
<1> QED BY <1>3, <1>4, <1>8, StepAgrees

\* Steps of the draft: nothing of a child is reached in them.
LEMMA NothingReached ==
  ASSUME NEW s, s \notin Linking \cup LinkedStep \cup Adopting \cup Adopted \cup Collecting
  PROVE  \A c : Reached(s, c) /\ Reached(s, c)'
BY DEF Reached

LEMMA DraftRegisterAgrees == ASSUME Inv, NEW p \in Proc, DraftRegister(p) PROVE GoalAgrees'
<1>0. /\ cmd \in [Proc -> Cmd] /\ Typed /\ "goal" \in Workflow
      /\ file["goal"] \in File /\ lock \in [Workflow -> Proc \cup {Nobody}]
  BY DEF Inv, Typed, GoalTypeOK, Workflow
<1>1. UNCHANGED <<planFile, pending, delivery, crashes>> BY DEF DraftRegister
<1>2. CASE At(p, "draft") /\ Go(p, "wait") /\ UNCHANGED <<file, log, lock>>
  <2>1. Turn(p, "wait") BY <1>0, <1>2, Turned
  <2>2. Reached("wait", Child(p))'
    BY NothingReached DEF Linking, LinkedStep, Adopting, Adopted, Collecting
  <2>3. \A w \in Workflow : ~InSection(p, w) BY <1>2, NotInSection DEF At, GoalSection
  <2> QED BY <1>1, <1>2, <2>1, <2>2, <2>3, PlainAgrees
          DEF At, LogMove, GoalSection, Planning, Accepting, Ending
<1>3. CASE At(p, "draft") /\ Quit(p) /\ UNCHANGED <<file, log, lock>>
  BY <1>1, <1>3, NotInSection, QuitAgrees DEF At, GoalSection
<1>4. CASE /\ At(p, "draft") /\ file["goal"].status \notin Terminal
           /\ Enter(p, "goal", [file["goal"] EXCEPT !.draft = TRUE], "draftSave")
           /\ Log("goal", Note("artifact")) /\ UNCHANGED file
  <2>1. Turn(p, "draftSave") /\ cmd'[p].copy = [file["goal"] EXCEPT !.draft = TRUE]
    BY <1>0, <1>4, Turned
  <2>2. Effect
    <3>1. LogMove BY <1>0, <1>4, NoteMayBeLogged
    <3> QED BY <1>1, <1>4, <3>1, Untouched DEF Effect, PlanMove
  <2>3. CopyAgrees(p)' BY <1>4, <2>1 DEF CopyAgrees, Turn, At, GoalSection
  <2>4. LocksAgree'
    <3>1. \A v \in Workflow : ~InSection(p, v) BY <1>4, NotInSection DEF At, GoalSection
    <3>2. \A v \in Workflow : InSection(p, v)' <=> v = "goal"
      BY <2>1 DEF InSection, Turn, At, GoalSection
    <3>3. lock' = [lock EXCEPT !["goal"] = p] BY <1>4 DEF Enter
    <3> QED BY <1>0, <3>1, <3>2, <3>3, LockTaken
  <2>5. StageAgrees(p)'
    BY <2>1, NothingReached DEF StageAgrees, Turn, Linking, LinkedStep, Adopting, Adopted, Collecting
  <2>6. CollectingAgrees(p)' BY <2>1, <2>2, CollectingStays DEF Planning, Accepting, Ending
  <2>7. PlanAgrees(p)' BY <1>1, <1>4, <2>1, <2>2, PlanStays DEF At, Planning, Accepting, Ending
  <2>8. \A q \in Proc : OwnAgrees(q)' BY <2>3, <2>5, <2>6, <2>7 DEF OwnAgrees, Inv, OneCommand
  <2> QED BY <2>2, <2>4, <2>8, StepAgrees
<1>5. CASE At(p, "draftSave") /\ SaveAndRelease(p, "goal") /\ Go(p, "wait") /\ UNCHANGED log
  <2>1. Turn(p, "wait") BY <1>0, <1>5, Turned
  <2>2. GoalMove /\ file'["goal"].plan = file["goal"].plan
    <3>1. /\ cmd[p].copy = [file["goal"] EXCEPT !.draft = TRUE]
          /\ file["goal"].status \notin Terminal
      BY <1>5 DEF Inv, GoalAgrees, CopyAgrees, At, GoalSection
    <3>2. file'["goal"] = cmd[p].copy BY <1>0, <1>5 DEF SaveAndRelease, Typed, GoalTypeOK
    <3> QED BY <1>0, <3>1, <3>2 DEF GoalMove, File
  <2>3. StageAgrees(p)'
    BY <2>1, NothingReached DEF StageAgrees, Turn, Linking, LinkedStep, Adopting, Adopted, Collecting
  <2>4. Effect => CollectingAgrees(p)' /\ PlanAgrees(p)'
    BY <1>1, <1>5, <2>1, <2>2, CollectingStays, PlanStays DEF At, Planning, Accepting, Ending
  <2> QED BY <1>0, <1>1, <1>5, <2>1, <2>2, <2>3, <2>4, SaveAgrees
          DEF At, InSection, GoalSection, Turn, LogMove
<1> QED BY <1>0, <1>2, <1>3, <1>4, <1>5 DEF DraftRegister

\* The steps before any child is reached: waiting for the owner, and resuming.
LEMMA DraftWaitAgrees ==
  ASSUME Inv, NEW p \in Proc, DraftWait(p) \/ GoalResume(p) PROVE GoalAgrees'
<1>0. /\ cmd \in [Proc -> Cmd] /\ Typed /\ "goal" \in Workflow
      /\ file["goal"] \in File /\ file \in [Workflow -> File]
  BY DEF Inv, Typed, GoalTypeOK, Workflow
<1> DEFINE Begins(s, status) ==
             CheckpointBegin(p, "goal", [file["goal"] EXCEPT !.status = status], s)
<1>1. ASSUME NEW s \in {"waitSave", "resumeSave"}, NEW status \in {"waiting_user", "running"},
             s = "waitSave" <=> status = "waiting_user",
             cmd[p].step \in {"wait", "resume"}, Begins(s, status)
      PROVE  GoalAgrees'
  <2>1. [file["goal"] EXCEPT !.status = status] \in File BY <1>0, FieldTyped DEF Status
  <2>2. \A v \in Workflow : ~InSection(p, v) BY <1>1, NotInSection DEF GoalSection
  <2>3. ASSUME Turn(p, s), cmd'[p].copy = [file["goal"] EXCEPT !.status = status],
               file["goal"].status \notin Terminal, UNCHANGED <<file, planFile>>
        PROVE  CopyAgrees(p)'
    BY <1>1, <2>3 DEF CopyAgrees, Turn, At, GoalSection
  <2>4. Reached(s, Child(p))'
    BY NothingReached DEF Linking, LinkedStep, Adopting, Adopted, Collecting
  <2>5. s \in GoalSection /\ s \notin {"plan"} \cup Planning /\ cmd[p].step # "idle"
    BY <1>1 DEF GoalSection, Planning, Accepting, Ending
  <2> QED BY <1>0, <1>1, <2>1, <2>2, <2>3, <2>4, <2>5, BeginAgrees DEF Planning, Accepting, Ending
<1>2. ASSUME NEW s \in {"waitSave", "resumeSave"}, At(p, s), CheckpointEnd(p, "goal"),
             \/ s = "waitSave" /\ Quit(p)
             \/ /\ s = "resumeSave"
                /\ cmd' = [cmd EXCEPT ![p].step = "intent", ![p].plan = cmd[p].copy.plan]
      PROVE  GoalAgrees'
  <2>1. GoalMove /\ file'["goal"].plan = file["goal"].plan /\ cmd[p].copy.plan = file["goal"].plan
    <3>1. /\ \E status \in {"waiting_user", "running"} :
               cmd[p].copy = [file["goal"] EXCEPT !.status = status]
          /\ file["goal"].status \notin Terminal
      BY <1>2 DEF Inv, GoalAgrees, CopyAgrees, At, GoalSection
    <3>2. file'["goal"] = cmd[p].copy BY <1>0, <1>2 DEF CheckpointEnd, SaveAndRelease
    <3> QED BY <1>0, <3>1, <3>2 DEF GoalMove, File
  <2>2. LogMove BY <1>0, <1>2, NoteMayBeLogged DEF CheckpointEnd
  <2>3. InSection(p, "goal") BY <1>2 DEF InSection, At, GoalSection
  <2>4. CASE Quit(p)
    <3>1. OwnAgrees(p)' /\ cmd'[p].step = "idle"
      BY <1>0, <2>4, Turned, IdleAgrees DEF NoCmd
    <3> QED BY <1>0, <1>2, <2>1, <2>2, <2>3, <3>1, SaveAgrees
            DEF CheckpointEnd, OwnAgrees, GoalSection
  <2>5. CASE cmd' = [cmd EXCEPT ![p].step = "intent", ![p].plan = cmd[p].copy.plan]
    <3>1. Turn(p, "intent")
      <4>1. cmd[p].plan = file["goal"].plan BY <1>2 DEF Inv, GoalAgrees, PlanAgrees, At
      <4> QED BY <1>0, <2>1, <2>5, <4>1 DEF Turn, Cmd
    <3>2. StageAgrees(p)'
      BY <3>1, NothingReached DEF StageAgrees, Turn, Linking, LinkedStep, Adopting, Adopted, Collecting
    <3>3. Effect => CollectingAgrees(p)' /\ PlanAgrees(p)'
      BY <1>2, <2>1, <3>1, CollectingStays, PlanStays
         DEF CheckpointEnd, At, Planning, Accepting, Ending
    <3> QED BY <1>0, <1>2, <2>1, <2>2, <2>3, <3>1, <3>2, <3>3, SaveAgrees
            DEF CheckpointEnd, GoalSection, Turn
  <2> QED BY <1>2, <2>4, <2>5
<1>3. CASE DraftWait(p) BY <1>1, <1>2, <1>3 DEF DraftWait, At
<1>4. CASE GoalResume(p) BY <1>1, <1>2, <1>4 DEF GoalResume, At
<1> QED BY <1>3, <1>4

\* A file saved without the lock.
LEMMA UnlockedAgrees ==
  ASSUME Inv, NEW p \in Proc, NEW w \in Workflow, NEW new, file' = [file EXCEPT ![w] = new],
         UNCHANGED <<log, planFile, lock, delivery>>,
         w = "goal" => GoalMove, w # "goal" => ChildMove(w),
         \A v \in Workflow : ~InSection(p, v), \A v \in Workflow : ~InSection(p, v)',
         Effect => OwnAgrees(p)'
  PROVE  GoalAgrees'
<1>1. file \in [Workflow -> File] /\ Role \subseteq Workflow /\ "goal" \notin Role
      /\ "goal" \in Workflow
  BY GoalAssumption DEF Inv, Typed, GoalTypeOK, Workflow
<1>2. Effect
  <2>1. GoalMove BY <1>1 DEF GoalMove
  <2>2. ASSUME NEW r \in Role PROVE ChildMove(r)
    <3>1. CASE r = w BY <1>1, <3>1
    <3>2. CASE r # w BY <1>1, <3>2 DEF ChildMove
    <3> QED BY <3>1, <3>2
  <2> QED BY <2>1, <2>2 DEF Effect, ProofMove, PlanMove, LogMove
<1>3. LocksAgree' BY LocksStay
<1>4. \A q \in Proc : OwnAgrees(q)' BY <1>2 DEF Inv, OneCommand
<1> QED BY <1>2, <1>3, <1>4, StepAgrees

LEMMA ChildIntentAgrees == ASSUME Inv, NEW p \in Proc, ChildIntent(p) PROVE GoalAgrees'
<1>0. cmd \in [Proc -> Cmd] /\ "goal" \in Workflow /\ Child(p) \in Role
  BY ChildIsRole DEF Inv, Typed, GoalTypeOK, Workflow
<1> DEFINE e == ChildNote("child_creation_intent", Child(p))
<1>1. e \in Event /\ (Fresh("goal", e) => MayLog("goal", e)) BY <1>0, NoteTyped DEF MayLog
<1>2. LogMove /\ Go(p, "create") /\ \E i \in DOMAIN log'["goal"] : log'["goal"][i] = e
  BY <1>0, <1>1, LoggedOnce DEF ChildIntent
<1>3. Turn(p, "create") BY <1>0, <1>2, Turned
<1>4. LoggedFor("child_creation_intent", Child(p))' # {}
  <2>1. LoggedFor("child_creation_intent", Child(p))' # {} <=>
          \E i \in DOMAIN log'["goal"] : log'["goal"][i].type = "child_creation_intent"
                                          /\ log'["goal"][i].role = Child(p)'
    BY DEF LoggedFor, Logged
  <2> QED BY <1>2, <1>3, <2>1, SameChild, Fields DEF Turn
<1>5. Reached("create", Child(p))'
  BY <1>4 DEF Reached, Linking, LinkedStep, Adopting, Adopted, Collecting
<1>6. \A w \in Workflow : ~InSection(p, w) BY NotInSection DEF ChildIntent, At, GoalSection
<1> QED BY <1>2, <1>3, <1>5, <1>6, PlainAgrees
        DEF ChildIntent, At, GoalSection, Planning, Accepting, Ending

LEMMA ChildCreateAgrees == ASSUME Inv, NEW p \in Proc, ChildCreate(p) PROVE GoalAgrees'
<1>0. /\ cmd \in [Proc -> Cmd] /\ "goal" \in Workflow /\ Child(p) \in Role /\ Child(p) \in Workflow
      /\ Child(p) # "goal" /\ file \in [Workflow -> File] /\ Typed
  BY ChildIsRole DEF Inv, Typed, GoalTypeOK, Workflow
<1>a. PICK c : c = Child(p) OBVIOUS
<1>b. PICK found : found = IF file[c].status = "absent" THEN Created ELSE file[c] OBVIOUS
<1>c. PICK s : s = IF found.linked THEN "linked" ELSE "link" OBVIOUS
<1>1. /\ file' = [file EXCEPT ![c] = found]
      /\ cmd' = [cmd EXCEPT ![p].step = s, ![p].copy = found]
      /\ cmd[p].step = "create"
  BY <1>a, <1>b, <1>c DEF ChildCreate, At
<1>2. found.status # "absent" /\ (found.linked => file[c].linked)
  BY <1>b DEF Created, NoFile
<1>3. file'[c] = found /\ ((file[c].status = "absent" /\ found = Created) \/ found = file[c])
  BY <1>0, <1>1, <1>a, <1>b
<1>4. (found.linked <=> s = "linked") /\ s \in {"linked", "link"} BY <1>c
<1>5. Turn(p, s) /\ cmd'[p].copy = found BY <1>0, <1>1 DEF Turn, Cmd
<1>6. Child(p)' = c BY <1>a, <1>5, SameChild DEF Turn
<1>7. c \in Role /\ ChildMove(c) BY <1>0, <1>3, <1>a DEF ChildMove
<1>8. Effect => OwnAgrees(p)'
  <2> SUFFICES ASSUME Effect PROVE OwnAgrees(p)' OBVIOUS
  <2>1. CopyAgrees(p)' BY <1>2, <1>3, <1>4, <1>5, <1>6 DEF CopyAgrees, At, Turn, GoalSection
  <2>2. LoggedFor("child_creation_intent", c) # {}
    BY <1>1, <1>a DEF Inv, GoalAgrees, StageAgrees, Reached, Linking
  <2>3. Reached(s, c)'
    <3>1. LoggedFor("child_creation_intent", c)' # {} BY <1>7, <2>2, Steady
    <3>2. s = "linked" => file'[c].linked BY <1>3, <1>4
    <3> QED BY <1>4, <3>1, <3>2
            DEF Reached, Linking, LinkedStep, Adopting, Adopted, Collecting
  <2>4. StageAgrees(p)' BY <1>5, <1>6, <2>3 DEF StageAgrees, Turn, Reached, LoggedFor, Logged
  <2>5. CollectingAgrees(p)' /\ PlanAgrees(p)'
    <3>1. file'["goal"] = file["goal"] BY <1>0, <1>1, <1>a
    <3>2. UNCHANGED planFile BY DEF ChildCreate
    <3> QED BY <1>1, <1>4, <1>5, <3>1, <3>2, CollectingStays, PlanStays
            DEF Planning, Accepting, Ending
  <2> QED BY <2>1, <2>4, <2>5 DEF OwnAgrees
<1>9. \A v \in Workflow : ~InSection(p, v) /\ ~InSection(p, v)'
  BY <1>1, <1>4, <1>5 DEF InSection, At, GoalSection, Turn
<1> QED BY <1>0, <1>1, <1>7, <1>8, <1>9, <1>a, UnlockedAgrees DEF ChildCreate

LEMMA ChildLinkAgrees == ASSUME Inv, NEW p \in Proc, ChildLink(p) PROVE GoalAgrees'
<1>0. /\ cmd \in [Proc -> Cmd] /\ "goal" \in Workflow /\ Child(p) \in Role /\ Child(p) \in Workflow
      /\ Child(p) # "goal" /\ file \in [Workflow -> File] /\ Typed /\ cmd[p].step = "link"
  BY ChildIsRole DEF Inv, Typed, GoalTypeOK, Workflow, ChildLink, At
<1>1. cmd[p].copy = file[Child(p)] /\ ~file[Child(p)].linked /\ file[Child(p)].status # "absent"
  BY <1>0 DEF Inv, GoalAgrees, CopyAgrees, At
<1> DEFINE new == [cmd[p].copy EXCEPT !.linked = TRUE]
<1>2. file' = [file EXCEPT ![Child(p)] = new] BY DEF ChildLink
<1>3. file'[Child(p)].linked /\ ChildMove(Child(p)) /\ file'["goal"] = file["goal"]
  BY <1>0, <1>1, <1>2 DEF ChildMove, File
<1>4. Turn(p, "linked") BY <1>0, Turned DEF ChildLink
<1>5. Child(p)' = Child(p) BY <1>4, SameChild DEF Turn
<1>6. Effect => OwnAgrees(p)'
  <2> SUFFICES ASSUME Effect PROVE OwnAgrees(p)' OBVIOUS
  <2>1. CopyAgrees(p)' BY <1>4, PlainCopy DEF Turn, GoalSection
  <2>2. LoggedFor("child_creation_intent", Child(p)) # {}
    BY <1>0 DEF Inv, GoalAgrees, StageAgrees, Reached, Linking
  <2>3. LoggedFor("child_creation_intent", Child(p))' # {}
    BY <2>2, <1>5 DEF LoggedFor, Logged, ChildLink
  <2>4. StageAgrees(p)'
    BY <1>3, <1>4, <1>5, <2>3
       DEF StageAgrees, Turn, Reached, Linking, LinkedStep, Adopting, Adopted, Collecting
  <2>5. CollectingAgrees(p)' /\ PlanAgrees(p)'
    BY <1>0, <1>3, <1>4, CollectingStays, PlanStays DEF Planning, Accepting, Ending, ChildLink
  <2> QED BY <2>1, <2>4, <2>5 DEF OwnAgrees
<1>7. \A v \in Workflow : ~InSection(p, v) /\ ~InSection(p, v)'
  BY <1>0, <1>4 DEF InSection, At, GoalSection, Turn
<1> QED BY <1>0, <1>2, <1>3, <1>6, <1>7, UnlockedAgrees DEF ChildLink

LEMMA ChildLinkedAgrees == ASSUME Inv, NEW p \in Proc, ChildLinked(p) PROVE GoalAgrees'
<1>0. cmd \in [Proc -> Cmd] /\ Child(p) \in Role /\ Child(p) \in Workflow /\ cmd[p].step = "linked"
  BY ChildIsRole DEF Inv, Typed, GoalTypeOK, Workflow, ChildLinked, At
<1> DEFINE e == ChildNote("parent_linked", Child(p))
<1>1. e \in Event /\ (Fresh(Child(p), e) => MayLog(Child(p), e)) BY <1>0, NoteTyped DEF MayLog
<1>2. LogMove /\ Go(p, "adopt") /\ \E i \in DOMAIN log'[Child(p)] : log'[Child(p)][i] = e
  BY <1>0, <1>1, LoggedOnce DEF ChildLinked
<1>3. Turn(p, "adopt") BY <1>0, <1>2, Turned
<1>4. Child(p)' = Child(p) BY <1>3, SameChild DEF Turn
<1>5. Effect BY <1>2, Untouched DEF ChildLinked, Effect, PlanMove
<1>6. Reached("adopt", Child(p))'
  <2>1. LoggedFor("child_creation_intent", Child(p)) # {} /\ file[Child(p)].linked
    BY <1>0 DEF Inv, GoalAgrees, StageAgrees, Reached, LinkedStep
  <2>2. PICK c : c = Child(p) OBVIOUS
  <2>3. LoggedFor("child_creation_intent", c)' # {} /\ file'[c].linked
    BY <1>0, <1>5, <2>1, <2>2, Steady
  <2>4. Logged(c, "parent_linked")' # {} BY <1>2, <2>2, Fields DEF Logged
  <2>5. Reached("adopt", c)'
    BY <2>3, <2>4 DEF Reached, Linking, LinkedStep, Adopting, Adopted, Collecting
  <2> QED BY <1>4, <2>2, <2>5 DEF Reached, LoggedFor, Logged
<1>7. \A w \in Workflow : ~InSection(p, w) BY <1>0, NotInSection DEF GoalSection
<1> QED BY <1>0, <1>2, <1>3, <1>6, <1>7, PlainAgrees
        DEF ChildLinked, GoalSection, Planning, Accepting, Ending

LEMMA GoalAdoptLoadAgrees == ASSUME Inv, NEW p \in Proc, GoalAdoptLoad(p) PROVE GoalAgrees'
<1>0. /\ cmd \in [Proc -> Cmd] /\ Child(p) \in Role /\ cmd[p].step = "adopt"
      /\ UNCHANGED <<file, log, planFile, lock, delivery>>
  BY ChildIsRole DEF Inv, Typed, GoalTypeOK, GoalAdoptLoad, At
<1>1. PICK s : s = IF Child(p) \in file["goal"].kids THEN "created" ELSE "adoptSave" OBVIOUS
<1>2. Turn(p, s) /\ cmd'[p].copy = file["goal"] BY <1>0, <1>1, Turned DEF GoalAdoptLoad
<1>3. Child(p)' = Child(p) BY <1>2, SameChild DEF Turn
<1>4. Effect BY <1>0, Untouched DEF Effect, LogMove, PlanMove
<1>5. \A w \in Workflow : ~InSection(p, w) BY <1>0, NotInSection DEF GoalSection
<1>6. Reached(s, Child(p))
  <2>1. Reached("adopt", Child(p)) BY <1>0 DEF Inv, GoalAgrees, StageAgrees
  <2> QED BY <1>1, <2>1 DEF Reached, Linking, LinkedStep, Adopting, Adopted, Collecting
<1>7. Reached(s, Child(p))'
  <2>1. PICK c : c = Child(p) OBVIOUS
  <2>2. Reached(s, c)' BY <1>0, <1>4, <1>6, <2>1, Steady
  <2> QED BY <1>3, <2>1, <2>2 DEF Reached, LoggedFor, Logged
<1>8. CASE s = "created"
  BY <1>0, <1>2, <1>4, <1>5, <1>7, <1>8, PlainAgrees
     DEF GoalSection, Planning, Accepting, Ending, Effect
<1>9. CASE s = "adoptSave"
  <2>1. CopyAgrees(p)'
    <3>1. Child(p) \notin file["goal"].kids BY <1>1, <1>9
    <3> QED BY <1>0, <1>2, <1>3, <1>9, <3>1 DEF CopyAgrees, At, Turn, GoalSection
  <2>2. LocksAgree'
    <3>1. \A w \in Workflow : ~InSection(p, w)'
      BY <1>2, <1>9 DEF InSection, At, Turn, GoalSection
    <3> QED BY <1>0, <1>5, <3>1, LocksStay
  <2>3. StageAgrees(p)' BY <1>2, <1>7 DEF StageAgrees, Turn
  <2>4. CollectingAgrees(p)' /\ PlanAgrees(p)'
    BY <1>0, <1>2, <1>4, <1>9, CollectingStays, PlanStays DEF Planning, Accepting, Ending
  <2>5. \A q \in Proc : OwnAgrees(q)' BY <2>1, <2>3, <2>4 DEF OwnAgrees, Inv, OneCommand
  <2> QED BY <1>4, <2>2, <2>5, StepAgrees
<1> QED BY <1>1, <1>8, <1>9

LEMMA GoalAdoptSaveAgrees == ASSUME Inv, NEW p \in Proc, GoalAdoptSave(p) PROVE GoalAgrees'
<1>0. /\ cmd \in [Proc -> Cmd] /\ Child(p) \in Role /\ cmd[p].step = "adoptSave"
      /\ "goal" \in Workflow /\ file \in [Workflow -> File] /\ file["goal"] \in File
      /\ UNCHANGED <<log, planFile, lock, delivery>>
  BY ChildIsRole DEF Inv, Typed, GoalTypeOK, GoalAdoptSave, At, Workflow
<1>1. cmd[p].copy = file["goal"] /\ Child(p) \notin file["goal"].kids
  BY <1>0 DEF Inv, GoalAgrees, CopyAgrees, At
<1>2. PICK new : new = [file["goal"] EXCEPT !.kids = @ \cup {Child(p)}] OBVIOUS
<1>3. file' = [file EXCEPT !["goal"] = new] BY <1>1, <1>2 DEF GoalAdoptSave
<1>4. file'["goal"] = new /\ Child(p) \in new.kids /\ new.plan = file["goal"].plan
  BY <1>0, <1>2, <1>3 DEF File
<1>5. GoalMove
  <2>1. file["goal"].status \notin Terminal
    BY <1>0, <1>1, FinishedHasChildren DEF Inv
  <2> QED BY <1>0, <1>2, <1>4, <2>1 DEF GoalMove
<1>6. Turn(p, "created") BY <1>0, Turned DEF GoalAdoptSave
<1>7. Child(p)' = Child(p) BY <1>6, SameChild DEF Turn
<1>8. Effect => OwnAgrees(p)'
  <2> SUFFICES ASSUME Effect PROVE OwnAgrees(p)' OBVIOUS
  <2>1. CopyAgrees(p)' BY <1>6, PlainCopy DEF Turn, GoalSection
  <2>2. StageAgrees(p)'
    <3>1. PICK c : c = Child(p) OBVIOUS
    <3>2. Reached("adoptSave", c) BY <1>0, <3>1 DEF Inv, GoalAgrees, StageAgrees
    <3>3. Reached("adoptSave", c)' BY <1>0, <3>1, <3>2, Steady
    <3>4. Reached("created", c)'
      BY <1>4, <3>1, <3>3 DEF Reached, Linking, LinkedStep, Adopting, Adopted, Collecting
    <3> QED BY <1>6, <1>7, <3>1, <3>4 DEF StageAgrees, Turn, Reached, LoggedFor, Logged
  <2>3. CollectingAgrees(p)' /\ PlanAgrees(p)'
    BY <1>0, <1>4, <1>6, CollectingStays, PlanStays DEF Planning, Accepting, Ending
  <2> QED BY <2>1, <2>2, <2>3 DEF OwnAgrees
<1>9. \A v \in Workflow : ~InSection(p, v) /\ ~InSection(p, v)'
  BY <1>0, <1>6 DEF InSection, At, GoalSection, Turn
<1> QED BY <1>0, <1>3, <1>5, <1>8, <1>9, UnlockedAgrees

LEMMA ChildCreatedAgrees == ASSUME Inv, NEW p \in Proc, ChildCreated(p) PROVE GoalAgrees'
<1>0. cmd \in [Proc -> Cmd] /\ "goal" \in Workflow /\ Child(p) \in Role /\ cmd[p].step = "created"
  BY ChildIsRole DEF Inv, Typed, GoalTypeOK, Workflow, ChildCreated, At
<1>1. PICK c \in Role : c = Child(p) BY <1>0
<1>2. PICK e : e = ChildNote("child_workflow_created", c) OBVIOUS
<1>3. Reached("created", c) BY <1>0, <1>1 DEF Inv, GoalAgrees, StageAgrees
<1>4. e \in Event /\ (Fresh("goal", e) => MayLog("goal", e))
  BY <1>2, <1>3, NoteTyped DEF MayLog, Reached, Adopted, Adopting, LinkedStep, Linking
<1>5. LogMove /\ Load(p, c, "finish") /\ \E i \in DOMAIN log'["goal"] : log'["goal"][i] = e
  BY <1>0, <1>1, <1>2, <1>4, LoggedOnce DEF ChildCreated
<1>6. Turn(p, "finish") BY <1>0, <1>5, Turned
<1>7. Child(p)' = Child(p) BY <1>6, SameChild DEF Turn
<1>8. Effect BY <1>5, Untouched DEF ChildCreated, Effect, PlanMove
<1>9. Reached("finish", Child(p))'
  <2>1. Reached("created", c)' BY <1>3, <1>8, Steady
  <2>2. LoggedFor("child_workflow_created", c)' # {} BY <1>2, <1>5, IsLoggedFor
  <2>3. Reached("finish", c)'
    BY <2>1, <2>2 DEF Reached, Linking, LinkedStep, Adopting, Adopted, Collecting
  <2> QED BY <1>1, <1>7, <2>3 DEF Reached, LoggedFor, Logged
<1>10. \A w \in Workflow : ~InSection(p, w) BY <1>0, NotInSection DEF GoalSection
<1> QED BY <1>0, <1>5, <1>6, <1>9, <1>10, PlainAgrees
        DEF ChildCreated, GoalSection, Planning, Accepting, Ending

LEMMA ChildFinishAgrees == ASSUME Inv, NEW p \in Proc, ChildFinish(p) PROVE GoalAgrees'
<1>0. /\ cmd \in [Proc -> Cmd] /\ "goal" \in Workflow /\ file \in [Workflow -> File] /\ Typed
  BY DEF Inv, Typed, GoalTypeOK, Workflow
<1>1. PICK c \in Role : c = Child(p) BY <1>0, ChildIsRole
<1>2. c \in Workflow /\ c # "goal" /\ file[c] \in File
  BY <1>0, <1>1, GoalAssumption DEF Workflow
<1>3. ASSUME cmd[p].step \in {"finish", "finishSave"}, NEW s \in Collecting
      PROVE  Reached(s, c)
  BY <1>1, <1>3 DEF Inv, GoalAgrees, StageAgrees, Reached, Collecting
<1>4. ASSUME Reached("collect", c)', Turn(p, "collect") PROVE Reached("collect", Child(p))'
  <2>1. Child(p)' = c BY <1>1, <1>4, SameChild DEF Turn
  <2> QED BY <1>4, <2>1 DEF Reached, LoggedFor, Logged
<1>5. CASE /\ At(p, "finish") /\ Go(p, "collect")
           /\ UNCHANGED <<file, log, planFile, pending, lock, delivery, crashes>>
  <2>1. Turn(p, "collect") BY <1>0, <1>5, Turned
  <2>2. Effect BY <1>5, Untouched DEF Effect, LogMove, PlanMove
  <2>3. Reached("collect", c)
    BY <1>3, <1>5 DEF At, Collecting
  <2>4. Reached("collect", Child(p))' BY <1>1, <1>4, <2>1, <2>2, <2>3, Steady
  <2>5. \A w \in Workflow : ~InSection(p, w) BY <1>5, NotInSection DEF At, GoalSection
  <2> QED BY <1>5, <2>1, <2>2, <2>4, <2>5, PlainAgrees
          DEF At, GoalSection, Planning, Accepting, Ending, Effect
<1>6. ASSUME NEW end \in Ends[c], At(p, "finish"), NEW copy,
             copy = [file[c] EXCEPT !.status = end,
                       !.result = IF end = "completed_unreported" THEN "pass" ELSE "blocked"],
             CheckpointBegin(p, c, copy, "finishSave")
      PROVE  GoalAgrees'
  <2>1. end \in Status BY GoalAssumption DEF Status, Collectable, Terminal
  <2>2. copy \in File BY <1>2, <1>6, <2>1, FieldTyped DEF Result
  <2>3. \A v \in Workflow : ~InSection(p, v) BY <1>6, NotInSection DEF At, GoalSection
  <2>4. ASSUME Turn(p, "finishSave"), cmd'[p].copy = copy, file[c].status \notin Terminal,
               UNCHANGED <<file, planFile>>
        PROVE  CopyAgrees(p)'
    <3>1. Child(p)' = c BY <1>1, <2>4, SameChild DEF Turn
    <3> QED BY <1>6, <2>4, <3>1 DEF CopyAgrees, Turn, At, GoalSection
  <2>5. UNCHANGED <<file, log>> /\ Turn(p, "finishSave") => Reached("finishSave", Child(p))'
    <3>1. Reached("finishSave", c) BY <1>3, <1>6 DEF At, Collecting
    <3> QED BY <1>1, <3>1, SameChild DEF Reached, LoggedFor, Logged, Turn
  <2>6. Enter(p, c, copy, "finishSave") => Turn(p, "finishSave") BY <1>0, Turned
  <2>7. CASE Quit(p) /\ UNCHANGED lock
    BY <1>6, <2>3, <2>7, QuitAgrees DEF CheckpointBegin
  <2>8. CASE Enter(p, c, copy, "finishSave")
    BY <1>1, <1>2, <1>6, <2>2, <2>3, <2>4, <2>5, <2>6, <2>8, BeginAgrees
       DEF At, Planning, Accepting, Ending
  <2> QED BY <1>6, <2>7, <2>8 DEF CheckpointBegin
<1>7. CASE At(p, "finishSave") /\ CheckpointEnd(p, c) /\ Go(p, "collect")
  <2>1. Turn(p, "collect") BY <1>0, <1>7, Turned
  <2>2. Reached("finishSave", c) /\ Reached("collect", c)
    BY <1>3, <1>7 DEF At, Collecting
  <2>3. file'[c] = cmd[p].copy /\ file'["goal"] = file["goal"]
    BY <1>0, <1>2, <1>7 DEF CheckpointEnd, SaveAndRelease
  <2>4. ChildMove(c)
    <3>1. /\ file[c].status \notin Terminal
          /\ \E end \in Ends[c] : cmd[p].copy = [file[c] EXCEPT !.status = end,
               !.result = IF end = "completed_unreported" THEN "pass" ELSE "blocked"]
      BY <1>1, <1>7 DEF Inv, GoalAgrees, CopyAgrees, At
    <3>2. file[c].linked BY <2>2 DEF Reached, Collecting
    <3> QED BY <2>3, <3>1, <3>2 DEF ChildMove
  <2>5. LogMove BY <1>0, <1>2, <1>7, NoteMayBeLogged DEF CheckpointEnd
  <2>6. InSection(p, c) BY <1>1, <1>7 DEF InSection
  <2>7. ASSUME Effect PROVE StageAgrees(p)' /\ CollectingAgrees(p)' /\ PlanAgrees(p)'
    <3>1. Reached("collect", Child(p))' BY <1>4, <2>1, <2>2, <2>7, Steady
    <3>2. StageAgrees(p)' BY <2>1, <3>1 DEF StageAgrees, Turn
    <3> QED BY <1>7, <2>1, <2>3, <2>7, <3>2, CollectingStays, PlanStays
            DEF CheckpointEnd, At, Planning, Accepting, Ending
  <2> QED BY <1>2, <1>7, <2>1, <2>4, <2>5, <2>6, <2>7, SaveAgrees
          DEF CheckpointEnd, GoalSection, Turn
<1> QED BY <1>1, <1>5, <1>6, <1>7 DEF ChildFinish

LEMMA ChildCollectLoadAgrees == ASSUME Inv, NEW p \in Proc, ChildCollectLoad(p) PROVE GoalAgrees'
<1>0. /\ cmd \in [Proc -> Cmd] /\ file \in [Workflow -> File] /\ cmd[p].step = "collect"
      /\ UNCHANGED <<file, log, planFile, lock, delivery>> /\ Typed
  BY DEF Inv, Typed, GoalTypeOK, ChildCollectLoad, At
<1>1. PICK c \in Role : c = Child(p) BY <1>0, ChildIsRole
<1>2. \A w \in Workflow : ~InSection(p, w) BY <1>0, NotInSection DEF GoalSection
<1>3. CASE Quit(p) BY <1>0, <1>2, <1>3, QuitAgrees
<1>4. CASE file[c].status \in Collectable /\ Load(p, c, "collected")
  <2>1. Turn(p, "collected") /\ cmd'[p].copy = file[c] BY <1>0, <1>4, Turned
  <2>2. Child(p)' = c BY <1>1, <2>1, SameChild DEF Turn
  <2>3. Effect BY <1>0, Untouched DEF Effect, LogMove, PlanMove
  <2>4. CopyAgrees(p)' /\ LocksAgree'
    BY <1>0, <1>2, <2>1, PlainCopy, LocksStay DEF Turn, GoalSection
  <2>5. StageAgrees(p)'
    <3>1. Reached("collect", c) BY <1>0, <1>1 DEF Inv, GoalAgrees, StageAgrees
    <3>2. Reached("collected", c)' BY <2>3, <3>1, Steady
            DEF Reached, Linking, LinkedStep, Adopting, Adopted, Collecting
    <3> QED BY <2>1, <2>2, <3>2 DEF StageAgrees, Turn, Reached, LoggedFor, Logged
  <2>6. CollectingAgrees(p)'
    <3>1. /\ file[c] \in File /\ file[c].status \in Collectable
          /\ file[c].status = "completed_unreported" => file[c].result = "pass"
          /\ file[c].status \in {"failed_unreported", "blocked"} => file[c].result = "blocked"
          /\ file[c].status = "reported" => file[c].proof
      BY <1>0, <1>4 DEF Inv, GoalAgrees, ChildAgrees, Workflow
    <3>2. PICK ref : ref = [status |-> file[c].status, result |-> file[c].result,
                            proof |-> file[c].proof]
      OBVIOUS
    <3>3. Past(ref, c)
      BY <3>1, <3>2 DEF Past, Collectable, Terminal, Unreported
    <3>4. \A k \in CollectedFor(c) : ~Older(file[c].status, RefAt(k).status)
      <4> TAKE k \in CollectedFor(c)
      <4>1. Past(RefAt(k), c) BY DEF Inv, GoalAgrees, CollectionAgrees
      <4> QED BY <4>1 DEF Past, Older, Unreported
    <3>5. /\ CollectedFor(c)' = CollectedFor(c) /\ \A k : RefAt(k)' = RefAt(k)
          /\ Past(ref, c)' = Past(ref, c)
      BY <1>0 DEF CollectedFor, LoggedFor, Logged, RefAt, Past
    <3>6. \A k \in CollectedFor(c)' : ~Older(file[c].status, RefAt(k)'.status)
      BY <3>4, <3>5
    <3>7. \A k \in CollectedFor(Child(p))' : ~Older(cmd[p].copy.status, RefAt(k).status)'
      BY <2>1, <2>2, <3>6 DEF CollectedFor, LoggedFor, Logged, RefAt, Older
    <3>8. Past([status |-> cmd[p].copy.status, result |-> cmd[p].copy.result,
                proof |-> cmd[p].copy.proof], Child(p))'
      BY <2>1, <2>2, <3>2, <3>3, <3>5 DEF Past
    <3>9. \A r \in Done(p)' : RefIsLogged(r, cmd[p].refs[r])'
      <4>1. Done(p)' \subseteq Done(p)
        BY <1>0, <2>1 DEF Done, Turn, Planning, Accepting, Ending
      <4> QED BY <2>1, <2>3, <4>1, DoneStays DEF Turn
    <3>10. /\ cmd'[p].copy.status \in Collectable
           /\ cmd'[p].copy.status = "reported" => cmd'[p].copy.proof
           /\ cmd'[p].copy.status = "blocked" => file'[Child(p)'].status \notin Terminal
      BY <1>0, <2>1, <2>2, <3>1 DEF Terminal, Unreported
    <3> QED BY <2>1, <3>7, <3>8, <3>9, <3>10 DEF CollectingAgrees, Turn
  <2>7. PlanAgrees(p)' BY <1>0, <2>1, <2>3, PlanStays DEF Planning, Accepting, Ending
  <2>8. \A q \in Proc : OwnAgrees(q)'
    BY <2>4, <2>5, <2>6, <2>7 DEF OwnAgrees, Inv, OneCommand
  <2> QED BY <2>3, <2>4, <2>8, StepAgrees
<1> QED BY <1>0, <1>1, <1>3, <1>4 DEF ChildCollectLoad

LEMMA ChildCollectedAgrees == ASSUME Inv, NEW p \in Proc, ChildCollected(p) PROVE GoalAgrees'
<1>0. /\ cmd \in [Proc -> Cmd] /\ cmd[p] \in Cmd /\ cmd[p].step = "collected" /\ cmd[p].copy \in File
      /\ UNCHANGED <<file, planFile, lock, delivery>> /\ "goal" \in Workflow
  BY DEF Inv, Typed, GoalTypeOK, ChildCollected, At, Cmd, Workflow
<1>1. PICK c \in Role : c = Child(p) BY <1>0, ChildIsRole
<1>2. PICK ref : ref = [status |-> cmd[p].copy.status, result |-> cmd[p].copy.result,
                        proof |-> cmd[p].copy.proof]
  OBVIOUS
<1>3. ref \in Ref BY <1>0, <1>2 DEF File, Ref
<1>4. PICK e : e = Collected(c, ref) OBVIOUS
<1>5. PICK s : s = IF cmd[p].k < Len(Roles) THEN "intent" ELSE "plan" OBVIOUS
<1> DEFINE next == cmd' = [cmd EXCEPT ![p].refs[c] = ref, ![p].step = s,
                             ![p].k = IF @ < Len(Roles) THEN @ + 1 ELSE @]
<1>6. LogOnce(p, "goal", e, next) BY <1>1, <1>2, <1>4, <1>5 DEF ChildCollected
<1>7. e \in Event /\ (Fresh("goal", e) => MayLog("goal", e))
  <2>1. /\ Past(ref, c) /\ \A k \in CollectedFor(c) : ~Older(ref.status, RefAt(k).status)
    BY <1>0, <1>1, <1>2 DEF Inv, GoalAgrees, CollectingAgrees, At
  <2>2. LoggedFor("child_workflow_created", c) # {}
    BY <1>0, <1>1 DEF Inv, GoalAgrees, StageAgrees, Reached, Collecting
  <2> QED BY <1>3, <1>4, <2>1, <2>2, CollectedTyped DEF MayLog
<1>8. LogMove /\ next /\ \E i \in DOMAIN log'["goal"] : log'["goal"][i] = e
  <2> HIDE DEF next
  <2> QED BY <1>0, <1>6, <1>7, LoggedOnce
<1>9. /\ cmd'[p].step = s /\ cmd'[p].plan = cmd[p].plan
      /\ cmd'[p].refs = [cmd[p].refs EXCEPT ![c] = ref]
      /\ cmd'[p].k = IF cmd[p].k < Len(Roles) THEN cmd[p].k + 1 ELSE cmd[p].k
      /\ s \in {"intent", "plan"} /\ cmd[p].refs \in [Role -> Ref] /\ cmd[p].k \in 1 .. Len(Roles)
  BY <1>0, <1>5, <1>8 DEF Cmd
<1> HIDE DEF next
<1>10. Effect BY <1>0, <1>8, Untouched DEF Effect, PlanMove
<1>11. CopyAgrees(p)' /\ LocksAgree'
  <2>1. \A w \in Workflow : ~InSection(p, w) BY <1>0, NotInSection DEF GoalSection
  <2> QED BY <1>0, <1>9, <2>1, PlainCopy, LocksStay DEF GoalSection
<1>12. StageAgrees(p)'
  BY <1>9, NothingReached DEF StageAgrees, Linking, LinkedStep, Adopting, Adopted, Collecting
<1>13. CollectingAgrees(p)'
  <2>1. Done(p)' \subseteq Done(p) \cup {c}
    <3>1. Done(p) = {Roles[i] : i \in 1 .. cmd[p].k - 1} /\ c = Roles[cmd[p].k]
      BY <1>0, <1>1 DEF Done, Planning, Accepting, Ending, Child
    <3>2. CASE s = "intent"
      <4>1. Done(p)' = {Roles[i] : i \in 1 .. cmd'[p].k - 1}
        BY <1>9, <3>2 DEF Done, Planning, Accepting, Ending
      <4>2. cmd'[p].k = cmd[p].k + 1 BY <1>5, <1>9, <3>2
      <4>3. \A i \in 1 .. cmd'[p].k - 1 : i = cmd[p].k \/ i \in 1 .. cmd[p].k - 1
        BY <1>9, <4>2, SomeRole
      <4> QED BY <3>1, <4>1, <4>3
    <3>3. CASE s = "plan"
      <4>1. cmd[p].k = Len(Roles) BY <1>5, <1>9, <3>3, SomeRole
      <4>2. Role = {Roles[i] : i \in 1 .. Len(Roles)}
        BY GoalAssumption DEF Role, ToSet
      <4>3. \A i \in 1 .. Len(Roles) : i = cmd[p].k \/ i \in 1 .. cmd[p].k - 1
        BY <4>1, SomeRole
      <4>4. Done(p)' \subseteq Role BY <1>9, <3>3 DEF Done
      <4> QED BY <3>1, <4>2, <4>3, <4>4
    <3> QED BY <1>9, <3>2, <3>3
  <2>2. ASSUME NEW r \in Done(p)' PROVE RefIsLogged(r, cmd[p].refs[r])'
    <3>1. CASE r = c
      <4>1. \E i \in CollectedFor(c)' : log'["goal"][i] = Collected(c, ref)
        BY <1>4, <1>8, Fields DEF CollectedFor, LoggedFor, Logged
      <4>2. ref.status = "reported" => ref.proof
        BY <1>0, <1>2 DEF Inv, GoalAgrees, CollectingAgrees, At
      <4>3. cmd'[p].refs[c] = ref BY <1>9
      <4> QED BY <3>1, <4>1, <4>2, <4>3 DEF RefIsLogged
    <3>2. CASE r # c
      <4>1. r \in Done(p) /\ r \in Role BY <2>1, <2>2, <3>2, <1>0, SomeRole DEF Done, Cmd
      <4>2. PICK old : old = cmd[p].refs[r] OBVIOUS
      <4>3. RefIsLogged(r, old) BY <4>1, <4>2 DEF Inv, GoalAgrees, CollectingAgrees
      <4>4. RefIsLogged(r, old)' BY <1>9, <1>10, <4>1, <4>2, <4>3, Steady
      <4>5. cmd'[p].refs[r] = old BY <1>9, <3>2, <4>1, <4>2
      <4> QED BY <4>4, <4>5 DEF RefIsLogged
    <3> QED BY <3>1, <3>2
  <2> QED BY <1>9, <2>2 DEF CollectingAgrees, At
<1>14. PlanAgrees(p)'
  <2>1. cmd[p].plan = file["goal"].plan BY <1>0 DEF Inv, GoalAgrees, PlanAgrees
  <2> QED BY <1>0, <1>9, <2>1 DEF PlanAgrees, Planning, Accepting, Ending
<1>15. \A q \in Proc : OwnAgrees(q)' BY <1>11, <1>12, <1>13, <1>14 DEF OwnAgrees, Inv, OneCommand
<1> QED BY <1>10, <1>11, <1>15, StepAgrees

LEMMA PlanWriteAgrees == ASSUME Inv, NEW p \in Proc, PlanWrite(p) PROVE GoalAgrees'
<1>0. /\ cmd \in [Proc -> Cmd] /\ cmd[p].step = "plan"
      /\ UNCHANGED <<file, log, lock, delivery>>
      /\ cmd[p].plan = file["goal"].plan /\ PlanIsOnDisk
  BY DEF Inv, Typed, GoalTypeOK, PlanWrite, At, GoalAgrees, PlanAgrees
<1>1. \A w \in Workflow : ~InSection(p, w) BY <1>0, NotInSection DEF GoalSection
<1>2. CASE Quit(p) /\ UNCHANGED planFile BY <1>0, <1>1, <1>2, QuitAgrees
<1>3. ASSUME NEW s \in {"accept", "register"}, Go(p, s), planFile' = Rendered(cmd[p].refs),
             s = "accept" => cmd[p].plan = planFile',
             UNCHANGED planFile \/ cmd[p].plan = NoPlan
      PROVE  GoalAgrees'
  <2>1. Turn(p, s) BY <1>0, <1>3, Turned
  <2>2. Effect BY <1>0, <1>3, Untouched DEF Effect, LogMove, PlanMove
  <2>3. CopyAgrees(p)' /\ LocksAgree'
    BY <1>0, <1>1, <1>3, <2>1, PlainCopy, LocksStay DEF Turn, GoalSection
  <2>4. StageAgrees(p)'
    BY <1>3, <2>1, NothingReached
       DEF StageAgrees, Turn, Linking, LinkedStep, Adopting, Adopted, Collecting
  <2>5. CollectingAgrees(p)' BY <1>0, <1>3, <2>1, <2>2, CollectingStays
  <2>6. PlanAgrees(p)'
    <3>1. Rendered(cmd[p].refs)' = Rendered(cmd[p].refs) BY <2>1 DEF Turn, Rendered, Outcome
    <3> QED BY <1>0, <1>3, <2>1, <3>1 DEF PlanAgrees, Turn, Planning, Accepting, Ending
  <2>7. \A q \in Proc : OwnAgrees(q)'
    BY <2>3, <2>4, <2>5, <2>6 DEF OwnAgrees, Inv, OneCommand
  <2> QED BY <2>2, <2>3, <2>7, StepAgrees
<1>4. CASE cmd[p].plan # NoPlan /\ planFile = Rendered(cmd[p].refs) /\ Go(p, "accept")
           /\ UNCHANGED planFile
  BY <1>0, <1>3, <1>4 DEF PlanIsOnDisk
<1>5. CASE cmd[p].plan = NoPlan /\ planFile' = Rendered(cmd[p].refs) /\ Go(p, "register")
  BY <1>3, <1>5
<1> QED BY <1>2, <1>4, <1>5 DEF PlanWrite

LEMMA PlanRegisterAgrees == ASSUME Inv, NEW p \in Proc, PlanRegister(p) PROVE GoalAgrees'
<1>0. /\ cmd \in [Proc -> Cmd] /\ "goal" \in Workflow /\ Typed
      /\ file["goal"] \in File /\ lock \in [Workflow -> Proc \cup {Nobody}]
      /\ UNCHANGED <<planFile, delivery>>
  BY DEF Inv, Typed, GoalTypeOK, Workflow, PlanRegister
<1>1. CASE At(p, "register") /\ Quit(p) /\ UNCHANGED <<file, log, lock>>
  BY <1>0, <1>1, NotInSection, QuitAgrees DEF At, GoalSection
<1>2. CASE /\ At(p, "register") /\ file["goal"].status \notin Terminal /\ file["goal"].plan = NoPlan
           /\ Enter(p, "goal", [file["goal"] EXCEPT !.plan = planFile], "registerSave")
           /\ Log("goal", Note("artifact")) /\ UNCHANGED file
  <2>1. Turn(p, "registerSave") /\ cmd'[p].copy = [file["goal"] EXCEPT !.plan = planFile]
    BY <1>0, <1>2, Turned
  <2>2. Effect
    <3>1. LogMove BY <1>0, <1>2, NoteMayBeLogged
    <3> QED BY <1>0, <1>2, <3>1, Untouched DEF Effect, PlanMove
  <2>3. CopyAgrees(p)' BY <1>0, <1>2, <2>1 DEF CopyAgrees, Turn, At, GoalSection
  <2>4. LocksAgree'
    <3>1. \A v \in Workflow : ~InSection(p, v) BY <1>2, NotInSection DEF At, GoalSection
    <3>2. \A v \in Workflow : InSection(p, v)' <=> v = "goal"
      BY <2>1 DEF InSection, Turn, At, GoalSection
    <3>3. lock' = [lock EXCEPT !["goal"] = p] BY <1>2 DEF Enter
    <3> QED BY <1>0, <3>1, <3>2, <3>3, LockTaken
  <2>5. StageAgrees(p)'
    BY <2>1, NothingReached DEF StageAgrees, Turn, Linking, LinkedStep, Adopting, Adopted, Collecting
  <2>6. CollectingAgrees(p)' /\ PlanAgrees(p)'
    BY <1>0, <1>2, <2>1, <2>2, CollectingStays, PlanStays DEF At, Planning, Accepting, Ending
  <2>7. \A q \in Proc : OwnAgrees(q)' BY <2>3, <2>5, <2>6 DEF OwnAgrees, Inv, OneCommand
  <2> QED BY <2>2, <2>4, <2>7, StepAgrees
<1>3. CASE /\ At(p, "registerSave") /\ SaveAndRelease(p, "goal") /\ UNCHANGED log
           /\ cmd' = [cmd EXCEPT ![p].step = "accept", ![p].plan = cmd[p].copy.plan]
  <2>1. /\ cmd[p].copy = [file["goal"] EXCEPT !.plan = planFile]
        /\ file["goal"].plan = NoPlan /\ file["goal"].status \notin Terminal
    BY <1>3 DEF Inv, GoalAgrees, CopyAgrees, At, GoalSection
  <2>2. file'["goal"] = cmd[p].copy /\ cmd[p].copy.plan = planFile
    BY <1>0, <1>3, <2>1 DEF SaveAndRelease, Typed, GoalTypeOK, File
  <2>3. GoalMove BY <2>1, <2>2 DEF GoalMove
  <2>4. /\ cmd'[p].step = "accept" /\ cmd'[p].plan = planFile /\ cmd'[p].k = cmd[p].k
        /\ cmd'[p].refs = cmd[p].refs
    BY <1>0, <1>3, <2>2 DEF Cmd
  <2>5. StageAgrees(p)'
    BY <2>4, NothingReached DEF StageAgrees, Linking, LinkedStep, Adopting, Adopted, Collecting
  <2>6. ASSUME Effect PROVE CollectingAgrees(p)'
    <3>1. Done(p)' = Done(p) BY <1>3, <2>4 DEF Done, At, Planning, Accepting, Ending
    <3>2. \A r \in Done(p)' : RefIsLogged(r, cmd[p].refs[r])' BY <2>4, <2>6, <3>1, DoneStays
    <3> QED BY <2>4, <3>2 DEF CollectingAgrees, At
  <2>7. PlanAgrees(p)'
    <3>1. planFile = Rendered(cmd[p].refs)
      BY <1>3 DEF Inv, GoalAgrees, PlanAgrees, At, Planning
    <3>2. Rendered(cmd[p].refs)' = Rendered(cmd[p].refs) BY <2>4 DEF Rendered, Outcome
    <3> QED BY <1>0, <2>2, <2>4, <3>1, <3>2 DEF PlanAgrees, Ending
  <2>8. InSection(p, "goal") BY <1>3 DEF InSection, At, GoalSection
  <2> QED BY <1>0, <1>3, <2>3, <2>4, <2>5, <2>6, <2>7, <2>8, SaveAgrees DEF LogMove, GoalSection
<1> QED BY <1>1, <1>2, <1>3 DEF PlanRegister

LEMMA PlanAcceptAgrees == ASSUME Inv, NEW p \in Proc, PlanAccept(p) PROVE GoalAgrees'
<1>0. /\ cmd \in [Proc -> Cmd] /\ "goal" \in Workflow /\ Typed /\ cmd[p].step = "accept"
      /\ log \in [Workflow -> Seq(Event)]
      /\ UNCHANGED <<file, planFile, lock, delivery>>
  BY DEF Inv, Typed, GoalTypeOK, Workflow, PlanAccept, At
<1>1. /\ cmd[p].plan = file["goal"].plan /\ cmd[p].plan = planFile
      /\ planFile = Rendered(cmd[p].refs) /\ cmd[p].plan \in Plan
  BY <1>0, RenderedTyped DEF Inv, GoalAgrees, PlanAgrees, Planning, Accepting
<1>2. \A w \in Workflow : ~InSection(p, w) BY <1>0, NotInSection DEF GoalSection
<1>3. CASE Quit(p) /\ UNCHANGED log BY <1>0, <1>2, <1>3, QuitAgrees
<1>4. ASSUME Go(p, "terminal"), LogMove, StateValid(cmd[p].refs), AcceptedPlan' = cmd[p].plan
      PROVE  GoalAgrees'
  <2>1. Turn(p, "terminal") BY <1>0, <1>4, Turned
  <2>2. Effect BY <1>0, <1>4, Untouched DEF Effect, PlanMove
  <2>3. CopyAgrees(p)' /\ LocksAgree'
    BY <1>0, <1>2, <2>1, PlainCopy, LocksStay DEF Turn, GoalSection
  <2>4. StageAgrees(p)'
    BY <2>1, NothingReached
       DEF StageAgrees, Turn, Linking, LinkedStep, Adopting, Adopted, Collecting
  <2>5. CollectingAgrees(p)'
    BY <1>0, <2>1, <2>2, CollectingStays DEF Planning, Accepting
  <2>6. PlanAgrees(p)'
    <3>1. Rendered(cmd[p].refs)' = Rendered(cmd[p].refs) BY <2>1 DEF Turn, Rendered, Outcome
    <3>2. StateValid(cmd[p].refs)' BY <1>4, <2>1 DEF Turn, StateValid
    <3> QED BY <1>0, <1>1, <1>4, <2>1, <3>1, <3>2 DEF PlanAgrees, Turn
  <2>7. \A q \in Proc : OwnAgrees(q)'
    BY <2>3, <2>4, <2>5, <2>6 DEF OwnAgrees, Inv, OneCommand
  <2> QED BY <2>2, <2>3, <2>7, StepAgrees
<1>5. CASE /\ StateValid(cmd[p].refs) /\ AcceptedPlan = NoPlan
           /\ Log("goal", Acceptance(cmd[p].plan)) /\ Go(p, "terminal")
  <2>1. PICK e : e = Acceptance(cmd[p].plan) OBVIOUS
  <2>2. e \in Event /\ e.type = "plan_accepted" /\ e.plan = cmd[p].plan
    BY <1>1, <2>1, AcceptanceTyped, Fields
  <2>3. Acceptances = {}
    BY <1>5, AcceptedPlanIs DEF Inv, GoalAgrees
  <2>4. LogMove
    <3>1. MayLog("goal", e) BY <1>1, <2>1, <2>3, PlansDiffer DEF MayLog
    <3> QED BY <1>0, <1>5, <2>1, <2>2, <3>1 DEF LogMove
  <2>5. AcceptedPlan' = cmd[p].plan
    <3>1. PICK n : n = Len(log["goal"]) + 1 OBVIOUS
    <3>2. /\ n \notin DOMAIN log["goal"] /\ DOMAIN log'["goal"] = DOMAIN log["goal"] \cup {n}
          /\ \A i \in DOMAIN log["goal"] : log'["goal"][i] = log["goal"][i]
          /\ log'["goal"][n] = e
      BY <1>0, <1>5, <2>1, <2>2, <3>1, Appended
    <3>3. Logged("goal", "plan_accepted")' = {n}
      BY <2>2, <2>3, <3>2 DEF Acceptances, Logged
    <3>4. (CHOOSE i \in {n} : TRUE) = n OBVIOUS
    <3> QED BY <2>2, <3>2, <3>3, <3>4 DEF AcceptedPlan
  <2> QED BY <1>4, <1>5, <2>4, <2>5
<1>6. CASE /\ StateValid(cmd[p].refs) /\ AcceptedPlan = cmd[p].plan
           /\ Go(p, "terminal") /\ UNCHANGED log
  <2>1. AcceptedPlan' = AcceptedPlan BY <1>6 DEF AcceptedPlan, Logged
  <2> QED BY <1>4, <1>6, <2>1 DEF LogMove
<1> QED BY <1>3, <1>5, <1>6 DEF PlanAccept

LEMMA GoalFinishAgrees == ASSUME Inv, NEW p \in Proc, GoalFinish(p) PROVE GoalAgrees'
<1>0. /\ cmd \in [Proc -> Cmd] /\ cmd[p] \in Cmd /\ "goal" \in Workflow /\ Typed
      /\ file["goal"] \in File /\ file \in [Workflow -> File]
  BY DEF Inv, Typed, GoalTypeOK, Workflow
<1>1. PICK status : status = IF \E r \in Role : Outcome(cmd[p].refs[r]) = "blocked"
                             THEN "failed_unreported" ELSE "completed_unreported"
  OBVIOUS
<1>2. PICK copy : copy = [file["goal"] EXCEPT !.status = status, !.refs = cmd[p].refs,
                            !.accepted = cmd[p].plan]
  OBVIOUS
<1>3. status \in {"completed_unreported", "failed_unreported"} BY <1>1
<1>4. CASE At(p, "terminal") /\ CheckpointBegin(p, "goal", copy, "terminalSave")
  <2>1. copy \in File
    BY <1>0, <1>2, <1>3, FieldTyped DEF Cmd, Status, Collectable, Terminal, Unreported
  <2>2. \A v \in Workflow : ~InSection(p, v) BY <1>4, NotInSection DEF At, GoalSection
  <2>3. ASSUME Turn(p, "terminalSave"), cmd'[p].copy = copy, file["goal"].status \notin Terminal,
               UNCHANGED <<file, planFile>>
        PROVE  CopyAgrees(p)'
    BY <1>2, <1>3, <2>3 DEF CopyAgrees, Turn, At, GoalSection
  <2>4. Reached("terminalSave", Child(p))'
    BY NothingReached DEF Linking, LinkedStep, Adopting, Adopted, Collecting
  <2> QED BY <1>0, <1>4, <2>1, <2>2, <2>3, <2>4, BeginAgrees
          DEF At, GoalSection, Planning, Accepting, Ending
<1>5. CASE At(p, "terminalSave") /\ CheckpointEnd(p, "goal") /\ Quit(p)
  <2>1. /\ file["goal"].status \notin Terminal
        /\ \E end \in {"completed_unreported", "failed_unreported"} :
             cmd[p].copy = [file["goal"] EXCEPT !.status = end, !.refs = cmd[p].refs,
                              !.accepted = cmd[p].plan]
    BY <1>5 DEF Inv, GoalAgrees, CopyAgrees, At, GoalSection
  <2>2. file'["goal"] = cmd[p].copy BY <1>0, <1>5 DEF CheckpointEnd, SaveAndRelease
  <2>3. GoalMove BY <1>5, <2>1, <2>2 DEF GoalMove, GoalEnds
  <2>4. LogMove BY <1>0, <1>5, NoteMayBeLogged DEF CheckpointEnd
  <2>5. OwnAgrees(p)' /\ cmd'[p].step = "idle"
    BY <1>0, <1>5, Turned, IdleAgrees DEF NoCmd
  <2>6. InSection(p, "goal") BY <1>5 DEF InSection, At, GoalSection
  <2> QED BY <1>0, <1>5, <2>3, <2>4, <2>5, <2>6, SaveAgrees
          DEF CheckpointEnd, OwnAgrees, GoalSection
<1> QED BY <1>1, <1>2, <1>4, <1>5 DEF GoalFinish

LEMMA CommandAgrees == ASSUME Inv, NEW p \in Proc, GoalStep(p) PROVE GoalAgrees'
BY StartAgrees, DraftRegisterAgrees, DraftWaitAgrees, ChildIntentAgrees, ChildCreateAgrees,
   ChildLinkAgrees, ChildLinkedAgrees, GoalAdoptLoadAgrees, GoalAdoptSaveAgrees,
   ChildCreatedAgrees, ChildFinishAgrees, ChildCollectLoadAgrees, ChildCollectedAgrees,
   PlanWriteAgrees, PlanRegisterAgrees, PlanAcceptAgrees, GoalFinishAgrees
   DEF GoalStep

-----------------------------------------------------------------------------
(***************************************************************************)
(* Everything beside the commands.                                         *)
(***************************************************************************)
LEMMA CrashAgrees == ASSUME Inv, NEW p \in Proc, GoalCrash(p) PROVE GoalAgrees'
<1>0. /\ cmd \in [Proc -> Cmd] /\ UNCHANGED <<file, log, planFile, delivery>> /\ Quit(p)
      /\ lock' = [w \in Workflow |-> IF lock[w] = p THEN Nobody ELSE lock[w]]
      /\ lock \in [Workflow -> Proc \cup {Nobody}]
  BY DEF Inv, Typed, GoalTypeOK, GoalCrash
<1>1. cmd'[p] = NoCmd BY <1>0, Turned
<1>2. Effect BY <1>0, Untouched DEF Effect, LogMove, PlanMove
<1>3. LocksAgree'
  <2>1. \A q \in Proc, w \in Workflow : ~InSection(q, w)' /\ lock'[w] # q
    BY <1>0, <1>1, IdleAgrees, GoalAssumption DEF Inv, OneCommand
  <2> QED BY <2>1 DEF LocksAgree
<1>4. \A q \in Proc : OwnAgrees(q)' BY <1>1, IdleAgrees DEF Inv, OneCommand
<1> QED BY <1>2, <1>3, <1>4, StepAgrees

\* A step beside the command touches only files whose lock is free, and only once
\* they ended: nothing a command is about to save.
LEMMA BesideAgrees ==
  ASSUME Inv, Effect, UNCHANGED <<cmd, lock, planFile>>,
         \A w \in Workflow : file'[w] # file[w] =>
           /\ Free(w) /\ file[w].status \in Collectable
           /\ w = "goal" => file[w].status \in Terminal,
         \A r \in Role : file'[r].status \in Terminal => file[r].status \in Terminal,
         \A r \in Role : CollectedFor(r)' \subseteq CollectedFor(r)
  PROVE  GoalAgrees'
<1>1. ASSUME NEW p \in Proc PROVE OwnAgrees(p)'
  <2>0. /\ cmd[p] \in Cmd /\ OwnAgrees(p) /\ GoalAgrees /\ LocksAgree /\ "goal" \in Workflow
        /\ cmd[p].copy \in File /\ log \in [Workflow -> Seq(Event)] /\ Typed
    BY DEF Inv, Typed, GoalTypeOK, GoalAgrees, OwnAgrees, Workflow, Cmd
  <2>1. PICK c \in Role : c = Child(p) BY ChildIsRole DEF Inv, Typed, GoalTypeOK
  <2>2. Child(p)' = c /\ c \in Workflow /\ ChildAgrees(c)
    BY <2>0, <2>1, SameChild DEF Workflow, GoalAgrees
  <2>3. \A w \in Workflow : InSection(p, w) => file'[w] = file[w]
    BY <2>0, GoalAssumption DEF LocksAgree, Free
  <2>4. At(p, "adoptSave") => file'["goal"] = file["goal"]
    <3>1. At(p, "adoptSave") => c \notin file["goal"].kids BY <2>0, <2>1 DEF OwnAgrees, CopyAgrees
    <3> QED BY <2>0, <3>1, FinishedHasChildren
  <2>5. At(p, "link") => file'[c] = file[c]
    <3>1. At(p, "link") => ~file[c].linked BY <2>0, <2>1 DEF OwnAgrees, CopyAgrees
    <3> QED BY <2>2, <3>1 DEF ChildAgrees
  <2>6. CopyAgrees(p)'
    <3>1. cmd[p].step \in GoalSection => file'["goal"] = file["goal"]
      BY <2>0, <2>3 DEF InSection
    <3>2. At(p, "finishSave") => file'[c] = file[c] BY <2>1, <2>2, <2>3 DEF InSection
    <3>3. CopyAgrees(p) BY <2>0 DEF OwnAgrees
    <3>4. CASE cmd[p].step \in GoalSection
      BY <3>1, <3>3, <3>4 DEF CopyAgrees, At, GoalSection
    <3>5. CASE cmd[p].step = "adoptSave"
      BY <2>1, <2>2, <2>4, <3>3, <3>5 DEF CopyAgrees, At, GoalSection
    <3>6. CASE cmd[p].step = "link"
      BY <2>1, <2>2, <2>5, <3>3, <3>6 DEF CopyAgrees, At, GoalSection
    <3>7. CASE cmd[p].step = "finishSave"
      <4>1. PICK old : old = file[c] OBVIOUS
      <4>2. /\ old.status \notin Terminal
            /\ \E end \in Ends[c] : cmd[p].copy = [old EXCEPT !.status = end,
                 !.result = IF end = "completed_unreported" THEN "pass" ELSE "blocked"]
        BY <2>1, <3>3, <3>7, <4>1 DEF CopyAgrees, At
      <4>3. file'[c] = old /\ cmd'[p] = cmd[p] BY <3>2, <3>7, <4>1 DEF At
      <4> QED BY <2>2, <3>7, <4>2, <4>3 DEF CopyAgrees, At, GoalSection
    <3>8. CASE cmd[p].step \notin GoalSection \cup {"adoptSave", "link", "finishSave"}
      BY <3>8, PlainCopy
    <3> QED BY <3>4, <3>5, <3>6, <3>7, <3>8
  <2>7. StageAgrees(p)'
    <3>1. Reached(cmd[p].step, c) BY <2>0, <2>1 DEF OwnAgrees, StageAgrees
    <3>2. PICK s : s = cmd[p].step OBVIOUS
    <3>3. Reached(s, c)' BY <3>1, <3>2, Steady
    <3> QED BY <2>2, <3>2, <3>3 DEF StageAgrees, Reached, LoggedFor, Logged
  <2>8. CollectingAgrees(p)'
    <3>1. Done(p)' = Done(p) BY DEF Done
    <3>2. \A r \in Done(p)' : RefIsLogged(r, cmd[p].refs[r])'
      BY <3>1, DoneStays
    <3>3. ASSUME At(p, "collected"), NEW copy, copy = cmd[p].copy, NEW ref,
                 ref = [status |-> copy.status, result |-> copy.result, proof |-> copy.proof]
          PROVE  /\ copy.status \in Collectable /\ Past(ref, c)'
                 /\ copy.status = "reported" => copy.proof
                 /\ copy.status = "blocked" => file'[c].status \notin Terminal
                 /\ \A k \in CollectedFor(c)' : ~Older(copy.status, RefAt(k)'.status)
      <4>1. /\ copy.status \in Collectable /\ Past(ref, c)
            /\ copy.status = "reported" => copy.proof
            /\ copy.status = "blocked" => file[c].status \notin Terminal
            /\ \A k \in CollectedFor(c) : ~Older(copy.status, RefAt(k).status)
        BY <2>0, <2>1, <3>3 DEF OwnAgrees, CollectingAgrees
      <4>2. ref \in Ref BY <2>0, <3>3 DEF File, Ref
      <4>3. Past(ref, c)' BY <4>1, <4>2, Steady
      <4>4. \A k \in CollectedFor(c) : RefAt(k)' = RefAt(k)
        BY <2>0, LogGrows DEF Effect, Grown, CollectedFor, LoggedFor, Logged, RefAt
      <4> QED BY <4>1, <4>3, <4>4
    <3>4. PICK copy : copy = cmd[p].copy OBVIOUS
    <3>5. PICK ref : ref = [status |-> copy.status, result |-> copy.result, proof |-> copy.proof]
      OBVIOUS
    <3>6. At(p, "collected") =>
            /\ copy.status \in Collectable /\ Past(ref, c)'
            /\ copy.status = "reported" => copy.proof
            /\ copy.status = "blocked" => file'[c].status \notin Terminal
            /\ \A k \in CollectedFor(c)' : ~Older(copy.status, RefAt(k)'.status)
      BY <3>3, <3>4, <3>5
    <3> QED BY <2>2, <3>2, <3>4, <3>5, <3>6
            DEF CollectingAgrees, At, Past, CollectedFor, LoggedFor, Logged, RefAt, Older
  <2>9. PlanAgrees(p)'
    <3>1. file'["goal"].plan = file["goal"].plan
      BY <2>0, GoalKeeps DEF Effect, GoalAgrees
    <3>2. /\ Rendered(cmd[p].refs)' = Rendered(cmd[p].refs)
          /\ StateValid(cmd[p].refs)' <=> StateValid(cmd[p].refs)
      BY DEF Rendered, Outcome, StateValid
    <3>3. PlanAgrees(p) BY <2>0 DEF OwnAgrees
    <3>4. cmd[p].step \in Ending => AcceptedPlan' = AcceptedPlan
      <4>1. cmd[p].step \in Ending => AcceptedPlan # NoPlan
        BY <3>3, RenderedTyped, PlansDiffer DEF PlanAgrees, Planning, Accepting
      <4> QED BY <2>0, <4>1, AcceptanceStep DEF GoalAgrees
    <3> QED BY <3>1, <3>2, <3>3, <3>4 DEF PlanAgrees
  <2> QED BY <2>6, <2>7, <2>8, <2>9 DEF OwnAgrees
<1>2. LocksAgree' BY DEF Inv, GoalAgrees, LocksAgree, InSection, Child, At
<1> QED BY <1>1, <1>2, StepAgrees

LEMMA ApproveAgrees == ASSUME Inv, Approve PROVE GoalAgrees'
<1>0. /\ UNCHANGED <<file, planFile, lock, cmd, delivery>> /\ "goal" \in Workflow
      /\ log \in [Workflow -> Seq(Event)]
  BY DEF Approve, Workflow, Inv, Typed
<1>1. PICK type \in Approvals :
        /\ Logged("goal", type) = {}
        /\ Log("goal", IF type = "plan_accepted" THEN Acceptance(OwnerPlan) ELSE Note(type))
  BY DEF Approve
<1>2. PICK e : e = IF type = "plan_accepted" THEN Acceptance(OwnerPlan) ELSE Note(type) OBVIOUS
<1>3. e \in Event /\ e.type \in {"plan_accepted", "owner_decision"} /\ MayLog("goal", e)
  BY <1>1, <1>2, GoalAssumption, AcceptanceTyped, NoteTyped, Fields DEF MayLog, Acceptances
<1>4. LogMove BY <1>0, <1>1, <1>2, <1>3 DEF LogMove
<1>5. ASSUME NEW r \in Role PROVE CollectedFor(r)' \subseteq CollectedFor(r)
  <2>1. PICK n : n = Len(log["goal"]) + 1 OBVIOUS
  <2>2. /\ DOMAIN log'["goal"] = DOMAIN log["goal"] \cup {n} /\ log'["goal"][n] = e
        /\ \A i \in DOMAIN log["goal"] : log'["goal"][i] = log["goal"][i]
    BY <1>0, <1>1, <1>2, <1>3, <2>1, Appended
  <2> QED BY <1>3, <2>2 DEF CollectedFor, LoggedFor, Logged
<1>6. Effect BY <1>0, <1>4, Untouched DEF Effect, PlanMove
<1> QED BY <1>0, <1>5, <1>6, BesideAgrees

LEMMA SessionAgrees ==
  ASSUME Inv, NEW w \in Workflow,
         \/ w \in Role /\ ChildUnblock(w)
         \/ DeliveryAsk(w) \/ DeliverySend(w) \/ DeliveryProve(w) \/ DeliveryReport(w)
         \/ DeliveryAbandon(w)
  PROVE  GoalAgrees'
<1>0. /\ UNCHANGED <<log, planFile, lock, cmd>> /\ "goal" \in Workflow /\ "goal" \notin Role
      /\ Role \subseteq Workflow /\ file \in [Workflow -> File] /\ file[w] \in File
      /\ delivery \in [Workflow -> {"none", "asked", "sent", "proved", "reported"}]
  BY GoalAssumption DEF ChildUnblock, DeliveryAsk, DeliverySend, DeliveryProve, DeliveryReport,
     DeliveryAbandon, Workflow, Inv, Typed, GoalTypeOK
<1>1. \A v \in Workflow : v # w => file'[v] = file[v] /\ delivery'[v] = delivery[v]
  BY <1>0 DEF ChildUnblock, DeliveryAsk, DeliverySend, DeliveryProve, DeliveryReport,
     DeliveryAbandon
<1>2. \/ file'[w] = file[w] /\ (delivery'[w] = "proved" => delivery[w] = "proved")
      \/ /\ w \in Role /\ file[w].status = "blocked" /\ Free(w)
         /\ file'[w] = [file[w] EXCEPT !.status = "running"] /\ delivery'[w] = delivery[w]
      \/ /\ file[w].status \in Unreported /\ Free(w)
         /\ file'[w] = [file[w] EXCEPT !.proof = TRUE]
      \/ /\ file[w].status \in Unreported /\ Free(w) /\ delivery[w] = "proved"
         /\ delivery'[w] = "reported"
         /\ file'[w] = [file[w] EXCEPT !.status = "reported"]
         /\ w = "goal" => ChildExecutionValid(Reported(file["goal"]))
  <2>1. CASE w \in Role /\ ChildUnblock(w) BY <1>0, <2>1 DEF ChildUnblock
  <2>2. CASE DeliveryAsk(w) \/ DeliverySend(w) \/ DeliveryAbandon(w)
    BY <1>0, <2>2 DEF DeliveryAsk, DeliverySend, DeliveryAbandon
  <2>3. CASE DeliveryProve(w) BY <1>0, <2>3 DEF DeliveryProve
  <2>4. CASE DeliveryReport(w) BY <1>0, <2>4 DEF DeliveryReport, Reported
  <2> QED BY <2>1, <2>2, <2>3, <2>4
<1>3. ASSUME NEW r \in Role PROVE ChildMove(r) /\ ProofMove(r)
  <2>1. CASE r = w BY <1>0, <1>2, <2>1 DEF ChildMove, ProofMove, File
  <2>2. CASE r # w BY <1>0, <1>1, <2>2 DEF ChildMove, ProofMove
  <2> QED BY <2>1, <2>2
<1>4. GoalMove
  <2>1. CASE w = "goal" BY <1>0, <1>2, <2>1 DEF GoalMove, GoalReported
  <2>2. CASE w # "goal" BY <1>0, <1>1, <2>2 DEF GoalMove
  <2> QED BY <2>1, <2>2
<1>5. Effect BY <1>0, <1>3, <1>4 DEF Effect, PlanMove, LogMove
<1>6. \A v \in Workflow : file'[v] # file[v] =>
        /\ Free(v) /\ file[v].status \in Collectable
        /\ v = "goal" => file[v].status \in Terminal
  BY <1>0, <1>1, <1>2 DEF Collectable, Terminal
<1>7. \A r \in Role : file'[r].status \in Terminal => file[r].status \in Terminal
  BY <1>0, <1>1, <1>2 DEF Terminal, Unreported, File
<1>8. \A r \in Role : CollectedFor(r)' \subseteq CollectedFor(r)
  BY <1>0 DEF CollectedFor, LoggedFor, Logged
<1> QED BY <1>0, <1>5, <1>6, <1>7, <1>8, BesideAgrees

LEMMA BesideStepAgrees == ASSUME Inv, BesideStep PROVE GoalAgrees'
BY CrashAgrees, ApproveAgrees, SessionAgrees DEF BesideStep, Workflow

-----------------------------------------------------------------------------
(***************************************************************************)
(* The invariant holds, and what follows from it.                          *)
(***************************************************************************)
LEMMA InitAgrees == GoalInit => GoalAgrees
<1> SUFFICES ASSUME GoalInit PROVE GoalAgrees OBVIOUS
<1>1. /\ "goal" \in Workflow /\ "goal" \notin Role /\ Role \subseteq Workflow
      /\ \A w \in Workflow : DOMAIN log[w] = {}
  BY GoalAssumption DEF GoalInit, Workflow
<1>2. /\ file["goal"] = Created /\ \A r \in Role : file[r] = NoFile
      /\ planFile = NoPlan /\ \A p \in Proc : cmd[p] = NoCmd
      /\ \A w \in Workflow : lock[w] = Nobody /\ delivery[w] = "none"
  BY <1>1 DEF GoalInit
<1>3. \A w \in Workflow : \A type : Logged(w, type) = {} BY <1>1 DEF Logged
<1>4. \A r, type : LoggedFor(type, r) = {} BY <1>1, <1>3 DEF LoggedFor
<1>5. LogAgrees BY <1>1, <1>3, <1>4 DEF LogAgrees
<1>6. CreatedMeansLinked /\ CollectionAgrees
  BY <1>4 DEF CreatedMeansLinked, CollectionAgrees, CollectedFor
<1>7. PlanIsOnDisk /\ AcceptanceAgrees /\ FinishedAgrees
  BY <1>1, <1>2, <1>3
     DEF PlanIsOnDisk, AcceptanceAgrees, Acceptances, FinishedAgrees, Created, NoFile, Terminal,
         Unreported
<1>8. ASSUME NEW r \in Role PROVE ChildAgrees(r)
  <2>1. NoFile.status = "absent" BY DEF NoFile
  <2>2. file[r] = NoFile /\ delivery[r] = "none" BY <1>1, <1>2
  <2> QED BY <2>1, <2>2 DEF ChildAgrees, Collectable, Terminal, Unreported
<1>9. ASSUME NEW p \in Proc
      PROVE  OwnAgrees(p) /\ \A w \in Workflow : ~InSection(p, w)
  <2>1. cmd[p].step = "idle" /\ cmd[p].k = 1 BY <1>2 DEF NoCmd
  <2>2. Done(p) = {} BY <2>1 DEF Done, Planning, Accepting, Ending
  <2>3. CopyAgrees(p) BY <2>1 DEF CopyAgrees, At, GoalSection
  <2>4. StageAgrees(p)
    BY <2>1 DEF StageAgrees, Reached, Linking, LinkedStep, Adopting, Adopted, Collecting
  <2>5. CollectingAgrees(p) BY <2>1, <2>2 DEF CollectingAgrees, At
  <2>6. PlanAgrees(p) BY <2>1 DEF PlanAgrees, Planning, Accepting, Ending
  <2> QED BY <2>1, <2>3, <2>4, <2>5, <2>6 DEF OwnAgrees, InSection, At, GoalSection
<1>10. LocksAgree BY <1>2, <1>9, GoalAssumption DEF LocksAgree
<1> QED BY <1>5, <1>6, <1>7, <1>8, <1>9, <1>10 DEF GoalAgrees, OwnAgrees

LEMMA StillAgrees == ASSUME UNCHANGED goalVars, GoalAgrees PROVE GoalAgrees'
<1>1. UNCHANGED <<file, log, planFile, lock, cmd, delivery>> BY DEF goalVars
<1>2. /\ LocksAgree' /\ LogAgrees' /\ CreatedMeansLinked' /\ CollectionAgrees'
      /\ PlanIsOnDisk' /\ AcceptanceAgrees'
  BY <1>1 DEF GoalAgrees, LocksAgree, InSection, At, Child, LogAgrees, Logged, LoggedFor,
     CreatedMeansLinked, CollectionAgrees, CollectedFor, RefAt, Past, PlanIsOnDisk,
     AcceptanceAgrees, Acceptances
<1>3. FinishedAgrees'
  BY <1>1 DEF GoalAgrees, FinishedAgrees, RefIsLogged, CollectedFor, LoggedFor, Logged,
     AcceptedPlan
<1>4. \A r \in Role : ChildAgrees(r)' BY <1>1 DEF GoalAgrees, ChildAgrees
<1>5. ASSUME NEW p \in Proc PROVE OwnAgrees(p)'
  <2>1. CopyAgrees(p)' BY <1>1 DEF GoalAgrees, CopyAgrees, At, Child
  <2>2. StageAgrees(p)' BY <1>1 DEF GoalAgrees, StageAgrees, Reached, Child, LoggedFor, Logged
  <2>3. CollectingAgrees(p)'
    BY <1>1 DEF GoalAgrees, CollectingAgrees, At, Child, Past, CollectedFor, LoggedFor, Logged,
       RefAt, RefIsLogged, Done
  <2>4. PlanAgrees(p)' BY <1>1 DEF GoalAgrees, PlanAgrees, AcceptedPlan, Logged
  <2> QED BY <2>1, <2>2, <2>3, <2>4 DEF OwnAgrees
<1> QED BY <1>2, <1>3, <1>4, <1>5 DEF GoalAgrees, OwnAgrees

\* One goal command at a time, the records always agree: what is logged, linked,
\* collected, planned and accepted fits together wherever a command died, whatever
\* sessions, owner and deliveries did beside it (goal.py:179-374, 560-660).
THEOREM GoalAlwaysAgrees == ASSUME OneCommand PROVE GoalSpec => []GoalAgrees
<1>1. GoalInit => Typed /\ GoalAgrees BY InitTyped, InitAgrees
<1>2. Typed /\ GoalAgrees /\ [GoalNext]_goalVars => Typed' /\ GoalAgrees'
  <2> SUFFICES ASSUME Typed, GoalAgrees, [GoalNext]_goalVars PROVE Typed' /\ GoalAgrees' OBVIOUS
  <2>1. Inv BY DEF Inv
  <2>2. Typed' BY StepTyped
  <2>3. CASE UNCHANGED goalVars BY <2>2, <2>3, StillAgrees
  <2>4. CASE BesideStep BY <2>1, <2>2, <2>4, BesideStepAgrees
  <2>5. ASSUME NEW p \in Proc, GoalStep(p) PROVE GoalAgrees' BY <2>1, <2>5, CommandAgrees
  <2> QED BY <2>2, <2>3, <2>4, <2>5, NextIsStep
<1> QED BY <1>1, <1>2, PTL DEF GoalSpec

\* An event of child_workflow_created is never without the links it speaks of.
THEOREM CreatedMeansLinkedHolds == ASSUME OneCommand PROVE GoalSpec => []CreatedMeansLinked
<1>1. GoalAgrees => CreatedMeansLinked BY DEF GoalAgrees
<1> QED BY <1>1, GoalAlwaysAgrees, PTL

\* Where an owner approves by a decision, the one accepted plan is the registered
\* one and the one on disk.
THEOREM AcceptanceIsBackedHolds ==
  ASSUME OneCommand, "plan_accepted" \notin Approvals
  PROVE  GoalSpec => []AcceptanceIsBacked
<1>1. GoalAgrees => AcceptanceIsBacked
  <2> SUFFICES ASSUME GoalAgrees, NEW i \in Acceptances
               PROVE  /\ Acceptances = {i} /\ log["goal"][i].plan = file["goal"].plan
                      /\ log["goal"][i].plan = planFile
    BY DEF AcceptanceIsBacked, Acceptances
  <2>1. /\ log["goal"][i].plan # NoPlan /\ log["goal"][i].plan = file["goal"].plan
        /\ Acceptances = {i}
    BY DEF GoalAgrees, AcceptanceAgrees
  <2> QED BY <2>1 DEF GoalAgrees, PlanIsOnDisk
<1> QED BY <1>1, GoalAlwaysAgrees, PTL

\* A finished goal holds what it last collected of a child that is still as it was.
LEMMA CollectedLast ==
  ASSUME Typed, GoalAgrees, NEW r \in Role, NEW ref \in Ref, RefIsLogged(r, ref), ~ref.proof,
         file[r].status = ref.status
  PROVE  /\ ref.status \in Collectable /\ file[r].result = ref.result
         /\ \E k \in CollectedFor(r) :
              log["goal"][k] = Collected(r, ref) /\ \A l \in CollectedFor(r) : l <= k
<1>1. PICK k \in CollectedFor(r) : log["goal"][k] = Collected(r, ref) BY DEF RefIsLogged
<1>2. RefAt(k).status = ref.status /\ RefAt(k).result = ref.result
  BY <1>1, CollectedForm DEF RefAt
<1>3. Past(RefAt(k), r) BY DEF GoalAgrees, CollectionAgrees
<1>4. ref.status # "reported" BY DEF RefIsLogged
<1>5. ref.status \in Unreported \cup {"blocked"} BY <1>2, <1>3, <1>4 DEF Past
<1>6. file[r].result = ref.result
  BY <1>2, <1>3, <1>4 DEF Past, GoalAgrees, ChildAgrees
<1>7. ASSUME NEW l \in CollectedFor(r) PROVE l <= k
  <2>1. k \in Nat /\ l \in Nat
    BY LogIndex DEF Typed, Workflow, CollectedFor, LoggedFor, Logged
  <2>2. ASSUME k < l PROVE FALSE
    <3>1. Older(RefAt(k).status, RefAt(l).status) BY <2>2 DEF GoalAgrees, CollectionAgrees
    <3>2. Past(RefAt(l), r) BY DEF GoalAgrees, CollectionAgrees
    <3> QED BY <1>2, <1>4, <3>1, <3>2 DEF Past, Older, Unreported
  <2> QED BY <2>1, <2>2
<1> QED BY <1>1, <1>5, <1>6, <1>7 DEF Collectable, Terminal

\* Wherever its commands died, a finished goal whose children are as it collected
\* them passes every check of its delivery: no crash can leave it undeliverable.
THEOREM ParentIsDeliverableHolds ==
  ASSUME OneCommand PROVE GoalSpec => []ParentIsDeliverable
<1>1. Typed /\ GoalAgrees => ParentIsDeliverable
  <2> SUFFICES ASSUME Typed, GoalAgrees, NEW g \in File, g = file["goal"], g.status \in Unreported,
                      \A r \in Role : file[r].status = g.refs[r].status
               PROVE  GoalDeliverable(g)
    BY DEF ParentIsDeliverable, Typed, GoalTypeOK, Workflow
  <2>1. /\ \A r \in Role : RefIsLogged(r, g.refs[r]) /\ g.refs[r] \in Ref
        /\ StateValid(g.refs) /\ g.accepted = g.plan /\ g.plan = Rendered(g.refs)
        /\ AcceptedPlan = g.plan /\ g.status # "reported"
    BY DEF GoalAgrees, FinishedAgrees, Terminal, Unreported, File
  <2>2. \A r \in Role : /\ r \in g.kids /\ file[r].linked
                        /\ LoggedFor("child_creation_intent", r) # {}
                        /\ LoggedFor("child_workflow_created", r) # {}
                        /\ Logged(r, "parent_linked") # {}
    BY FinishedHasChildren DEF Terminal
  <2>3. g.kids = Role BY <2>2 DEF File
  <2>4. ASSUME NEW r \in Role, NEW type \in OncePerRole
        PROVE  \A i, j \in LoggedFor(type, r) : i = j
    BY DEF GoalAgrees, LogAgrees, LoggedFor, Logged
  <2>5. ASSUME NEW r \in Role
        PROVE  /\ file[r].linked
               /\ file[r].status \in Collectable /\ g.refs[r].status \in Collectable
               /\ file[r].status = g.refs[r].status
               /\ file[r].result = g.refs[r].result
               /\ \E i \in LoggedFor("child_creation_intent", r),
                     j \in LoggedFor("child_workflow_created", r),
                     k \in LoggedFor("child_workflow_collected", r) :
                    /\ LoggedFor("child_creation_intent", r) = {i}
                    /\ LoggedFor("child_workflow_created", r) = {j}
                    /\ \A l \in LoggedFor("child_workflow_collected", r) : l <= k
                    /\ i < j /\ j < k
                    /\ log["goal"][k] = Collected(r, g.refs[r])
               /\ \E i \in Logged(r, "parent_linked") : Logged(r, "parent_linked") = {i}
    <3>1. PICK k \in CollectedFor(r) :
            log["goal"][k] = Collected(r, g.refs[r]) /\ \A l \in CollectedFor(r) : l <= k
      BY <2>1, CollectedLast DEF StateValid
    <3>2. PICK j \in LoggedFor("child_workflow_created", r) : j < k
      BY DEF GoalAgrees, LogAgrees, CollectedFor
    <3>3. PICK i \in LoggedFor("child_creation_intent", r) : i < j
      BY DEF GoalAgrees, LogAgrees
    <3>4. /\ LoggedFor("child_creation_intent", r) = {i}
          /\ LoggedFor("child_workflow_created", r) = {j}
      BY <2>4 DEF OncePerRole
    <3>5. \E l \in Logged(r, "parent_linked") : Logged(r, "parent_linked") = {l}
      BY <2>2 DEF GoalAgrees, LogAgrees
    <3>6. /\ g.refs[r].status \in Collectable /\ file[r].result = g.refs[r].result
          /\ file[r].status = g.refs[r].status
      BY <2>1, CollectedLast DEF StateValid
    <3> QED BY <2>2, <3>1, <3>2, <3>3, <3>4, <3>5, <3>6 DEF CollectedFor
  <2>6. ChildExecutionValid(g) BY <2>1, <2>3, <2>5 DEF ChildExecutionValid
  <2>7. g.plan # NoPlan BY <2>1, RenderedTyped, PlansDiffer
  <2>8. planFile = Rendered(g.refs) BY <2>1, <2>7 DEF GoalAgrees, PlanIsOnDisk
  <2>9. \E i \in Acceptances : Acceptances = {i} /\ log["goal"][i].plan = g.accepted
    <3>1. PICK i \in Acceptances : TRUE BY <2>1, <2>7, AcceptedPlanIs DEF GoalAgrees
    <3> QED BY <2>1, <3>1, AcceptedPlanIs DEF GoalAgrees
  <2> QED BY <2>1, <2>6, <2>8, <2>9 DEF GoalDeliverable, Acceptances
<1>2. GoalSpec => []Typed BY InitTyped, StepTyped, PTL DEF GoalSpec
<1> QED BY <1>1, <1>2, GoalAlwaysAgrees, PTL

\* Only complete-reported makes a goal reported.
LEMMA NotReportedByCommand ==
  ASSUME Inv, NEW p \in Proc, GoalStep(p), file["goal"].status # "reported"
  PROVE  file'["goal"].status # "reported"
<1>0. /\ "goal" \in Workflow /\ file \in [Workflow -> File] /\ Child(p) # "goal"
      /\ CopyAgrees(p) /\ file["goal"] \in File /\ cmd[p].copy \in File
  BY ChildIsRole DEF Inv, Typed, GoalTypeOK, GoalAgrees, Workflow, Cmd
<1>1. cmd[p].step \in GoalSection \cup {"adoptSave"} => cmd[p].copy.status # "reported"
  <2>1. CASE cmd[p].step \in {"draftSave", "registerSave"}
    BY <1>0, <2>1 DEF CopyAgrees, At, GoalSection, File
  <2>2. CASE cmd[p].step \in {"waitSave", "resumeSave"}
    BY <1>0, <2>2 DEF CopyAgrees, At, GoalSection, File
  <2>3. CASE cmd[p].step = "terminalSave"
    BY <1>0, <2>3 DEF CopyAgrees, At, GoalSection, File
  <2>4. CASE cmd[p].step = "adoptSave"
    BY <1>0, <2>4 DEF CopyAgrees, At, GoalSection
  <2> QED BY <2>1, <2>2, <2>3, <2>4 DEF GoalSection
<1>2. \/ file'["goal"] = file["goal"]
      \/ /\ cmd[p].step \in GoalSection /\ file'["goal"] = cmd[p].copy
      \/ /\ cmd[p].step = "adoptSave"
         /\ file'["goal"] = [cmd[p].copy EXCEPT !.kids = @ \cup {Child(p)}]
  <2>1. CASE DraftRegister(p) \/ PlanRegister(p)
    BY <1>0, <2>1 DEF DraftRegister, PlanRegister, SaveAndRelease, At, GoalSection
  <2>2. CASE DraftWait(p) \/ GoalResume(p) \/ GoalFinish(p)
    BY <1>0, <2>2 DEF DraftWait, GoalResume, GoalFinish, CheckpointBegin, CheckpointEnd,
       SaveAndRelease, At, GoalSection
  <2>3. CASE ChildCreate(p) \/ ChildLink(p) \/ ChildFinish(p)
    BY <1>0, <2>3 DEF ChildCreate, ChildLink, ChildFinish, CheckpointBegin, CheckpointEnd,
       SaveAndRelease
  <2>4. CASE GoalAdoptSave(p) BY <1>0, <2>4 DEF GoalAdoptSave, At
  <2>5. CASE \/ GoalStart(p) \/ ChildIntent(p) \/ ChildLinked(p) \/ GoalAdoptLoad(p)
             \/ ChildCreated(p) \/ ChildCollectLoad(p) \/ ChildCollected(p)
             \/ PlanWrite(p) \/ PlanAccept(p)
    BY <2>5 DEF GoalStart, ChildIntent, ChildLinked, GoalAdoptLoad, ChildCreated,
       ChildCollectLoad, ChildCollected, PlanWrite, PlanAccept
  <2> QED BY <2>1, <2>2, <2>3, <2>4, <2>5 DEF GoalStep
<1>3. [cmd[p].copy EXCEPT !.kids = @ \cup {Child(p)}].status = cmd[p].copy.status
  BY <1>0 DEF File
<1> QED BY <1>1, <1>2, <1>3

\* A goal becomes reported only while none of its children is.
THEOREM ReportedBesideSilentChildrenHolds ==
  ASSUME OneCommand PROVE GoalSpec => ReportedBesideSilentChildren
<1>1. Typed /\ GoalAgrees /\ [GoalNext]_goalVars =>
        [file["goal"].status # "reported" /\ file'["goal"].status = "reported" =>
           \A r \in Role : file[r].status # "reported"]_goalVars
  <2> SUFFICES ASSUME Typed, GoalAgrees, [GoalNext]_goalVars,
                      file["goal"].status # "reported", file'["goal"].status = "reported",
                      NEW r \in Role
               PROVE  file[r].status # "reported"
    OBVIOUS
  <2>1. Inv BY DEF Inv
  <2>2. ~UNCHANGED goalVars BY DEF goalVars
  <2>3. ~\E p \in Proc : GoalStep(p) BY <2>1, NotReportedByCommand
  <2>4. /\ BesideStep /\ "goal" \in Workflow /\ "goal" \notin Role
        /\ file \in [Workflow -> File] /\ file["goal"] \in File
    BY <2>2, <2>3, NextIsStep, GoalAssumption DEF Typed, GoalTypeOK, Workflow
  <2>5. DeliveryReport("goal")
    <3>1. ASSUME NEW p \in Proc PROVE ~GoalCrash(p) BY DEF GoalCrash
    <3>2. ~Approve BY DEF Approve
    <3>3. ASSUME NEW q \in Role PROVE ~ChildUnblock(q) BY <2>4 DEF ChildUnblock
    <3>4. ASSUME NEW w \in Workflow
          PROVE  ~(DeliveryAsk(w) \/ DeliverySend(w) \/ DeliveryProve(w) \/ DeliveryAbandon(w))
      BY <2>4 DEF DeliveryAsk, DeliverySend, DeliveryProve, DeliveryAbandon, File
    <3>5. ASSUME NEW w \in Workflow, DeliveryReport(w) PROVE w = "goal"
      BY <2>4, <3>5 DEF DeliveryReport
    <3> QED BY <2>4, <3>1, <3>2, <3>3, <3>4, <3>5 DEF BesideStep
  <2>6. Reported(file["goal"]).status = "reported" BY <2>4 DEF Reported, File
  <2> QED BY <2>5, <2>6 DEF DeliveryReport, ChildExecutionValid
<1>2. GoalSpec => []Typed BY InitTyped, StepTyped, PTL DEF GoalSpec
<1> QED BY <1>1, <1>2, GoalAlwaysAgrees, PTL DEF GoalSpec, ReportedBesideSilentChildren
=============================================================================
