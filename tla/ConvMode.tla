------------------------------- MODULE ConvMode -------------------------------
(***************************************************************************)
(* Conv mode: cmd_conv and ConvHandler.finalize_conv (modes/conv.py), the  *)
(* bounded fix runner it asks for (modes/fix_runner.py), which rewrites    *)
(* the user's files from a command of its own, and the audit delivery      *)
(* makes of the result (cli.py).                                           *)
(*                                                                         *)
(* A packet whose accepted changes carry edits leaves the workflow         *)
(* running with a fix pending; the runner applies the edits and writes a   *)
(* result file; a later call hands the result in and closes the fix.       *)
(* Coarser than VerifyMode, which takes these steps apart: an artifact is  *)
(* written and registered in one step, and its events are appended in one. *)
(* Leases are left to VerifyMode and Recovery.                             *)
(*                                                                         *)
(* A file is the text it had at first with the edits made since: which,    *)
(* and how often.  An outside edit leaves the fragments that accepted      *)
(* edits look for alone.                                                   *)
(***************************************************************************)
EXTENDS Panel, Sequences

CONSTANTS
  Process,     \* finalizer processes
  Requests,    \* what may be asked: "plan_only", "files" (it names all of File), "words"
  Edit,        \* the local file edits findings may carry
  FileOf,      \* FileOf[e]: the file e rewrites
  Whole,       \* the edits whose old text is a whole file
  Extending,   \* the edits whose new text still contains the old
  Packets,     \* what a runner may hand in: findings, and per failure mode the edits of its gravest
  Collected,   \* what a native panel may come back with: findings only
  MaxStarts,   \* bound: calls of cmd_conv
  MaxRuns,     \* bound: calls of cmd_fix_runner
  MaxCrashes,  \* bound: processes killed
  MaxEdits     \* bound: files edited by others

NoEdits == [m \in Mode |-> {}]
AnyPacket == [raised : SUBSET Raised, edits : [Mode -> SUBSET Edit]]

ASSUME ConvAssumption ==
  /\ Requests \subseteq {"plan_only", "files", "words"}
  /\ FileOf \in [Edit -> File] /\ Whole \subseteq Edit /\ Extending \subseteq Edit
  /\ Packets \subseteq AnyPacket /\ Collected \subseteq SUBSET Raised
  /\ MaxStarts \in Nat /\ MaxRuns \in Nat /\ MaxCrashes \in Nat /\ MaxEdits \in Nat

VARIABLES
  wf,       \* workflow.json: request, status, owner's decision, conv_state
  arts,     \* its artifacts: id -> content when it was registered
  disk,     \* the artifact files: id -> content
  events,   \* events.jsonl: event type -> what it speaks of
  file,     \* the user's files
  written,  \* the result files fix runners left
  cmd,      \* per process, where it is in its call of cmd_conv
  runner,   \* the fix runner, where it is in its call
  hist      \* history: calls made, crashes, outside edits; calm: see Calm

vars == <<wf, arts, disk, events, file, written, cmd, runner, hist>>

NoPacket == [raised |-> {}, edits |-> NoEdits]
NoResult == [changes |-> <<>>, before |-> <<>>, after |-> <<>>]
NoCall   == [how |-> "none", packet |-> NoPacket]
NoReview == [run |-> 0, packet |-> NoPacket]
Fresh    == [is |-> "whole", times |-> [e \in Edit |-> 0]]

Idle   == [at |-> "idle", how |-> "plain", run |-> 0, packet |-> NoPacket, given |-> NoResult,
           seen |-> {}, fix |-> "none", had |-> FALSE]
Asleep == [at |-> "idle", result |-> NoResult, todo |-> {}, applied |-> <<>>]

Terminal == wf.status \in {"completed_unreported", "failed_unreported"}

Init ==
  /\ wf \in [request : Requests, status : {"running"}, decided : {FALSE}, how : {"plain"},
             review : {NoReview}, fix : {"none"}, result : {NoResult},
             text : {[how |-> "plain", raised |-> {}, fix |-> "none"]}]
  /\ arts = <<>> /\ disk = <<>> /\ events = <<>>
  /\ file = [f \in File |-> Fresh] /\ written = {}
  /\ cmd = [p \in Process |-> Idle] /\ runner = Asleep
  /\ hist = [starts |-> 0, runs |-> 0, crashes |-> 0, edits |-> 0, calm |-> TRUE, call |-> NoCall]

Quit(p)    == cmd' = [cmd EXCEPT ![p] = Idle]
Goto(p, a) == cmd' = [cmd EXCEPT ![p].at = a]

-----------------------------------------------------------------------------
\* accepted_change_refs: the accepted failure modes with the edits they carry.
Changes(packet) == [m \in Accepted(packet.raised) |-> packet.edits[m]]
EditsOf(changes) == UNION {changes[m] : m \in DOMAIN changes}

\* The old text of e occurs exactly once; and the file once it is replaced.
Matches(e, f) ==
  /\ f.is # "torn"
  /\ e \in Whole => f.is = "whole" /\ \A d \in Edit \ {e} : f.times[d] = 0
  /\ e \notin Extending => f.times[e] = 0
Replaced(e, f) == [f EXCEPT !.times[e] = @ + 1]

\* _validate_fix_runner_mutation_proof: the hashes before and after are those of the
\* edit's own texts, and the file has the hash after.
MutationProof(result) ==
  \A e \in EditsOf(result.changes) :
    /\ e \in Whole /\ result.before[e] = Fresh
    /\ result.after[e] = Replaced(e, Fresh)
    /\ file[FileOf[e]] = result.after[e]

\* What a process would record: a native review has the timestamps of its launch.
Review(p) == [run |-> cmd[p].run, packet |-> cmd[p].packet]
Text(p)   == [how |-> cmd[p].how, raised |-> cmd[p].packet.raised, fix |-> cmd[p].fix]

MarkersOf(p) ==
  LET plain == Classified(wf.request = "plan_only")
  IN CASE cmd[p].how # "plain" -> Executed(plain, {"findings"})
       [] cmd[p].how = "plain" /\ wf.request = "files" -> Executed(plain, {"rounds"})
       [] OTHER -> plain

\* Write a file and register it, the registration under the lock: a finished workflow
\* takes no artifact, an id is taken once; the file is written all the same.
Keep(p, id, content, next) ==
  /\ disk' = With(disk, id, content)
  /\ IF Terminal \/ id \in DOMAIN arts
     THEN Quit(p) /\ UNCHANGED arts
     ELSE Goto(p, next) /\ arts' = With(arts, id, content)

-----------------------------------------------------------------------------
\* Nobody edits the files, the calls of conv and of the runner do not overlap, every call
\* of conv is of one kind with one packet, and a native panel is launched once.
Calm(call) ==
  /\ hist.calm /\ runner.at = "idle" /\ \A p \in Process : cmd[p].at = "idle"
  /\ call \in {hist.call, NoCall} \/ hist.call = NoCall
  /\ call.how = "native" => hist.starts = 0
Noted(calm, call) ==
  [hist EXCEPT !.calm = calm,
     !.call = CASE ~calm -> NoCall [] calm /\ call = NoCall -> @ [] OTHER -> call]

\* cmd_conv up to the panel: a result needs findings to belong to.
Start(p, how, packet, given) ==
  /\ cmd[p].at = "idle" /\ hist.starts < MaxStarts
  /\ wf.status # "completed_unreported"
  /\ how = "plain" => given = NoResult
  /\ cmd' = [cmd EXCEPT ![p] =
       [Idle EXCEPT !.at = CASE how = "plain"  -> "rounds"
                             [] how = "packet" -> "findings"
                             [] how = "native" -> "launch",
                    !.how = how, !.run = IF how = "native" THEN hist.starts + 1 ELSE 0,
                    !.packet = packet, !.given = given,
                    !.seen = DOMAIN arts \cap {"report", "pending_report"}]]
  /\ LET call == [how |-> how, packet |-> packet]
     IN hist' = [Noted(Calm(call), call) EXCEPT !.starts = @ + 1]
  /\ UNCHANGED <<wf, arts, disk, events, file, written, runner>>

Begin(p) ==
  \/ Start(p, "plain", NoPacket, NoResult)
  \/ \E given \in written \cup {NoResult} :
       \/ Start(p, "native", NoPacket, given)
       \/ \E packet \in Packets : Start(p, "packet", packet, given)

\* run_conv_round_execution and _record_conv_round_execution_artifact: the files are
\* inspected now, the artifact of an earlier call is kept.
\* Faulty: the events are taken to be there when the artifact is.
RoundsOnce(p) ==
  /\ cmd[p].at = "rounds"
  /\ IF wf.request # "files" \/ "rounds" \in DOMAIN arts
     THEN Goto(p, "report") /\ UNCHANGED <<arts, disk>>
     ELSE Keep(p, "rounds", file, "round_events")
  /\ UNCHANGED <<wf, events, file, written, runner, hist>>

Rounds(p) ==
  /\ cmd[p].at = "rounds"
  /\ CASE wf.request # "files"     -> Goto(p, "report") /\ UNCHANGED <<arts, disk>>
       [] wf.request = "files" /\ "rounds" \in DOMAIN arts ->
            Goto(p, "round_events") /\ UNCHANGED <<arts, disk>>
       [] OTHER                    -> Keep(p, "rounds", file, "round_events")
  /\ UNCHANGED <<wf, events, file, written, runner, hist>>

RoundEvents(p) ==
  /\ cmd[p].at = "round_events" /\ Goto(p, "report")
  /\ events' = IF "rounds" \in DOMAIN events THEN events ELSE With(events, "rounds", "pass")
  /\ UNCHANGED <<wf, arts, disk, file, written, runner, hist>>

\* What record_outcome and record_checkpoint ask of a step to `status`.
MayMove(status) ==
  /\ ~Terminal
  /\ wf.status = "blocked" =>
       /\ status \in {"running", "failed_unreported", "blocked"}
       /\ status # "blocked" => wf.decided

\* _record_native_panel_launch_requested: the update of a running workflow is merged into
\* its state, so a pending fix stays.
Launch(p) ==
  /\ cmd[p].at = "launch"
  /\ IF MayMove("running")
     THEN wf' = [wf EXCEPT !.status = "running"] /\ Goto(p, "panel")
     ELSE Quit(p) /\ UNCHANGED wf
  /\ UNCHANGED <<arts, disk, events, file, written, runner, hist>>

\* run_panel, taken apart in VerifyMode: findings are collected, or a child blocks it.
Panel(p) ==
  /\ cmd[p].at = "panel"
  /\ \/ \E raised \in Collected :
          cmd' = [cmd EXCEPT ![p].packet = [NoPacket EXCEPT !.raised = raised], ![p].at = "findings"]
     \/ Goto(p, "block")
  /\ UNCHANGED <<wf, arts, disk, events, file, written, runner, hist>>

Block(p) ==
  /\ cmd[p].at = "block" /\ Quit(p)
  /\ wf' = IF MayMove("blocked") THEN [wf EXCEPT !.status = "blocked", !.decided = FALSE] ELSE wf
  /\ UNCHANGED <<arts, disk, events, file, written, runner, hist>>

\* _record_specialist_review and its native twin: the findings of an earlier call are kept.
Findings(p) ==
  /\ cmd[p].at = "findings"
  /\ IF "findings" \in DOMAIN arts THEN Goto(p, "panel_events") /\ UNCHANGED <<arts, disk>>
     ELSE Keep(p, "findings", Review(p), "panel_events")
  /\ UNCHANGED <<wf, events, file, written, runner, hist>>

PanelEvents(p) ==
  /\ cmd[p].at = "panel_events" /\ Goto(p, "attach")
  /\ events' = IF "panel" \in DOMAIN events THEN events ELSE With(events, "panel", Review(p))
  /\ UNCHANGED <<wf, arts, disk, file, written, runner, hist>>

\* _normalize_fix_runner_result: a result must be of the accepted changes, and proved.
Belongs(given, changes) == given.changes = changes /\ MutationProof(given)

\* _attach_fix_runner_state: what becomes of the accepted changes.  A result is ignored
\* unless every change carries edits.
Attach(p) ==
  /\ cmd[p].at = "attach"
  /\ LET changes == Changes(cmd[p].packet)
         given   == cmd[p].given
         asked   == changes # <<>> /\ \A m \in DOMAIN changes : changes[m] # {}
         fix     == CASE changes = <<>>               -> "not_required"
                      [] changes # <<>> /\ ~asked     -> "plan_only"
                      [] asked /\ given = NoResult    -> "pending"
                      [] asked /\ given # NoResult    -> "complete"
     IN IF fix = "complete" /\ ~Belongs(given, changes)
        THEN Quit(p)
        ELSE cmd' = [cmd EXCEPT ![p].at = IF asked THEN "request" ELSE "report", ![p].fix = fix]
  /\ UNCHANGED <<wf, arts, disk, events, file, written, runner, hist>>

\* _record_fix_runner_events: the request, once; the result's artifact, which must say the
\* same if it is there; its event, unless the log had it when the request was looked up.
Request(p) ==
  /\ cmd[p].at = "request"
  /\ cmd' = [cmd EXCEPT ![p].at = IF cmd[p].fix = "complete" THEN "result" ELSE "report",
                        ![p].had = "fix_completed" \in DOMAIN events]
  /\ events' = IF "fix_requested" \in DOMAIN events THEN events
               ELSE With(events, "fix_requested", [fix |-> cmd[p].fix, changes |-> Changes(cmd[p].packet)])
  /\ UNCHANGED <<wf, arts, disk, file, written, runner, hist>>

Result(p) ==
  /\ cmd[p].at = "result"
  /\ CASE "result" \notin DOMAIN arts    -> Keep(p, "result", cmd[p].given, "completed")
       [] "result" \in DOMAIN arts /\ disk["result"] = cmd[p].given
            -> Goto(p, "completed") /\ UNCHANGED <<arts, disk>>
       [] OTHER -> Quit(p) /\ UNCHANGED <<arts, disk>>
  /\ UNCHANGED <<wf, events, file, written, runner, hist>>

Completed(p) ==
  /\ cmd[p].at = "completed"
  /\ CASE cmd[p].had -> Goto(p, "report") /\ UNCHANGED events
       [] ~cmd[p].had /\ "fix_completed" \in DOMAIN events -> Quit(p) /\ UNCHANGED events
       [] OTHER -> Goto(p, "report") /\ events' = With(events, "fix_completed", cmd[p].given.changes)
  /\ UNCHANGED <<wf, arts, disk, file, written, runner, hist>>

\* The report of a pending fix is an artifact of its own.
\* Faulty: it is the final report.
OneReportId(p) == "report"

ReportId(p) == IF cmd[p].fix = "pending" THEN "pending_report" ELSE "report"

\* _existing_conv_artifact, on the copy loaded at the start.
Report(p) ==
  /\ cmd[p].at = "report"
  /\ CASE ReportId(p) \notin cmd[p].seen -> Keep(p, ReportId(p), Text(p), "commit")
       [] ReportId(p) \in cmd[p].seen /\ disk[ReportId(p)] = Text(p)
            -> Goto(p, "commit") /\ UNCHANGED <<arts, disk>>
       [] OTHER -> Quit(p) /\ UNCHANGED <<arts, disk>>
  /\ UNCHANGED <<wf, events, file, written, runner, hist>>

\* The checkpoint: a pending fix keeps the workflow running, findings that block and
\* changes that stay plans fail it.
\* Faulty: changes that stay plans do not.
OutcomeOfPlans(p) ==
  LET raised == cmd[p].packet.raised IN
  IF cmd[p].fix = "pending" THEN "running"
  ELSE IF TruthBlocked(MarkersOf(p)) \/ \E m \in Modes(raised) : Decision(raised, m) = "block"
  THEN "failed_unreported" ELSE "completed_unreported"

Outcome(p) ==
  LET raised == cmd[p].packet.raised IN
  IF cmd[p].fix = "pending" THEN "running"
  ELSE IF cmd[p].fix = "plan_only" \/ TruthBlocked(MarkersOf(p))
            \/ \E m \in Modes(raised) : Decision(raised, m) = "block"
  THEN "failed_unreported" ELSE "completed_unreported"

Commit(p) ==
  /\ cmd[p].at = "commit"
  /\ wf' = IF MayMove(Outcome(p)) /\ disk[ReportId(p)] = arts[ReportId(p)]
           THEN [wf EXCEPT !.status = Outcome(p), !.how = cmd[p].how, !.review = Review(p),
                           !.fix = cmd[p].fix, !.text = Text(p),
                           !.result = IF cmd[p].fix = "complete" THEN cmd[p].given ELSE NoResult]
           ELSE wf
  /\ Quit(p)
  /\ UNCHANGED <<arts, disk, events, file, written, runner, hist>>

-----------------------------------------------------------------------------
\* cmd_fix_runner: it loads the workflow once, whatever its status, and wants a pending
\* request.  Every edit is prepared before the first is applied, from the file as it is
\* on disk then.
RunFix ==
  /\ runner.at = "idle" /\ hist.runs < MaxRuns /\ wf.fix = "pending"
  /\ LET changes == Changes(wf.review.packet)
         edits   == EditsOf(changes)
     IN IF \A e \in edits : Matches(e, file[FileOf[e]])
        THEN runner' = [at |-> "apply", todo |-> edits, applied |-> <<>>,
                        result |-> [changes |-> changes,
                                    before  |-> [e \in edits |-> file[FileOf[e]]],
                                    after   |-> [e \in edits |-> Replaced(e, file[FileOf[e]])]]]
        ELSE UNCHANGED runner
  /\ hist' = [Noted(Calm(NoCall), NoCall) EXCEPT !.runs = @ + 1]
  /\ UNCHANGED <<wf, arts, disk, events, file, written, cmd>>

Apply ==
  /\ runner.at = "apply"
  /\ \E e \in runner.todo :
       /\ file' = [file EXCEPT ![FileOf[e]] = runner.result.after[e]]
       /\ runner' = [runner EXCEPT !.todo = @ \ {e}, !.applied = Append(@, e)]
  /\ UNCHANGED <<wf, arts, disk, events, written, cmd, hist>>

\* A write fails before the file is opened, or after that emptied it.
ApplyFails ==
  /\ runner.at = "apply"
  /\ \E e \in runner.todo :
       \/ UNCHANGED file
       \/ file' = [file EXCEPT ![FileOf[e]].is = "torn"]
  /\ runner' = [runner EXCEPT !.at = "undo"]
  /\ UNCHANGED <<wf, arts, disk, events, written, cmd, hist>>

\* The edits applied so far are taken back, the last one first.
\* Faulty: they stay.
UndoNone ==
  /\ runner.at = "undo"
  /\ runner' = Asleep
  /\ UNCHANGED <<wf, arts, disk, events, file, written, cmd, hist>>

Undo ==
  /\ runner.at = "undo"
  /\ IF runner.applied = <<>> THEN runner' = Asleep /\ UNCHANGED file
     ELSE LET last == runner.applied[Len(runner.applied)] IN
          /\ file' = [file EXCEPT ![FileOf[last]] = runner.result.before[last]]
          /\ runner' = [runner EXCEPT !.applied = SubSeq(@, 1, Len(@) - 1)]
  /\ UNCHANGED <<wf, arts, disk, events, written, cmd, hist>>

\* The result file is written after the last edit.
WriteResult ==
  /\ runner.at = "apply" /\ runner.todo = {}
  /\ written' = written \cup {runner.result}
  /\ runner' = Asleep
  /\ UNCHANGED <<wf, arts, disk, events, file, cmd, hist>>

-----------------------------------------------------------------------------
OwnerDecides ==
  /\ wf.status = "blocked" /\ ~wf.decided
  /\ wf' = [wf EXCEPT !.decided = TRUE]
  /\ UNCHANGED <<arts, disk, events, file, written, cmd, runner, hist>>

EditFile ==
  /\ hist.edits < MaxEdits
  /\ \E f \in File : file' = [file EXCEPT ![f].is = "edited"]
  /\ hist' = [Noted(FALSE, NoCall) EXCEPT !.edits = @ + 1]
  /\ UNCHANGED <<wf, arts, disk, events, written, cmd, runner>>

Crash(p) ==
  /\ cmd[p].at # "idle" /\ hist.crashes < MaxCrashes
  /\ Quit(p)
  /\ hist' = [hist EXCEPT !.crashes = @ + 1]
  /\ UNCHANGED <<wf, arts, disk, events, file, written, runner>>

RunnerCrash ==
  /\ runner.at # "idle" /\ hist.crashes < MaxCrashes
  /\ runner' = Asleep
  /\ hist' = [hist EXCEPT !.crashes = @ + 1]
  /\ UNCHANGED <<wf, arts, disk, events, file, written, cmd>>

Work(p) ==
  \/ Rounds(p) \/ RoundEvents(p) \/ Launch(p) \/ Panel(p) \/ Block(p) \/ Findings(p)
  \/ PanelEvents(p) \/ Attach(p) \/ Request(p) \/ Result(p) \/ Completed(p) \/ Report(p)
  \/ Commit(p)

Fixing == RunFix \/ Apply \/ ApplyFails \/ Undo \/ WriteResult

Environment == OwnerDecides \/ EditFile \/ RunnerCrash

Next ==
  \/ \E p \in Process : Begin(p) \/ Work(p) \/ Crash(p)
  \/ Fixing
  \/ Environment

Spec == Init /\ [][Next]_vars

-----------------------------------------------------------------------------
\* _validate_conv_state_integrity with its execution, specialist and fix runner evidence:
\* what delivery demands of a finished workflow.
FixIsAudited ==
  LET changes == Changes(wf.review.packet) IN
  /\ {"fix_requested", "fix_completed"} \subseteq DOMAIN events
  /\ DOMAIN events["fix_requested"].changes = DOMAIN changes
  /\ events["fix_requested"].fix = "pending" \/ events["fix_requested"].changes = changes
  /\ events["fix_completed"] = changes
  /\ disk["result"] = wf.result /\ MutationProof(wf.result)

FindingsAreAudited ==
  disk["findings"] = wf.review /\ "panel" \in DOMAIN events /\ events["panel"] = wf.review

RoundsAreAudited == disk["rounds"] = file /\ "rounds" \in DOMAIN events

Deliverable ==
  LET required == {"report"} \cup (IF wf.how # "plain" THEN {"findings"} ELSE {})
                             \cup (IF wf.fix = "complete" THEN {"result"} ELSE {})
                             \cup (IF wf.how = "plain" /\ wf.request = "files" THEN {"rounds"} ELSE {})
      accepted == Accepted(wf.review.packet.raised)
  IN /\ ContractHolds(DOMAIN arts, required, wf.status = "completed_unreported", accepted, accepted)
     /\ \A id \in required : arts[id] = disk[id]
     /\ disk["report"] = wf.text
     /\ "rounds" \in required => RoundsAreAudited
     /\ "findings" \in required => FindingsAreAudited
     /\ "result" \in required => FixIsAudited

Content == [is : {"whole", "edited", "torn"}, times : [Edit -> 0 .. MaxRuns]]
Kind    == {"plain", "packet", "native"}
Fix     == {"none", "not_required", "plan_only", "pending", "complete"}
Stage   == {"idle", "rounds", "round_events", "launch", "panel", "block", "findings", "panel_events",
            "attach", "request", "result", "completed", "report", "commit"}
IsResult(r) ==
  /\ DOMAIN r.changes \subseteq Mode /\ DOMAIN r.before = EditsOf(r.changes)
  /\ \A e \in EditsOf(r.changes) : {r.before[e], r.after[e]} \subseteq Content
IsReview(r) == r.run \in 0 .. MaxStarts /\ r.packet \in AnyPacket
IsText(t)   == t.how \in Kind /\ t.raised \subseteq Raised /\ t.fix \in Fix

TypeOK ==
  /\ wf.status \in {"running", "blocked", "completed_unreported", "failed_unreported"}
  /\ wf.request \in Requests /\ wf.decided \in BOOLEAN /\ wf.how \in Kind /\ wf.fix \in Fix
  /\ IsReview(wf.review) /\ IsText(wf.text) /\ IsResult(wf.result)
  /\ DOMAIN arts \subseteq DOMAIN disk
  /\ \A id \in DOMAIN disk :
       CASE id = "rounds"         -> disk[id] \in [File -> Content]
         [] id = "findings"       -> IsReview(disk[id])
         [] id = "result"         -> IsResult(disk[id])
         [] id = "pending_report" -> IsText(disk[id]) /\ disk[id].fix = "pending"
         [] id = "report"         -> IsText(disk[id]) /\ disk[id].fix # "pending"
  /\ DOMAIN events \subseteq {"rounds", "panel", "fix_requested", "fix_completed"}
  /\ file \in [File -> Content] /\ \A r \in written : IsResult(r)
  /\ \A p \in Process :
       /\ cmd[p].at \in Stage /\ cmd[p].how \in Kind /\ cmd[p].fix \in Fix
       /\ IsReview(Review(p)) /\ IsResult(cmd[p].given)
  /\ runner.at \in {"idle", "apply", "undo"} /\ IsResult(runner.result)
  /\ runner.todo \cup {runner.applied[i] : i \in DOMAIN runner.applied} \subseteq Edit

\* A success that passes the audit is what the files say now: the files that were
\* inspected are unchanged, or no finding blocks and every edit of every accepted change
\* is in its file, once, and nothing else is.  A crash of the runner half way, a second
\* run of it, an outside edit or an old result file can only cost the delivery.
SuccessIsInPlace ==
  wf.status = "completed_unreported" /\ Deliverable =>
    \/ wf.how = "plain" /\ (wf.request = "plan_only" \/ disk["rounds"] = file)
    \/ /\ wf.how # "plain"
       /\ LET packet == disk["findings"].packet IN
          /\ \A m \in Modes(packet.raised) : Decision(packet.raised, m) # "block"
          /\ \A m \in Accepted(packet.raised) :
               /\ packet.edits[m] # {}
               /\ \A e \in packet.edits[m] : file[FileOf[e]] = Replaced(e, Fresh)

\* Calling conv again after a crash at any step, with the result of a fix or before there
\* is one, ends in a result that can be delivered, as long as all is calm.
FinishedIsDeliverable == Terminal /\ hist.calm => Deliverable

\* A fix runner that gives up leaves the files as it found them, but for the one whose
\* write failed half way, unless somebody else edited them meanwhile.
RunnerLeavesNoPart ==
  [][runner.at = "undo" /\ runner'.at = "idle" /\ hist'.crashes = hist.crashes /\ hist.edits = 0 =>
       LET edits == DOMAIN runner.result.before
           off   == {FileOf[e] : e \in {d \in edits : file'[FileOf[d]] # runner.result.before[d]}}
       IN Cardinality(off) <= 1 /\ \A f \in off : file'[f].is = "torn"]_vars

\* No accepted fix is applied twice, whatever crashed in between.
FixesAreNotReplayed == \A e \in Edit : file[FileOf[e]].times[e] <= 1
=============================================================================
