----------------------------- MODULE VerifyMode -----------------------------
(***************************************************************************)
(* Verify mode: cmd_verify and VerifyHandler.finalize_verify               *)
(* (modes/verify.py) run by several processes on one workflow, with the    *)
(* artifacts, events and checkpoints they record on the way, and the audit *)
(* that delivery makes of the result (cli.py).                             *)
(*                                                                         *)
(* A finalizer inspects the files the request names, then either stops     *)
(* there ("plain"), takes findings from a packet, or launches a native     *)
(* panel: one child session after the other, for up to minutes each, with  *)
(* nothing locked.  It loads the workflow once at its start and acts on    *)
(* that copy when it writes its report.  Every load, file write,           *)
(* registration, event and checkpoint is a step; a checkpoint is atomic    *)
(* here (its torn writes are Checkpoint's), and the sessions, the owner    *)
(* and the editor of the target are the environment.                       *)
(***************************************************************************)
EXTENDS Panel

CONSTANTS
  Process,     \* finalizer processes
  Requests,    \* what may be asked: "plan_only", "files" (it names a file), "words"
  Answers,     \* Answers[c]: how the session of child c may answer
  Packet,      \* the packets a runner may hand in, sets of Raised
  MaxStarts,   \* bound: calls of cmd_verify
  MaxCrashes,  \* bound: processes killed
  MaxLeases,   \* bound: recoveries
  MaxEdits     \* bound: edits of the target

ASSUME VerifyAssumption ==
  /\ Requests \subseteq {"plan_only", "files", "words"}
  /\ Answers \in [Child -> SUBSET Answer] /\ Packet \subseteq SUBSET Raised
  /\ MaxStarts \in Nat /\ MaxCrashes \in Nat /\ MaxLeases \in Nat /\ MaxEdits \in Nat

VARIABLES
  wf,       \* workflow.json: request, status, lease, owner's decision, verify_state
  arts,     \* its artifacts: id -> content when it was registered
  raws,     \* children whose blocked answer is registered
  disk,     \* the artifact files: id -> content
  events,   \* events.jsonl: event type -> the review or artifact it speaks of
  target,   \* version of the files the request names
  session,  \* per child, the tool calls in its session transcript
  cmd,      \* per process, where it is in its call
  hist      \* history: calls made, of which kinds, whether they overlapped, crashes

vars == <<wf, arts, raws, disk, events, target, session, cmd, hist>>

PanelEvents == {"agent_panel_requested", "agent_findings_recorded", "finding_arbitrated"}

Idle == [step |-> "idle", at |-> "none", how |-> "plain", run |-> 0, cites |-> 0,
         seen |-> FALSE, version |-> 0, child |-> 1, raised |-> {}, admitted |-> TRUE,
         why |-> "none", todo |-> {}]

Terminal == wf.status \in {"completed_unreported", "failed_unreported"}

Init ==
  /\ wf \in [request : Requests, status : {"running"},
             lease : {[id |-> 0, live |-> FALSE]}, decided : {FALSE},
             how : {"plain"}, review : {[run |-> 0, raised |-> {}]},
             text : {[verdict |-> "stopped", version |-> 0, raised |-> {}, why |-> "none"]}]
  /\ arts = <<>> /\ raws = {} /\ disk = <<>> /\ events = <<>>
  /\ target = 1
  /\ session = [c \in Child |-> {}]
  /\ cmd = [p \in Process |-> Idle]
  /\ hist = [starts |-> 0, used |-> {}, alone |-> TRUE, crashes |-> 0, leases |-> 0]

Quit(p)      == cmd' = [cmd EXCEPT ![p] = Idle]
Goto(p, a, s) == cmd' = [cmd EXCEPT ![p].at = a, ![p].step = s]

-----------------------------------------------------------------------------
\* What a finalizer would record.  A packet's review is the same whenever it is
\* built; a native one carries the timestamps and the result ids of its launch, and
\* the checks artifact the timestamps of its run.
Review(p) == [run |-> IF cmd[p].how = "native" THEN cmd[p].run ELSE 0, raised |-> cmd[p].raised]

MarkersOf(p) ==
  LET plain == Classified(wf.request = "plan_only")
  IN CASE cmd[p].how # "plain" -> Executed(plain, {"findings"})
       [] cmd[p].how = "plain" /\ wf.request = "files" -> Executed(plain, {"checks"})
       [] OTHER -> plain

Verdict(p) ==
  CASE cmd[p].how # "plain" /\ NeedsFix(cmd[p].raised) -> "needs_fix"
    [] TruthBlocked(MarkersOf(p)) -> "blocked"
    [] OTHER -> "pass_with_risks"

\* render_verify_report, of the final state and of a blocked panel's.
Report(p) ==
  IF cmd[p].why # "none"
  THEN [verdict |-> "blocked", version |-> 0, raised |-> {}, why |-> cmd[p].why]
  ELSE [verdict |-> Verdict(p), version |-> cmd[p].version, raised |-> cmd[p].raised, why |-> "none"]

Content(p) ==
  CASE cmd[p].at = "checks"   -> [run |-> cmd[p].run, version |-> cmd[p].version]
    [] cmd[p].at = "findings" -> Review(p)
    [] OTHER                  -> Report(p)

\* The artifact a step is about.  Faulty: a blocked report is one of its own.
IdOfStage(p) == cmd[p].at

Id(p) == IF cmd[p].at = "blocked" THEN "report" ELSE cmd[p].at
Registered(p) == IF cmd[p].at = "raw" THEN cmd[p].child \in raws ELSE Id(p) \in DOMAIN arts

-----------------------------------------------------------------------------
\* cmd_verify up to the first artifact: a call on a finished workflow is answered
\* at once, the others must cite the lease if there is one, and go on with what they
\* load and inspect now.  A failed workflow may be finalized again.
LeaseAdmits(cites) == wf.lease.id = cites /\ (cites # 0 => wf.lease.live)

Start(p, how, raised) ==
  /\ cmd[p].step = "idle" /\ hist.starts < MaxStarts
  /\ wf.status # "completed_unreported"
  /\ LeaseAdmits(wf.lease.id)
  /\ cmd' = [cmd EXCEPT ![p] =
       [Idle EXCEPT !.step = "load", !.at = "checks", !.how = how, !.raised = raised,
                    !.run = hist.starts + 1, !.cites = wf.lease.id,
                    !.seen = "report" \in DOMAIN arts,
                    !.version = IF wf.request = "files" THEN target ELSE 0]]
  /\ hist' = [hist EXCEPT !.starts = @ + 1, !.used = @ \cup {[how |-> how, raised |-> raised]},
                          !.alone = @ /\ \A q \in Process : cmd[q].step = "idle"]
  /\ UNCHANGED <<wf, arts, raws, disk, events, target, session>>

Begin(p) ==
  \/ Start(p, "plain", {}) \/ Start(p, "native", {})
  \/ \E raised \in Packet : Start(p, "packet", raised)

\* Where the call goes once the artifact it is at, and its events, are there.
After(p) ==
  CASE cmd[p].at = "checks" /\ cmd[p].how = "plain"  -> <<"report", "load">>
    [] cmd[p].at = "checks" /\ cmd[p].how = "packet" -> <<"findings", "load">>
    [] cmd[p].at = "checks" /\ cmd[p].how = "native" -> <<"panel", "launch">>
    [] cmd[p].at = "raw"                             -> <<"blocked", "load">>
    [] cmd[p].at = "findings"                        -> <<"report", "load">>

Proceed(p) == Goto(p, After(p)[1], After(p)[2])

\* _record_deterministic_check_artifact, _record_specialist_review and
\* record_blocked_child_result_artifact: what is registered is kept as it is.
Load(p) ==
  /\ cmd[p].step = "load" /\ cmd[p].at \in {"checks", "raw", "findings"}
  /\ LET done == IF cmd[p].at = "checks" THEN wf.request # "files"
                 ELSE cmd[p].at = "raw" /\ Registered(p)
     IN CASE done                    -> Proceed(p)
          [] ~done /\ Registered(p)  -> Goto(p, cmd[p].at, "read")
          [] ~done /\ ~Registered(p) -> Goto(p, cmd[p].at, "write")
  /\ UNCHANGED <<wf, arts, raws, disk, events, target, session, hist>>

\* _existing_verify_artifact: a report registered before must say the same.  The final
\* report is compared with the copy loaded at the start, a blocked one with a new copy.
\* Faulty: a registered report that says something else is written over.
LoadReportOver(p) ==
  /\ cmd[p].step = "load" /\ cmd[p].at \in {"report", "blocked"}
  /\ LET seen == IF cmd[p].at = "report" THEN cmd[p].seen ELSE Registered(p) IN
     IF seen THEN /\ Goto(p, cmd[p].at, "commit")
                  /\ disk' = With(disk, "report", Report(p))
     ELSE Goto(p, cmd[p].at, "write") /\ UNCHANGED disk
  /\ UNCHANGED <<wf, arts, raws, events, target, session, hist>>

LoadReport(p) ==
  /\ cmd[p].step = "load" /\ cmd[p].at \in {"report", "blocked"}
  /\ LET seen == IF cmd[p].at = "report" THEN cmd[p].seen ELSE Registered(p) IN
     CASE ~seen                               -> Goto(p, cmd[p].at, "write")
       [] seen /\ disk["report"] = Report(p)  -> Goto(p, cmd[p].at, "commit")
       [] seen /\ disk["report"] # Report(p)  -> Quit(p)
  /\ UNCHANGED <<wf, arts, raws, disk, events, target, session, hist>>

Write(p) ==
  /\ cmd[p].step = "write"
  /\ Goto(p, cmd[p].at, "register")
  /\ disk' = IF cmd[p].at = "raw" THEN disk
             ELSE With(disk, Id(p), Content(p))
  /\ UNCHANGED <<wf, arts, raws, events, target, session, hist>>

\* record_workflow_artifact, under the lock: the hash is that of the file as it is now;
\* refused when the workflow is finished or the id is taken.
Register(p) ==
  /\ cmd[p].step = "register"
  /\ IF Terminal \/ Registered(p)
     THEN Quit(p) /\ UNCHANGED <<arts, raws>>
     ELSE /\ CASE cmd[p].at = "raw"                     -> Proceed(p)
               [] cmd[p].at \in {"report", "blocked"}   -> Goto(p, cmd[p].at, "commit")
               [] cmd[p].at \in {"checks", "findings"}  -> Goto(p, cmd[p].at, "read")
          /\ raws' = IF cmd[p].at = "raw" THEN raws \cup {cmd[p].child} ELSE raws
          /\ arts' = IF cmd[p].at = "raw" THEN arts ELSE With(arts, Id(p), disk[Id(p)])
  /\ UNCHANGED <<wf, disk, events, target, session, hist>>

\* The events of the artifact that the log does not have yet are appended one by one.
\* Faulty: the first of them stands for all.
ReadFirstEvent(p) ==
  /\ cmd[p].step = "read"
  /\ cmd' = [cmd EXCEPT ![p].step = "append",
       ![p].todo = CASE cmd[p].at = "checks" -> {"checks"} \ DOMAIN events
                     [] "agent_panel_requested" \in DOMAIN events -> {}
                     [] OTHER -> PanelEvents]
  /\ UNCHANGED <<wf, arts, raws, disk, events, target, session, hist>>

ReadEvents(p) ==
  /\ cmd[p].step = "read"
  /\ cmd' = [cmd EXCEPT ![p].step = "append",
       ![p].todo = (IF cmd[p].at = "checks" THEN {"checks"} ELSE PanelEvents) \ DOMAIN events]
  /\ UNCHANGED <<wf, arts, raws, disk, events, target, session, hist>>

Order == <<"checks", "agent_panel_requested", "agent_findings_recorded", "finding_arbitrated">>

\* append_event: a second event of one id is refused; a finished workflow is not.
Append(p) ==
  /\ cmd[p].step = "append"
  /\ IF cmd[p].todo = {} THEN Proceed(p) /\ UNCHANGED events
     ELSE LET e == Order[CHOOSE i \in DOMAIN Order :
                           Order[i] \in cmd[p].todo /\ \A j \in 1 .. i - 1 : Order[j] \notin cmd[p].todo]
          IN IF e \in DOMAIN events THEN Quit(p) /\ UNCHANGED events
             ELSE /\ cmd' = [cmd EXCEPT ![p].todo = @ \ {e}]
                  /\ events' = With(events, e, Review(p))
  /\ UNCHANGED <<wf, arts, raws, disk, target, session, hist>>

-----------------------------------------------------------------------------
\* Faulty: the lease is not asked for.
MayMoveUnfenced(status, cites) ==
  /\ ~Terminal
  /\ wf.status = "blocked" => status \in {"running", "failed_unreported", "blocked"}
  /\ wf.status = "blocked" /\ status # "blocked" => wf.decided

\* What record_outcome and record_checkpoint ask of a step to `status`.
MayMove(status, cites) ==
  /\ ~Terminal
  /\ wf.status = "blocked" => status \in {"running", "failed_unreported", "blocked"}
  /\ wf.status = "blocked" /\ status # "blocked" => wf.decided
  /\ LeaseAdmits(cites)

\* _record_native_panel_launch_requested: it names no lease.
Launch(p) ==
  /\ cmd[p].step = "launch"
  /\ IF MayMove("running", 0)
     THEN wf' = [wf EXCEPT !.status = "running"] /\ Goto(p, "panel", "ask")
     ELSE Quit(p) /\ UNCHANGED wf
  /\ UNCHANGED <<arts, raws, disk, events, target, session, hist>>

\* run_panel: child by child; the key of a child's session is the same in every launch,
\* so its transcript also has the calls of earlier ones.  The first child whose answer
\* is not accepted blocks the panel; a collected panel must also pass its review.
Ask(p) ==
  /\ cmd[p].step = "ask"
  /\ \E a \in Answers[cmd[p].child] :
       LET c   == cmd[p].child
           log == session[c] \cup a.calls
           why == BlockedReason(a, log)
           ok  == cmd[p].admitted /\ ReviewAdmits(a)
       IN /\ session' = [session EXCEPT ![c] = log]
          /\ CASE why # "none" ->
                    cmd' = [cmd EXCEPT ![p].why = why, ![p].at = "raw", ![p].step = "load"]
               [] why = "none" /\ c < PanelSize ->
                    cmd' = [cmd EXCEPT ![p].child = c + 1, ![p].admitted = ok,
                                       ![p].raised = @ \cup RaisedBy(c, a)]
               [] why = "none" /\ c = PanelSize /\ ok ->
                    cmd' = [cmd EXCEPT ![p].raised = @ \cup RaisedBy(c, a),
                                       ![p].at = "findings", ![p].step = "load"]
               [] OTHER -> Quit(p)
  /\ UNCHANGED <<wf, arts, raws, disk, events, target, hist>>

\* The checkpoint of a blocked panel; it names no lease either.
Block(p) ==
  /\ cmd[p].step = "commit" /\ cmd[p].at = "blocked"
  /\ IF MayMove("blocked", 0)
     THEN wf' = [wf EXCEPT !.status = "blocked", !.decided = FALSE]
     ELSE UNCHANGED wf
  /\ Quit(p)
  /\ UNCHANGED <<arts, raws, disk, events, target, session, hist>>

\* The terminal checkpoint: its evidence, the report, must still have the hash it was
\* registered with.
Outcome(p) == IF Verdict(p) = "pass_with_risks" THEN "completed_unreported" ELSE "failed_unreported"

Finish(p) ==
  /\ cmd[p].step = "commit" /\ cmd[p].at = "report"
  /\ IF MayMove(Outcome(p), cmd[p].cites) /\ disk["report"] = arts["report"]
     THEN wf' = [wf EXCEPT !.status = Outcome(p), !.lease = [id |-> 0, live |-> FALSE],
                           !.how = cmd[p].how, !.review = Review(p), !.text = Report(p)]
     ELSE UNCHANGED wf
  /\ Quit(p)
  /\ UNCHANGED <<arts, raws, disk, events, target, session, hist>>

-----------------------------------------------------------------------------
\* recover hands out a lease on a running workflow: a launch counts as stalled after
\* six minutes, whether or not its panel still runs.
Recover ==
  /\ wf.status = "running" /\ ~wf.lease.live
  /\ hist.leases < MaxLeases
  /\ wf' = [wf EXCEPT !.lease = [id |-> hist.leases + 1, live |-> TRUE]]
  /\ hist' = [hist EXCEPT !.leases = @ + 1]
  /\ UNCHANGED <<arts, raws, disk, events, target, session, cmd>>

LeaseExpires ==
  /\ wf.lease.live
  /\ wf' = [wf EXCEPT !.lease.live = FALSE]
  /\ UNCHANGED <<arts, raws, disk, events, target, session, cmd, hist>>

OwnerDecides ==
  /\ wf.status = "blocked" /\ ~wf.decided
  /\ wf' = [wf EXCEPT !.decided = TRUE]
  /\ UNCHANGED <<arts, raws, disk, events, target, session, cmd, hist>>

Edit ==
  /\ wf.request = "files" /\ target <= MaxEdits
  /\ target' = target + 1
  /\ UNCHANGED <<wf, arts, raws, disk, events, session, cmd, hist>>

Crash(p) ==
  /\ cmd[p].step # "idle" /\ hist.crashes < MaxCrashes
  /\ Quit(p)
  /\ hist' = [hist EXCEPT !.crashes = @ + 1]
  /\ UNCHANGED <<wf, arts, raws, disk, events, target, session>>

Work(p) ==
  \/ Load(p) \/ LoadReport(p) \/ Write(p) \/ Register(p) \/ ReadEvents(p) \/ Append(p)
  \/ Launch(p) \/ Ask(p) \/ Block(p) \/ Finish(p)

Environment == Recover \/ LeaseExpires \/ OwnerDecides \/ Edit

Next ==
  \/ \E p \in Process : Begin(p) \/ Work(p) \/ Crash(p)
  \/ Environment

Spec == Init /\ [][Next]_vars

-----------------------------------------------------------------------------
\* _validate_verify_state_integrity with its execution and specialist evidence: what
\* delivery demands of a finished workflow before it may be reserved or reported.
PanelIsAudited ==
  /\ arts["findings"] = disk["findings"] /\ disk["findings"] = wf.review
  /\ PanelEvents \subseteq DOMAIN events
  /\ \A e \in PanelEvents : events[e] = wf.review

ChecksAreAudited ==
  "checks" \in DOMAIN events /\ disk["checks"].version = target

Deliverable ==
  LET required == {"report"} \cup (IF wf.how # "plain" THEN {"findings"} ELSE {})
                             \cup (IF wf.request = "files" THEN {"checks"} ELSE {})
  IN /\ ContractHolds(DOMAIN arts, required, wf.status = "completed_unreported",
                      Accepted(wf.review.raised), {})
     /\ arts["report"] = disk["report"] /\ disk["report"] = wf.text
     /\ wf.request = "files" => arts["checks"] = disk["checks"]
     /\ wf.how # "plain" => PanelIsAudited
     /\ wf.how = "plain" /\ wf.request = "files" => ChecksAreAudited

Stage  == {"none", "checks", "panel", "raw", "findings", "report", "blocked"}
Step   == {"idle", "load", "write", "register", "read", "append", "launch", "ask", "commit"}
Kind   == {"plain", "packet", "native"}
Running  == [step : Step, at : Stage, how : Kind, run : 0 .. MaxStarts, cites : 0 .. MaxLeases,
           seen : BOOLEAN, version : 0 .. MaxEdits + 1, child : Child, raised : SUBSET Raised,
           admitted : BOOLEAN, why : Reason, todo : SUBSET (PanelEvents \cup {"checks"})]
Text   == [verdict : {"stopped", "blocked", "needs_fix", "pass_with_risks"},
           version : 0 .. MaxEdits + 1, raised : SUBSET Raised, why : Reason]

Workflow == [request : Requests, decided : BOOLEAN, how : Kind, text : Text,
             status : {"running", "blocked", "completed_unreported", "failed_unreported"},
             lease : [id : 0 .. MaxLeases, live : BOOLEAN],
             review : [run : 0 .. MaxStarts, raised : SUBSET Raised]]
History  == [starts : 0 .. MaxStarts, alone : BOOLEAN, crashes : 0 .. MaxCrashes,
             leases : 0 .. MaxLeases, used : SUBSET [how : Kind, raised : SUBSET Raised]]

TypeOK ==
  /\ wf \in Workflow /\ hist \in History
  /\ cmd \in [Process -> Running]
  /\ DOMAIN arts \subseteq DOMAIN disk /\ DOMAIN disk \subseteq {"checks", "findings", "report"}
  /\ DOMAIN events \subseteq PanelEvents \cup {"checks"}
  /\ raws \subseteq Child /\ target \in 1 .. MaxEdits + 1
  /\ session \in [Child -> SUBSET Call]

\* A success that passes the audit rests on work that was done: a request to plan only,
\* files that are now as the registered inspection found them, or findings that ask for
\* no fix and, from a native panel, come from children that each read every file and ran
\* a status command.  What asks for a fix is the code's arbitration, which rejects a
\* group whose gravest finding is unconfident (specialist_panel.py:1315-1324): a success
\* may carry a P0 or P1 of that kind, whose like mvp-spec.md:130 counts as needing a fix
\* without a word of confidence, so the property is no promise about those.  A crash, an overlapping finalizer, another packet or a changed
\* target between inspection and report can only cost the delivery.  The version the
\* report itself names is audited by nobody: it is that of the files only if finalizers
\* did not overlap (the second may register the inspection of an edit the first reports
\* without).
FilesAreAsInspected ==
  /\ disk["checks"].version = target
  /\ hist.alone => wf.text.version = target

FindingsAreBacked ==
  /\ ~NeedsFix(disk["findings"].raised)
  /\ wf.how = "native" => \A c \in Child :
       /\ File \subseteq UNION {call.files : call \in {d \in session[c] : d.does = "read"}}
       /\ StatusIsProved(session[c])

VerdictIsBacked ==
  wf.status = "completed_unreported" /\ Deliverable =>
    IF wf.how # "plain" THEN FindingsAreBacked
    ELSE wf.request = "plan_only" \/ (wf.request = "files" /\ FilesAreAsInspected)

\* Finalizing again after a crash at any step ends in a result that can be delivered, as
\* long as the target is left alone, every call is of one kind with one packet, a native
\* panel is launched once, and calls do not overlap unless there is no file to inspect.
Undisturbed ==
  /\ target = 1 /\ Cardinality(hist.used) = 1
  /\ hist.alone \/ (wf.request # "files" /\ \A u \in hist.used : u.how # "native")
  /\ \A u \in hist.used : u.how = "native" => hist.starts = 1

FinishedIsDeliverable == Terminal /\ Undisturbed => Deliverable

\* A finished workflow that can be delivered stays so, whoever finalizes it again, with
\* any packet or panel, one call at a time: a repeated call writes its files before it
\* meets the registered id under the lock.  Calls that ever overlapped (hist.alone is
\* lost) are not covered, and the slower one does end some of them undeliverable.
DeliverableIsKept ==
  [][Terminal /\ Deliverable /\ hist'.alone /\ target' = target => Deliverable']_vars

\* Recovery takes a stalled native launch out of the running: while its lease is held,
\* live or run out, no late answer, block or finish of a panel is recorded, and only the
\* holder of a live lease finishes at all.
StalledPanelIsFenced ==
  [][wf.lease.id # 0 /\ wf'.status # wf.status =>
       wf.lease.live /\ wf'.status # "blocked" /\ wf'.how # "native"]_vars

\* A panel that was blocked may be run again once the cause is gone: a retry whose
\* children were all accepted is not stopped by the report of the blocked one.
RetryCanEnd ==
  \A p \in Process :
    cmd[p].how = "native" /\ cmd[p].at = "report" /\ cmd[p].step = "load" /\ cmd[p].seen =>
      disk["report"] = Report(p)
=============================================================================
