------------------------------ MODULE ConvProofs ------------------------------
(***************************************************************************)
(* What holds of ConvMode for any number of calls, runs of the fix runner, *)
(* crashes and outside edits, and whatever findings and edits are handed   *)
(* in: what a success stands for, what a fix runner that gives up leaves   *)
(* behind, and that calling conv again ends in a result that can be        *)
(* delivered.                                                              *)
(***************************************************************************)
EXTENDS ConvMode, TLAPS, FiniteSetTheorems

\* Sets of the values the files and the memory of a call hold.
Status  == {"running", "blocked", "completed_unreported", "failed_unreported"}
Reviews == [run : 0 .. MaxStarts, packet : AnyPacket]
Texts   == [how : Kind, raised : SUBSET Raised, fix : Fix]
Asked   == UNION {[M -> SUBSET Edit] : M \in SUBSET Mode}
Found   == UNION {[E -> Content] : E \in SUBSET Edit}
Results == {r \in [changes : Asked, before : Found, after : Found] :
              DOMAIN r.before = EditsOf(r.changes) /\ DOMAIN r.after = EditsOf(r.changes)}

Workflow == [request : Requests, status : Status, decided : BOOLEAN, how : Kind,
             review : Reviews, fix : Fix, result : Results, text : Texts]
Running  == [at : Stage, how : Kind, run : 0 .. MaxStarts, packet : AnyPacket, given : Results,
             seen : SUBSET {"report", "pending_report"}, fix : Fix, had : BOOLEAN]
Runner   == [at : {"idle", "apply", "undo"}, result : Results, todo : SUBSET Edit,
             applied : Seq(Edit)]
History  == [starts : 0 .. MaxStarts, runs : 0 .. MaxRuns, crashes : Nat, edits : Nat,
             calm : BOOLEAN, call : [how : Kind \cup {"none"}, packet : AnyPacket]]

\* What may be written under an id.
Artifact(id, c) ==
  \/ id = "rounds" /\ c \in [File -> Content]
  \/ id = "findings" /\ c \in Reviews
  \/ id = "result" /\ c \in Results
  \/ id = "pending_report" /\ c \in Texts /\ c.fix = "pending"
  \/ id = "report" /\ c \in Texts /\ c.fix # "pending"

\* An edit was made in f at most as often as the runner ran.
Counted(f) == \A e \in Edit : f.times[e] <= hist.runs

\* What the runner still has to do and has done are edits it has prepared.
Prepared ==
  /\ \A e \in DOMAIN runner.result.before :
       runner.at # "idle" => Counted(runner.result.before[e]) /\ Counted(runner.result.after[e])
  /\ runner.todo \subseteq DOMAIN runner.result.before
  /\ \A i \in DOMAIN runner.applied : runner.applied[i] \in DOMAIN runner.result.before

Typed ==
  /\ wf \in Workflow /\ hist \in History /\ runner \in Runner
  /\ cmd \in [Process -> Running]
  /\ file \in [File -> Content] /\ \A f \in File : Counted(file[f])
  /\ written \subseteq Results
  /\ DOMAIN arts \subseteq DOMAIN disk /\ \A id \in DOMAIN disk : Artifact(id, disk[id])
  /\ DOMAIN events \subseteq {"rounds", "panel", "fix_requested", "fix_completed"}
  /\ Prepared

-----------------------------------------------------------------------------
\* The stages after the accepted changes were looked at.
Judged == {"request", "result", "completed", "report", "commit"}

\* What becomes of a fix is what its findings, its edits and its result allow.
Fits(how, packet, fix, result) ==
  /\ how = "plain" => fix = "none"
  /\ how # "plain" => fix # "none"
  /\ how # "plain" /\ fix = "not_required" => Changes(packet) = <<>>
  /\ fix = "complete" =>
       result.changes = Changes(packet) /\ \A m \in DOMAIN Changes(packet) : Changes(packet)[m] # {}

CallFits(p) ==
  /\ cmd[p].how = "plain" => cmd[p].at \in {"idle", "rounds", "round_events", "report", "commit"}
  /\ cmd[p].how = "plain" => cmd[p].fix = "none"
  /\ cmd[p].at \in {"rounds", "round_events"} => cmd[p].how = "plain"
  /\ cmd[p].at \in Judged => Fits(cmd[p].how, cmd[p].packet, cmd[p].fix, cmd[p].given)
  /\ cmd[p].at \in {"result", "completed"} => cmd[p].fix = "complete"

\* A success rests on work that was done, and none of its findings blocks.
SuccessFits ==
  /\ Terminal => wf.fix # "pending" /\ Fits(wf.how, wf.review.packet, wf.fix, wf.result)
  /\ wf.status = "completed_unreported" =>
       /\ wf.fix # "plan_only"
       /\ wf.how = "plain" => wf.request \in {"plan_only", "files"}
       /\ wf.how # "plain" => \A m \in Modes(wf.review.packet.raised) :
                                Decision(wf.review.packet.raised, m) # "block"

ConvFits == SuccessFits /\ \A p \in Process : CallFits(p)

-----------------------------------------------------------------------------
\* A file the runner means to rewrite is not as it was, and no edit it made accounts for that.
Off(e) ==
  /\ file[FileOf[e]] # runner.result.before[e]
  /\ \A i \in DOMAIN runner.applied : FileOf[runner.applied[i]] # FileOf[e]

\* As long as nobody else edits the files, one failed write is all that can be off.
RunnerAgrees ==
  LET edits == DOMAIN runner.result.before IN
  runner.at # "idle" =>
    /\ \A d, e \in edits :
         FileOf[d] = FileOf[e] => runner.result.before[d] = runner.result.before[e]
    /\ hist.edits = 0 /\ runner.at = "apply" => \A e \in edits : ~Off(e)
    /\ hist.edits = 0 /\ runner.at = "undo" =>
         \A d, e \in edits : Off(d) /\ Off(e) => FileOf[d] = FileOf[e] /\ file[FileOf[d]].is = "torn"

-----------------------------------------------------------------------------
Active(p) == cmd[p].at # "idle"

\* While calls do not overlap, one call or one runner is under way.
OneAtATime ==
  /\ \A p, q \in Process : Active(p) /\ Active(q) => p = q
  /\ \A p \in Process : Active(p) => runner.at = "idle"

\* Every call is of the one kind, with the one packet; a native panel is launched once.
OneKind ==
  /\ hist.starts = 0 =>
       /\ hist.call = NoCall /\ \A p \in Process : ~Active(p)
       /\ DOMAIN arts = {} /\ DOMAIN events = {} /\ file = [f \in File |-> Fresh]
       /\ wf.fix = "none" /\ wf.status = "running"
  /\ hist.starts > 0 => hist.call.how \in Kind
  /\ hist.call.how = "native" => hist.starts = 1
  /\ \A p \in Process : Active(p) =>
       /\ cmd[p].how = hist.call.how
       /\ cmd[p].how = "packet" => Review(p) = [run |-> 0, packet |-> hist.call.packet]
       /\ cmd[p].how = "native" => cmd[p].packet.edits = NoEdits

\* What is registered, logged and recorded is of that kind and that packet, and as it is
\* on disk.
OneStory ==
  LET review  == [run |-> 0, packet |-> hist.call.packet]
      changes == Changes(hist.call.packet)
  IN /\ \A id \in DOMAIN arts : arts[id] = disk[id]
     /\ hist.call.how = "plain" =>
          /\ file = [f \in File |-> Fresh]
          /\ "rounds" \in DOMAIN arts => arts["rounds"] = file
     /\ hist.call.how = "packet" =>
          /\ "findings" \in DOMAIN arts => arts["findings"] = review
          /\ "panel" \in DOMAIN events => events["panel"] = review
          /\ "fix_requested" \in DOMAIN events => events["fix_requested"].changes = changes
          /\ "fix_completed" \in DOMAIN events => events["fix_completed"] = changes
     /\ wf.fix = "pending" => hist.call.how = "packet" /\ wf.review = review
     /\ runner.at # "idle" => wf.fix = "pending"
     /\ Terminal => wf.how = hist.call.how

\* What a call finds there at each of its stages: the reports it looks at, ...
ReportIsThere(p) ==
  /\ cmd[p].at \notin {"idle", "commit"} => cmd[p].seen = DOMAIN arts \cap {"report", "pending_report"}
  /\ cmd[p].at = "commit" => ReportId(p) \in DOMAIN arts /\ arts[ReportId(p)] = Text(p)

\* ... the rounds of a plain call, ...
RoundsAreThere(p) ==
  cmd[p].how = "plain" /\ wf.request = "files" =>
    /\ cmd[p].at \in {"round_events", "report", "commit"} => "rounds" \in DOMAIN arts
    /\ cmd[p].at \in {"report", "commit"} => "rounds" \in DOMAIN events

\* ... the findings of a panel, ...
PanelIsThere(p) ==
  /\ cmd[p].at \in {"launch", "panel", "block"} => cmd[p].how = "native"
  /\ cmd[p].how = "native" =>
       /\ cmd[p].at \in {"launch", "panel", "block", "findings"} => "findings" \notin DOMAIN arts
       /\ cmd[p].at \in {"launch", "panel", "block", "findings", "panel_events"} => "panel" \notin DOMAIN events
  /\ cmd[p].how # "plain" =>
       /\ cmd[p].at \in {"panel_events", "attach"} \cup Judged =>
            "findings" \in DOMAIN arts /\ arts["findings"] = Review(p)
       /\ cmd[p].at \in {"attach"} \cup Judged => "panel" \in DOMAIN events /\ events["panel"] = Review(p)

\* ... the fix and its result.
FixIsThere(p) ==
  cmd[p].at \in Judged =>
    /\ cmd[p].fix \in {"pending", "complete"} => cmd[p].how = "packet"
    /\ cmd[p].fix = "complete" =>
         /\ MutationProof(cmd[p].given)
         /\ cmd[p].at # "request" => "fix_requested" \in DOMAIN events
         /\ cmd[p].at \in {"completed", "report", "commit"} =>
              "result" \in DOMAIN arts /\ arts["result"] = cmd[p].given
         /\ cmd[p].at \in {"report", "commit"} => "fix_completed" \in DOMAIN events
         /\ cmd[p].at \in {"result", "completed"} /\ cmd[p].had => "fix_completed" \in DOMAIN events

Progress(p) == ReportIsThere(p) /\ RoundsAreThere(p) /\ PanelIsThere(p) /\ FixIsThere(p)

CalmAgrees ==
  hist.calm => /\ OneAtATime /\ OneKind /\ OneStory
               /\ \A p \in Process : Progress(p)
               /\ Terminal => Deliverable

-----------------------------------------------------------------------------
\* A function with one entry put in.
LEMMA WithPut ==
  ASSUME NEW m, NEW k, NEW v
  PROVE  /\ DOMAIN With(m, k, v) = DOMAIN m \cup {k}
         /\ With(m, k, v)[k] = v
         /\ \A j \in DOMAIN m : j # k => With(m, k, v)[j] = m[j]
BY DEF With

\* The accepted changes of a packet are modes with edits.
LEMMA ChangesTyped ==
  ASSUME NEW packet \in AnyPacket
  PROVE  /\ DOMAIN Changes(packet) \subseteq Mode
         /\ \A m \in DOMAIN Changes(packet) : Changes(packet)[m] = packet.edits[m]
         /\ Changes(packet) \in Asked /\ EditsOf(Changes(packet)) \subseteq Edit
<1>1. packet.raised \subseteq Raised /\ packet.edits \in [Mode -> SUBSET Edit] BY DEF AnyPacket
<1>2. \A r \in Raised : r.finding.mode \in Mode BY DEF Raised, Finding
<1>3. Accepted(packet.raised) \subseteq Mode BY <1>1, <1>2 DEF Accepted, Modes
<1>4. /\ DOMAIN Changes(packet) = Accepted(packet.raised)
      /\ \A m \in DOMAIN Changes(packet) : Changes(packet)[m] = packet.edits[m]
  BY DEF Changes
<1>5. Changes(packet) \in [Accepted(packet.raised) -> SUBSET Edit] BY <1>1, <1>3 DEF Changes
<1>6. Changes(packet) \in Asked BY <1>3, <1>5 DEF Asked
<1>7. EditsOf(Changes(packet)) \subseteq Edit BY <1>1, <1>3, <1>4 DEF EditsOf
<1> QED BY <1>3, <1>4, <1>6, <1>7

LEMMA NoResultTyped == NoResult \in Results
<1>1. DOMAIN << >> = {} OBVIOUS
<1>2. << >> \in [{} -> SUBSET Edit] /\ << >> \in [{} -> Content] BY <1>1
<1>3. << >> \in Asked BY <1>2 DEF Asked
<1>4. << >> \in Found BY <1>2 DEF Found
<1>5. EditsOf(<< >>) = {} BY <1>1 DEF EditsOf
<1> QED BY <1>1, <1>3, <1>4, <1>5 DEF NoResult, Results

LEMMA ResultTyped ==
  ASSUME NEW r \in Results
  PROVE  /\ DOMAIN r.changes \subseteq Mode /\ EditsOf(r.changes) \subseteq Edit
         /\ DOMAIN r.before = EditsOf(r.changes) /\ DOMAIN r.after = EditsOf(r.changes)
         /\ \A e \in EditsOf(r.changes) : r.before[e] \in Content /\ r.after[e] \in Content
<1>1. /\ r.changes \in Asked /\ r.before \in Found /\ r.after \in Found
      /\ DOMAIN r.before = EditsOf(r.changes) /\ DOMAIN r.after = EditsOf(r.changes)
  BY DEF Results
<1>2. PICK M \in SUBSET Mode : r.changes \in [M -> SUBSET Edit] BY <1>1 DEF Asked
<1>3. PICK B \in SUBSET Edit : r.before \in [B -> Content] BY <1>1 DEF Found
<1>4. PICK A \in SUBSET Edit : r.after \in [A -> Content] BY <1>1 DEF Found
<1> QED BY <1>1, <1>2, <1>3, <1>4

LEMMA NothingTyped ==
  /\ NoPacket \in AnyPacket /\ NoEdits \in [Mode -> SUBSET Edit]
  /\ NoReview \in Reviews /\ Fresh \in Content
  /\ Idle \in Running /\ Asleep \in Runner
  /\ [how |-> "plain", raised |-> {}, fix |-> "none"] \in Texts
<1>0. 0 \in 0 .. MaxStarts /\ 0 \in 0 .. MaxRuns BY ConvAssumption
<1>1. NoPacket \in AnyPacket /\ NoEdits \in [Mode -> SUBSET Edit]
  BY DEF NoPacket, NoEdits, AnyPacket
<1>2. NoReview \in Reviews BY <1>0, <1>1 DEF NoReview, Reviews
<1>3. Fresh \in Content BY <1>0 DEF Fresh, Content
<1>4. Idle \in Running BY <1>0, <1>1, NoResultTyped DEF Idle, Running, Stage, Kind, Fix
<1>5. << >> \in Seq(Edit) OBVIOUS
<1>6. Asleep \in Runner BY <1>5, NoResultTyped DEF Asleep, Runner
<1>7. [how |-> "plain", raised |-> {}, fix |-> "none"] \in Texts BY DEF Texts, Kind, Fix
<1> QED BY <1>1, <1>2, <1>3, <1>4, <1>6, <1>7

LEMMA AsleepPrepared ==
  DOMAIN Asleep.result.before = {} /\ Asleep.todo = {} /\ DOMAIN Asleep.applied = {}
<1>1. DOMAIN << >> = {} OBVIOUS
<1> QED BY <1>1 DEF Asleep, NoResult

LEMMA InitTyped == Init => Typed
<1> SUFFICES ASSUME Init PROVE Typed OBVIOUS
<1>1. wf \in Workflow BY NothingTyped, NoResultTyped DEF Init, Workflow, Status, Kind, Fix
<1>2. hist \in History BY ConvAssumption, NothingTyped DEF Init, History, NoCall
<1>3. runner \in Runner /\ Prepared BY NothingTyped, AsleepPrepared DEF Init, Prepared
<1>4. cmd \in [Process -> Running] BY NothingTyped DEF Init
<1>5. file \in [File -> Content] BY NothingTyped DEF Init
<1>6. \A f \in File : Counted(file[f]) BY <1>2 DEF Init, Counted, Fresh, History
<1>7. DOMAIN arts = {} /\ DOMAIN disk = {} /\ DOMAIN events = {} /\ written = {} BY DEF Init
<1> QED BY <1>1, <1>2, <1>3, <1>4, <1>5, <1>6, <1>7 DEF Typed

-----------------------------------------------------------------------------
\* What keeps the types, for each thing a step does.
LEMMA Moved ==
  ASSUME Typed, NEW p \in Process, NEW new \in Running, cmd' = [cmd EXCEPT ![p] = new]
  PROVE  cmd' \in [Process -> Running] /\ cmd'[p] = new /\ \A q \in Process : q # p => cmd'[q] = cmd[q]
BY DEF Typed

LEMMA Quits ==
  ASSUME Typed, NEW p \in Process, Quit(p)
  PROVE  cmd' \in [Process -> Running] /\ cmd'[p] = Idle /\ \A q \in Process : q # p => cmd'[q] = cmd[q]
BY NothingTyped, Moved DEF Quit

LEMMA Goes ==
  ASSUME Typed, NEW p \in Process, NEW a \in Stage, Goto(p, a)
  PROVE  /\ cmd' \in [Process -> Running] /\ cmd'[p] = [cmd[p] EXCEPT !.at = a]
         /\ \A q \in Process : q # p => cmd'[q] = cmd[q]
<1> DEFINE new == [cmd[p] EXCEPT !.at = a]
<1>1. cmd[p] \in Running /\ cmd \in [Process -> Running] BY DEF Typed
<1>2. new \in Running BY <1>1 DEF Running
<1>3. cmd' = [cmd EXCEPT ![p] = new] BY <1>1 DEF Goto
<1> QED BY <1>2, <1>3, Moved

LEMMA Keeps ==
  ASSUME Typed, NEW p \in Process, NEW id, NEW content, NEW a \in Stage, Keep(p, id, content, a),
         Artifact(id, content)
  PROVE  /\ cmd' \in [Process -> Running]
         /\ DOMAIN arts' \subseteq DOMAIN disk' /\ \A i \in DOMAIN disk' : Artifact(i, disk'[i])
<1>1. cmd' \in [Process -> Running] BY Quits, Goes DEF Keep
<1>2. DOMAIN disk' = DOMAIN disk \cup {id} /\ disk'[id] = content /\ \A i \in DOMAIN disk : i # id => disk'[i] = disk[i]
  <2>1. disk' = With(disk, id, content) BY DEF Keep
  <2>2. /\ DOMAIN With(disk, id, content) = DOMAIN disk \cup {id} /\ With(disk, id, content)[id] = content
        /\ \A i \in DOMAIN disk : i # id => With(disk, id, content)[i] = disk[i]
    BY DEF With
  <2> QED BY <2>1, <2>2
<1>3. DOMAIN arts' \subseteq DOMAIN arts \cup {id}
  <2>1. arts' = arts \/ arts' = With(arts, id, content) BY DEF Keep
  <2>2. DOMAIN With(arts, id, content) = DOMAIN arts \cup {id} BY WithPut
  <2> QED BY <2>1, <2>2
<1>4. ASSUME NEW i \in DOMAIN disk' PROVE Artifact(i, disk'[i])
  <2>1. CASE i = id BY <1>2, <2>1
  <2>2. CASE i # id BY <1>2, <2>2 DEF Typed
  <2> QED BY <2>1, <2>2
<1> QED BY <1>1, <1>2, <1>3, <1>4 DEF Typed

LEMMA NotedTyped ==
  ASSUME Typed, NEW calm \in BOOLEAN, NEW call \in [how : Kind \cup {"none"}, packet : AnyPacket]
  PROVE  Noted(calm, call) \in History
<1>1. hist \in History BY DEF Typed
<1>2. NoCall \in [how : Kind \cup {"none"}, packet : AnyPacket] BY NothingTyped DEF NoCall
<1>3. hist.call \in [how : Kind \cup {"none"}, packet : AnyPacket] BY <1>1 DEF History
<1> DEFINE new == CASE ~calm -> NoCall [] calm /\ call = NoCall -> hist.call [] OTHER -> call
<1>4. new \in [how : Kind \cup {"none"}, packet : AnyPacket] BY <1>2, <1>3
<1>5. Noted(calm, call) = [[hist EXCEPT !.calm = calm] EXCEPT !.call = new] BY <1>1 DEF Noted, History
<1> HIDE DEF new
<1> QED BY <1>1, <1>4, <1>5 DEF History

LEMMA CallTyped ==
  ASSUME Typed, UNCHANGED <<file, written, runner, hist>>,
         wf' \in Workflow, cmd' \in [Process -> Running],
         DOMAIN arts' \subseteq DOMAIN disk', \A id \in DOMAIN disk' : Artifact(id, disk'[id]),
         DOMAIN events' \subseteq {"rounds", "panel", "fix_requested", "fix_completed"}
  PROVE  Typed'
BY DEF Typed, Counted, Prepared

\* What a call computes.
LEMMA OwnTyped ==
  ASSUME Typed, NEW p \in Process
  PROVE  /\ cmd[p] \in Running /\ cmd[p].packet \in AnyPacket /\ cmd[p].given \in Results
         /\ Review(p) \in Reviews /\ Text(p) \in Texts /\ Text(p).fix = cmd[p].fix
         /\ Outcome(p) \in Status
<1>1. cmd[p] \in Running BY DEF Typed
<1>2. Review(p) \in Reviews BY <1>1 DEF Running, Review, Reviews
<1>3. Text(p) \in Texts /\ Text(p).fix = cmd[p].fix BY <1>1 DEF Running, Text, Texts, AnyPacket
<1>4. Outcome(p) \in Status BY DEF Outcome, Status
<1> QED BY <1>1, <1>2, <1>3, <1>4 DEF Running

LEMMA WorkTyped == ASSUME Typed, NEW p \in Process, Work(p) PROVE Typed'
<1>0. /\ wf \in Workflow /\ cmd \in [Process -> Running] /\ cmd[p] \in Running
      /\ DOMAIN arts \subseteq DOMAIN disk /\ \A id \in DOMAIN disk : Artifact(id, disk[id])
      /\ DOMAIN events \subseteq {"rounds", "panel", "fix_requested", "fix_completed"}
  BY DEF Typed
<1>a. \A k \in {"rounds", "panel", "fix_requested", "fix_completed"} : \A v :
        DOMAIN With(events, k, v) \subseteq {"rounds", "panel", "fix_requested", "fix_completed"}
  <2> TAKE k \in {"rounds", "panel", "fix_requested", "fix_completed"}
  <2> TAKE v
  <2>1. DOMAIN With(events, k, v) = DOMAIN events \cup {k} BY WithPut
  <2> QED BY <1>0, <2>1
<1>1. CASE Rounds(p)
  <2>1. Artifact("rounds", file) BY DEF Artifact, Typed
  <2>2. wf.request # "files" \/ (wf.request = "files" /\ "rounds" \in DOMAIN arts)
        \/ Keep(p, "rounds", file, "round_events")
    BY <1>1 DEF Rounds
  <2>3. Keep(p, "rounds", file, "round_events") \/ (UNCHANGED <<arts, disk>> /\ \E a \in Stage : Goto(p, a))
    BY <1>1, <2>2 DEF Rounds, Stage
  <2> QED BY <1>0, <1>1, <2>1, <2>3, Keeps, Goes, CallTyped DEF Rounds, Stage
<1>2. CASE RoundEvents(p) BY <1>0, <1>a, <1>2, Goes, CallTyped DEF RoundEvents, Stage
<1>3. CASE Launch(p)
  <2>1. wf' \in Workflow BY <1>0, <1>3 DEF Launch, Workflow, Status
  <2> QED BY <1>0, <1>3, <2>1, Goes, Quits, CallTyped DEF Launch, Stage
<1>4. CASE Panel(p)
  <2>1. cmd' \in [Process -> Running]
    <3>1. ASSUME NEW raised \in Collected,
                 cmd' = [cmd EXCEPT ![p].packet = [NoPacket EXCEPT !.raised = raised], ![p].at = "findings"]
          PROVE  cmd' \in [Process -> Running]
      <4> DEFINE packet == [NoPacket EXCEPT !.raised = raised]
                 new == [cmd[p] EXCEPT !.packet = packet, !.at = "findings"]
      <4>1. raised \subseteq Raised BY ConvAssumption
      <4>2. packet \in AnyPacket BY <4>1, NothingTyped DEF AnyPacket
      <4> HIDE DEF packet
      <4>3. new \in Running BY <1>0, <4>2 DEF Running, Stage
      <4>4. cmd' = [cmd EXCEPT ![p] = new] BY <1>0, <3>1 DEF packet
      <4> HIDE DEF new
      <4> QED BY <4>3, <4>4, Moved
    <3> QED BY <1>4, <3>1, Goes DEF Panel, Stage
  <2> QED BY <1>0, <1>4, <2>1, CallTyped DEF Panel
<1>5. CASE Block(p)
  <2>1. wf' \in Workflow BY <1>0, <1>5 DEF Block, Workflow, Status
  <2> QED BY <1>0, <1>5, <2>1, Quits, CallTyped DEF Block
<1>6. CASE Findings(p)
  <2>1. Artifact("findings", Review(p)) BY OwnTyped DEF Artifact
  <2> QED BY <1>0, <1>6, <2>1, Keeps, Goes, CallTyped DEF Findings, Stage
<1>7. CASE PanelEvents(p) BY <1>0, <1>a, <1>7, Goes, CallTyped DEF PanelEvents, Stage
<1>8. CASE Attach(p)
  <2>1. cmd' \in [Process -> Running]
    <3>1. Quit(p) \/ \E a \in Stage, f \in Fix : cmd' = [cmd EXCEPT ![p].at = a, ![p].fix = f]
      BY <1>8 DEF Attach, Stage, Fix
    <3>2. ASSUME NEW a \in Stage, NEW f \in Fix, cmd' = [cmd EXCEPT ![p].at = a, ![p].fix = f]
          PROVE  cmd' \in [Process -> Running]
      <4> DEFINE new == [cmd[p] EXCEPT !.at = a, !.fix = f]
      <4>1. new \in Running BY <1>0 DEF Running
      <4>2. cmd' = [cmd EXCEPT ![p] = new] BY <1>0, <3>2
      <4> HIDE DEF new
      <4> QED BY <4>1, <4>2, Moved
    <3> QED BY <3>1, <3>2, Quits
  <2> QED BY <1>0, <1>8, <2>1, CallTyped DEF Attach
<1>9. CASE Request(p)
  <2>1. cmd' \in [Process -> Running]
    <3>a. PICK a : a = IF cmd[p].fix = "complete" THEN "result" ELSE "report" OBVIOUS
    <3>1. ASSUME NEW had \in BOOLEAN, cmd' = [cmd EXCEPT ![p].at = a, ![p].had = had]
          PROVE  cmd' \in [Process -> Running]
      <4> DEFINE new == [cmd[p] EXCEPT !.at = a, !.had = had]
      <4>1. new \in Running BY <1>0, <3>a DEF Running, Stage
      <4>2. cmd' = [cmd EXCEPT ![p] = new] BY <1>0, <3>1
      <4> HIDE DEF new
      <4> QED BY <4>1, <4>2, Moved
    <3>2. \E had \in BOOLEAN : cmd' = [cmd EXCEPT ![p].at = a, ![p].had = had]
      <4>1. CASE "fix_completed" \in DOMAIN events
        <5>1. cmd' = [cmd EXCEPT ![p].at = a, ![p].had = TRUE] BY <1>9, <3>a, <4>1 DEF Request
        <5> QED BY <5>1
      <4>2. CASE "fix_completed" \notin DOMAIN events
        <5>1. ("fix_completed" \in DOMAIN events) = FALSE BY <4>2
        <5>2. cmd' = [cmd EXCEPT ![p].at = a, ![p].had = ("fix_completed" \in DOMAIN events)]
          BY <1>9, <3>a DEF Request
        <5>3. cmd' = [cmd EXCEPT ![p].at = a, ![p].had = FALSE] BY <5>1, <5>2, Zenon
        <5> QED BY <5>3
      <4> QED BY <4>1, <4>2
    <3> QED BY <3>1, <3>2
  <2> QED BY <1>0, <1>a, <1>9, <2>1, CallTyped DEF Request
<1>10. CASE Result(p)
  <2>1. Artifact("result", cmd[p].given) BY OwnTyped DEF Artifact
  <2>2. Keep(p, "result", cmd[p].given, "completed") \/ (UNCHANGED <<arts, disk>> /\ (Quit(p) \/ Goto(p, "completed")))
    BY <1>10 DEF Result
  <2> QED BY <1>0, <1>10, <2>1, <2>2, Keeps, Goes, Quits, CallTyped DEF Result, Stage
<1>11. CASE Completed(p)
  <2>1. (UNCHANGED events \/ \E v : events' = With(events, "fix_completed", v)) /\ (Quit(p) \/ Goto(p, "report"))
    BY <1>11 DEF Completed
  <2> QED BY <1>0, <1>a, <1>11, <2>1, Goes, Quits, CallTyped DEF Completed, Stage
<1>12. CASE Report(p)
  <2>1. Artifact(ReportId(p), Text(p)) BY OwnTyped DEF Artifact, ReportId
  <2>2. Keep(p, ReportId(p), Text(p), "commit") \/ (UNCHANGED <<arts, disk>> /\ (Quit(p) \/ Goto(p, "commit")))
    BY <1>12 DEF Report
  <2> QED BY <1>0, <1>12, <2>1, <2>2, Keeps, Goes, Quits, CallTyped DEF Report, Stage
<1>13. CASE Commit(p)
  <2>1. Outcome(p) \in Status /\ cmd[p].how \in Kind /\ Review(p) \in Reviews /\ cmd[p].fix \in Fix
        /\ Text(p) \in Texts /\ (IF cmd[p].fix = "complete" THEN cmd[p].given ELSE NoResult) \in Results
    BY <1>0, OwnTyped, NoResultTyped DEF Running
  <2>2. wf' \in Workflow BY <1>0, <1>13, <2>1 DEF Commit, Workflow
  <2> QED BY <1>0, <1>13, <2>2, Quits, CallTyped DEF Commit
<1> QED BY <1>1, <1>2, <1>3, <1>4, <1>5, <1>6, <1>7, <1>8, <1>9, <1>10, <1>11, <1>12, <1>13 DEF Work

LEMMA StartTyped ==
  ASSUME Typed, NEW p \in Process, NEW how \in Kind, NEW packet \in AnyPacket, NEW given \in Results,
         Start(p, how, packet, given)
  PROVE  Typed' /\ cmd' = [cmd EXCEPT ![p] = cmd'[p]] /\ hist'.starts = hist.starts + 1
<1>0. /\ hist \in History /\ hist.starts \in 0 .. MaxStarts /\ hist.starts < MaxStarts
      /\ cmd \in [Process -> Running] /\ MaxStarts \in Nat
  BY ConvAssumption DEF Typed, History, Start
<1>1. PICK a : a = CASE how = "plain" -> "rounds" [] how = "packet" -> "findings" [] how = "native" -> "launch"
  OBVIOUS
<1>2. a \in Stage BY <1>1 DEF Kind, Stage
<1>3. PICK r : r = IF how = "native" THEN hist.starts + 1 ELSE 0 OBVIOUS
<1>4. r \in 0 .. MaxStarts BY <1>0, <1>3
<1>5. PICK s : s = DOMAIN arts \cap {"report", "pending_report"} OBVIOUS
<1> DEFINE new == [Idle EXCEPT !.at = a, !.how = how, !.run = r, !.packet = packet, !.given = given, !.seen = s]
<1>6. new \in Running BY <1>2, <1>4, <1>5, NothingTyped DEF Running
<1>7. cmd' = [cmd EXCEPT ![p] = new] BY <1>1, <1>3, <1>5 DEF Start
<1> HIDE DEF new
<1>8. cmd' \in [Process -> Running] /\ cmd'[p] = new BY <1>6, <1>7, Moved
<1>9. PICK call : call = [how |-> how, packet |-> packet] OBVIOUS
<1>10. call \in [how : Kind \cup {"none"}, packet : AnyPacket] BY <1>9
<1>11. \E calm \in BOOLEAN : hist' = [Noted(calm, call) EXCEPT !.starts = @ + 1]
  <2>1. hist' = [Noted(Calm(call), call) EXCEPT !.starts = @ + 1] BY <1>9 DEF Start
  <2>2. Calm(call) \in BOOLEAN BY DEF Calm
  <2> QED BY <2>1, <2>2
<1>12. PICK calm \in BOOLEAN : hist' = [Noted(calm, call) EXCEPT !.starts = @ + 1] BY <1>11
<1>13. Noted(calm, call) \in History /\ Noted(calm, call).starts = hist.starts
       /\ Noted(calm, call).runs = hist.runs
  BY <1>0, <1>10, NotedTyped DEF Noted, History
<1>14. hist' \in History /\ hist'.starts = hist.starts + 1 /\ hist'.runs = hist.runs
  BY <1>0, <1>12, <1>13 DEF History
<1> QED BY <1>7, <1>8, <1>14 DEF Typed, Start, Counted, Prepared

LEMMA BeginStarts ==
  ASSUME Typed, NEW p \in Process, Begin(p)
  PROVE  \E how \in Kind, packet \in AnyPacket, given \in Results :
           /\ Start(p, how, packet, given)
           /\ how # "packet" => packet = NoPacket
BY NothingTyped, NoResultTyped, ConvAssumption DEF Begin, Kind, Typed

-----------------------------------------------------------------------------
\* An edit adds one to one count.
LEMMA ReplacedTyped ==
  ASSUME NEW e \in Edit, NEW f \in Content, NEW n \in Nat, n < MaxRuns, \A d \in Edit : f.times[d] <= n
  PROVE  Replaced(e, f) \in Content /\ \A d \in Edit : Replaced(e, f).times[d] <= n + 1
<1>1. f.times \in [Edit -> 0 .. MaxRuns] /\ MaxRuns \in Nat BY ConvAssumption DEF Content
<1>2. PICK t : t = [f.times EXCEPT ![e] = @ + 1] OBVIOUS
<1>3. t \in [Edit -> 0 .. MaxRuns] BY <1>1, <1>2
<1>4. \A d \in Edit : t[d] <= n + 1 BY <1>1, <1>2
<1>5. Replaced(e, f) = [f EXCEPT !.times = t] BY <1>2 DEF Replaced, Content
<1> QED BY <1>3, <1>4, <1>5 DEF Content

LEMMA RunFixTyped == ASSUME Typed, RunFix PROVE Typed'
<1>0. /\ hist \in History /\ hist.runs \in Nat /\ hist.runs < MaxRuns /\ MaxRuns \in Nat
      /\ wf \in Workflow /\ wf.review.packet \in AnyPacket
      /\ file \in [File -> Content] /\ \A f \in File : Counted(file[f])
  BY ConvAssumption DEF Typed, History, RunFix, Workflow, Reviews
<1>1. hist' \in History /\ hist'.runs = hist.runs + 1
  <2>1. PICK call : call = NoCall OBVIOUS
  <2>2. call \in [how : Kind \cup {"none"}, packet : AnyPacket] BY <2>1, NothingTyped DEF NoCall
  <2>3. \E calm \in BOOLEAN : hist' = [Noted(calm, call) EXCEPT !.runs = @ + 1]
    <3>1. hist' = [Noted(Calm(call), call) EXCEPT !.runs = @ + 1] BY <2>1 DEF RunFix
    <3>2. Calm(call) \in BOOLEAN BY DEF Calm
    <3> QED BY <3>1, <3>2
  <2>4. PICK calm \in BOOLEAN : hist' = [Noted(calm, call) EXCEPT !.runs = @ + 1] BY <2>3
  <2>5. Noted(calm, call) \in History /\ Noted(calm, call).runs = hist.runs
    BY <1>0, <2>2, NotedTyped DEF Noted, History
  <2> QED BY <1>0, <2>4, <2>5 DEF History
<1>2. \A f \in File : Counted(file[f])' BY <1>0, <1>1 DEF Counted, RunFix, Content
<1>3. runner' \in Runner /\ Prepared'
  <2>1. CASE UNCHANGED runner
    <3>1. runner.at = "idle" /\ runner \in Runner BY DEF RunFix, Typed
    <3> QED BY <2>1, <3>1 DEF Prepared, Typed
  <2>2. CASE runner' # runner
    <3>1. PICK changes : changes = Changes(wf.review.packet) OBVIOUS
    <3>2. PICK edits : edits = EditsOf(changes) OBVIOUS
    <3>3. PICK before : before = [e \in edits |-> file[FileOf[e]]] OBVIOUS
    <3>4. PICK after : after = [e \in edits |-> Replaced(e, file[FileOf[e]])] OBVIOUS
    <3>5. PICK result : result = [changes |-> changes, before |-> before, after |-> after] OBVIOUS
    <3>6. runner' = [at |-> "apply", todo |-> edits, applied |-> << >>, result |-> result]
      BY <2>2, <3>1, <3>2, <3>3, <3>4, <3>5 DEF RunFix
    <3>7. changes \in Asked /\ edits \subseteq Edit BY <1>0, <3>1, <3>2, ChangesTyped
    <3>8. \A e \in edits : file[FileOf[e]] \in Content /\ Counted(file[FileOf[e]])
      BY <1>0, <3>7, ConvAssumption
    <3>9. \A e \in edits : before[e] \in Content /\ Counted(before[e])'
      BY <1>0, <1>1, <3>3, <3>8 DEF Counted, Content
    <3>10. ASSUME NEW e \in edits PROVE after[e] \in Content /\ Counted(after[e])'
      <4>1. /\ Replaced(e, file[FileOf[e]]) \in Content
            /\ \A d \in Edit : Replaced(e, file[FileOf[e]]).times[d] <= hist.runs + 1
        <5>1. PICK f : f = file[FileOf[e]] OBVIOUS
        <5>2. f \in Content /\ \A d \in Edit : f.times[d] <= hist.runs BY <3>8, <5>1 DEF Counted
        <5>3. e \in Edit BY <3>7
        <5> QED BY <1>0, <5>1, <5>2, <5>3, ReplacedTyped
      <4>2. after[e] = Replaced(e, file[FileOf[e]]) BY <3>4
      <4> QED BY <1>1, <4>1, <4>2 DEF Counted
    <3>11. before \in [edits -> Content] /\ after \in [edits -> Content] BY <3>3, <3>4, <3>9, <3>10
    <3>12. before \in Found /\ after \in Found BY <3>7, <3>11 DEF Found
    <3>13. result \in Results BY <3>2, <3>5, <3>7, <3>11, <3>12 DEF Results
    <3>14. << >> \in Seq(Edit) /\ DOMAIN << >> = {} OBVIOUS
    <3>15. runner' \in Runner BY <3>6, <3>7, <3>13, <3>14 DEF Runner
    <3>16. /\ runner'.result.before = before /\ runner'.result.after = after
           /\ runner'.todo = edits /\ DOMAIN runner'.applied = {} /\ DOMAIN before = edits
      BY <3>5, <3>6, <3>11, <3>14
    <3>17. Prepared' BY <3>9, <3>10, <3>16 DEF Prepared
    <3> QED BY <3>15, <3>17
  <2> QED BY <2>1, <2>2
<1> QED BY <1>1, <1>2, <1>3 DEF Typed, RunFix

\* What the runner writes, it has prepared.
LEMMA PreparedTyped ==
  ASSUME Typed
  PROVE  /\ DOMAIN runner.result.before \subseteq Edit
         /\ DOMAIN runner.result.after = DOMAIN runner.result.before
         /\ \A e \in DOMAIN runner.result.before :
              /\ FileOf[e] \in File
              /\ runner.result.before[e] \in Content /\ runner.result.after[e] \in Content
<1>1. runner.result \in Results BY DEF Typed, Runner
<1> QED BY <1>1, ResultTyped, ConvAssumption

\* A file that takes a counted content stays counted.
LEMMA FileTyped ==
  ASSUME Typed, NEW f \in File, NEW c \in Content, Counted(c), file' = [file EXCEPT ![f] = c],
         hist'.runs = hist.runs
  PROVE  file' \in [File -> Content] /\ \A g \in File : Counted(file[g])'
BY DEF Typed, Counted

LEMMA FixingTyped == ASSUME Typed, Apply \/ ApplyFails \/ Undo \/ WriteResult PROVE Typed'
<1>0. /\ runner \in Runner /\ Prepared /\ file \in [File -> Content] /\ \A f \in File : Counted(file[f])
      /\ written \subseteq Results
  BY DEF Typed
<1>1. CASE Apply
  <2>1. PICK e \in runner.todo : /\ file' = [file EXCEPT ![FileOf[e]] = runner.result.after[e]]
                                 /\ runner' = [runner EXCEPT !.todo = @ \ {e}, !.applied = Append(@, e)]
    BY <1>1 DEF Apply
  <2>2. e \in DOMAIN runner.result.before /\ e \in Edit /\ FileOf[e] \in File
        /\ runner.result.after[e] \in Content /\ Counted(runner.result.after[e])
    BY <1>0, <1>1, PreparedTyped DEF Prepared, Apply
  <2>3. file' \in [File -> Content] /\ \A g \in File : Counted(file[g])'
    BY <1>1, <2>1, <2>2, FileTyped DEF Apply
  <2>4. PICK applied : applied = Append(runner.applied, e) OBVIOUS
  <2>5. runner.applied \in Seq(Edit) BY <1>0 DEF Runner
  <2>6. applied \in Seq(Edit) /\ \A i \in DOMAIN applied : applied[i] = e \/ (i \in DOMAIN runner.applied /\ applied[i] = runner.applied[i])
    BY <2>2, <2>4, <2>5
  <2>7. runner' = [runner EXCEPT !.todo = runner.todo \ {e}, !.applied = applied] BY <1>0, <2>1, <2>4 DEF Runner
  <2>8. runner' \in Runner BY <1>0, <2>6, <2>7 DEF Runner
  <2>9. /\ runner'.result = runner.result /\ runner'.at = runner.at /\ runner'.applied = applied
        /\ runner'.todo \subseteq runner.todo
    BY <1>0, <2>7 DEF Runner
  <2>10. Prepared' BY <1>0, <1>1, <2>2, <2>6, <2>9 DEF Prepared, Counted, Apply
  <2> QED BY <1>1, <2>3, <2>8, <2>10 DEF Typed, Apply
<1>2. CASE ApplyFails
  <2>1. runner' \in Runner /\ runner'.result = runner.result /\ runner'.applied = runner.applied
        /\ runner'.todo = runner.todo /\ runner.at # "idle"
    BY <1>0, <1>2 DEF ApplyFails, Runner
  <2>2. Prepared' BY <1>0, <1>2, <2>1 DEF Prepared, Counted, ApplyFails
  <2>3. file' \in [File -> Content] /\ \A g \in File : Counted(file[g])'
    <3>1. CASE UNCHANGED file BY <1>0, <1>2, <3>1 DEF Counted, ApplyFails
    <3>2. CASE \E e \in runner.todo : file' = [file EXCEPT ![FileOf[e]].is = "torn"]
      <4>1. PICK e \in runner.todo : file' = [file EXCEPT ![FileOf[e]].is = "torn"] BY <3>2
      <4>2. FileOf[e] \in File BY <1>0, PreparedTyped DEF Prepared
      <4>3. PICK c : c = [file[FileOf[e]] EXCEPT !.is = "torn"] OBVIOUS
      <4>4. file' = [file EXCEPT ![FileOf[e]] = c] BY <1>0, <4>1, <4>2, <4>3
      <4>5. file[FileOf[e]] \in Content /\ Counted(file[FileOf[e]]) BY <1>0, <4>2
      <4>6. c \in Content /\ Counted(c) BY <4>3, <4>5 DEF Content, Counted
      <4> QED BY <1>2, <4>2, <4>4, <4>6, FileTyped DEF ApplyFails
    <3> QED BY <1>2, <3>1, <3>2 DEF ApplyFails
  <2> QED BY <1>2, <2>1, <2>2, <2>3 DEF Typed, ApplyFails
<1>3. CASE Undo
  <2>1. CASE runner.applied = << >>
    <3>1. runner' = Asleep /\ UNCHANGED <<file, wf, arts, disk, events, written, cmd, hist>>
      BY <1>3, <2>1 DEF Undo
    <3>2. runner' \in Runner BY <3>1, NothingTyped
    <3>3. Prepared' BY <3>1, AsleepPrepared DEF Prepared
    <3> QED BY <3>1, <3>2, <3>3 DEF Typed, Counted
  <2>2. CASE runner.applied # << >>
    <3>1. runner.applied \in Seq(Edit) /\ Len(runner.applied) \in DOMAIN runner.applied
      BY <1>0, <2>2 DEF Runner
    <3>2. PICK last : last = runner.applied[Len(runner.applied)] OBVIOUS
    <3>3. last \in DOMAIN runner.result.before BY <1>0, <3>1, <3>2 DEF Prepared
    <3>4. file' = [file EXCEPT ![FileOf[last]] = runner.result.before[last]] BY <1>3, <2>2, <3>2 DEF Undo
    <3>5. FileOf[last] \in File /\ runner.result.before[last] \in Content /\ Counted(runner.result.before[last])
      BY <1>0, <1>3, <3>3, PreparedTyped DEF Prepared, Undo
    <3>6. file' \in [File -> Content] /\ \A g \in File : Counted(file[g])' BY <1>3, <3>4, <3>5, FileTyped DEF Undo
    <3>7. PICK applied : applied = SubSeq(runner.applied, 1, Len(runner.applied) - 1) OBVIOUS
    <3>8. applied \in Seq(Edit) /\ \A i \in DOMAIN applied : i \in DOMAIN runner.applied /\ applied[i] = runner.applied[i]
      BY <3>1, <3>7
    <3>9. runner' = [runner EXCEPT !.applied = applied] BY <1>0, <1>3, <2>2, <3>7 DEF Undo, Runner
    <3>10. runner' \in Runner BY <1>0, <3>8, <3>9 DEF Runner
    <3>11. /\ runner'.result = runner.result /\ runner'.at = runner.at /\ runner'.applied = applied
           /\ runner'.todo = runner.todo
      BY <1>0, <3>9 DEF Runner
    <3>12. Prepared' BY <1>0, <1>3, <3>8, <3>11 DEF Prepared, Counted, Undo
    <3> QED BY <1>3, <3>6, <3>10, <3>12 DEF Typed, Undo
  <2> QED BY <2>1, <2>2
<1>4. CASE WriteResult
  <2>1. runner.result \in Results BY <1>0 DEF Runner
  <2>2. runner' \in Runner BY <1>4, NothingTyped DEF WriteResult
  <2>3. Prepared' BY <1>4, AsleepPrepared DEF WriteResult, Prepared
  <2> QED BY <1>0, <1>4, <2>1, <2>2, <2>3 DEF Typed, WriteResult, Counted
<1> QED BY <1>1, <1>2, <1>3, <1>4

LEMMA AroundTyped ==
  ASSUME Typed, Environment \/ \E p \in Process : Crash(p)
  PROVE  Typed'
<1>0. /\ wf \in Workflow /\ hist \in History /\ file \in [File -> Content] /\ \A f \in File : Counted(file[f])
      /\ Prepared
  BY DEF Typed
<1>1. CASE OwnerDecides
  <2>1. wf' \in Workflow BY <1>0, <1>1 DEF OwnerDecides, Workflow
  <2> QED BY <1>1, <2>1 DEF Typed, OwnerDecides, Counted, Prepared
<1>2. CASE EditFile
  <2>1. PICK call : call = NoCall OBVIOUS
  <2>2. call \in [how : Kind \cup {"none"}, packet : AnyPacket] BY <2>1, NothingTyped DEF NoCall
  <2>a. hist' = [Noted(FALSE, call) EXCEPT !.edits = @ + 1] BY <1>2, <2>1 DEF EditFile
  <2>3. PICK calm \in BOOLEAN : hist' = [Noted(calm, call) EXCEPT !.edits = @ + 1] BY <2>a
  <2>4. Noted(calm, call) \in History /\ Noted(calm, call).runs = hist.runs
    BY <1>0, <2>2, NotedTyped DEF Noted, History
  <2>5. hist' \in History /\ hist'.runs = hist.runs BY <2>3, <2>4 DEF History
  <2>6. PICK f \in File : file' = [file EXCEPT ![f].is = "edited"] BY <1>2 DEF EditFile
  <2>7. PICK c : c = [file[f] EXCEPT !.is = "edited"] OBVIOUS
  <2>8. file' = [file EXCEPT ![f] = c] BY <1>0, <2>6, <2>7
  <2>9. file[f] \in Content /\ Counted(file[f]) BY <1>0
  <2>10. c \in Content /\ Counted(c) BY <2>7, <2>9 DEF Content, Counted
  <2>11. file' \in [File -> Content] /\ \A g \in File : Counted(file[g])' BY <2>5, <2>8, <2>10, FileTyped
  <2> QED BY <1>0, <1>2, <2>5, <2>11 DEF Typed, EditFile, Counted, Prepared
<1>3. CASE RunnerCrash
  <2>1. hist' \in History /\ hist'.runs = hist.runs BY <1>0, <1>3 DEF RunnerCrash, History
  <2>2. runner' \in Runner BY <1>3, NothingTyped DEF RunnerCrash
  <2>3. Prepared' BY <1>3, AsleepPrepared DEF RunnerCrash, Prepared
  <2> QED BY <1>0, <1>3, <2>1, <2>2, <2>3 DEF Typed, RunnerCrash, Counted
<1>4. ASSUME NEW p \in Process, Crash(p) PROVE Typed'
  <2>1. hist' \in History /\ hist'.runs = hist.runs BY <1>0, <1>4 DEF Crash, History
  <2>2. cmd' \in [Process -> Running] BY <1>4, Quits DEF Crash
  <2> QED BY <1>0, <1>4, <2>1, <2>2 DEF Typed, Crash, Counted, Prepared
<1> QED BY <1>1, <1>2, <1>3, <1>4 DEF Environment

LEMMA NextTyped == ASSUME Typed, [Next]_vars PROVE Typed'
<1>1. ASSUME NEW p \in Process, Begin(p) PROVE Typed' BY <1>1, BeginStarts, StartTyped
<1>2. ASSUME UNCHANGED vars PROVE Typed' BY <1>2 DEF vars, Typed, Counted, Prepared
<1> QED BY <1>1, <1>2, WorkTyped, RunFixTyped, FixingTyped, AroundTyped DEF Next, Fixing

\* The typed sets are what TypeOK demands.
LEMMA TypedIsTypeOK == Typed => TypeOK
<1> SUFFICES ASSUME Typed PROVE TypeOK OBVIOUS
<1>1. /\ wf \in Workflow /\ hist \in History /\ runner \in Runner
      /\ cmd \in [Process -> Running] /\ file \in [File -> Content] /\ written \subseteq Results
      /\ DOMAIN arts \subseteq DOMAIN disk /\ \A id \in DOMAIN disk : Artifact(id, disk[id])
      /\ DOMAIN events \subseteq {"rounds", "panel", "fix_requested", "fix_completed"} /\ Prepared
  BY DEF Typed
<1>2. \A r \in Results : IsResult(r) BY ResultTyped DEF IsResult
<1>3. \A r \in Reviews : IsReview(r) BY DEF Reviews, IsReview
<1>4. \A t \in Texts : IsText(t) BY DEF Texts, IsText
<1>5. /\ wf.status \in Status /\ wf.request \in Requests /\ wf.decided \in BOOLEAN
      /\ wf.how \in Kind /\ wf.fix \in Fix
      /\ IsReview(wf.review) /\ IsText(wf.text) /\ IsResult(wf.result)
  BY <1>1, <1>2, <1>3, <1>4 DEF Workflow
<1>6. ASSUME NEW p \in Process
      PROVE  /\ cmd[p].at \in Stage /\ cmd[p].how \in Kind /\ cmd[p].fix \in Fix
             /\ IsReview(Review(p)) /\ IsResult(cmd[p].given)
  BY <1>1, <1>2, <1>3, OwnTyped DEF Running
<1>7. /\ runner.at \in {"idle", "apply", "undo"} /\ IsResult(runner.result)
      /\ runner.todo \cup {runner.applied[i] : i \in DOMAIN runner.applied} \subseteq Edit
  BY <1>1, <1>2 DEF Runner
<1>8. ASSUME NEW id \in DOMAIN disk
      PROVE  CASE id = "rounds"         -> disk[id] \in [File -> Content]
               [] id = "findings"       -> IsReview(disk[id])
               [] id = "result"         -> IsResult(disk[id])
               [] id = "pending_report" -> IsText(disk[id]) /\ disk[id].fix = "pending"
               [] id = "report"         -> IsText(disk[id]) /\ disk[id].fix # "pending"
  <2>1. Artifact(id, disk[id]) BY <1>1
  <2> QED BY <1>2, <1>3, <1>4, <2>1 DEF Artifact
<1>9. \A r \in written : IsResult(r) BY <1>1, <1>2
<1> QED BY <1>1, <1>5, <1>6, <1>7, <1>8, <1>9 DEF TypeOK, Status

\* Files, artifacts, calls, the fix runner and the results it leaves keep their types: no edit
\* is made in a file more often than the runner ran, and the two reports are told apart by
\* whether a fix is pending (conv.py, fix_runner.py).
THEOREM ConvTyped == Spec => []TypeOK
<1>1. Init => Typed BY InitTyped
<1>2. Typed /\ [Next]_vars => Typed' BY NextTyped
<1>3. Typed => TypeOK BY TypedIsTypeOK
<1> QED BY <1>1, <1>2, <1>3, PTL DEF Spec

-----------------------------------------------------------------------------
(***************************************************************************)
(* What a success rests on.                                                *)
(***************************************************************************)
LEMMA FitsMoved ==
  ASSUME ConvFits, NEW p \in Process, \A q \in Process : q # p => cmd'[q] = cmd[q],
         CallFits(p)', SuccessFits'
  PROVE  ConvFits'
<1>1. ASSUME NEW q \in Process PROVE CallFits(q)'
  <2>1. CASE q = p BY <2>1
  <2>2. CASE q # p
    <3>1. cmd'[q] = cmd[q] /\ CallFits(q) BY <2>2 DEF ConvFits
    <3> QED BY <3>1 DEF CallFits
  <2> QED BY <2>1, <2>2
<1> QED BY <1>1 DEF ConvFits

LEMMA IdleFits == ASSUME NEW p, cmd'[p] = Idle PROVE CallFits(p)'
BY DEF CallFits, Idle, Judged

\* A step within a call: the stage moves, what the call was made of stays.
LEMMA StageFits ==
  ASSUME Typed, NEW p \in Process, CallFits(p), NEW a \in Stage, Goto(p, a),
         a \in {"rounds", "round_events"} => cmd[p].how = "plain",
         cmd[p].how = "plain" => a \in {"rounds", "round_events", "report", "commit"},
         a \in Judged => cmd[p].at \in Judged \/ cmd[p].how = "plain",
         a \in {"result", "completed"} => cmd[p].fix = "complete"
  PROVE  CallFits(p)'
<1>1. cmd'[p] = [cmd[p] EXCEPT !.at = a] /\ cmd[p] \in Running BY Goes DEF Typed
<1>2. /\ cmd'[p].at = a /\ cmd'[p].how = cmd[p].how /\ cmd'[p].packet = cmd[p].packet
      /\ cmd'[p].fix = cmd[p].fix /\ cmd'[p].given = cmd[p].given
  BY <1>1 DEF Running
<1> QED BY <1>2 DEF CallFits, Fits

LEMMA SameSuccess == ASSUME SuccessFits, UNCHANGED wf PROVE SuccessFits'
BY DEF SuccessFits, Terminal

LEMMA KeepFits ==
  ASSUME Typed, NEW p \in Process, CallFits(p), NEW id, NEW content, NEW a \in Stage, Keep(p, id, content, a),
         a \in {"rounds", "round_events"} => cmd[p].how = "plain",
         cmd[p].how = "plain" => a \in {"rounds", "round_events", "report", "commit"},
         a \in Judged => cmd[p].at \in Judged \/ cmd[p].how = "plain",
         a \in {"result", "completed"} => cmd[p].fix = "complete"
  PROVE  CallFits(p)' /\ \A q \in Process : q # p => cmd'[q] = cmd[q]
BY Quits, Goes, IdleFits, StageFits DEF Keep

LEMMA AttachFits ==
  ASSUME Typed, NEW p \in Process, CallFits(p), Attach(p)
  PROVE  CallFits(p)' /\ \A q \in Process : q # p => cmd'[q] = cmd[q]
<1>0. cmd \in [Process -> Running] /\ cmd[p] \in Running /\ cmd[p].how # "plain"
  BY DEF Typed, Attach, CallFits
<1>1. CASE Quit(p) BY <1>1, Quits, IdleFits
<1>2. CASE ~Quit(p)
  <2>1. PICK changes : changes = Changes(cmd[p].packet) OBVIOUS
  <2>2. PICK f : f = CASE changes = << >> -> "not_required"
                       [] changes # << >> /\ ~(changes # << >> /\ \A m \in DOMAIN changes : changes[m] # {}) -> "plan_only"
                       [] (changes # << >> /\ \A m \in DOMAIN changes : changes[m] # {}) /\ cmd[p].given = NoResult -> "pending"
                       [] (changes # << >> /\ \A m \in DOMAIN changes : changes[m] # {}) /\ cmd[p].given # NoResult -> "complete"
    OBVIOUS
  <2>3. PICK a : a = IF changes # << >> /\ \A m \in DOMAIN changes : changes[m] # {} THEN "request" ELSE "report"
    OBVIOUS
  <2>4. /\ cmd' = [cmd EXCEPT ![p].at = a, ![p].fix = f]
        /\ f = "complete" => Belongs(cmd[p].given, changes)
    BY <1>2, <2>1, <2>2, <2>3 DEF Attach
  <2>5. /\ cmd'[p].at = a /\ cmd'[p].fix = f /\ cmd'[p].how = cmd[p].how
        /\ cmd'[p].packet = cmd[p].packet /\ cmd'[p].given = cmd[p].given
        /\ \A q \in Process : q # p => cmd'[q] = cmd[q]
    BY <1>0, <2>4 DEF Running
  <2>6. f # "none" /\ (f = "not_required" => changes = << >>)
        /\ (f = "complete" => \A m \in DOMAIN changes : changes[m] # {})
    BY <2>2
  <2>7. Fits(cmd[p].how, cmd[p].packet, f, cmd[p].given)
    BY <1>0, <2>1, <2>4, <2>6 DEF Fits, Belongs
  <2>8. a \in {"request", "report"} BY <2>3
  <2> QED BY <1>0, <2>5, <2>7, <2>8 DEF CallFits
<1> QED BY <1>1, <1>2

LEMMA CommitFits == ASSUME Typed, NEW p \in Process, CallFits(p), SuccessFits, Commit(p) PROVE SuccessFits'
<1>0. wf \in Workflow /\ cmd[p] \in Running /\ cmd[p].at = "commit" BY DEF Typed, Commit
<1>1. CASE UNCHANGED wf BY <1>1, SameSuccess
<1>2. CASE wf' # wf
  <2>1. PICK result : result = IF cmd[p].fix = "complete" THEN cmd[p].given ELSE NoResult OBVIOUS
  <2>2. wf' = [wf EXCEPT !.status = Outcome(p), !.how = cmd[p].how, !.review = Review(p),
                         !.fix = cmd[p].fix, !.text = Text(p), !.result = result]
    BY <1>2, <2>1 DEF Commit
  <2>3. /\ wf'.status = Outcome(p) /\ wf'.how = cmd[p].how /\ wf'.review = Review(p)
        /\ wf'.fix = cmd[p].fix /\ wf'.result = result /\ wf'.request = wf.request
    BY <1>0, <2>2 DEF Workflow
  <2>4. wf'.review.packet = cmd[p].packet BY <2>3 DEF Review
  <2>5. Fits(cmd[p].how, cmd[p].packet, cmd[p].fix, result) BY <1>0, <2>1 DEF CallFits, Judged, Fits
  <2>6. Outcome(p) # "running" => cmd[p].fix # "pending" BY DEF Outcome
  <2>7. Terminal' => wf'.status # "running" BY DEF Terminal
  <2>8. ASSUME Outcome(p) = "completed_unreported"
        PROVE  /\ cmd[p].fix # "plan_only" /\ ~TruthBlocked(MarkersOf(p))
               /\ \A m \in Modes(cmd[p].packet.raised) : Decision(cmd[p].packet.raised, m) # "block"
    BY <2>8 DEF Outcome
  <2>9. ASSUME ~TruthBlocked(MarkersOf(p)), cmd[p].how = "plain" PROVE wf.request \in {"plan_only", "files"}
    <3>1. wf.request # "files" => MarkersOf(p) = Classified(wf.request = "plan_only")
      BY <2>9 DEF MarkersOf
    <3>2. wf.request # "plan_only" => TruthBlocked(Classified(wf.request = "plan_only"))
      BY DEF TruthBlocked, Classified
    <3> QED BY <2>9, <3>1, <3>2
  <2> QED BY <2>3, <2>4, <2>5, <2>6, <2>7, <2>8, <2>9 DEF SuccessFits
<1> QED BY <1>1, <1>2

LEMMA WorkFits == ASSUME Typed, ConvFits, NEW p \in Process, Work(p) PROVE ConvFits'
<1>0. /\ wf \in Workflow /\ cmd \in [Process -> Running] /\ cmd[p] \in Running /\ SuccessFits /\ CallFits(p)
  BY DEF Typed, ConvFits
<1>1. SuccessFits'
  <2>1. CASE UNCHANGED wf BY <1>0, <2>1, SameSuccess
  <2>2. CASE Launch(p) \/ Block(p)
    <3>1. UNCHANGED wf \/ wf'.status \in {"running", "blocked"} BY <1>0, <2>2 DEF Launch, Block, Workflow
    <3> QED BY <1>0, <3>1, SameSuccess DEF SuccessFits, Terminal
  <2>3. CASE Commit(p) BY <1>0, <2>3, CommitFits
  <2> QED BY <2>1, <2>2, <2>3
          DEF Work, Rounds, RoundEvents, Panel, Findings, PanelEvents, Attach, Request, Result, Completed, Report
<1>2. CallFits(p)' /\ \A q \in Process : q # p => cmd'[q] = cmd[q]
  <2> USE <1>0
  <2>1. CASE Rounds(p)
    <3>1. cmd[p].how = "plain" BY <2>1 DEF Rounds, CallFits
    <3>2. Goto(p, "report") \/ Goto(p, "round_events") \/ Keep(p, "rounds", file, "round_events")
      BY <2>1 DEF Rounds
    <3>3. "report" \in Stage /\ "round_events" \in Stage BY DEF Stage
    <3> QED BY <3>1, <3>2, <3>3, Goes, StageFits, KeepFits
  <2>2. CASE RoundEvents(p)
    <3>1. cmd[p].how = "plain" /\ "report" \in Stage BY <2>2 DEF RoundEvents, CallFits, Stage
    <3> QED BY <2>2, <3>1, Goes, StageFits DEF RoundEvents
  <2>3. CASE Launch(p)
    <3>1. cmd[p].how # "plain" /\ "panel" \in Stage BY <2>3 DEF Launch, CallFits, Stage
    <3> QED BY <2>3, <3>1, Goes, Quits, IdleFits, StageFits DEF Launch, Judged
  <2>4. CASE Panel(p)
    <3>1. cmd[p].how # "plain" /\ "block" \in Stage BY <2>4 DEF Panel, CallFits, Stage
    <3>2. CASE Goto(p, "block") BY <3>1, <3>2, Goes, StageFits DEF Judged
    <3>3. ASSUME NEW packet, cmd' = [cmd EXCEPT ![p].packet = packet, ![p].at = "findings"]
          PROVE  CallFits(p)' /\ \A q \in Process : q # p => cmd'[q] = cmd[q]
      <4>1. /\ cmd'[p].at = "findings" /\ cmd'[p].how = cmd[p].how
            /\ \A q \in Process : q # p => cmd'[q] = cmd[q]
        BY <3>3 DEF Running
      <4> QED BY <3>1, <4>1 DEF CallFits, Judged
    <3> QED BY <2>4, <3>2, <3>3 DEF Panel
  <2>5. CASE Block(p) \/ Commit(p) BY <2>5, Quits, IdleFits DEF Block, Commit
  <2>6. CASE Findings(p)
    <3>1. cmd[p].how # "plain" /\ "panel_events" \in Stage BY <2>6 DEF Findings, CallFits, Stage
    <3>2. Goto(p, "panel_events") \/ Keep(p, "findings", Review(p), "panel_events") BY <2>6 DEF Findings
    <3> QED BY <3>1, <3>2, Goes, StageFits, KeepFits DEF Judged
  <2>7. CASE PanelEvents(p)
    <3>1. cmd[p].how # "plain" /\ "attach" \in Stage BY <2>7 DEF PanelEvents, CallFits, Stage
    <3> QED BY <2>7, <3>1, Goes, StageFits DEF PanelEvents, Judged
  <2>8. CASE Attach(p) BY <2>8, AttachFits
  <2>9. CASE Request(p)
    <3>1. PICK a : a = IF cmd[p].fix = "complete" THEN "result" ELSE "report" OBVIOUS
    <3>2. /\ cmd'[p].at = a /\ cmd'[p].how = cmd[p].how /\ cmd'[p].packet = cmd[p].packet
          /\ cmd'[p].fix = cmd[p].fix /\ cmd'[p].given = cmd[p].given
          /\ \A q \in Process : q # p => cmd'[q] = cmd[q]
      BY <2>9, <3>1 DEF Request, Running
    <3>3. a \in {"result", "report"} /\ (a = "result" => cmd[p].fix = "complete") BY <3>1
    <3>4. cmd[p].how # "plain" /\ Fits(cmd[p].how, cmd[p].packet, cmd[p].fix, cmd[p].given)
      BY <2>9 DEF Request, CallFits, Judged
    <3> QED BY <3>2, <3>3, <3>4 DEF CallFits
  <2>10. CASE Result(p)
    <3>1. cmd[p].how # "plain" /\ cmd[p].fix = "complete" /\ cmd[p].at \in Judged /\ "completed" \in Stage
      BY <2>10 DEF Result, CallFits, Stage, Judged
    <3>2. Quit(p) \/ Goto(p, "completed") \/ Keep(p, "result", cmd[p].given, "completed") BY <2>10 DEF Result
    <3> QED BY <3>1, <3>2, Goes, Quits, IdleFits, StageFits, KeepFits
  <2>11. CASE Completed(p)
    <3>1. cmd[p].how # "plain" /\ cmd[p].at \in Judged /\ "report" \in Stage
      BY <2>11 DEF Completed, CallFits, Stage, Judged
    <3>2. Quit(p) \/ Goto(p, "report") BY <2>11 DEF Completed
    <3> QED BY <3>1, <3>2, Goes, Quits, IdleFits, StageFits
  <2>12. CASE Report(p)
    <3>1. cmd[p].at \in Judged /\ "commit" \in Stage BY <2>12 DEF Report, Stage, Judged
    <3>2. Quit(p) \/ Goto(p, "commit") \/ Keep(p, ReportId(p), Text(p), "commit") BY <2>12 DEF Report
    <3> QED BY <3>1, <3>2, Goes, Quits, IdleFits, StageFits, KeepFits
  <2> QED BY <2>1, <2>2, <2>3, <2>4, <2>5, <2>6, <2>7, <2>8, <2>9, <2>10, <2>11, <2>12 DEF Work
<1> QED BY <1>1, <1>2, FitsMoved

LEMMA StartFits ==
  ASSUME Typed, ConvFits, NEW p \in Process, NEW how \in Kind, NEW packet, NEW given, Start(p, how, packet, given)
  PROVE  ConvFits'
<1>1. cmd \in [Process -> Running] BY DEF Typed
<1>2. PICK a : a = CASE how = "plain" -> "rounds" [] how = "packet" -> "findings" [] how = "native" -> "launch"
  OBVIOUS
<1>3. /\ cmd'[p].at = a /\ cmd'[p].how = how /\ cmd'[p].fix = "none"
      /\ \A q \in Process : q # p => cmd'[q] = cmd[q]
  BY <1>1, <1>2 DEF Start, Idle
<1>4. CallFits(p)' BY <1>2, <1>3 DEF CallFits, Judged, Kind
<1>5. SuccessFits' BY SameSuccess DEF Start, ConvFits
<1> QED BY <1>3, <1>4, <1>5, FitsMoved

LEMMA FitsAlways == ASSUME Typed, ConvFits, [Next]_vars PROVE ConvFits'
<1>1. ASSUME UNCHANGED <<wf, cmd>> PROVE ConvFits'
  BY <1>1 DEF ConvFits, SuccessFits, CallFits, Terminal
<1>2. ASSUME NEW p \in Process, Begin(p) PROVE ConvFits' BY <1>2, BeginStarts, StartFits
<1>3. ASSUME NEW p \in Process, Crash(p) PROVE ConvFits'
  <2>1. SuccessFits' BY <1>3, SameSuccess DEF Crash, ConvFits
  <2> QED BY <1>3, <2>1, Quits, IdleFits, FitsMoved DEF Crash
<1>4. ASSUME OwnerDecides PROVE ConvFits'
  <2>1. wf'.status = "blocked" BY <1>4 DEF OwnerDecides, Typed, Workflow
  <2>2. SuccessFits' BY <2>1 DEF SuccessFits, Terminal
  <2> QED BY <1>4, <2>2 DEF ConvFits, CallFits, OwnerDecides
<1>5. ASSUME RunFix \/ Apply \/ ApplyFails \/ Undo \/ WriteResult \/ EditFile \/ RunnerCrash PROVE UNCHANGED <<wf, cmd>>
  BY <1>5 DEF RunFix, Apply, ApplyFails, Undo, WriteResult, EditFile, RunnerCrash
<1>6. ASSUME UNCHANGED vars PROVE UNCHANGED <<wf, cmd>> BY <1>6 DEF vars
<1> QED BY <1>1, <1>2, <1>3, <1>4, <1>5, <1>6, WorkFits DEF Next, Fixing, Environment

LEMMA InitFits == Init => ConvFits
<1> SUFFICES ASSUME Init PROVE ConvFits OBVIOUS
<1>1. SuccessFits BY DEF Init, SuccessFits, Terminal
<1>2. \A p \in Process : CallFits(p) BY DEF Init, CallFits, Idle, Judged
<1> QED BY <1>1, <1>2 DEF ConvFits

LEMMA InPlace == ASSUME Typed, ConvFits PROVE SuccessIsInPlace
<1> SUFFICES ASSUME wf.status = "completed_unreported", Deliverable,
                    ~(wf.how = "plain" /\ (wf.request = "plan_only" \/ disk["rounds"] = file))
             PROVE  /\ wf.how # "plain"
                    /\ LET packet == disk["findings"].packet IN
                       /\ \A m \in Modes(packet.raised) : Decision(packet.raised, m) # "block"
                       /\ \A m \in Accepted(packet.raised) :
                            /\ packet.edits[m] # {}
                            /\ \A e \in packet.edits[m] : file[FileOf[e]] = Replaced(e, Fresh)
  BY DEF SuccessIsInPlace
<1>0. /\ wf \in Workflow /\ wf.review.packet \in AnyPacket /\ Terminal
      /\ wf.fix # "pending" /\ Fits(wf.how, wf.review.packet, wf.fix, wf.result)
      /\ wf.fix # "plan_only" /\ (wf.how = "plain" => wf.request \in {"plan_only", "files"})
      /\ wf.how # "plain" => \A m \in Modes(wf.review.packet.raised) :
                               Decision(wf.review.packet.raised, m) # "block"
  BY DEF Typed, Workflow, Reviews, ConvFits, SuccessFits, Terminal
<1>1. /\ wf.how # "plain" => FindingsAreAudited
      /\ wf.fix = "complete" => FixIsAudited
      /\ wf.how = "plain" /\ wf.request = "files" => RoundsAreAudited
  BY DEF Deliverable
<1>2. wf.how # "plain" BY <1>0, <1>1 DEF RoundsAreAudited
<1>3. disk["findings"].packet = wf.review.packet BY <1>1, <1>2 DEF FindingsAreAudited
<1>4. PICK packet : packet = wf.review.packet OBVIOUS
<1>5. \A m \in Modes(packet.raised) : Decision(packet.raised, m) # "block" BY <1>0, <1>2, <1>4
<1>6. ASSUME NEW m \in Accepted(packet.raised)
      PROVE  packet.edits[m] # {} /\ \A e \in packet.edits[m] : file[FileOf[e]] = Replaced(e, Fresh)
  <2>1. m \in DOMAIN Changes(packet) /\ Changes(packet)[m] = packet.edits[m] BY DEF Changes
  <2>2. DOMAIN << >> = {} OBVIOUS
  <2>3. wf.fix = "complete" BY <1>0, <1>2, <1>4, <2>1, <2>2 DEF Fits, Workflow, Fix
  <2>4. wf.result.changes = Changes(packet) /\ Changes(packet)[m] # {} BY <1>0, <1>4, <2>1, <2>3 DEF Fits
  <2>5. MutationProof(wf.result) BY <1>1, <2>3 DEF FixIsAudited
  <2>6. ASSUME NEW e \in packet.edits[m] PROVE file[FileOf[e]] = Replaced(e, Fresh)
    <3>1. e \in EditsOf(wf.result.changes) BY <2>1, <2>4 DEF EditsOf
    <3> QED BY <2>5, <3>1 DEF MutationProof
  <2> QED BY <2>1, <2>4, <2>6
<1> QED BY <1>2, <1>3, <1>4, <1>5, <1>6

\* A deliverable success is what the files say now: what was inspected is unchanged, or no
\* finding blocks and every edit of every accepted change is in its file, once, and nothing
\* else is; whatever crashed, ran twice or was edited in between (finalize_conv, cmd_fix_runner,
\* the audit of cli.py).
THEOREM SuccessIsInPlaceHolds == Spec => []SuccessIsInPlace
<1>1. Init => Typed /\ ConvFits BY InitTyped, InitFits
<1>2. Typed /\ ConvFits /\ [Next]_vars => (Typed /\ ConvFits)' BY NextTyped, FitsAlways
<1>3. Typed /\ ConvFits => SuccessIsInPlace BY InPlace
<1> QED BY <1>1, <1>2, <1>3, PTL DEF Spec

-----------------------------------------------------------------------------
(***************************************************************************)
(* What a fix runner that gives up leaves behind.                          *)
(***************************************************************************)
LEMMA RunnerStep == ASSUME Typed, RunnerAgrees, [Next]_vars PROVE RunnerAgrees'
<1>0. /\ runner \in Runner /\ Prepared /\ file \in [File -> Content] /\ hist \in History
      /\ wf.review.packet \in AnyPacket
  BY DEF Typed, Workflow, Reviews
<1> DEFINE edits == DOMAIN runner.result.before
<1>1. CASE UNCHANGED <<runner, file>> /\ hist'.edits = hist.edits
  BY <1>1 DEF RunnerAgrees, Off
<1>2. CASE RunFix /\ runner' # runner
  <2>1. PICK E : E = EditsOf(Changes(wf.review.packet)) OBVIOUS
  <2>2. runner'.result.before = [e \in E |-> file[FileOf[e]]] /\ runner'.at = "apply" /\ UNCHANGED file
    BY <1>2, <2>1 DEF RunFix
  <2>3. \A e \in E : runner'.result.before[e] = file[FileOf[e]] /\ DOMAIN runner'.result.before = E
    BY <2>2
  <2>4. \A e \in DOMAIN runner'.result.before : runner'.result.before[e] = file[FileOf[e]]
    BY <2>2, <2>3
  <2> QED BY <2>2, <2>4 DEF RunnerAgrees, Off
<1>3. CASE Apply
  <2>1. PICK e \in runner.todo : /\ file' = [file EXCEPT ![FileOf[e]] = runner.result.after[e]]
                                 /\ runner' = [runner EXCEPT !.todo = @ \ {e}, !.applied = Append(@, e)]
    BY <1>3 DEF Apply
  <2>2. /\ runner'.at = "apply" /\ runner.at = "apply" /\ runner'.result = runner.result
        /\ runner'.applied = Append(runner.applied, e) /\ hist' = hist
    BY <1>0, <1>3, <2>1 DEF Runner, Apply
  <2>3. runner.applied \in Seq(Edit) /\ e \in Edit BY <1>0, PreparedTyped DEF Runner, Prepared
  <2>4. /\ \A i \in DOMAIN runner.applied : i \in DOMAIN runner'.applied /\ runner'.applied[i] = runner.applied[i]
        /\ \E i \in DOMAIN runner'.applied : runner'.applied[i] = e
    BY <2>2, <2>3
  <2>5. \A d \in edits : Off(d)' => Off(d)
    <3> SUFFICES ASSUME NEW d \in edits, Off(d)' PROVE Off(d) OBVIOUS
    <3>1. FileOf[d] # FileOf[e] BY <2>4 DEF Off
    <3>2. file'[FileOf[d]] = file[FileOf[d]] BY <1>0, <2>1, <3>1, PreparedTyped
    <3>3. file'[FileOf[d]] # runner.result.before[d] BY <2>2 DEF Off
    <3>4. \A i \in DOMAIN runner.applied : FileOf[runner.applied[i]] # FileOf[d] BY <2>4 DEF Off
    <3> QED BY <3>2, <3>3, <3>4 DEF Off
  <2> QED BY <2>2, <2>5 DEF RunnerAgrees
<1>4. CASE ApplyFails
  <2>1. /\ runner'.at = "undo" /\ runner.at = "apply" /\ runner'.result = runner.result
        /\ runner'.applied = runner.applied /\ hist' = hist
    BY <1>0, <1>4 DEF Runner, ApplyFails
  <2>2. CASE UNCHANGED file
    <3>1. \A d \in edits : Off(d)' => Off(d) BY <2>1, <2>2 DEF Off
    <3> QED BY <2>1, <3>1 DEF RunnerAgrees
  <2>3. CASE file' # file
    <3>1. PICK e \in runner.todo : file' = [file EXCEPT ![FileOf[e]].is = "torn"] BY <1>4, <2>3 DEF ApplyFails
    <3>2. FileOf[e] \in File BY <1>0, PreparedTyped DEF Prepared
    <3>3. file'[FileOf[e]].is = "torn" /\ \A f \in File : f # FileOf[e] => file'[f] = file[f]
      <4>1. file[FileOf[e]] \in Content BY <1>0, <3>2
      <4> QED BY <1>0, <3>1, <3>2, <4>1 DEF Content
    <3>4. \A d \in edits : FileOf[d] # FileOf[e] => (Off(d)' => Off(d))
      BY <2>1, <3>3, PreparedTyped DEF Off
    <3> QED BY <2>1, <3>3, <3>4 DEF RunnerAgrees
  <2> QED BY <2>2, <2>3
<1>5. CASE Undo /\ runner.applied # << >>
  <2>1. runner.applied \in Seq(Edit) /\ Len(runner.applied) \in DOMAIN runner.applied
    BY <1>0, <1>5 DEF Runner
  <2>2. PICK last : last = runner.applied[Len(runner.applied)] OBVIOUS
  <2>3. last \in edits /\ FileOf[last] \in File BY <1>0, <2>1, <2>2, PreparedTyped DEF Prepared
  <2>4. file' = [file EXCEPT ![FileOf[last]] = runner.result.before[last]] BY <1>5, <2>2 DEF Undo
  <2>5. /\ runner'.at = "undo" /\ runner.at = "undo" /\ runner'.result = runner.result /\ hist' = hist
        /\ runner'.applied = SubSeq(runner.applied, 1, Len(runner.applied) - 1)
    BY <1>0, <1>5 DEF Undo, Runner
  <2>6. \A i \in DOMAIN runner.applied :
          i = Len(runner.applied) \/ (i \in DOMAIN runner'.applied /\ runner'.applied[i] = runner.applied[i])
    BY <2>1, <2>5
  <2>7. \A d, e \in edits : FileOf[d] = FileOf[e] => runner.result.before[d] = runner.result.before[e]
    BY <2>5 DEF RunnerAgrees
  <2>8. \A d \in edits : Off(d)' => Off(d) /\ file'[FileOf[d]] = file[FileOf[d]]
    <3> SUFFICES ASSUME NEW d \in edits, Off(d)' PROVE Off(d) /\ file'[FileOf[d]] = file[FileOf[d]] OBVIOUS
    <3>1. file'[FileOf[d]] # runner.result.before[d] BY <2>5 DEF Off
    <3>2. FileOf[d] # FileOf[last] BY <1>0, <2>3, <2>4, <2>7, <3>1
    <3>3. file'[FileOf[d]] = file[FileOf[d]] BY <1>0, <2>4, <3>2, PreparedTyped
    <3>4. \A i \in DOMAIN runner'.applied : FileOf[runner'.applied[i]] # FileOf[d] BY DEF Off
    <3>5. \A i \in DOMAIN runner.applied : FileOf[runner.applied[i]] # FileOf[d] BY <2>2, <2>6, <3>2, <3>4
    <3> QED BY <3>1, <3>3, <3>5 DEF Off
  <2> QED BY <2>5, <2>7, <2>8 DEF RunnerAgrees
<1>6. CASE runner' = Asleep
  <2>1. runner'.at = "idle" BY <1>6 DEF Asleep
  <2> QED BY <2>1 DEF RunnerAgrees
<1>7. CASE EditFile
  <2>1. hist'.edits = hist.edits + 1 BY <1>0, <1>7 DEF EditFile, Noted, History
  <2>2. hist'.edits # 0 BY <1>0, <2>1 DEF History
  <2> QED BY <1>7, <2>2 DEF RunnerAgrees, EditFile
<1>8. ASSUME NEW p \in Process, Begin(p) PROVE UNCHANGED <<runner, file>> /\ hist'.edits = hist.edits
  <2>1. PICK how \in Kind, packet \in AnyPacket, given \in Results : Start(p, how, packet, given)
    BY <1>8, BeginStarts
  <2> QED BY <1>0, <2>1 DEF Start, Noted, History
<1>9. ASSUME RunFix, runner' = runner PROVE UNCHANGED <<runner, file>> /\ hist'.edits = hist.edits
  BY <1>0, <1>9 DEF RunFix, Noted, History
<1>10. ASSUME NEW p \in Process, Work(p) \/ Crash(p) PROVE UNCHANGED <<runner, file>> /\ hist'.edits = hist.edits
  BY <1>0, <1>10
     DEF Work, Rounds, RoundEvents, Launch, Panel, Block, Findings, PanelEvents, Attach, Request, Result,
         Completed, Report, Commit, Crash, History
<1>11. ASSUME OwnerDecides \/ UNCHANGED vars PROVE UNCHANGED <<runner, file>> /\ hist'.edits = hist.edits
  BY <1>11 DEF OwnerDecides, vars
<1>12. ASSUME RunnerCrash \/ WriteResult \/ (Undo /\ runner.applied = << >>) PROVE runner' = Asleep
  BY <1>12 DEF RunnerCrash, WriteResult, Undo
<1> QED BY <1>1, <1>2, <1>3, <1>4, <1>5, <1>6, <1>7, <1>8, <1>9, <1>10, <1>11, <1>12 DEF Next, Fixing, Environment

LEMMA RunnerInit == Init => RunnerAgrees
BY DEF Init, RunnerAgrees, Asleep

\* The step that gives up is the last of taking back.
LEMMA GivingUp ==
  ASSUME Typed, [Next]_vars, runner.at = "undo", runner'.at = "idle", hist'.crashes = hist.crashes
  PROVE  Undo /\ runner.applied = << >>
<1>0. hist \in History /\ runner \in Runner /\ hist.crashes \in Nat BY DEF Typed, History
<1>1. ~RunnerCrash
  <2>1. RunnerCrash => hist'.crashes = hist.crashes + 1 BY <1>0 DEF RunnerCrash, History
  <2> QED BY <1>0, <2>1
<1>2. runner' # runner OBVIOUS
<1>3. \A p \in Process : ~Begin(p)
  <2>1. \A p \in Process : Begin(p) => UNCHANGED runner BY BeginStarts DEF Start
  <2> QED BY <1>2, <2>1
<1>4. \A p \in Process : ~Work(p) /\ ~Crash(p)
  BY <1>2 DEF Work, Rounds, RoundEvents, Launch, Panel, Block, Findings, PanelEvents, Attach, Request, Result,
              Completed, Report, Commit, Crash
<1>5. ~OwnerDecides /\ ~EditFile /\ ~UNCHANGED vars BY <1>2 DEF OwnerDecides, EditFile, vars
<1>6. ~RunFix /\ ~Apply /\ ~ApplyFails /\ ~WriteResult
  BY DEF RunFix, Apply, ApplyFails, WriteResult
<1>7. Undo BY <1>1, <1>3, <1>4, <1>5, <1>6 DEF Next, Fixing, Environment
<1>8. Undo /\ runner.applied # << >> => runner'.at = "undo" BY <1>0 DEF Undo, Runner
<1> QED BY <1>7, <1>8

\* A fix runner that gives up leaves the files as it found them, but for the one whose write
\* failed half way, unless somebody else edited them meanwhile: for any number of files and
\* edits, several edits of one file among them (fix_runner.py, the rollback of its edits).
THEOREM RunnerLeavesNoPartHolds == Spec => RunnerLeavesNoPart
<1> DEFINE Leaves ==
      runner.at = "undo" /\ runner'.at = "idle" /\ hist'.crashes = hist.crashes /\ hist.edits = 0 =>
        LET edits == DOMAIN runner.result.before
            off   == {FileOf[e] : e \in {d \in edits : file'[FileOf[d]] # runner.result.before[d]}}
        IN Cardinality(off) <= 1 /\ \A f \in off : file'[f].is = "torn"
<1>1. Init => Typed /\ RunnerAgrees BY InitTyped, RunnerInit
<1>2. Typed /\ RunnerAgrees /\ [Next]_vars => (Typed /\ RunnerAgrees)' BY NextTyped, RunnerStep
<1>3. ASSUME Typed, RunnerAgrees, [Next]_vars PROVE Leaves
  <2> SUFFICES ASSUME runner.at = "undo", runner'.at = "idle", hist'.crashes = hist.crashes, hist.edits = 0
               PROVE  LET edits == DOMAIN runner.result.before
                          off   == {FileOf[e] : e \in {d \in edits : file'[FileOf[d]] # runner.result.before[d]}}
                      IN Cardinality(off) <= 1 /\ \A f \in off : file'[f].is = "torn"
    OBVIOUS
  <2>1. runner.applied = << >> /\ UNCHANGED file BY <1>3, GivingUp DEF Undo
  <2>2. PICK edits : edits = DOMAIN runner.result.before OBVIOUS
  <2>3. PICK off : off = {FileOf[e] : e \in {d \in edits : file'[FileOf[d]] # runner.result.before[d]}} OBVIOUS
  <2>4. DOMAIN << >> = {} OBVIOUS
  <2>5. \A e \in edits : file'[FileOf[e]] # runner.result.before[e] => Off(e) BY <2>1, <2>4 DEF Off
  <2>6. \A d, e \in edits : Off(d) /\ Off(e) => FileOf[d] = FileOf[e] /\ file[FileOf[d]].is = "torn"
    BY <1>3, <2>2 DEF RunnerAgrees
  <2>7. \A f, g \in off : f = g /\ file'[f].is = "torn" BY <2>1, <2>3, <2>5, <2>6
  <2>8. Cardinality(off) <= 1
    <3>1. CASE off = {} BY <3>1, FS_EmptySet
    <3>2. CASE off # {}
      <4>1. PICK f : off = {f} BY <2>7, <3>2
      <4>2. Cardinality(off) = 1 BY <4>1, FS_Singleton
      <4> QED BY <4>2
    <3> QED BY <3>1, <3>2
  <2> QED BY <2>2, <2>3, <2>7, <2>8
<1>4. Typed /\ RunnerAgrees /\ [Next]_vars => [Leaves]_vars BY <1>3
<1> QED BY <1>1, <1>2, <1>4, PTL DEF Spec, RunnerLeavesNoPart

-----------------------------------------------------------------------------
(***************************************************************************)
(* What is finished can be delivered, while calls do not overlap.          *)
(***************************************************************************)
Inv == Typed /\ ConvFits /\ CalmAgrees

\* Nothing that was registered or logged changes.
Grows ==
  /\ \A i \in DOMAIN arts : i \in DOMAIN arts' /\ arts'[i] = arts[i] /\ disk'[i] = disk[i]
  /\ \A k \in DOMAIN events : k \in DOMAIN events' /\ events'[k] = events[k]

\* What a call registers and logs is its own.
NewArts(p) ==
  \A id \in DOMAIN arts' \ DOMAIN arts :
    /\ arts'[id] = disk'[id]
    /\ id = "rounds" => arts'[id] = file
    /\ id = "findings" => arts'[id] = Review(p)
NewEvents(p) ==
  \A k \in DOMAIN events' \ DOMAIN events :
    /\ k = "panel" => events'[k] = Review(p)
    /\ k = "fix_requested" => events'[k].changes = Changes(cmd[p].packet)
    /\ k = "fix_completed" => events'[k] = Changes(cmd[p].packet)

\* A call stays the call it was.
SameCall(p) ==
  /\ cmd'[p].how = cmd[p].how /\ cmd'[p].run = cmd[p].run
  /\ cmd'[p].packet = cmd[p].packet \/ (cmd[p].how = "native" /\ cmd'[p].packet.edits = NoEdits)

\* The step of a call that finds what it needs and leaves what the next step needs.
Fine(p) ==
  /\ UNCHANGED <<file, runner, hist>> /\ Grows /\ NewArts(p) /\ NewEvents(p)
  /\ \A q \in Process : q # p => cmd'[q] = cmd[q]
  /\ cmd'[p].at = "idle" \/ (SameCall(p) /\ Progress(p)')

\* What it may make of workflow.json.
NewState ==
  /\ wf'.request = wf.request
  /\ Terminal' => Deliverable' /\ wf'.how = hist.call.how
  /\ wf'.fix = "pending" =>
       hist.call.how = "packet" /\ wf'.review = [run |-> 0, packet |-> hist.call.packet]

LEMMA IdleProgress == ASSUME NEW q, cmd'[q].at = "idle" PROVE Progress(q)'
BY DEF Progress, ReportIsThere, RoundsAreThere, PanelIsThere, FixIsThere, Judged

LEMMA DeliverableKept == ASSUME Deliverable, Grows, UNCHANGED <<wf, file>> PROVE Deliverable'
<1>1. PICK required :
        required = {"report"} \cup (IF wf.how # "plain" THEN {"findings"} ELSE {})
                              \cup (IF wf.fix = "complete" THEN {"result"} ELSE {})
                              \cup (IF wf.how = "plain" /\ wf.request = "files" THEN {"rounds"} ELSE {})
  OBVIOUS
<1>2. /\ required \subseteq DOMAIN arts /\ \A id \in required : arts[id] = disk[id]
      /\ disk["report"] = wf.text
      /\ "rounds" \in required => RoundsAreAudited
      /\ "findings" \in required => FindingsAreAudited
      /\ "result" \in required => FixIsAudited
  BY <1>1 DEF Deliverable, ContractHolds
<1>3. /\ required \subseteq DOMAIN arts'
      /\ \A id \in required : arts'[id] = disk'[id] /\ disk'[id] = disk[id]
  BY <1>2 DEF Grows
<1>4. "report" \in required BY <1>1
<1>5. disk'["report"] = wf'.text BY <1>2, <1>3, <1>4
<1>6. ASSUME "rounds" \in required PROVE RoundsAreAudited'
  BY <1>2, <1>3, <1>6 DEF RoundsAreAudited, Grows
<1>7. ASSUME "findings" \in required PROVE FindingsAreAudited'
  BY <1>2, <1>3, <1>7 DEF FindingsAreAudited, Grows
<1>8. ASSUME "result" \in required PROVE FixIsAudited'
  <2>1. FixIsAudited /\ disk'["result"] = disk["result"] BY <1>2, <1>3, <1>8
  <2>2. MutationProof(wf.result) => MutationProof(wf.result)' BY DEF MutationProof
  <2>3. /\ "fix_requested" \in DOMAIN events' /\ "fix_completed" \in DOMAIN events'
        /\ events'["fix_requested"] = events["fix_requested"]
        /\ events'["fix_completed"] = events["fix_completed"]
    BY <2>1 DEF FixIsAudited, Grows
  <2>4. PICK changes : changes = Changes(wf.review.packet) OBVIOUS
  <2> QED BY <2>1, <2>2, <2>3, <2>4 DEF FixIsAudited
<1> QED BY <1>1, <1>3, <1>5, <1>6, <1>7, <1>8 DEF Deliverable, ContractHolds

LEMMA FineIsCalm ==
  ASSUME Inv, hist.calm, NEW p \in Process, Active(p), Fine(p), UNCHANGED wf \/ NewState
  PROVE  CalmAgrees'
<1>0. /\ cmd \in [Process -> Running] /\ wf \in Workflow /\ hist \in History /\ cmd[p] \in Running
      /\ OneAtATime /\ OneKind /\ OneStory /\ (Terminal => Deliverable)
      /\ \A q \in Process : Progress(q)
  BY DEF Inv, Typed, CalmAgrees
<1>1. /\ UNCHANGED <<file, runner, hist>> /\ Grows /\ NewArts(p) /\ NewEvents(p)
      /\ \A q \in Process : q # p => cmd'[q] = cmd[q]
      /\ cmd'[p].at = "idle" \/ (SameCall(p) /\ Progress(p)')
  BY DEF Fine
<1>2. \A q \in Process : q # p => ~Active(q) /\ cmd'[q].at = "idle"
  BY <1>0, <1>1 DEF OneAtATime, Active
<1>3. OneAtATime' BY <1>0, <1>1, <1>2 DEF OneAtATime, Active
<1>4. hist.starts # 0 /\ cmd[p].how = hist.call.how
      /\ (cmd[p].how = "packet" => Review(p) = [run |-> 0, packet |-> hist.call.packet])
      /\ (cmd[p].how = "native" => cmd[p].packet.edits = NoEdits)
  BY <1>0 DEF OneKind
<1>5. OneKind'
  <2>1. ASSUME Active(p)'
        PROVE  /\ cmd'[p].how = hist'.call.how
               /\ cmd'[p].how = "packet" => Review(p)' = [run |-> 0, packet |-> hist'.call.packet]
               /\ cmd'[p].how = "native" => cmd'[p].packet.edits = NoEdits
    <3>1. SameCall(p) BY <1>1, <2>1 DEF Active
    <3>2. cmd[p].how = "packet" => Review(p)' = Review(p) BY <3>1 DEF SameCall, Review
    <3> QED BY <1>1, <1>4, <3>1, <3>2 DEF SameCall
  <2> QED BY <1>0, <1>1, <1>2, <1>4, <2>1 DEF OneKind, Active
<1>6. \A q \in Process : Progress(q)' BY <1>1, <1>2, IdleProgress
<1>7. Terminal' => Deliverable'
  <2>1. CASE UNCHANGED wf
    <3>1. Terminal' => Terminal BY <2>1 DEF Terminal
    <3> QED BY <1>0, <1>1, <2>1, <3>1, DeliverableKept
  <2>2. CASE NewState BY <2>2 DEF NewState
  <2> QED BY <2>1, <2>2
<1>8. OneStory'
  <2>1. PICK review : review = [run |-> 0, packet |-> hist.call.packet] OBVIOUS
  <2>2. PICK changes : changes = Changes(hist.call.packet) OBVIOUS
  <2>3. cmd[p].how = "packet" => Review(p) = review /\ Changes(cmd[p].packet) = changes
    BY <1>4, <2>1, <2>2 DEF Review
  <2>4. \A id \in DOMAIN arts' : arts'[id] = disk'[id]
    BY <1>0, <1>1 DEF OneStory, Grows, NewArts
  <2>5. hist.call.how = "plain" =>
          file = [f \in File |-> Fresh] /\ ("rounds" \in DOMAIN arts' => arts'["rounds"] = file)
    BY <1>0, <1>1 DEF OneStory, Grows, NewArts
  <2>6. ASSUME hist.call.how = "packet"
        PROVE  /\ "findings" \in DOMAIN arts' => arts'["findings"] = review
               /\ "panel" \in DOMAIN events' => events'["panel"] = review
               /\ "fix_requested" \in DOMAIN events' => events'["fix_requested"].changes = changes
               /\ "fix_completed" \in DOMAIN events' => events'["fix_completed"] = changes
    <3>1. /\ "findings" \in DOMAIN arts => arts["findings"] = review
          /\ "panel" \in DOMAIN events => events["panel"] = review
          /\ "fix_requested" \in DOMAIN events => events["fix_requested"].changes = changes
          /\ "fix_completed" \in DOMAIN events => events["fix_completed"] = changes
      BY <1>0, <2>1, <2>2, <2>6 DEF OneStory
    <3>2. Review(p) = review /\ Changes(cmd[p].packet) = changes BY <1>4, <2>3, <2>6
    <3> QED BY <1>1, <3>1, <3>2 DEF Grows, NewArts, NewEvents
  <2>7. wf'.fix = "pending" => hist.call.how = "packet" /\ wf'.review = review
    <3>1. CASE UNCHANGED wf BY <1>0, <2>1, <3>1 DEF OneStory
    <3>2. CASE NewState BY <2>1, <3>2 DEF NewState
    <3> QED BY <3>1, <3>2
  <2>8. runner'.at = "idle" BY <1>0, <1>1 DEF OneAtATime
  <2>9. Terminal' => wf'.how = hist.call.how
    <3>1. CASE UNCHANGED wf BY <1>0, <3>1 DEF OneStory, Terminal
    <3>2. CASE NewState BY <3>2 DEF NewState
    <3> QED BY <3>1, <3>2
  <2> QED BY <1>1, <2>1, <2>2, <2>4, <2>5, <2>6, <2>7, <2>8, <2>9 DEF OneStory
<1> QED BY <1>3, <1>5, <1>6, <1>7, <1>8 DEF CalmAgrees

\* A write under an id that is not taken, and an event that is not there.
LEMMA Registers ==
  ASSUME Typed, NEW p \in Process, NEW id, NEW content, NEW a \in Stage, Keep(p, id, content, a),
         id \notin DOMAIN arts, UNCHANGED events
  PROVE  /\ Grows
         /\ \A i \in DOMAIN arts' \ DOMAIN arts : i = id /\ arts'[i] = content /\ disk'[i] = content
         /\ \/ Quit(p) /\ Terminal
            \/ Goto(p, a) /\ DOMAIN arts' = DOMAIN arts \cup {id} /\ arts'[id] = content /\ disk'[id] = content
<1>1. /\ disk' = With(disk, id, content) /\ DOMAIN arts \subseteq DOMAIN disk
      /\ \/ Quit(p) /\ UNCHANGED arts /\ Terminal
         \/ Goto(p, a) /\ arts' = With(arts, id, content)
  BY DEF Keep, Typed
<1>2. /\ With(disk, id, content)[id] = content
      /\ \A i \in DOMAIN disk : i # id => With(disk, id, content)[i] = disk[i]
      /\ DOMAIN With(arts, id, content) = DOMAIN arts \cup {id} /\ With(arts, id, content)[id] = content
      /\ \A i \in DOMAIN arts : i # id => With(arts, id, content)[i] = arts[i]
  BY DEF With
<1>3. CASE Quit(p) /\ UNCHANGED arts /\ Terminal BY <1>1, <1>2, <1>3 DEF Grows
<1>4. CASE Goto(p, a) /\ arts' = With(arts, id, content) BY <1>1, <1>2, <1>4 DEF Grows
<1> QED BY <1>1, <1>3, <1>4

LEMMA Logs ==
  ASSUME NEW k, NEW v, events' = With(events, k, v), k \notin DOMAIN events, UNCHANGED <<arts, disk>>
  PROVE  /\ Grows /\ DOMAIN events' = DOMAIN events \cup {k} /\ events'[k] = v
<1>1. /\ DOMAIN With(events, k, v) = DOMAIN events \cup {k} /\ With(events, k, v)[k] = v
      /\ \A i \in DOMAIN events : i # k => With(events, k, v)[i] = events[i]
  BY DEF With
<1> QED BY <1>1 DEF Grows

\* What a step within a call leaves as it is.
LEMMA GoesOn ==
  ASSUME Typed, NEW p \in Process, NEW a \in Stage, Goto(p, a)
  PROVE  /\ cmd'[p].at = a /\ SameCall(p) /\ \A q \in Process : q # p => cmd'[q] = cmd[q]
         /\ cmd'[p].packet = cmd[p].packet /\ cmd'[p].given = cmd[p].given /\ cmd'[p].seen = cmd[p].seen
         /\ cmd'[p].fix = cmd[p].fix /\ cmd'[p].had = cmd[p].had
         /\ Review(p)' = Review(p) /\ Text(p)' = Text(p) /\ ReportId(p)' = ReportId(p)
<1>1. cmd'[p] = [cmd[p] EXCEPT !.at = a] /\ cmd[p] \in Running /\ \A q \in Process : q # p => cmd'[q] = cmd[q]
  BY Goes DEF Typed
<1>2. /\ cmd'[p].at = a /\ cmd'[p].how = cmd[p].how /\ cmd'[p].run = cmd[p].run
      /\ cmd'[p].packet = cmd[p].packet /\ cmd'[p].given = cmd[p].given /\ cmd'[p].seen = cmd[p].seen
      /\ cmd'[p].fix = cmd[p].fix /\ cmd'[p].had = cmd[p].had
  BY <1>1 DEF Running
<1> QED BY <1>1, <1>2 DEF SameCall, Review, Text, ReportId

LEMMA GoesIdle ==
  ASSUME Typed, NEW p \in Process, Quit(p)
  PROVE  cmd'[p].at = "idle" /\ \A q \in Process : q # p => cmd'[q] = cmd[q]
BY Quits DEF Idle

LEMMA Unchanged ==
  ASSUME NEW p, UNCHANGED <<arts, disk, events>>
  PROVE  Grows /\ NewArts(p) /\ NewEvents(p)
BY DEF Grows, NewArts, NewEvents

\* What a call under way may rely on while calls do not overlap.
LEMMA CalmFacts ==
  ASSUME Inv, hist.calm, NEW p \in Process, Active(p)
  PROVE  /\ Typed /\ cmd \in [Process -> Running] /\ cmd[p] \in Running /\ wf \in Workflow
         /\ CallFits(p) /\ SuccessFits /\ OneKind /\ OneStory
         /\ ReportIsThere(p) /\ RoundsAreThere(p) /\ PanelIsThere(p) /\ FixIsThere(p)
         /\ cmd[p].how = hist.call.how
         /\ cmd[p].how = "packet" =>
              Review(p) = [run |-> 0, packet |-> hist.call.packet] /\ cmd[p].packet = hist.call.packet
         /\ cmd[p].how = "native" => cmd[p].packet.edits = NoEdits
         /\ \A id \in DOMAIN arts : arts[id] = disk[id]
<1>1. Typed /\ cmd \in [Process -> Running] /\ wf \in Workflow BY DEF Inv, Typed
<1>2. CallFits(p) /\ SuccessFits BY DEF Inv, ConvFits
<1>3. OneKind /\ OneStory /\ Progress(p) BY DEF Inv, CalmAgrees
<1>4. /\ cmd[p].how = hist.call.how
      /\ cmd[p].how = "packet" => Review(p) = [run |-> 0, packet |-> hist.call.packet]
      /\ cmd[p].how = "native" => cmd[p].packet.edits = NoEdits
  BY <1>3 DEF OneKind
<1>5. \A id \in DOMAIN arts : arts[id] = disk[id] BY <1>3 DEF OneStory
<1> QED BY <1>1, <1>2, <1>3, <1>4, <1>5 DEF Progress, Review

LEMMA RoundsCalm == ASSUME Inv, hist.calm, NEW p \in Process, Rounds(p) PROVE CalmAgrees'
<1>1. Active(p) /\ cmd[p].at = "rounds" BY DEF Rounds, Active
<1>2. /\ cmd[p].how = "plain" /\ cmd[p].fix = "none" /\ Typed
      /\ cmd[p].seen = DOMAIN arts \cap {"report", "pending_report"}
  BY <1>1, CalmFacts DEF CallFits, ReportIsThere
<1>3. UNCHANGED <<wf, events, file, runner, hist>> /\ "report" \in Stage /\ "round_events" \in Stage
  BY DEF Rounds, Stage
<1>4. CASE wf.request # "files"
  <2>1. Goto(p, "report") /\ UNCHANGED <<arts, disk>> BY <1>4 DEF Rounds
  <2>2. Progress(p)'
    BY <1>2, <1>3, <1>4, <2>1, GoesOn
       DEF Progress, ReportIsThere, RoundsAreThere, PanelIsThere, FixIsThere, SameCall
  <2> QED BY <1>1, <1>2, <1>3, <2>1, <2>2, GoesOn, Unchanged, FineIsCalm DEF Fine
<1>5. CASE wf.request = "files" /\ "rounds" \in DOMAIN arts
  <2>1. Goto(p, "round_events") /\ UNCHANGED <<arts, disk>> BY <1>5 DEF Rounds
  <2>2. Progress(p)'
    BY <1>2, <1>3, <1>5, <2>1, GoesOn
       DEF Progress, ReportIsThere, RoundsAreThere, PanelIsThere, FixIsThere, SameCall, Judged
  <2> QED BY <1>1, <1>2, <1>3, <2>1, <2>2, GoesOn, Unchanged, FineIsCalm DEF Fine
<1>6. CASE wf.request = "files" /\ "rounds" \notin DOMAIN arts
  <2>1. Keep(p, "rounds", file, "round_events") BY <1>6 DEF Rounds
  <2>2. PICK c : c = file OBVIOUS
  <2>3. /\ Grows
        /\ \A i \in DOMAIN arts' \ DOMAIN arts : i = "rounds" /\ arts'[i] = file /\ disk'[i] = file
        /\ \/ Quit(p)
           \/ Goto(p, "round_events") /\ DOMAIN arts' = DOMAIN arts \cup {"rounds"}
    BY <1>2, <1>3, <1>6, <2>1, <2>2, Registers
  <2>4. NewArts(p) /\ NewEvents(p) BY <1>3, <2>3 DEF NewArts, NewEvents
  <2>5. CASE Quit(p) BY <1>1, <1>2, <1>3, <2>3, <2>4, <2>5, GoesIdle, FineIsCalm DEF Fine
  <2>6. CASE Goto(p, "round_events") /\ DOMAIN arts' = DOMAIN arts \cup {"rounds"}
    <3>1. Progress(p)'
      BY <1>2, <1>3, <2>6, GoesOn
         DEF Progress, ReportIsThere, RoundsAreThere, PanelIsThere, FixIsThere, SameCall, Judged
    <3> QED BY <1>1, <1>2, <1>3, <2>3, <2>4, <2>6, <3>1, GoesOn, FineIsCalm DEF Fine
  <2> QED BY <2>3, <2>5, <2>6
<1> QED BY <1>4, <1>5, <1>6

LEMMA RoundEventsCalm == ASSUME Inv, hist.calm, NEW p \in Process, RoundEvents(p) PROVE CalmAgrees'
<1>1. Active(p) /\ cmd[p].at = "round_events" BY DEF RoundEvents, Active
<1>2. /\ cmd[p].how = "plain" /\ cmd[p].fix = "none" /\ Typed
      /\ cmd[p].seen = DOMAIN arts \cap {"report", "pending_report"}
      /\ wf.request = "files" => "rounds" \in DOMAIN arts
  BY <1>1, CalmFacts DEF CallFits, ReportIsThere, RoundsAreThere
<1>3. UNCHANGED <<wf, arts, disk, file, runner, hist>> /\ "report" \in Stage /\ Goto(p, "report")
  BY DEF RoundEvents, Stage
<1>4. Grows /\ "rounds" \in DOMAIN events' /\ NewEvents(p)
  <2>1. CASE "rounds" \in DOMAIN events
    <3>1. UNCHANGED events BY <2>1 DEF RoundEvents
    <3> QED BY <1>3, <2>1, <3>1, Unchanged
  <2>2. CASE "rounds" \notin DOMAIN events
    <3>1. events' = With(events, "rounds", "pass") BY <2>2 DEF RoundEvents
    <3>2. Grows /\ DOMAIN events' = DOMAIN events \cup {"rounds"} BY <1>3, <2>2, <3>1, Logs
    <3> QED BY <3>2 DEF NewEvents
  <2> QED BY <2>1, <2>2
<1>5. Progress(p)'
  BY <1>2, <1>3, <1>4, GoesOn
     DEF Progress, ReportIsThere, RoundsAreThere, PanelIsThere, FixIsThere, SameCall
<1>6. NewArts(p) BY <1>3 DEF NewArts
<1> QED BY <1>1, <1>2, <1>3, <1>4, <1>5, <1>6, GoesOn, FineIsCalm DEF Fine

LEMMA LaunchCalm == ASSUME Inv, hist.calm, NEW p \in Process, Launch(p) PROVE CalmAgrees'
<1>1. Active(p) /\ cmd[p].at = "launch" BY DEF Launch, Active
<1>2. /\ Typed /\ cmd[p].how = "native" /\ wf \in Workflow /\ OneStory
      /\ cmd[p].seen = DOMAIN arts \cap {"report", "pending_report"}
      /\ "findings" \notin DOMAIN arts /\ "panel" \notin DOMAIN events
  BY <1>1, CalmFacts DEF ReportIsThere, PanelIsThere
<1>3. UNCHANGED <<arts, disk, events, file, runner, hist>> /\ "panel" \in Stage BY DEF Launch, Stage
<1>4. CASE MayMove("running")
  <2>1. wf' = [wf EXCEPT !.status = "running"] /\ Goto(p, "panel") BY <1>4 DEF Launch
  <2>2. wf'.status = "running" /\ wf'.request = wf.request /\ wf'.fix = wf.fix /\ wf'.review = wf.review
    BY <1>2, <2>1 DEF Workflow
  <2>3. NewState BY <1>2, <2>2 DEF NewState, Terminal, OneStory
  <2>4. Progress(p)'
    BY <1>2, <1>3, <2>1, GoesOn
       DEF Progress, ReportIsThere, RoundsAreThere, PanelIsThere, FixIsThere, SameCall, Judged
  <2> QED BY <1>1, <1>2, <1>3, <2>1, <2>3, <2>4, GoesOn, Unchanged, FineIsCalm DEF Fine
<1>5. CASE ~MayMove("running")
  <2>1. Quit(p) /\ UNCHANGED wf BY <1>5 DEF Launch
  <2> QED BY <1>1, <1>2, <1>3, <2>1, GoesIdle, Unchanged, FineIsCalm DEF Fine
<1> QED BY <1>4, <1>5

LEMMA PanelCalm == ASSUME Inv, hist.calm, NEW p \in Process, Panel(p) PROVE CalmAgrees'
<1>1. Active(p) /\ cmd[p].at = "panel" BY DEF Panel, Active
<1>2. /\ Typed /\ cmd[p].how = "native" /\ cmd[p] \in Running /\ cmd \in [Process -> Running]
      /\ cmd[p].seen = DOMAIN arts \cap {"report", "pending_report"}
      /\ "findings" \notin DOMAIN arts /\ "panel" \notin DOMAIN events
  BY <1>1, CalmFacts DEF ReportIsThere, PanelIsThere
<1>3. UNCHANGED <<wf, arts, disk, events, file, runner, hist>> /\ "block" \in Stage BY DEF Panel, Stage
<1>4. CASE Goto(p, "block")
  <2>1. Progress(p)'
    BY <1>2, <1>3, <1>4, GoesOn
       DEF Progress, ReportIsThere, RoundsAreThere, PanelIsThere, FixIsThere, SameCall, Judged
  <2> QED BY <1>1, <1>2, <1>3, <1>4, <2>1, GoesOn, Unchanged, FineIsCalm DEF Fine
<1>5. ASSUME NEW raised \in Collected,
             cmd' = [cmd EXCEPT ![p].packet = [NoPacket EXCEPT !.raised = raised], ![p].at = "findings"]
      PROVE  CalmAgrees'
  <2>1. PICK packet : packet = [NoPacket EXCEPT !.raised = raised] OBVIOUS
  <2>2. packet.edits = NoEdits BY <2>1 DEF NoPacket
  <2>3. /\ cmd'[p].at = "findings" /\ cmd'[p].packet = packet /\ cmd'[p].how = cmd[p].how
        /\ cmd'[p].run = cmd[p].run /\ cmd'[p].seen = cmd[p].seen
        /\ \A q \in Process : q # p => cmd'[q] = cmd[q]
    BY <1>2, <1>5, <2>1 DEF Running
  <2>4. SameCall(p) BY <1>2, <2>2, <2>3 DEF SameCall
  <2>5. Progress(p)'
    BY <1>2, <1>3, <2>3 DEF Progress, ReportIsThere, RoundsAreThere, PanelIsThere, FixIsThere, Judged
  <2> QED BY <1>1, <1>2, <1>3, <2>3, <2>4, <2>5, Unchanged, FineIsCalm DEF Fine
<1> QED BY <1>4, <1>5 DEF Panel

LEMMA BlockCalm == ASSUME Inv, hist.calm, NEW p \in Process, Block(p) PROVE CalmAgrees'
<1>1. Active(p) BY DEF Block, Active
<1>2. Typed /\ wf \in Workflow /\ OneStory BY <1>1, CalmFacts
<1>3. UNCHANGED <<arts, disk, events, file, runner, hist>> /\ Quit(p) BY DEF Block
<1>4. UNCHANGED wf \/ NewState
  <2>1. CASE MayMove("blocked")
    <3>1. wf'.status = "blocked" /\ wf'.request = wf.request /\ wf'.fix = wf.fix /\ wf'.review = wf.review
      BY <1>2, <2>1 DEF Block, Workflow
    <3> QED BY <1>2, <3>1 DEF NewState, Terminal, OneStory
  <2>2. CASE ~MayMove("blocked") BY <2>2 DEF Block
  <2> QED BY <2>1, <2>2
<1> QED BY <1>1, <1>2, <1>3, <1>4, GoesIdle, Unchanged, FineIsCalm DEF Fine

LEMMA FindingsCalm == ASSUME Inv, hist.calm, NEW p \in Process, Findings(p) PROVE CalmAgrees'
<1>1. Active(p) /\ cmd[p].at = "findings" BY DEF Findings, Active
<1>2. /\ Typed /\ cmd[p].how \in {"packet", "native"} /\ OneStory
      /\ cmd[p].seen = DOMAIN arts \cap {"report", "pending_report"}
      /\ cmd[p].how = "native" => "findings" \notin DOMAIN arts /\ "panel" \notin DOMAIN events
      /\ cmd[p].how = "packet" /\ "findings" \in DOMAIN arts => arts["findings"] = Review(p)
  BY <1>1, CalmFacts DEF ReportIsThere, PanelIsThere, CallFits, Running, Kind, OneStory
<1>3. UNCHANGED <<wf, events, file, runner, hist>> /\ "panel_events" \in Stage BY DEF Findings, Stage
<1>4. CASE "findings" \in DOMAIN arts
  <2>1. Goto(p, "panel_events") /\ UNCHANGED <<arts, disk>> BY <1>4 DEF Findings
  <2>2. Progress(p)'
    BY <1>2, <1>3, <1>4, <2>1, GoesOn
       DEF Progress, ReportIsThere, RoundsAreThere, PanelIsThere, FixIsThere, SameCall, Judged
  <2> QED BY <1>1, <1>2, <1>3, <2>1, <2>2, GoesOn, Unchanged, FineIsCalm DEF Fine
<1>5. CASE "findings" \notin DOMAIN arts
  <2>1. PICK r : r = Review(p) OBVIOUS
  <2>2. Keep(p, "findings", r, "panel_events") BY <1>5, <2>1 DEF Findings
  <2>3. /\ Grows
        /\ \A i \in DOMAIN arts' \ DOMAIN arts : i = "findings" /\ arts'[i] = r /\ disk'[i] = r
        /\ \/ Quit(p)
           \/ Goto(p, "panel_events") /\ DOMAIN arts' = DOMAIN arts \cup {"findings"} /\ arts'["findings"] = r
    BY <1>2, <1>3, <1>5, <2>2, Registers
  <2>4. NewArts(p) /\ NewEvents(p) BY <1>3, <2>1, <2>3 DEF NewArts, NewEvents
  <2>5. CASE Quit(p) BY <1>1, <1>2, <1>3, <2>3, <2>4, <2>5, GoesIdle, FineIsCalm DEF Fine
  <2>6. CASE Goto(p, "panel_events") /\ DOMAIN arts' = DOMAIN arts \cup {"findings"} /\ arts'["findings"] = r
    <3>1. Progress(p)'
      BY <1>2, <1>3, <2>1, <2>6, GoesOn
         DEF Progress, ReportIsThere, RoundsAreThere, PanelIsThere, FixIsThere, SameCall, Judged
    <3> QED BY <1>1, <1>2, <1>3, <2>3, <2>4, <2>6, <3>1, GoesOn, FineIsCalm DEF Fine
  <2> QED BY <2>3, <2>5, <2>6
<1> QED BY <1>4, <1>5

LEMMA PanelEventsCalm == ASSUME Inv, hist.calm, NEW p \in Process, PanelEvents(p) PROVE CalmAgrees'
<1>1. Active(p) /\ cmd[p].at = "panel_events" BY DEF PanelEvents, Active
<1>2. /\ Typed /\ cmd[p].how \in {"packet", "native"} /\ OneStory
      /\ cmd[p].seen = DOMAIN arts \cap {"report", "pending_report"}
      /\ "findings" \in DOMAIN arts /\ arts["findings"] = Review(p)
      /\ cmd[p].how = "native" => "panel" \notin DOMAIN events
      /\ cmd[p].how = "packet" /\ "panel" \in DOMAIN events => events["panel"] = Review(p)
  BY <1>1, CalmFacts DEF ReportIsThere, PanelIsThere, CallFits, Running, Kind, OneStory
<1>3. UNCHANGED <<wf, arts, disk, file, runner, hist>> /\ "attach" \in Stage /\ Goto(p, "attach")
  BY DEF PanelEvents, Stage
<1>4. Grows /\ "panel" \in DOMAIN events' /\ events'["panel"] = Review(p) /\ NewEvents(p)
  <2>1. CASE "panel" \in DOMAIN events
    <3>1. UNCHANGED events BY <2>1 DEF PanelEvents
    <3> QED BY <1>2, <1>3, <2>1, <3>1, Unchanged
  <2>2. CASE "panel" \notin DOMAIN events
    <3>1. PICK r : r = Review(p) OBVIOUS
    <3>2. events' = With(events, "panel", r) BY <2>2, <3>1 DEF PanelEvents
    <3>3. Grows /\ DOMAIN events' = DOMAIN events \cup {"panel"} /\ events'["panel"] = r BY <1>3, <2>2, <3>2, Logs
    <3> QED BY <3>1, <3>3 DEF NewEvents
  <2> QED BY <2>1, <2>2
<1>5. Progress(p)'
  BY <1>2, <1>3, <1>4, GoesOn
     DEF Progress, ReportIsThere, RoundsAreThere, PanelIsThere, FixIsThere, SameCall, Judged
<1>6. NewArts(p) BY <1>3 DEF NewArts
<1> QED BY <1>1, <1>2, <1>3, <1>4, <1>5, <1>6, GoesOn, FineIsCalm DEF Fine

\* Findings without edits ask for no fix.
LEMMA NothingAsked ==
  ASSUME NEW packet \in AnyPacket, packet.edits = NoEdits, Changes(packet) # << >>
  PROVE  ~\A m \in DOMAIN Changes(packet) : Changes(packet)[m] # {}
<1>1. DOMAIN Changes(packet) = Accepted(packet.raised) /\ DOMAIN Changes(packet) \subseteq Mode
  BY ChangesTyped DEF Changes
<1>2. CASE Accepted(packet.raised) = {}
  <2>1. PICK e : e = packet.edits OBVIOUS
  <2>2. Changes(packet) = [m \in {} |-> e[m]] BY <1>2, <2>1 DEF Changes
  <2>3. [m \in {} |-> e[m]] = << >> OBVIOUS
  <2> QED BY <2>2, <2>3
<1>3. CASE Accepted(packet.raised) # {}
  <2>1. PICK m \in DOMAIN Changes(packet) : TRUE BY <1>1, <1>3
  <2>2. Changes(packet)[m] = NoEdits[m] BY <2>1, ChangesTyped
  <2>3. NoEdits[m] = {} BY <1>1, <2>1 DEF NoEdits
  <2> QED BY <2>1, <2>2, <2>3
<1> QED BY <1>2, <1>3

LEMMA AttachCalm == ASSUME Inv, hist.calm, NEW p \in Process, Attach(p) PROVE CalmAgrees'
<1>1. Active(p) /\ cmd[p].at = "attach" BY DEF Attach, Active
<1>2. /\ Typed /\ cmd \in [Process -> Running] /\ cmd[p] \in Running
      /\ cmd[p].how \in {"packet", "native"} /\ cmd[p].packet \in AnyPacket
      /\ cmd[p].seen = DOMAIN arts \cap {"report", "pending_report"}
      /\ "findings" \in DOMAIN arts /\ arts["findings"] = Review(p)
      /\ "panel" \in DOMAIN events /\ events["panel"] = Review(p)
      /\ cmd[p].how = "native" => cmd[p].packet.edits = NoEdits
  BY <1>1, CalmFacts DEF ReportIsThere, PanelIsThere, CallFits, Running, Kind
<1>3. UNCHANGED <<wf, arts, disk, events, file, runner, hist>> BY DEF Attach
<1>4. CASE Quit(p) BY <1>1, <1>2, <1>3, <1>4, GoesIdle, Unchanged, FineIsCalm DEF Fine
<1>5. CASE ~Quit(p)
  <2>1. PICK changes : changes = Changes(cmd[p].packet) OBVIOUS
  <2>a. PICK asked \in BOOLEAN : asked <=> (changes # << >> /\ \A m \in DOMAIN changes : changes[m] # {})
    OBVIOUS
  <2>2. PICK f : f = CASE changes = << >> -> "not_required"
                       [] changes # << >> /\ ~asked -> "plan_only"
                       [] asked /\ cmd[p].given = NoResult -> "pending"
                       [] asked /\ cmd[p].given # NoResult -> "complete"
    OBVIOUS
  <2>3. PICK a : a = IF asked THEN "request" ELSE "report" OBVIOUS
  <2>4. /\ cmd' = [cmd EXCEPT ![p].at = a, ![p].fix = f]
        /\ f = "complete" => Belongs(cmd[p].given, changes)
    BY <1>5, <2>1, <2>a, <2>2, <2>3 DEF Attach
  <2>5. /\ cmd'[p].at = a /\ cmd'[p].fix = f /\ cmd'[p].how = cmd[p].how /\ cmd'[p].run = cmd[p].run
        /\ cmd'[p].packet = cmd[p].packet /\ cmd'[p].given = cmd[p].given /\ cmd'[p].seen = cmd[p].seen
        /\ \A q \in Process : q # p => cmd'[q] = cmd[q]
    BY <1>2, <2>4 DEF Running
  <2>6. asked => cmd[p].how = "packet" BY <1>2, <2>1, <2>a, NothingAsked
  <2>7. f \in {"pending", "complete"} => asked BY <2>a, <2>2
  <2>8. a \in {"request", "report"} /\ (f \in {"pending", "complete"} => a = "request")
    BY <2>3, <2>7
  <2>9. SameCall(p) /\ Review(p)' = Review(p) BY <2>5 DEF SameCall, Review
  <2>10. f = "complete" => MutationProof(cmd[p].given)' BY <1>3, <2>4, <2>5 DEF Belongs, MutationProof
  <2>11. FixIsThere(p)' BY <2>5, <2>6, <2>7, <2>8, <2>10 DEF FixIsThere
  <2>12. ReportIsThere(p)' BY <1>2, <1>3, <2>5, <2>8 DEF ReportIsThere
  <2>13. RoundsAreThere(p)' BY <1>2, <2>5 DEF RoundsAreThere
  <2>14. PanelIsThere(p)' BY <1>2, <1>3, <2>5, <2>8, <2>9 DEF PanelIsThere
  <2>15. Progress(p)' BY <2>11, <2>12, <2>13, <2>14 DEF Progress
  <2> QED BY <1>1, <1>2, <1>3, <2>5, <2>9, <2>15, Unchanged, FineIsCalm DEF Fine
<1> QED BY <1>4, <1>5

\* The result of a call is proved as long as the files stay.
LEMMA StaysProved == ASSUME NEW r, UNCHANGED file, MutationProof(r) PROVE MutationProof(r)'
BY DEF MutationProof

LEMMA RequestCalm == ASSUME Inv, hist.calm, NEW p \in Process, Request(p) PROVE CalmAgrees'
<1>1. Active(p) /\ cmd[p].at = "request" BY DEF Request, Active
<1>2. /\ Typed /\ cmd \in [Process -> Running] /\ cmd[p] \in Running /\ cmd[p].how # "plain"
      /\ cmd[p].seen = DOMAIN arts \cap {"report", "pending_report"}
      /\ "findings" \in DOMAIN arts /\ arts["findings"] = Review(p)
      /\ "panel" \in DOMAIN events /\ events["panel"] = Review(p)
      /\ cmd[p].fix \in {"pending", "complete"} => cmd[p].how = "packet"
      /\ cmd[p].fix = "complete" => MutationProof(cmd[p].given)
  BY <1>1, CalmFacts DEF ReportIsThere, PanelIsThere, FixIsThere, CallFits, Judged
<1>3. UNCHANGED <<wf, arts, disk, file, runner, hist>> BY DEF Request
<1>4. Grows /\ "fix_requested" \in DOMAIN events' /\ NewEvents(p)
  <2>1. CASE "fix_requested" \in DOMAIN events
    <3>1. UNCHANGED events BY <2>1 DEF Request
    <3> QED BY <1>3, <2>1, <3>1, Unchanged
  <2>2. CASE "fix_requested" \notin DOMAIN events
    <3>1. PICK v : v = [fix |-> cmd[p].fix, changes |-> Changes(cmd[p].packet)] OBVIOUS
    <3>2. events' = With(events, "fix_requested", v) BY <2>2, <3>1 DEF Request
    <3>3. Grows /\ DOMAIN events' = DOMAIN events \cup {"fix_requested"} /\ events'["fix_requested"] = v
      BY <1>3, <2>2, <3>2, Logs
    <3> QED BY <3>1, <3>3 DEF NewEvents
  <2> QED BY <2>1, <2>2
<1>5. PICK a : a = IF cmd[p].fix = "complete" THEN "result" ELSE "report" OBVIOUS
<1>6. PICK h : h = ("fix_completed" \in DOMAIN events) OBVIOUS
<1>7. /\ cmd'[p].at = a /\ cmd'[p].had = h /\ cmd'[p].how = cmd[p].how /\ cmd'[p].run = cmd[p].run
      /\ cmd'[p].packet = cmd[p].packet /\ cmd'[p].given = cmd[p].given /\ cmd'[p].seen = cmd[p].seen
      /\ cmd'[p].fix = cmd[p].fix
      /\ \A q \in Process : q # p => cmd'[q] = cmd[q]
  BY <1>2, <1>5, <1>6 DEF Request, Running
<1>8. a \in {"result", "report"} /\ (cmd[p].fix = "complete" => a = "result") BY <1>5
<1>9. SameCall(p) /\ Review(p)' = Review(p) BY <1>7 DEF SameCall, Review
<1>10. cmd[p].fix = "complete" => MutationProof(cmd[p].given)'
  <2>1. PICK r : r = cmd[p].given OBVIOUS
  <2>2. cmd[p].fix = "complete" => MutationProof(r)' BY <1>2, <1>3, <2>1, StaysProved
  <2>3. cmd'[p].given = r BY <1>7, <2>1
  <2> QED BY <2>2, <2>3 DEF MutationProof
<1>11. h => "fix_completed" \in DOMAIN events' BY <1>4, <1>6 DEF Grows
<1>12. FixIsThere(p)' BY <1>2, <1>4, <1>7, <1>8, <1>10, <1>11 DEF FixIsThere
<1>13. ReportIsThere(p)' BY <1>2, <1>3, <1>7, <1>8 DEF ReportIsThere
<1>14. RoundsAreThere(p)' BY <1>2, <1>7 DEF RoundsAreThere
<1>15. PanelIsThere(p)' BY <1>2, <1>3, <1>4, <1>7, <1>8, <1>9 DEF PanelIsThere, Grows
<1>16. Progress(p)' BY <1>12, <1>13, <1>14, <1>15 DEF Progress
<1>17. NewArts(p) BY <1>3 DEF NewArts
<1> QED BY <1>1, <1>2, <1>3, <1>4, <1>7, <1>9, <1>16, <1>17, FineIsCalm DEF Fine

\* Once the changes were looked at, a step within a call leaves the findings in place.
LEMMA PanelStays ==
  ASSUME Typed, NEW p \in Process, cmd[p].how # "plain", PanelIsThere(p), cmd[p].at \in Judged,
         NEW a \in Stage, Goto(p, a), a \in Judged, Grows
  PROVE  RoundsAreThere(p)' /\ PanelIsThere(p)'
<1>1. /\ cmd'[p].at = a /\ cmd'[p].how = cmd[p].how /\ Review(p)' = Review(p)
  BY GoesOn DEF SameCall
<1>2. /\ "findings" \in DOMAIN arts' /\ arts'["findings"] = Review(p)
      /\ "panel" \in DOMAIN events' /\ events'["panel"] = Review(p)
  BY DEF PanelIsThere, Grows
<1> QED BY <1>1, <1>2 DEF RoundsAreThere, PanelIsThere, Judged

LEMMA ResultCalm == ASSUME Inv, hist.calm, NEW p \in Process, Result(p) PROVE CalmAgrees'
<1>1. Active(p) /\ cmd[p].at = "result" /\ cmd[p].at \in Judged BY DEF Result, Active, Judged
<1>2. /\ Typed /\ cmd[p].fix = "complete" /\ cmd[p].how = "packet"
      /\ cmd[p].seen = DOMAIN arts \cap {"report", "pending_report"}
      /\ PanelIsThere(p) /\ MutationProof(cmd[p].given) /\ "fix_requested" \in DOMAIN events
      /\ cmd[p].had => "fix_completed" \in DOMAIN events
      /\ \A id \in DOMAIN arts : arts[id] = disk[id]
  BY <1>1, CalmFacts DEF ReportIsThere, FixIsThere, CallFits
<1>3. UNCHANGED <<wf, events, file, runner, hist>> /\ "completed" \in Stage /\ "completed" \in Judged
  BY DEF Result, Stage, Judged
<1>4. PICK r : r = cmd[p].given OBVIOUS
<1>5. ASSUME Goto(p, "completed"), Grows, NewArts(p), "result" \in DOMAIN arts', arts'["result"] = r,
             DOMAIN arts' \subseteq DOMAIN arts \cup {"result"}
      PROVE  CalmAgrees'
  <2>1. RoundsAreThere(p)' /\ PanelIsThere(p)' BY <1>1, <1>2, <1>3, <1>5, PanelStays
  <2>2. ReportIsThere(p)' BY <1>2, <1>5, <1>3, GoesOn DEF ReportIsThere, Grows
  <2>3. MutationProof(r)' BY <1>2, <1>3, <1>4, StaysProved
  <2>4. cmd'[p].given = r BY <1>2, <1>3, <1>4, <1>5, GoesOn
  <2>5. MutationProof(cmd[p].given)' BY <2>3, <2>4 DEF MutationProof
  <2>6. FixIsThere(p)' BY <1>2, <1>3, <1>5, <2>4, <2>5, GoesOn DEF FixIsThere, SameCall
  <2>7. Progress(p)' BY <2>1, <2>2, <2>6 DEF Progress
  <2>8. NewEvents(p) BY <1>3 DEF NewEvents
  <2> QED BY <1>1, <1>2, <1>3, <1>5, <2>7, <2>8, GoesOn, FineIsCalm DEF Fine
<1>6. CASE "result" \notin DOMAIN arts
  <2>1. Keep(p, "result", r, "completed") BY <1>4, <1>6 DEF Result
  <2>2. /\ Grows
        /\ \A i \in DOMAIN arts' \ DOMAIN arts : i = "result" /\ arts'[i] = r /\ disk'[i] = r
        /\ \/ Quit(p)
           \/ Goto(p, "completed") /\ DOMAIN arts' = DOMAIN arts \cup {"result"} /\ arts'["result"] = r
    BY <1>2, <1>3, <1>6, <2>1, Registers
  <2>3. NewArts(p) /\ NewEvents(p) BY <1>3, <2>2 DEF NewArts, NewEvents
  <2>4. CASE Quit(p) BY <1>1, <1>2, <1>3, <2>2, <2>3, <2>4, GoesIdle, FineIsCalm DEF Fine
  <2> QED BY <1>5, <2>2, <2>3, <2>4
<1>7. CASE "result" \in DOMAIN arts /\ disk["result"] = r
  <2>1. Goto(p, "completed") /\ UNCHANGED <<arts, disk>> BY <1>4, <1>7 DEF Result
  <2> QED BY <1>2, <1>3, <1>5, <1>7, <2>1, Unchanged
<1>8. CASE "result" \in DOMAIN arts /\ disk["result"] # r
  <2>1. Quit(p) /\ UNCHANGED <<arts, disk>> BY <1>4, <1>8 DEF Result
  <2> QED BY <1>1, <1>2, <1>3, <2>1, GoesIdle, Unchanged, FineIsCalm DEF Fine
<1> QED BY <1>6, <1>7, <1>8

LEMMA CompletedCalm == ASSUME Inv, hist.calm, NEW p \in Process, Completed(p) PROVE CalmAgrees'
<1>1. Active(p) /\ cmd[p].at = "completed" /\ cmd[p].at \in Judged BY DEF Completed, Active, Judged
<1>2. /\ Typed /\ cmd[p].fix = "complete" /\ cmd[p].how = "packet"
      /\ cmd[p].given.changes = Changes(cmd[p].packet)
      /\ cmd[p].seen = DOMAIN arts \cap {"report", "pending_report"}
      /\ PanelIsThere(p) /\ MutationProof(cmd[p].given) /\ "fix_requested" \in DOMAIN events
      /\ cmd[p].had => "fix_completed" \in DOMAIN events
      /\ "result" \in DOMAIN arts /\ arts["result"] = cmd[p].given
  BY <1>1, CalmFacts DEF ReportIsThere, FixIsThere, CallFits, Fits
<1>3. UNCHANGED <<wf, arts, disk, file, runner, hist>> /\ "report" \in Stage /\ "report" \in Judged
  BY DEF Completed, Stage, Judged
<1>4. ASSUME Goto(p, "report"), Grows, NewEvents(p), "fix_completed" \in DOMAIN events'
      PROVE  CalmAgrees'
  <2>1. RoundsAreThere(p)' /\ PanelIsThere(p)' BY <1>1, <1>2, <1>3, <1>4, PanelStays
  <2>2. ReportIsThere(p)' BY <1>2, <1>3, <1>4, GoesOn DEF ReportIsThere
  <2>3. PICK r : r = cmd[p].given OBVIOUS
  <2>4. MutationProof(r)' BY <1>2, <1>3, <2>3, StaysProved
  <2>5. cmd'[p].given = r BY <1>2, <1>3, <1>4, <2>3, GoesOn
  <2>6. MutationProof(cmd[p].given)' BY <2>4, <2>5 DEF MutationProof
  <2>7. "fix_requested" \in DOMAIN events' BY <1>2, <1>4 DEF Grows
  <2>8. FixIsThere(p)' BY <1>2, <1>3, <1>4, <2>3, <2>5, <2>6, <2>7, GoesOn DEF FixIsThere, SameCall
  <2>9. Progress(p)' BY <2>1, <2>2, <2>8 DEF Progress
  <2>10. NewArts(p) BY <1>3 DEF NewArts
  <2> QED BY <1>1, <1>2, <1>3, <1>4, <2>9, <2>10, GoesOn, FineIsCalm DEF Fine
<1>5. CASE cmd[p].had
  <2>1. Goto(p, "report") /\ UNCHANGED events BY <1>5 DEF Completed
  <2> QED BY <1>2, <1>3, <1>4, <1>5, <2>1, Unchanged
<1>6. CASE ~cmd[p].had /\ "fix_completed" \in DOMAIN events
  <2>1. Quit(p) /\ UNCHANGED events BY <1>6 DEF Completed
  <2> QED BY <1>1, <1>2, <1>3, <2>1, GoesIdle, Unchanged, FineIsCalm DEF Fine
<1>7. CASE ~cmd[p].had /\ "fix_completed" \notin DOMAIN events
  <2>1. PICK v : v = cmd[p].given.changes OBVIOUS
  <2>2. Goto(p, "report") /\ events' = With(events, "fix_completed", v) BY <1>7, <2>1 DEF Completed
  <2>3. Grows /\ DOMAIN events' = DOMAIN events \cup {"fix_completed"} /\ events'["fix_completed"] = v
    BY <1>3, <1>7, <2>2, Logs
  <2>4. NewEvents(p) BY <1>2, <2>1, <2>3 DEF NewEvents
  <2> QED BY <1>4, <2>2, <2>3, <2>4
<1> QED BY <1>5, <1>6, <1>7

LEMMA ReportCalm == ASSUME Inv, hist.calm, NEW p \in Process, Report(p) PROVE CalmAgrees'
<1>1. Active(p) /\ cmd[p].at = "report" /\ cmd[p].at \in Judged BY DEF Report, Active, Judged
<1>2. /\ Typed /\ CallFits(p) /\ cmd[p].seen = DOMAIN arts \cap {"report", "pending_report"}
      /\ RoundsAreThere(p) /\ PanelIsThere(p) /\ FixIsThere(p)
      /\ \A id \in DOMAIN arts : arts[id] = disk[id]
  BY <1>1, CalmFacts DEF ReportIsThere
<1>3. UNCHANGED <<wf, events, file, runner, hist>> /\ "commit" \in Stage /\ "commit" \in Judged
  BY DEF Report, Stage, Judged
<1>4. PICK id : id = ReportId(p) OBVIOUS
<1>5. PICK text : text = Text(p) OBVIOUS
<1>6. id \in {"report", "pending_report"} BY <1>4 DEF ReportId
<1>7. ASSUME Goto(p, "commit"), Grows, NewArts(p), id \in DOMAIN arts', arts'[id] = text
      PROVE  CalmAgrees'
  <2>1. /\ cmd'[p].at = "commit" /\ ReportId(p)' = id /\ Text(p)' = text
        /\ cmd'[p].how = cmd[p].how /\ cmd'[p].fix = cmd[p].fix /\ Review(p)' = Review(p)
        /\ cmd'[p].given = cmd[p].given
    BY <1>2, <1>3, <1>4, <1>5, <1>7, GoesOn DEF SameCall
  <2>2. ReportIsThere(p)' BY <1>7, <2>1 DEF ReportIsThere
  <2>3. RoundsAreThere(p)' BY <1>1, <1>2, <1>3, <1>7, <2>1 DEF RoundsAreThere, Grows
  <2>4. PanelIsThere(p)' BY <1>1, <1>2, <1>7, <2>1 DEF PanelIsThere, Grows, Judged
  <2>5. FixIsThere(p)'
    <3>1. CASE cmd[p].fix = "complete"
      <4>1. /\ MutationProof(cmd[p].given) /\ "fix_requested" \in DOMAIN events /\ cmd[p].how = "packet"
            /\ "result" \in DOMAIN arts /\ arts["result"] = cmd[p].given /\ "fix_completed" \in DOMAIN events
        BY <1>1, <1>2, <3>1 DEF FixIsThere
      <4>2. PICK r : r = cmd[p].given OBVIOUS
      <4>3. MutationProof(r)' BY <1>3, <4>1, <4>2, StaysProved
      <4>4. MutationProof(cmd[p].given)' BY <2>1, <4>2, <4>3 DEF MutationProof
      <4> QED BY <1>7, <2>1, <4>1, <4>4 DEF FixIsThere, Grows
    <3>2. CASE cmd[p].fix # "complete" BY <1>1, <1>2, <2>1, <3>2 DEF FixIsThere
    <3> QED BY <3>1, <3>2
  <2>6. Progress(p)' BY <2>2, <2>3, <2>4, <2>5 DEF Progress
  <2>7. NewEvents(p) BY <1>3 DEF NewEvents
  <2> QED BY <1>1, <1>2, <1>3, <1>7, <2>6, <2>7, GoesOn, FineIsCalm DEF Fine
<1>8. CASE id \notin cmd[p].seen
  <2>1. Keep(p, id, text, "commit") /\ id \notin DOMAIN arts BY <1>2, <1>4, <1>5, <1>6, <1>8 DEF Report
  <2>2. /\ Grows
        /\ \A i \in DOMAIN arts' \ DOMAIN arts : i = id /\ arts'[i] = text /\ disk'[i] = text
        /\ \/ Quit(p)
           \/ Goto(p, "commit") /\ DOMAIN arts' = DOMAIN arts \cup {id} /\ arts'[id] = text
    BY <1>2, <1>3, <2>1, Registers
  <2>3. NewArts(p) /\ NewEvents(p) BY <1>3, <1>6, <2>2 DEF NewArts, NewEvents
  <2>4. CASE Quit(p) BY <1>1, <1>2, <1>3, <2>2, <2>3, <2>4, GoesIdle, FineIsCalm DEF Fine
  <2> QED BY <1>7, <2>2, <2>3, <2>4
<1>9. CASE id \in cmd[p].seen /\ disk[id] = text
  <2>1. Goto(p, "commit") /\ UNCHANGED <<arts, disk>> BY <1>4, <1>5, <1>9 DEF Report
  <2> QED BY <1>2, <1>3, <1>7, <1>9, <2>1, Unchanged
<1>10. CASE id \in cmd[p].seen /\ disk[id] # text
  <2>1. Quit(p) /\ UNCHANGED <<arts, disk>> BY <1>4, <1>5, <1>10 DEF Report
  <2> QED BY <1>1, <1>2, <1>3, <2>1, GoesIdle, Unchanged, FineIsCalm DEF Fine
<1> QED BY <1>8, <1>9, <1>10

\* What a call records as the end is there for the audit.
LEMMA CommitDelivers ==
  ASSUME Inv, hist.calm, NEW p \in Process, Commit(p), wf' # wf, cmd[p].fix # "pending"
  PROVE  Deliverable'
<1>1. Active(p) /\ cmd[p].at = "commit" /\ cmd[p].at \in Judged BY DEF Commit, Active, Judged
<1>2. /\ Typed /\ wf \in Workflow /\ cmd[p] \in Running /\ cmd[p].how = hist.call.how
      /\ CallFits(p) /\ OneStory /\ ReportIsThere(p) /\ RoundsAreThere(p) /\ PanelIsThere(p) /\ FixIsThere(p)
      /\ cmd[p].how = "packet" => cmd[p].packet = hist.call.packet
      /\ \A id \in DOMAIN arts : arts[id] = disk[id]
  BY <1>1, CalmFacts
<1>3. UNCHANGED <<arts, disk, events, file>> BY DEF Commit
<1>4. PICK result : result = IF cmd[p].fix = "complete" THEN cmd[p].given ELSE NoResult OBVIOUS
<1>5. PICK review : review = Review(p) OBVIOUS
<1>6. PICK text : text = Text(p) OBVIOUS
<1>7. wf' = [wf EXCEPT !.status = Outcome(p), !.how = cmd[p].how, !.review = review,
                       !.fix = cmd[p].fix, !.text = text, !.result = result]
  BY <1>4, <1>5, <1>6 DEF Commit
<1>8. /\ wf'.how = cmd[p].how /\ wf'.review = review /\ wf'.fix = cmd[p].fix /\ wf'.text = text
      /\ wf'.result = result /\ wf'.request = wf.request
  BY <1>2, <1>7 DEF Workflow
<1>9. PICK required :
        required = {"report"} \cup (IF cmd[p].how # "plain" THEN {"findings"} ELSE {})
                              \cup (IF cmd[p].fix = "complete" THEN {"result"} ELSE {})
                              \cup (IF cmd[p].how = "plain" /\ wf.request = "files" THEN {"rounds"} ELSE {})
  OBVIOUS
<1>10. "report" \in DOMAIN arts /\ disk["report"] = text
  BY <1>1, <1>2, <1>6 DEF ReportIsThere, ReportId
<1>11. ASSUME "rounds" \in required
       PROVE  "rounds" \in DOMAIN arts /\ disk["rounds"] = file /\ "rounds" \in DOMAIN events
  <2>1. cmd[p].how = "plain" /\ wf.request = "files" BY <1>9, <1>11
  <2>2. "rounds" \in DOMAIN arts /\ "rounds" \in DOMAIN events BY <1>1, <1>2, <2>1 DEF RoundsAreThere
  <2>3. arts["rounds"] = file BY <1>2, <2>1, <2>2 DEF OneStory
  <2> QED BY <1>2, <2>2, <2>3
<1>12. ASSUME "findings" \in required
       PROVE  "findings" \in DOMAIN arts /\ disk["findings"] = review /\ "panel" \in DOMAIN events
              /\ events["panel"] = review
  BY <1>1, <1>2, <1>5, <1>9, <1>12 DEF PanelIsThere
<1>13. ASSUME "result" \in required
       PROVE  "result" \in DOMAIN arts /\ FixIsAudited'
  <2>1. cmd[p].fix = "complete" BY <1>9, <1>13
  <2>2. /\ cmd[p].how = "packet" /\ MutationProof(cmd[p].given)
        /\ "fix_requested" \in DOMAIN events /\ "fix_completed" \in DOMAIN events
        /\ "result" \in DOMAIN arts /\ arts["result"] = cmd[p].given
    BY <1>1, <1>2, <2>1 DEF FixIsThere
  <2>3. PICK changes : changes = Changes(hist.call.packet) OBVIOUS
  <2>4. events["fix_requested"].changes = changes /\ events["fix_completed"] = changes
    BY <1>2, <2>2, <2>3 DEF OneStory
  <2>5. Changes(wf.review.packet)' = changes
    <3>1. wf'.review.packet = hist.call.packet BY <1>2, <1>5, <1>8, <2>2 DEF Review
    <3> QED BY <2>3, <3>1
  <2>6. disk["result"] = result /\ MutationProof(result)' BY <1>2, <1>3, <1>4, <2>1, <2>2, StaysProved
  <2>7. MutationProof(wf.result)' BY <1>8, <2>6 DEF MutationProof
  <2> QED BY <1>3, <1>8, <2>2, <2>4, <2>5, <2>6, <2>7 DEF FixIsAudited
<1>14. required \subseteq DOMAIN arts BY <1>9, <1>10, <1>11, <1>12, <1>13
<1>15. /\ "rounds" \in required => RoundsAreAudited'
       /\ "findings" \in required => FindingsAreAudited'
       /\ "result" \in required => FixIsAudited'
  BY <1>3, <1>8, <1>11, <1>12, <1>13 DEF RoundsAreAudited, FindingsAreAudited
<1>16. /\ required \subseteq DOMAIN arts' /\ \A id \in required : arts'[id] = disk'[id]
       /\ disk'["report"] = wf'.text
  BY <1>2, <1>3, <1>8, <1>10, <1>14
<1>17. required = {"report"} \cup (IF wf'.how # "plain" THEN {"findings"} ELSE {})
                             \cup (IF wf'.fix = "complete" THEN {"result"} ELSE {})
                             \cup (IF wf'.how = "plain" /\ wf'.request = "files" THEN {"rounds"} ELSE {})
  BY <1>8, <1>9
<1> QED BY <1>15, <1>16, <1>17 DEF Deliverable, ContractHolds

LEMMA CommitCalm == ASSUME Inv, hist.calm, NEW p \in Process, Commit(p) PROVE CalmAgrees'
<1>1. Active(p) /\ cmd[p].at = "commit" /\ cmd[p].at \in Judged BY DEF Commit, Active, Judged
<1>2. /\ Typed /\ wf \in Workflow /\ cmd[p].how = hist.call.how /\ FixIsThere(p) /\ CallFits(p)
      /\ cmd[p].how = "packet" => Review(p) = [run |-> 0, packet |-> hist.call.packet]
  BY <1>1, CalmFacts
<1>3. UNCHANGED <<arts, disk, events, file, runner, hist>> /\ Quit(p) BY DEF Commit
<1>4. ASSUME wf' # wf PROVE NewState
  <2>1. PICK result : result = IF cmd[p].fix = "complete" THEN cmd[p].given ELSE NoResult OBVIOUS
  <2>2. wf' = [wf EXCEPT !.status = Outcome(p), !.how = cmd[p].how, !.review = Review(p),
                         !.fix = cmd[p].fix, !.text = Text(p), !.result = result]
    BY <1>4, <2>1 DEF Commit
  <2>3. /\ wf'.status = Outcome(p) /\ wf'.how = cmd[p].how /\ wf'.review = Review(p)
        /\ wf'.fix = cmd[p].fix /\ wf'.request = wf.request
    BY <1>2, <2>2 DEF Workflow
  <2>4. cmd[p].fix = "pending" => Outcome(p) = "running" BY DEF Outcome
  <2>5. Terminal' => cmd[p].fix # "pending" BY <2>3, <2>4 DEF Terminal
  <2>6. Terminal' => Deliverable' BY <1>4, <2>5, CommitDelivers
  <2>7. cmd[p].fix = "pending" => cmd[p].how = "packet" BY <1>1, <1>2 DEF FixIsThere
  <2> QED BY <1>2, <2>3, <2>6, <2>7 DEF NewState
<1> QED BY <1>1, <1>2, <1>3, <1>4, GoesIdle, Unchanged, FineIsCalm DEF Fine


LEMMA WorkCalm == ASSUME Inv, hist.calm, NEW p \in Process, Work(p) PROVE CalmAgrees'
BY RoundsCalm, RoundEventsCalm, LaunchCalm, PanelCalm, BlockCalm, FindingsCalm, PanelEventsCalm, AttachCalm,
   RequestCalm, ResultCalm, CompletedCalm, ReportCalm, CommitCalm DEF Work

\* A step outside the calls: calls may end, and while a fix is pending and no call is
\* under way the files may change and the runner may be anywhere.
LEMMA OutsideIsCalm ==
  ASSUME Inv, hist.calm, hist'.call = hist.call, hist'.starts = hist.starts,
         UNCHANGED <<arts, disk, events>>,
         \A p \in Process : cmd'[p] = cmd[p] \/ cmd'[p].at = "idle",
         \/ UNCHANGED wf
         \/ /\ wf.status = "blocked" /\ wf'.status = "blocked" /\ wf'.fix = wf.fix
            /\ wf'.review = wf.review /\ wf'.request = wf.request,
         \/ UNCHANGED file /\ (UNCHANGED runner \/ runner'.at = "idle")
         \/ wf.fix = "pending" /\ \A p \in Process : cmd'[p].at = "idle"
  PROVE  CalmAgrees'
<1>0. /\ OneAtATime /\ OneKind /\ OneStory /\ (Terminal => Deliverable) /\ SuccessFits
      /\ \A p \in Process : Progress(p)
  BY DEF Inv, CalmAgrees, ConvFits
<1>1. wf'.fix = wf.fix /\ wf'.review = wf.review /\ wf'.request = wf.request /\ (wf' = wf \/ ~Terminal')
  BY DEF Terminal
<1>2. wf.fix = "pending" => /\ hist.call.how = "packet" /\ ~Terminal /\ ~Terminal' /\ hist.starts # 0
  <2>1. wf.fix = "pending" => hist.call.how = "packet" /\ ~Terminal BY <1>0 DEF OneStory, SuccessFits
  <2>2. Terminal' => Terminal BY <1>1 DEF Terminal
  <2>3. wf.fix = "pending" => hist.starts # 0 BY <1>0 DEF OneKind
  <2> QED BY <2>1, <2>2, <2>3
<1>3. OneAtATime' BY <1>0 DEF OneAtATime, Active
<1>4. OneKind'
  <2>1. hist.starts = 0 =>
          /\ hist.call = NoCall /\ \A p \in Process : ~Active(p)
          /\ DOMAIN arts = {} /\ DOMAIN events = {} /\ file = [f \in File |-> Fresh]
          /\ wf.fix = "none" /\ wf.status = "running"
    BY <1>0 DEF OneKind
  <2>2. hist.starts = 0 => UNCHANGED wf /\ UNCHANGED file BY <1>2, <2>1
  <2>3. hist.starts = 0 => \A p \in Process : ~Active(p)' BY <2>1 DEF Active
  <2>4. ASSUME NEW p \in Process, Active(p)'
        PROVE  /\ cmd'[p].how = hist'.call.how
               /\ cmd'[p].how = "packet" => Review(p)' = [run |-> 0, packet |-> hist'.call.packet]
               /\ cmd'[p].how = "native" => cmd'[p].packet.edits = NoEdits
    <3>1. cmd'[p] = cmd[p] /\ Active(p) BY <2>4 DEF Active
    <3>2. Review(p)' = Review(p) BY <3>1 DEF Review
    <3>3. /\ cmd[p].how = hist.call.how
          /\ cmd[p].how = "packet" => Review(p) = [run |-> 0, packet |-> hist.call.packet]
          /\ cmd[p].how = "native" => cmd[p].packet.edits = NoEdits
      BY <1>0, <3>1 DEF OneKind
    <3> QED BY <3>1, <3>2, <3>3
  <2>5. (hist.starts > 0 => hist.call.how \in Kind) /\ (hist.call.how = "native" => hist.starts = 1)
    BY <1>0 DEF OneKind
  <2> QED BY <2>1, <2>2, <2>3, <2>4, <2>5 DEF OneKind
<1>5. OneStory'
  <2>1. PICK review : review = [run |-> 0, packet |-> hist.call.packet] OBVIOUS
  <2>2. PICK changes : changes = Changes(hist.call.packet) OBVIOUS
  <2>3. /\ \A id \in DOMAIN arts : arts[id] = disk[id]
        /\ hist.call.how = "plain" =>
             file = [f \in File |-> Fresh] /\ ("rounds" \in DOMAIN arts => arts["rounds"] = file)
        /\ hist.call.how = "packet" =>
             /\ "findings" \in DOMAIN arts => arts["findings"] = review
             /\ "panel" \in DOMAIN events => events["panel"] = review
             /\ "fix_requested" \in DOMAIN events => events["fix_requested"].changes = changes
             /\ "fix_completed" \in DOMAIN events => events["fix_completed"] = changes
        /\ wf.fix = "pending" => hist.call.how = "packet" /\ wf.review = review
        /\ runner.at # "idle" => wf.fix = "pending"
        /\ Terminal => wf.how = hist.call.how
    BY <1>0, <2>1, <2>2 DEF OneStory
  <2>4. hist.call.how = "plain" => UNCHANGED file BY <1>2
  <2>5. Terminal' => wf'.how = hist.call.how BY <1>1, <2>3 DEF Terminal
  <2>6. runner'.at # "idle" => wf.fix = "pending" BY <2>3
  <2> QED BY <1>1, <2>1, <2>2, <2>3, <2>4, <2>5, <2>6 DEF OneStory
<1>6. ASSUME NEW p \in Process PROVE Progress(p)'
  <2>1. CASE cmd'[p].at = "idle" BY <2>1, IdleProgress
  <2>2. CASE cmd'[p].at # "idle"
    <3>1. cmd'[p] = cmd[p] /\ UNCHANGED file BY <2>2
    <3>2. Review(p)' = Review(p) /\ Text(p)' = Text(p) /\ ReportId(p)' = ReportId(p)
      BY <3>1 DEF Review, Text, ReportId
    <3>a. PICK r : r = cmd[p].given OBVIOUS
    <3>3. MutationProof(r) => MutationProof(r)' BY <3>1, StaysProved
    <3>4. ReportIsThere(p) /\ RoundsAreThere(p) /\ PanelIsThere(p) /\ FixIsThere(p) BY <1>0 DEF Progress
    <3>5. ReportIsThere(p)' BY <3>1, <3>2, <3>4 DEF ReportIsThere
    <3>6. RoundsAreThere(p)' BY <1>1, <3>1, <3>4 DEF RoundsAreThere
    <3>7. PanelIsThere(p)' BY <3>1, <3>2, <3>4 DEF PanelIsThere
    <3>8. FixIsThere(p)' BY <3>1, <3>a, <3>3, <3>4 DEF FixIsThere
    <3> QED BY <3>5, <3>6, <3>7, <3>8 DEF Progress
  <2> QED BY <2>1, <2>2
<1>7. ASSUME Terminal' PROVE Deliverable'
  <2>1. UNCHANGED wf /\ Terminal BY <1>1, <1>7 DEF Terminal
  <2>2. UNCHANGED file BY <1>2, <1>7
  <2>3. Grows BY DEF Grows
  <2> QED BY <1>0, <2>1, <2>2, <2>3, DeliverableKept
<1> QED BY <1>3, <1>4, <1>5, <1>6, <1>7 DEF CalmAgrees

\* The fix runner, the owner, a crash: whatever keeps the history calm.
LEMMA AroundCalm ==
  ASSUME Inv, hist'.calm,
         RunFix \/ Apply \/ ApplyFails \/ Undo \/ WriteResult \/ Environment \/ \E p \in Process : Crash(p)
  PROVE  CalmAgrees'
<1>0. /\ hist \in History /\ wf \in Workflow /\ Typed /\ CalmAgrees BY DEF Inv, Typed
<1>1. CASE RunFix
  <2>1. PICK call : call = NoCall OBVIOUS
  <2>2. PICK calm \in BOOLEAN : calm = Calm(call) BY DEF Calm
  <2>3. hist' = [Noted(calm, call) EXCEPT !.runs = @ + 1] BY <1>1, <2>1, <2>2 DEF RunFix
  <2>4. hist'.calm = calm /\ (calm => hist'.call = hist.call) /\ hist'.starts = hist.starts
    BY <1>0, <2>1, <2>3 DEF Noted, History
  <2>5. hist.calm /\ \A p \in Process : cmd[p].at = "idle" BY <2>2, <2>4 DEF Calm
  <2>6. wf.fix = "pending" /\ UNCHANGED <<wf, arts, disk, events, file, cmd>> BY <1>1 DEF RunFix
  <2>7. \A p \in Process : cmd'[p].at = "idle" BY <2>5, <2>6
  <2> QED BY <2>4, <2>5, <2>6, <2>7, OutsideIsCalm
<1>2. CASE Apply \/ ApplyFails \/ Undo \/ WriteResult \/ RunnerCrash
  <2>1. runner.at # "idle" /\ UNCHANGED <<wf, arts, disk, events, cmd>>
    BY <1>2 DEF Apply, ApplyFails, Undo, WriteResult, RunnerCrash
  <2>2. hist'.calm = hist.calm /\ hist'.call = hist.call /\ hist'.starts = hist.starts
    BY <1>0, <1>2 DEF Apply, ApplyFails, Undo, WriteResult, RunnerCrash, History
  <2>3. wf.fix = "pending" /\ \A p \in Process : cmd[p].at = "idle"
    BY <1>0, <2>1, <2>2 DEF CalmAgrees, OneStory, OneAtATime, Active
  <2>4. \A p \in Process : cmd'[p].at = "idle" BY <2>1, <2>3
  <2> QED BY <2>1, <2>2, <2>3, <2>4, OutsideIsCalm
<1>3. CASE OwnerDecides
  <2>1. UNCHANGED <<arts, disk, events, file, cmd, runner, hist>> BY <1>3 DEF OwnerDecides
  <2>2. /\ wf.status = "blocked" /\ wf'.status = "blocked" /\ wf'.fix = wf.fix
        /\ wf'.review = wf.review /\ wf'.request = wf.request
    BY <1>0, <1>3 DEF OwnerDecides, Workflow
  <2> QED BY <2>1, <2>2, OutsideIsCalm
<1>4. CASE EditFile
  <2>1. PICK call : call = NoCall OBVIOUS
  <2>2. hist' = [Noted(FALSE, call) EXCEPT !.edits = @ + 1] BY <1>4, <2>1 DEF EditFile
  <2>3. PICK calm \in BOOLEAN : calm = FALSE OBVIOUS
  <2>4. hist' = [Noted(calm, call) EXCEPT !.edits = @ + 1] BY <2>2, <2>3
  <2>5. hist'.calm = calm BY <1>0, <2>4 DEF Noted, History
  <2> QED BY <2>3, <2>5
<1>5. ASSUME NEW p \in Process, Crash(p) PROVE CalmAgrees'
  <2>1. UNCHANGED <<wf, arts, disk, events, file, runner>> /\ Quit(p) BY <1>5 DEF Crash
  <2>2. hist'.calm = hist.calm /\ hist'.call = hist.call /\ hist'.starts = hist.starts
    BY <1>0, <1>5 DEF Crash, History
  <2>3. \A q \in Process : cmd'[q] = cmd[q] \/ cmd'[q].at = "idle" BY <1>0, <2>1, GoesIdle
  <2> QED BY <2>1, <2>2, <2>3, OutsideIsCalm
<1> QED BY <1>1, <1>2, <1>3, <1>4, <1>5 DEF Environment

\* A call that starts while all is calm is the first one, or it is like the first one.
LEMMA StartCalm ==
  ASSUME Inv, hist'.calm, NEW p \in Process, NEW how \in Kind, NEW packet \in AnyPacket, NEW given \in Results,
         Start(p, how, packet, given), how # "packet" => packet = NoPacket
  PROVE  CalmAgrees'
<1>0. hist \in History /\ Typed /\ CalmAgrees /\ cmd \in [Process -> Running] BY DEF Inv, Typed
<1>1. PICK call : call = [how |-> how, packet |-> packet] OBVIOUS
<1>2. call.how = how /\ call.packet = packet /\ call # NoCall BY <1>1 DEF Kind, NoCall
<1>3. PICK calm \in BOOLEAN : calm = Calm(call) BY DEF Calm
<1>4. hist' = [Noted(calm, call) EXCEPT !.starts = @ + 1] BY <1>1, <1>3 DEF Start
<1>5. calm /\ hist'.call = call /\ hist'.starts = hist.starts + 1 /\ hist.starts \in Nat
  <2>1. MaxStarts \in Nat BY ConvAssumption
  <2>2. Noted(calm, call) \in [starts : {hist.starts}, runs : {hist.runs}, crashes : {hist.crashes},
                               edits : {hist.edits}, calm : {calm},
                               call : {CASE ~calm -> NoCall [] calm /\ call = NoCall -> hist.call [] OTHER -> call}]
    BY <1>0 DEF Noted, History
  <2>3. hist'.calm = calm /\ hist'.call = Noted(calm, call).call /\ hist'.starts = hist.starts + 1
    BY <1>4, <2>2
  <2> QED BY <1>0, <1>2, <2>1, <2>2, <2>3 DEF History
<1>6. /\ hist.calm /\ runner.at = "idle" /\ \A q \in Process : cmd[q].at = "idle"
      /\ hist.call = call \/ hist.call = NoCall
      /\ how = "native" => hist.starts = 0
  BY <1>2, <1>3, <1>5 DEF Calm
<1>7. OneKind /\ OneStory /\ (Terminal => Deliverable) BY <1>0, <1>6 DEF CalmAgrees
<1>8. \/ /\ hist.starts = 0 /\ hist.call = NoCall /\ ~Terminal /\ wf.fix = "none"
         /\ DOMAIN arts = {} /\ DOMAIN events = {} /\ file = [f \in File |-> Fresh]
      \/ hist.starts # 0 /\ hist.call = call /\ how # "native"
  <2>1. hist.call = NoCall => hist.call.how \notin Kind BY DEF NoCall, Kind
  <2> QED BY <1>5, <1>6, <1>7, <2>1 DEF OneKind, Terminal
<1>9. UNCHANGED <<wf, arts, disk, events, file, runner>> BY DEF Start
<1>10. PICK a : a = CASE how = "plain" -> "rounds" [] how = "packet" -> "findings" [] how = "native" -> "launch"
  OBVIOUS
<1>11. PICK r : r = IF how = "native" THEN hist.starts + 1 ELSE 0 OBVIOUS
<1>12. PICK s : s = DOMAIN arts \cap {"report", "pending_report"} OBVIOUS
<1>13. /\ cmd'[p].at = a /\ cmd'[p].how = how /\ cmd'[p].run = r /\ cmd'[p].packet = packet /\ cmd'[p].seen = s
       /\ \A q \in Process : q # p => cmd'[q] = cmd[q]
  BY <1>0, <1>10, <1>11, <1>12 DEF Start, Idle
<1>14. Progress(p)'
  <2>1. ReportIsThere(p)' BY <1>9, <1>10, <1>12, <1>13 DEF ReportIsThere, Kind
  <2>2. RoundsAreThere(p)' BY <1>10, <1>13 DEF RoundsAreThere, Kind
  <2>3. PanelIsThere(p)' BY <1>8, <1>9, <1>10, <1>13 DEF PanelIsThere, Judged, Kind
  <2>4. FixIsThere(p)' BY <1>10, <1>13 DEF FixIsThere, Judged, Kind
  <2> QED BY <2>1, <2>2, <2>3, <2>4 DEF Progress
<1>15. \A q \in Process : Progress(q)'
  <2>1. \A q \in Process : q # p => cmd'[q].at = "idle" BY <1>6, <1>13
  <2> QED BY <1>14, <2>1, IdleProgress
<1>16. OneAtATime' BY <1>6, <1>9, <1>13 DEF OneAtATime, Active
<1>17. OneKind'
  <2>1. hist'.starts # 0 /\ hist'.starts > 0 /\ (how = "native" => hist'.starts = 1) BY <1>5, <1>6
  <2>2. \A q \in Process : Active(q)' => q = p BY <1>6, <1>13 DEF Active
  <2>3. how = "packet" => Review(p)' = [run |-> 0, packet |-> packet] BY <1>11, <1>13 DEF Review
  <2>4. how = "native" => packet.edits = NoEdits BY DEF NoPacket
  <2> QED BY <1>2, <1>5, <1>13, <2>1, <2>2, <2>3, <2>4 DEF OneKind
<1>18. OneStory'
  <2>1. CASE hist.starts = 0
    <3>1. /\ DOMAIN arts' = {} /\ DOMAIN events' = {} /\ file' = [f \in File |-> Fresh] /\ wf'.fix = "none"
          /\ ~Terminal' /\ runner'.at = "idle"
      BY <1>6, <1>8, <1>9, <2>1 DEF Terminal
    <3> QED BY <3>1 DEF OneStory
  <2>2. CASE hist.starts # 0
    <3>1. hist'.call = hist.call BY <1>5, <1>8, <2>2
    <3> QED BY <1>7, <1>9, <3>1 DEF OneStory, Terminal
  <2> QED BY <2>1, <2>2
<1>19. Terminal' => Deliverable'
  <2>1. Grows BY <1>9 DEF Grows
  <2>2. Terminal' => Terminal BY <1>9 DEF Terminal
  <2> QED BY <1>7, <1>9, <2>1, <2>2, DeliverableKept
<1> QED BY <1>15, <1>16, <1>17, <1>18, <1>19 DEF CalmAgrees

LEMMA CalmStep == ASSUME Inv, [Next]_vars PROVE CalmAgrees'
<1> SUFFICES ASSUME hist'.calm PROVE CalmAgrees' BY DEF CalmAgrees
<1>0. hist \in History BY DEF Inv, Typed
<1>1. ASSUME NEW p \in Process, Begin(p) PROVE CalmAgrees'
  BY <1>1, BeginStarts, StartCalm DEF Inv
<1>2. ASSUME NEW p \in Process, Work(p) PROVE CalmAgrees'
  <2>1. UNCHANGED hist
    BY <1>2 DEF Work, Rounds, RoundEvents, Launch, Panel, Block, Findings, PanelEvents, Attach, Request, Result,
         Completed, Report, Commit
  <2> QED BY <1>2, <2>1, WorkCalm
<1>3. ASSUME UNCHANGED vars PROVE CalmAgrees'
  BY <1>3, OutsideIsCalm DEF vars
<1> QED BY <1>1, <1>2, <1>3, AroundCalm DEF Next, Fixing

LEMMA InitCalm == Init => CalmAgrees
<1> SUFFICES ASSUME Init PROVE CalmAgrees OBVIOUS
<1>1. /\ wf.fix = "none" /\ wf.status = "running" /\ arts = << >> /\ events = << >> /\ runner.at = "idle"
      /\ file = [f \in File |-> Fresh] /\ hist.starts = 0 /\ hist.call = NoCall
      /\ \A p \in Process : cmd[p].at = "idle"
  BY DEF Init, Asleep, Idle
<1>2. DOMAIN arts = {} /\ DOMAIN events = {} /\ ~Terminal BY <1>1 DEF Terminal
<1>3. OneAtATime BY <1>1 DEF OneAtATime, Active
<1>4. OneKind BY <1>1, <1>2 DEF OneKind, Active, NoCall
<1>5. OneStory BY <1>1, <1>2 DEF OneStory
<1>6. \A p \in Process : Progress(p)
  BY <1>1 DEF Progress, ReportIsThere, RoundsAreThere, PanelIsThere, FixIsThere, Judged
<1> QED BY <1>2, <1>3, <1>4, <1>5, <1>6 DEF CalmAgrees

\* FinishedIsDeliverable of conv mode: as long as the calls of conv and of the fix runner
\* do not overlap, all calls are of one kind with one packet, and nobody else edits the
\* files, whatever finalize_conv makes terminal passes the audit of delivery, however
\* many calls and runs were cut off by a crash and made again before it.
THEOREM FinishedIsDeliverableHolds == Spec => []FinishedIsDeliverable
<1>1. Init => Inv BY InitTyped, InitFits, InitCalm DEF Inv
<1>2. Inv /\ [Next]_vars => Inv' BY NextTyped, FitsAlways, CalmStep DEF Inv
<1>3. Inv => FinishedIsDeliverable BY DEF Inv, CalmAgrees, FinishedIsDeliverable
<1> QED BY <1>1, <1>2, <1>3, PTL DEF Spec
=============================================================================
