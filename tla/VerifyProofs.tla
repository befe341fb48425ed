---------------------------- MODULE VerifyProofs ----------------------------
(***************************************************************************)
(* What holds of VerifyMode for any number of finalizers, calls, crashes,  *)
(* leases and edits, and whatever children answer.                         *)
(***************************************************************************)
EXTENDS VerifyMode, TLAPS, FiniteSetTheorems

\* Where a call may stand, and that a file is there before it is registered.
Place(r, files) ==
  /\ r.step \in {"load", "write", "register"} => r.at \in {"checks", "raw", "findings", "report", "blocked"}
  /\ r.step \in {"read", "append"} => r.at \in {"checks", "findings"}
  /\ r.step \in {"launch", "ask"} => r.at = "panel"
  /\ r.step = "commit" => r.at \in {"report", "blocked"}
  /\ r.step = "register" /\ r.at # "raw" => (IF r.at = "blocked" THEN "report" ELSE r.at) \in files

Typed == TypeOK /\ \A p \in Process : Place(cmd[p], DOMAIN disk)

-----------------------------------------------------------------------------
\* A function with one entry put in.
LEMMA WithPut ==
  ASSUME NEW m, NEW k, NEW v
  PROVE  /\ DOMAIN With(m, k, v) = DOMAIN m \cup {k}
         /\ With(m, k, v)[k] = v
         /\ \A j \in DOMAIN m : j # k => With(m, k, v)[j] = m[j]
BY DEF With

\* What a child did wrong is one of the reasons, and what it raised is typed.
LEMMA ReasonTyped ==
  ASSUME NEW a, NEW log
  PROVE  BlockedReason(a, log) \in Reason
BY DEF BlockedReason, Reason

LEMMA RaisedTyped ==
  ASSUME NEW c \in Child, NEW a \in Answer
  PROVE  RaisedBy(c, a) \subseteq Raised
BY PanelAssumption DEF RaisedBy, Raised, Answer, Child

LEMMA IdleTyped == Idle \in Running /\ \A files : Place(Idle, files)
<1>1. 1 \in Child BY PanelAssumption DEF Child
<1>2. 0 \in 0 .. MaxStarts /\ 0 \in 0 .. MaxLeases /\ 0 \in 0 .. MaxEdits + 1
  BY VerifyAssumption
<1>3. "idle" \in Step /\ "none" \in Stage /\ "plain" \in Kind /\ "none" \in Reason
  BY DEF Step, Stage, Kind, Reason
<1>4. Idle \in Running BY <1>1, <1>2, <1>3 DEF Running, Idle
<1>5. \A files : Place(Idle, files) BY DEF Place, Idle
<1> QED BY <1>4, <1>5

-----------------------------------------------------------------------------
\* A call that moves to `new` leaves the others in place while files only become more.
LEMMA Moved ==
  ASSUME Typed, NEW p \in Process, NEW new \in Running, cmd' = [cmd EXCEPT ![p] = new],
         DOMAIN disk \subseteq DOMAIN disk', Place(new, DOMAIN disk')
  PROVE  cmd' \in [Process -> Running] /\ \A q \in Process : Place(cmd'[q], DOMAIN disk')
<1>1. cmd' \in [Process -> Running] BY DEF Typed, TypeOK
<1>2. ASSUME NEW q \in Process PROVE Place(cmd'[q], DOMAIN disk')
  <2>1. CASE q = p BY <2>1 DEF Typed, TypeOK
  <2>2. CASE q # p
    <3>1. cmd'[q] = cmd[q] BY <2>2 DEF Typed, TypeOK
    <3>2. Place(cmd[q], DOMAIN disk) BY DEF Typed
    <3> QED BY <3>1, <3>2 DEF Place
  <2> QED BY <2>1, <2>2
<1> QED BY <1>1, <1>2

LEMMA Left ==
  ASSUME Typed, NEW p \in Process, Quit(p), DOMAIN disk \subseteq DOMAIN disk'
  PROVE  cmd' \in [Process -> Running] /\ \A q \in Process : Place(cmd'[q], DOMAIN disk')
BY IdleTyped, Moved DEF Quit

LEMMA Gone ==
  ASSUME Typed, NEW p \in Process, NEW a \in Stage, NEW s \in Step, Goto(p, a, s),
         DOMAIN disk \subseteq DOMAIN disk',
         Place([cmd[p] EXCEPT !.at = a, !.step = s], DOMAIN disk')
  PROVE  cmd' \in [Process -> Running] /\ \A q \in Process : Place(cmd'[q], DOMAIN disk')
<1> DEFINE new == [cmd[p] EXCEPT !.at = a, !.step = s]
<1>1. cmd \in [Process -> Running] /\ cmd[p] \in Running BY DEF Typed, TypeOK
<1>2. new \in Running BY <1>1 DEF Running
<1>3. cmd' = [cmd EXCEPT ![p] = new] BY <1>1 DEF Goto
<1> HIDE DEF new
<1>4. Place(new, DOMAIN disk') BY DEF new
<1> QED BY <1>2, <1>3, <1>4, Moved

\* Where a call proceeds to it may stand.
LEMMA Proceeded ==
  ASSUME Typed, NEW p \in Process, Proceed(p), DOMAIN disk \subseteq DOMAIN disk',
         cmd[p].at \in {"checks", "raw", "findings"}
  PROVE  cmd' \in [Process -> Running] /\ \A q \in Process : Place(cmd'[q], DOMAIN disk')
<1>1. cmd[p] \in Running BY DEF Typed, TypeOK
<1>2. After(p) \in {<<"report", "load">>, <<"findings", "load">>, <<"panel", "launch">>, <<"blocked", "load">>}
  BY <1>1 DEF After, Running, Kind
<1>3. ASSUME NEW a \in Stage, NEW s \in Step, After(p) = <<a, s>>,
             s \in {"load", "launch"}, s = "launch" <=> a = "panel",
             a \in {"report", "findings", "panel", "blocked"}
      PROVE  cmd' \in [Process -> Running] /\ \A q \in Process : Place(cmd'[q], DOMAIN disk')
  <2>1. Goto(p, a, s) BY <1>3 DEF Proceed
  <2>2. Place([cmd[p] EXCEPT !.at = a, !.step = s], DOMAIN disk')
    BY <1>1, <1>3 DEF Place, Running
  <2> QED BY <2>1, <2>2, <1>3, Gone
<1> QED BY <1>2, <1>3 DEF Stage, Step

-----------------------------------------------------------------------------
LEMMA InitTyped == Init => Typed
<1> SUFFICES ASSUME Init PROVE Typed
  OBVIOUS
<1>2. cmd \in [Process -> Running] /\ \A p \in Process : Place(cmd[p], DOMAIN disk)
  BY IdleTyped DEF Init
<1>3. wf \in Workflow
  <2>1. [verdict |-> "stopped", version |-> 0, raised |-> {}, why |-> "none"] \in Text
    BY VerifyAssumption DEF Text, Reason
  <2>2. [run |-> 0, raised |-> {}] \in [run : 0 .. MaxStarts, raised : SUBSET Raised]
    BY VerifyAssumption
  <2>3. [id |-> 0, live |-> FALSE] \in [id : 0 .. MaxLeases, live : BOOLEAN]
    BY VerifyAssumption
  <2> QED BY <2>1, <2>2, <2>3 DEF Init, Workflow, Kind
<1>4. hist \in History
  BY VerifyAssumption DEF Init, History
<1>5. target \in 1 .. MaxEdits + 1 /\ session \in [Child -> SUBSET Call] /\ raws \subseteq Child
  BY VerifyAssumption DEF Init
<1>6. DOMAIN arts = {} /\ DOMAIN disk = {} /\ DOMAIN events = {}
  BY DEF Init
<1> QED BY <1>2, <1>3, <1>4, <1>5, <1>6 DEF Typed, TypeOK

\* Who leaves the rest alone need only place its call.
LEMMA OnlyMoves ==
  ASSUME Typed, UNCHANGED <<wf, arts, raws, disk, events, target, session, hist>>,
         cmd' \in [Process -> Running], \A q \in Process : Place(cmd'[q], DOMAIN disk')
  PROVE  Typed'
BY DEF Typed, TypeOK

LEMMA StartTyped ==
  ASSUME Typed, NEW p \in Process, NEW how \in Kind, NEW raised \in SUBSET Raised, Start(p, how, raised)
  PROVE  Typed'
<1> DEFINE new == [Idle EXCEPT !.step = "load", !.at = "checks", !.how = how, !.raised = raised,
                    !.run = hist.starts + 1, !.cites = wf.lease.id,
                    !.seen = "report" \in DOMAIN arts,
                    !.version = IF wf.request = "files" THEN target ELSE 0]
<1>1. hist \in History /\ wf \in Workflow /\ target \in 1 .. MaxEdits + 1 BY DEF Typed, TypeOK
<1>2. hist.starts \in 0 .. MaxStarts /\ wf.lease.id \in 0 .. MaxLeases BY <1>1 DEF History, Workflow
<1>3. hist.starts + 1 \in 0 .. MaxStarts
  BY <1>2, VerifyAssumption DEF Start
<1>4. "load" \in Step /\ "checks" \in Stage BY DEF Step, Stage
<1>5. (IF wf.request = "files" THEN target ELSE 0) \in 0 .. MaxEdits + 1 BY <1>1, VerifyAssumption
<1>6. new \in Running
  <2>1. \A b \in BOOLEAN, v \in 0 .. MaxEdits + 1 :
          [Idle EXCEPT !.step = "load", !.at = "checks", !.how = how, !.raised = raised,
                       !.run = hist.starts + 1, !.cites = wf.lease.id,
                       !.seen = b, !.version = v] \in Running
    BY <1>2, <1>3, <1>4, IdleTyped DEF Running
  <2>2. ("report" \in DOMAIN arts) \in BOOLEAN OBVIOUS
  <2> QED BY <2>1, <2>2, <1>5, Zenon
<1>7. cmd' = [cmd EXCEPT ![p] = new] BY DEF Start
<1>8. \A files : Place(new, files) BY DEF Place, Idle
<1>9. hist' \in History
  <2>1. [how |-> how, raised |-> raised] \in [how : Kind, raised : SUBSET Raised] OBVIOUS
  <2>2. hist' = [hist EXCEPT !.starts = @ + 1, !.used = @ \cup {[how |-> how, raised |-> raised]},
                          !.alone = @ /\ \A q \in Process : cmd[q].step = "idle"]
    BY DEF Start
  <2> HIDE DEF new
  <2>3. \A b \in BOOLEAN : (b /\ \A q \in Process : cmd[q].step = "idle") \in BOOLEAN OBVIOUS
  <2> QED BY <1>1, <1>3, <2>1, <2>2, <2>3 DEF History
<1>10. UNCHANGED <<wf, arts, raws, disk, events, target, session>> BY DEF Start
<1> HIDE DEF new
<1>11. cmd' \in [Process -> Running] /\ \A q \in Process : Place(cmd'[q], DOMAIN disk')
  BY <1>6, <1>7, <1>8, <1>10, Moved
<1> QED BY <1>9, <1>10, <1>11 DEF Typed, TypeOK

LEMMA LoadTyped == ASSUME Typed, NEW p \in Process, Load(p) PROVE Typed'
<1>1. cmd[p] \in Running /\ cmd[p].at \in {"checks", "raw", "findings"} /\ cmd[p].step = "load"
  BY DEF Typed, TypeOK, Load
<1>2. \/ Proceed(p)
      \/ cmd[p].at # "raw" /\ Goto(p, cmd[p].at, "read")
      \/ Goto(p, cmd[p].at, "write")
  BY <1>1 DEF Load
<1>3. UNCHANGED <<wf, arts, raws, disk, events, target, session, hist>> BY DEF Load
<1>4. /\ \A files : Place([cmd[p] EXCEPT !.at = cmd[p].at, !.step = "write"], files)
      /\ cmd[p].at # "raw" => \A files : Place([cmd[p] EXCEPT !.at = cmd[p].at, !.step = "read"], files)
      /\ cmd[p].at \in Stage
  BY <1>1 DEF Place, Running
<1>5. "read" \in Step /\ "write" \in Step BY DEF Step
<1>6. cmd' \in [Process -> Running] /\ \A q \in Process : Place(cmd'[q], DOMAIN disk')
  BY <1>1, <1>2, <1>3, <1>4, <1>5, Proceeded, Gone
<1> QED BY <1>3, <1>6, OnlyMoves

LEMMA LoadReportTyped == ASSUME Typed, NEW p \in Process, LoadReport(p) PROVE Typed'
<1>1. cmd[p] \in Running /\ cmd[p].at \in {"report", "blocked"} /\ cmd[p].step = "load"
  BY DEF Typed, TypeOK, LoadReport
<1>2. \/ Quit(p) \/ Goto(p, cmd[p].at, "commit") \/ Goto(p, cmd[p].at, "write")
  BY DEF LoadReport
<1>3. UNCHANGED <<wf, arts, raws, disk, events, target, session, hist>> BY DEF LoadReport
<1>4. /\ \A files : Place([cmd[p] EXCEPT !.at = cmd[p].at, !.step = "write"], files)
      /\ \A files : Place([cmd[p] EXCEPT !.at = cmd[p].at, !.step = "commit"], files)
      /\ cmd[p].at \in Stage /\ "commit" \in Step /\ "write" \in Step
  BY <1>1 DEF Place, Running, Stage, Step
<1>5. cmd' \in [Process -> Running] /\ \A q \in Process : Place(cmd'[q], DOMAIN disk')
  BY <1>2, <1>3, <1>4, Left, Gone
<1> QED BY <1>3, <1>5, OnlyMoves

LEMMA WriteTyped == ASSUME Typed, NEW p \in Process, Write(p) PROVE Typed'
<1>1. cmd[p] \in Running /\ cmd[p].step = "write"
      /\ cmd[p].at \in {"checks", "raw", "findings", "report", "blocked"}
  BY DEF Typed, TypeOK, Write, Place
<1>2. cmd[p].at # "raw" => Id(p) \in {"checks", "findings", "report"} BY <1>1 DEF Id
<1>3. disk' = IF cmd[p].at = "raw" THEN disk ELSE With(disk, Id(p), Content(p)) BY DEF Write
<1>4. DOMAIN disk' = IF cmd[p].at = "raw" THEN DOMAIN disk ELSE DOMAIN disk \cup {Id(p)}
  BY <1>3, WithPut
<1>5. Place([cmd[p] EXCEPT !.at = cmd[p].at, !.step = "register"], DOMAIN disk')
  BY <1>1, <1>4 DEF Place, Running, Id
<1>6. Goto(p, cmd[p].at, "register") /\ cmd[p].at \in Stage /\ "register" \in Step
  BY <1>1 DEF Write, Stage, Step
<1>7. cmd' \in [Process -> Running] /\ \A q \in Process : Place(cmd'[q], DOMAIN disk')
  BY <1>4, <1>5, <1>6, Gone
<1>8. UNCHANGED <<wf, arts, raws, events, target, session, hist>> BY DEF Write
<1> QED BY <1>2, <1>4, <1>7, <1>8 DEF Typed, TypeOK

LEMMA RegisterTyped == ASSUME Typed, NEW p \in Process, Register(p) PROVE Typed'
<1>1. cmd[p] \in Running /\ cmd[p].step = "register"
      /\ cmd[p].at \in {"checks", "raw", "findings", "report", "blocked"}
      /\ (cmd[p].at # "raw" => Id(p) \in DOMAIN disk)
  BY DEF Typed, TypeOK, Register, Place, Id
<1>2. UNCHANGED <<wf, disk, events, target, session, hist>> BY DEF Register
<1>3. /\ \A files : cmd[p].at \in {"report", "blocked"} => Place([cmd[p] EXCEPT !.at = cmd[p].at, !.step = "commit"], files)
      /\ \A files : cmd[p].at \in {"checks", "findings"} => Place([cmd[p] EXCEPT !.at = cmd[p].at, !.step = "read"], files)
      /\ cmd[p].at \in Stage /\ "commit" \in Step /\ "read" \in Step
  BY <1>1 DEF Place, Running, Stage, Step
<1>4. \/ Quit(p)
      \/ cmd[p].at = "raw" /\ Proceed(p)
      \/ cmd[p].at \in {"report", "blocked"} /\ Goto(p, cmd[p].at, "commit")
      \/ cmd[p].at \in {"checks", "findings"} /\ Goto(p, cmd[p].at, "read")
  BY <1>1 DEF Register
<1>5. cmd' \in [Process -> Running] /\ \A q \in Process : Place(cmd'[q], DOMAIN disk')
  <2>1. CASE Quit(p) BY <2>1, <1>2, Left
  <2>2. CASE cmd[p].at = "raw" /\ Proceed(p) BY <2>2, <1>2, Proceeded
  <2>3. CASE cmd[p].at \in {"report", "blocked"} /\ Goto(p, cmd[p].at, "commit")
    <3>1. Place([cmd[p] EXCEPT !.at = cmd[p].at, !.step = "commit"], DOMAIN disk') BY <2>3, <1>3
    <3> QED BY <3>1, <2>3, <1>2, <1>3, Gone
  <2>4. CASE cmd[p].at \in {"checks", "findings"} /\ Goto(p, cmd[p].at, "read")
    <3>1. Place([cmd[p] EXCEPT !.at = cmd[p].at, !.step = "read"], DOMAIN disk') BY <2>4, <1>3
    <3> QED BY <3>1, <2>4, <1>2, <1>3, Gone
  <2> QED BY <1>4, <2>1, <2>2, <2>3, <2>4
<1>6. raws' \subseteq Child BY <1>1 DEF Register, Typed, TypeOK, Running
<1>7. DOMAIN arts' \subseteq DOMAIN disk
  <2>1. CASE arts' = arts BY <2>1 DEF Typed, TypeOK
  <2>2. CASE cmd[p].at # "raw" /\ arts' = With(arts, Id(p), disk[Id(p)])
    <3>1. DOMAIN arts' = DOMAIN arts \cup {Id(p)} BY <2>2, WithPut
    <3> QED BY <3>1, <2>2, <1>1 DEF Typed, TypeOK
  <2> QED BY <2>1, <2>2 DEF Register
<1> QED BY <1>2, <1>5, <1>6, <1>7 DEF Typed, TypeOK

LEMMA ReadEventsTyped == ASSUME Typed, NEW p \in Process, ReadEvents(p) PROVE Typed'
<1> DEFINE missing == (IF cmd[p].at = "checks" THEN {"checks"} ELSE PanelEvents) \ DOMAIN events
           new == [cmd[p] EXCEPT !.step = "append", !.todo = missing]
<1>1. cmd[p] \in Running /\ cmd[p].at \in {"checks", "findings"} BY DEF Typed, TypeOK, ReadEvents, Place
<1>2. missing \in SUBSET (PanelEvents \cup {"checks"}) /\ "append" \in Step BY DEF Step
<1> HIDE DEF missing
<1>3. new \in Running BY <1>1, <1>2 DEF Running
<1>4. cmd' = [cmd EXCEPT ![p] = new] BY DEF ReadEvents, missing
<1>5. \A files : Place(new, files) BY <1>1 DEF Place, Running
<1>6. UNCHANGED <<wf, arts, raws, disk, events, target, session, hist>> BY DEF ReadEvents
<1> HIDE DEF new
<1>7. cmd' \in [Process -> Running] /\ \A q \in Process : Place(cmd'[q], DOMAIN disk')
  BY <1>3, <1>4, <1>5, <1>6, Moved
<1> QED BY <1>6, <1>7, OnlyMoves

\* The event appended next is one that is to be appended.
NextEvent(p) ==
  Order[CHOOSE i \in DOMAIN Order :
          Order[i] \in cmd[p].todo /\ \A j \in 1 .. i - 1 : Order[j] \notin cmd[p].todo]

LEMMA NextEventIsDue ==
  ASSUME Typed, NEW p \in Process, cmd[p].todo # {}
  PROVE  NextEvent(p) \in cmd[p].todo
<1> DEFINE First(i) == Order[i] \in cmd[p].todo /\ \A j \in 1 .. i - 1 : Order[j] \notin cmd[p].todo
<1>1. cmd[p].todo \subseteq PanelEvents \cup {"checks"} BY DEF Typed, TypeOK, Running
<1>2. DOMAIN Order = 1 .. 4 BY DEF Order
<1>3. \E i \in 1 .. 4 : Order[i] \in cmd[p].todo
  <2>1. PICK e \in cmd[p].todo : TRUE OBVIOUS
  <2>2. e \in {Order[1], Order[2], Order[3], Order[4]} BY <1>1, <2>1 DEF PanelEvents, Order
  <2> QED BY <2>1, <2>2
<1>4. \E i \in 1 .. 4 : First(i)
  <2>1. CASE Order[1] \in cmd[p].todo BY <2>1
  <2>2. CASE Order[1] \notin cmd[p].todo /\ Order[2] \in cmd[p].todo
    <3>1. First(2) BY <2>2
    <3> QED BY <3>1
  <2>3. CASE Order[1] \notin cmd[p].todo /\ Order[2] \notin cmd[p].todo /\ Order[3] \in cmd[p].todo
    <3>1. First(3) BY <2>3
    <3> QED BY <3>1
  <2>4. CASE Order[1] \notin cmd[p].todo /\ Order[2] \notin cmd[p].todo /\ Order[3] \notin cmd[p].todo
    <3>1. Order[4] \in cmd[p].todo BY <2>4, <1>3
    <3>2. First(4) BY <2>4, <3>1
    <3> QED BY <3>2
  <2> QED BY <2>1, <2>2, <2>3, <2>4
<1>5. First(CHOOSE i \in DOMAIN Order : First(i))
  <2> HIDE DEF First
  <2> QED BY <1>2, <1>4
<1> QED BY <1>5 DEF NextEvent

LEMMA AppendTyped == ASSUME Typed, NEW p \in Process, Append(p) PROVE Typed'
<1>1. cmd[p] \in Running /\ cmd[p].step = "append" /\ cmd[p].at \in {"checks", "findings"}
      /\ cmd[p].todo \subseteq PanelEvents \cup {"checks"}
  BY DEF Typed, TypeOK, Append, Place, Running
<1>2. UNCHANGED <<wf, arts, raws, disk, target, session, hist>> BY DEF Append
<1>3. CASE cmd[p].todo = {}
  <2>1. Proceed(p) /\ UNCHANGED events BY <1>3 DEF Append
  <2>2. cmd' \in [Process -> Running] /\ \A q \in Process : Place(cmd'[q], DOMAIN disk')
    BY <2>1, <1>1, <1>2, Proceeded
  <2> QED BY <2>1, <2>2, <1>2, OnlyMoves
<1>4. CASE cmd[p].todo # {} /\ Quit(p) /\ UNCHANGED events
  BY <1>4, <1>2, Left, OnlyMoves
<1>5. CASE cmd[p].todo # {} /\ cmd' = [cmd EXCEPT ![p].todo = @ \ {NextEvent(p)}]
           /\ events' = With(events, NextEvent(p), Review(p))
  <2> DEFINE new == [cmd[p] EXCEPT !.todo = @ \ {NextEvent(p)}]
  <2>1. new \in Running BY <1>1 DEF Running
  <2>2. cmd' = [cmd EXCEPT ![p] = new] BY <1>5
  <2>3. Place(new, DOMAIN disk') BY <1>1 DEF Place, Running
  <2> HIDE DEF new
  <2>4. cmd' \in [Process -> Running] /\ \A q \in Process : Place(cmd'[q], DOMAIN disk')
    BY <2>1, <2>2, <2>3, <1>2, Moved
  <2>5. DOMAIN events' = DOMAIN events \cup {NextEvent(p)} BY <1>5, WithPut
  <2>6. NextEvent(p) \in PanelEvents \cup {"checks"} BY <1>1, <1>5, NextEventIsDue
  <2> QED BY <1>2, <2>4, <2>5, <2>6 DEF Typed, TypeOK
<1> QED BY <1>3, <1>4, <1>5 DEF Append, NextEvent

LEMMA LaunchTyped == ASSUME Typed, NEW p \in Process, Launch(p) PROVE Typed'
<1>1. UNCHANGED <<arts, raws, disk, events, target, session, hist>> BY DEF Launch
<1>2. wf' \in Workflow BY DEF Launch, Typed, TypeOK, Workflow
<1>3. cmd' \in [Process -> Running] /\ \A q \in Process : Place(cmd'[q], DOMAIN disk')
  <2>1. CASE Quit(p) BY <2>1, <1>1, Left
  <2>2. CASE Goto(p, "panel", "ask")
    <3>1. Place([cmd[p] EXCEPT !.at = "panel", !.step = "ask"], DOMAIN disk')
      BY DEF Place, Typed, TypeOK, Running
    <3> QED BY <2>2, <3>1, <1>1, Gone DEF Stage, Step
  <2> QED BY <2>1, <2>2 DEF Launch
<1> QED BY <1>1, <1>2, <1>3 DEF Typed, TypeOK

\* A session answers with a: the call is blocked at it, goes on to the next, has the
\* whole panel, or gives up.
Blocked(p, a, log)  == [cmd[p] EXCEPT !.why = BlockedReason(a, log), !.at = "raw", !.step = "load"]
NextChild(p, a, ok) == [cmd[p] EXCEPT !.child = cmd[p].child + 1, !.admitted = ok,
                                      !.raised = @ \cup RaisedBy(cmd[p].child, a)]
Collected(p, a)     == [cmd[p] EXCEPT !.raised = @ \cup RaisedBy(cmd[p].child, a),
                                      !.at = "findings", !.step = "load"]
Answered(p, a, log) ==
  LET c == cmd[p].child
  IN \/ BlockedReason(a, log) # "none" /\ cmd' = [cmd EXCEPT ![p] = Blocked(p, a, log)]
     \/ /\ BlockedReason(a, log) = "none" /\ c < PanelSize
        /\ \E ok \in BOOLEAN : cmd' = [cmd EXCEPT ![p] = NextChild(p, a, ok)]
     \/ BlockedReason(a, log) = "none" /\ c = PanelSize /\ cmd' = [cmd EXCEPT ![p] = Collected(p, a)]
     \/ Quit(p)

LEMMA AskAnswered ==
  ASSUME NEW p \in Process, cmd \in [Process -> Running], Ask(p)
  PROVE  \E a \in Answers[cmd[p].child] :
           LET log == session[cmd[p].child] \cup a.calls
           IN session' = [session EXCEPT ![cmd[p].child] = log] /\ Answered(p, a, log)
<1> DEFINE c == cmd[p].child
<1>1. PICK a \in Answers[c] :
        LET log == session[c] \cup a.calls
            why == BlockedReason(a, log)
            ok  == cmd[p].admitted /\ ReviewAdmits(a)
        IN /\ session' = [session EXCEPT ![c] = log]
           /\ CASE why # "none" ->
                     cmd' = [cmd EXCEPT ![p].why = why, ![p].at = "raw", ![p].step = "load"]
                [] why = "none" /\ c < PanelSize ->
                     cmd' = [cmd EXCEPT ![p].child = c + 1, ![p].admitted = ok,
                                        ![p].raised = @ \cup RaisedBy(c, a)]
                [] why = "none" /\ c = PanelSize /\ ok ->
                     cmd' = [cmd EXCEPT ![p].raised = @ \cup RaisedBy(c, a),
                                        ![p].at = "findings", ![p].step = "load"]
                [] OTHER -> Quit(p)
  BY Zenon DEF Ask
<1> DEFINE log == session[c] \cup a.calls
           why == BlockedReason(a, log)
           ok  == cmd[p].admitted /\ ReviewAdmits(a)
<1> DEFINE going == [cmd EXCEPT ![p].child = c + 1, ![p].admitted = ok,
                                ![p].raised = @ \cup RaisedBy(c, a)]
           done == [cmd EXCEPT ![p].raised = @ \cup RaisedBy(c, a),
                               ![p].at = "findings", ![p].step = "load"]
<1>2. /\ session' = [session EXCEPT ![c] = log]
      /\ CASE why # "none" ->
                cmd' = [cmd EXCEPT ![p].why = why, ![p].at = "raw", ![p].step = "load"]
           [] why = "none" /\ c < PanelSize -> cmd' = going
           [] why = "none" /\ c = PanelSize /\ ok -> cmd' = done
           [] OTHER -> Quit(p)
  BY <1>1, Zenon
<1>3. ok \in BOOLEAN OBVIOUS
<1>4. Answered(p, a, log)
  <2> HIDE DEF ok, going, done
  <2>1. CASE why # "none"
    <3>1. cmd' = [cmd EXCEPT ![p] = Blocked(p, a, log)] BY <2>1, <1>2 DEF Blocked
    <3> QED BY <3>1, <2>1 DEF Answered
  <2>2. CASE why = "none" /\ c < PanelSize
    <3>1. cmd' = going
      <4>1. why = "none" /\ c < PanelSize BY <2>2
      <4> HIDE DEF why, c, log
      <4>2. c # PanelSize BY <4>1, PanelAssumption
      <4> QED BY <4>1, <4>2, <1>2
    <3>2. going = [cmd EXCEPT ![p] = NextChild(p, a, ok)] BY DEF going, NextChild
    <3> QED BY <3>1, <3>2, <2>2, <1>3 DEF Answered
  <2>3. CASE why = "none" /\ c = PanelSize /\ ok
    <3>0. ~(c < PanelSize)
      <4> HIDE DEF c
      <4>1. PanelSize \in {3, 5} /\ c = PanelSize BY <2>3, PanelAssumption
      <4> QED BY <4>1
    <3>1. cmd' = done BY <2>3, <3>0, <1>2, Zenon
    <3>2. done = [cmd EXCEPT ![p] = Collected(p, a)] BY DEF done, Collected
    <3> QED BY <3>1, <3>2, <2>3 DEF Answered
  <2>4. CASE why = "none" /\ ~(c < PanelSize) /\ ~(c = PanelSize /\ ok)
    <3>1. Quit(p) BY <2>4, <1>2
    <3> QED BY <3>1 DEF Answered
  <2> QED BY <2>1, <2>2, <2>3, <2>4
<1> QED BY <1>2, <1>4

LEMMA AskTyped == ASSUME Typed, NEW p \in Process, Ask(p) PROVE Typed'
<1>1. cmd[p] \in Running /\ cmd[p].step = "ask" /\ cmd[p].at = "panel" /\ cmd[p].child \in Child
  BY DEF Typed, TypeOK, Ask, Place, Running
<1> DEFINE c == cmd[p].child
<1>2. PICK a \in Answers[c] :
        /\ session' = [session EXCEPT ![c] = session[c] \cup a.calls]
        /\ Answered(p, a, session[c] \cup a.calls)
  BY AskAnswered DEF Typed, TypeOK
<1> DEFINE log == session[c] \cup a.calls
<1>3. UNCHANGED <<wf, arts, raws, disk, events, target, hist>> BY DEF Ask
<1>4. a \in Answer /\ a.calls \subseteq Call BY <1>1, <1>2, VerifyAssumption DEF Answer
<1>5. session' \in [Child -> SUBSET Call] BY <1>1, <1>2, <1>4 DEF Typed, TypeOK
<1>6. BlockedReason(a, log) \in Reason BY ReasonTyped
<1>7. RaisedBy(c, a) \subseteq Raised BY <1>1, <1>4, RaisedTyped
<1>8. Answered(p, a, log) BY <1>2
<1>9. cmd' \in [Process -> Running] /\ \A q \in Process : Place(cmd'[q], DOMAIN disk')
  <2> HIDE DEF log
  <2>1. CASE cmd' = [cmd EXCEPT ![p] = Blocked(p, a, log)]
    <3>1. Blocked(p, a, log) \in Running BY <1>1, <1>6 DEF Running, Stage, Step, Blocked
    <3>2. Place(Blocked(p, a, log), DOMAIN disk') BY <1>1 DEF Place, Running, Blocked
    <3> QED BY <3>1, <3>2, <2>1, <1>3, Moved
  <2>2. ASSUME NEW ok \in BOOLEAN, c < PanelSize, cmd' = [cmd EXCEPT ![p] = NextChild(p, a, ok)]
        PROVE  cmd' \in [Process -> Running] /\ \A q \in Process : Place(cmd'[q], DOMAIN disk')
    <3>1. c + 1 \in Child BY <2>2, <1>1, PanelAssumption DEF Child
    <3>2. NextChild(p, a, ok) \in Running BY <1>1, <2>2, <1>7, <3>1 DEF Running, NextChild
    <3>3. Place(NextChild(p, a, ok), DOMAIN disk') BY <1>1 DEF Place, Running, NextChild
    <3> QED BY <3>2, <3>3, <2>2, <1>3, Moved
  <2>3. CASE cmd' = [cmd EXCEPT ![p] = Collected(p, a)]
    <3>1. Collected(p, a) \in Running BY <1>1, <1>7 DEF Running, Stage, Step, Collected
    <3>2. Place(Collected(p, a), DOMAIN disk') BY <1>1 DEF Place, Running, Collected
    <3> QED BY <3>1, <3>2, <2>3, <1>3, Moved
  <2>4. CASE Quit(p) BY <2>4, <1>3, Left
  <2> QED BY <1>8, <2>1, <2>2, <2>3, <2>4 DEF Answered
<1> QED BY <1>3, <1>5, <1>9 DEF Typed, TypeOK

\* What a finalizer records is typed.
LEMMA RecordsTyped ==
  ASSUME Typed, NEW p \in Process
  PROVE  /\ Report(p) \in Text
         /\ Review(p) \in [run : 0 .. MaxStarts, raised : SUBSET Raised]
<1>1. cmd[p] \in Running BY DEF Typed, TypeOK
<1>2. Verdict(p) \in {"needs_fix", "blocked", "pass_with_risks"} BY DEF Verdict
<1>3. 0 \in 0 .. MaxEdits + 1 /\ 0 \in 0 .. MaxStarts /\ "none" \in Reason
  BY VerifyAssumption DEF Reason
<1>4. Report(p) \in Text BY <1>1, <1>2, <1>3 DEF Report, Text, Running
<1>5. Review(p) \in [run : 0 .. MaxStarts, raised : SUBSET Raised] BY <1>1, <1>3 DEF Review, Running
<1> QED BY <1>4, <1>5

LEMMA BlockTyped == ASSUME Typed, NEW p \in Process, Block(p) PROVE Typed'
<1>1. UNCHANGED <<arts, raws, disk, events, target, session, hist>> /\ Quit(p) BY DEF Block
<1>2. wf' \in Workflow BY DEF Block, Typed, TypeOK, Workflow
<1>3. cmd' \in [Process -> Running] /\ \A q \in Process : Place(cmd'[q], DOMAIN disk') BY <1>1, Left
<1> QED BY <1>1, <1>2, <1>3 DEF Typed, TypeOK

LEMMA FinishTyped == ASSUME Typed, NEW p \in Process, Finish(p) PROVE Typed'
<1>1. UNCHANGED <<arts, raws, disk, events, target, session, hist>> /\ Quit(p) BY DEF Finish
<1>2. wf \in Workflow /\ cmd[p].how \in Kind BY DEF Typed, TypeOK, Running
<1>3. Outcome(p) \in {"completed_unreported", "failed_unreported"} BY DEF Outcome
<1>4. [id |-> 0, live |-> FALSE] \in [id : 0 .. MaxLeases, live : BOOLEAN]
  BY VerifyAssumption
<1>5. wf' \in Workflow
  <2>1. CASE wf' = wf BY <2>1, <1>2
  <2>2. CASE wf' = [wf EXCEPT !.status = Outcome(p), !.lease = [id |-> 0, live |-> FALSE],
                      !.how = cmd[p].how, !.review = Review(p), !.text = Report(p)]
    BY <2>2, <1>2, <1>3, <1>4, RecordsTyped DEF Workflow
  <2> QED BY <2>1, <2>2 DEF Finish
<1>6. cmd' \in [Process -> Running] /\ \A q \in Process : Place(cmd'[q], DOMAIN disk') BY <1>1, Left
<1> QED BY <1>1, <1>5, <1>6 DEF Typed, TypeOK

LEMMA CrashTyped == ASSUME Typed, NEW p \in Process, Crash(p) PROVE Typed'
<1>1. UNCHANGED <<wf, arts, raws, disk, events, target, session>> /\ Quit(p) BY DEF Crash
<1>2. hist' \in History BY VerifyAssumption DEF Crash, Typed, TypeOK, History
<1>3. cmd' \in [Process -> Running] /\ \A q \in Process : Place(cmd'[q], DOMAIN disk') BY <1>1, Left
<1> QED BY <1>1, <1>2, <1>3 DEF Typed, TypeOK

LEMMA EnvironmentTyped == ASSUME Typed, Environment PROVE Typed'
<1>1. UNCHANGED <<arts, raws, disk, events, session, cmd>>
  BY DEF Environment, Recover, LeaseExpires, OwnerDecides, Edit
<1>2. wf \in Workflow /\ hist \in History /\ target \in 1 .. MaxEdits + 1 BY DEF Typed, TypeOK
<1>3. wf' \in Workflow /\ hist' \in History /\ target' \in 1 .. MaxEdits + 1
  <2>1. CASE Recover
    <3>1. hist.leases + 1 \in 0 .. MaxLeases BY <2>1, <1>2, VerifyAssumption DEF Recover, History
    <3>2. wf' \in Workflow BY <2>1, <3>1, <1>2 DEF Recover, Workflow
    <3>3. hist' \in History BY <2>1, <3>1, <1>2 DEF Recover, History
    <3> QED BY <2>1, <3>2, <3>3, <1>2 DEF Recover
  <2>2. CASE LeaseExpires
    <3>1. [wf.lease EXCEPT !.live = FALSE] \in [id : 0 .. MaxLeases, live : BOOLEAN]
      BY <1>2 DEF Workflow
    <3>2. wf' = [wf EXCEPT !.lease = [wf.lease EXCEPT !.live = FALSE]]
      BY <2>2, <1>2 DEF LeaseExpires, Workflow
    <3>3. wf' \in Workflow BY <3>1, <3>2, <1>2 DEF Workflow
    <3> QED BY <2>2, <3>3, <1>2 DEF LeaseExpires
  <2>3. CASE OwnerDecides BY <2>3, <1>2 DEF OwnerDecides, Workflow
  <2>4. CASE Edit BY <2>4, <1>2, VerifyAssumption DEF Edit
  <2> QED BY <2>1, <2>2, <2>3, <2>4 DEF Environment
<1> QED BY <1>1, <1>3 DEF Typed, TypeOK

LEMMA StepTyped == Typed /\ [Next]_vars => Typed'
<1> SUFFICES ASSUME Typed, [Next]_vars PROVE Typed'
  OBVIOUS
<1>1. CASE UNCHANGED vars BY <1>1 DEF vars, Typed, TypeOK
<1>2. ASSUME NEW p \in Process, Begin(p) PROVE Typed'
  <2>1. CASE Start(p, "plain", {}) BY <2>1, StartTyped DEF Kind
  <2>2. CASE Start(p, "native", {}) BY <2>2, StartTyped DEF Kind
  <2>3. ASSUME NEW raised \in Packet, Start(p, "packet", raised) PROVE Typed'
    BY <2>3, StartTyped, VerifyAssumption DEF Kind
  <2> QED BY <1>2, <2>1, <2>2, <2>3 DEF Begin
<1>3. ASSUME NEW p \in Process, Work(p) PROVE Typed'
  BY <1>3, LoadTyped, LoadReportTyped, WriteTyped, RegisterTyped, ReadEventsTyped, AppendTyped,
     LaunchTyped, AskTyped, BlockTyped, FinishTyped DEF Work
<1> QED BY <1>1, <1>2, <1>3, CrashTyped, EnvironmentTyped DEF Next

\* TypeOK holds of every verify command, however many finalizers, calls and crashes
\* there are; a file is there whenever its registration reads its hash.
THEOREM VerifyTyped == Spec => []TypeOK
<1>1. Typed => TypeOK BY DEF Typed
<1> QED BY InitTyped, StepTyped, <1>1, PTL DEF Spec

-----------------------------------------------------------------------------
\* What a call loaded or was given at its start it has to its end.
Same(r, n) ==
  n.how = r.how /\ n.cites = r.cites /\ n.seen = r.seen /\ n.version = r.version

\* The ways through a call, with the place it leaves and the place it reaches.
Onward(r, n) ==
  /\ r.step \in {"load", "register", "append"}
  /\ \/ r.at = "checks" /\ r.how = "plain" /\ n.at = "report" /\ n.step = "load"
     \/ r.at = "checks" /\ r.how = "packet" /\ n.at = "findings" /\ n.step = "load"
     \/ r.at = "checks" /\ r.how = "native" /\ n.at = "panel" /\ n.step = "launch"
     \/ r.at = "raw" /\ n.at = "blocked" /\ n.step = "load"
     \/ r.at = "findings" /\ n.at = "report" /\ n.step = "load"

Within(r, n) ==
  /\ n.at = r.at
  /\ \/ r.step = "load" /\ n.step \in {"read", "write", "commit"}
     \/ r.step = "write" /\ n.step = "register"
     \/ r.step = "register" /\ n.step \in {"read", "commit"}
     \/ r.step \in {"read", "append"} /\ n.step = "append"

Paneled(r, n) ==
  /\ r.at = "panel" /\ (n.at # "raw" => n.why = r.why)
  /\ \/ r.step = "launch" /\ n.step = "ask" /\ n.at = "panel"
     \/ r.step = "ask" /\ n.step = "ask" /\ n.at = "panel"
     \/ r.step = "ask" /\ n.step = "load" /\ n.at \in {"raw", "findings"}

Turn(r, n) ==
  \/ n = Idle
  \/ Same(r, n) /\ Paneled(r, n)
  \/ /\ Same(r, n) /\ n.why = r.why /\ n.raised = r.raised /\ n.child = r.child
     /\ Onward(r, n) \/ Within(r, n)

LEMMA QuitTurns ==
  ASSUME Typed, NEW p \in Process, Quit(p)
  PROVE  Turn(cmd[p], cmd'[p])
BY DEF Typed, TypeOK, Quit, Turn

LEMMA GotoTurns ==
  ASSUME Typed, NEW p \in Process, NEW a, NEW s, Goto(p, a, s)
  PROVE  /\ cmd'[p].at = a /\ cmd'[p].step = s /\ Same(cmd[p], cmd'[p])
         /\ cmd'[p].why = cmd[p].why /\ cmd'[p].raised = cmd[p].raised
         /\ cmd'[p].child = cmd[p].child
<1>1. cmd \in [Process -> Running] /\ cmd[p] \in Running BY DEF Typed, TypeOK
<1>2. cmd'[p] = [cmd[p] EXCEPT !.at = a, !.step = s] BY <1>1 DEF Goto
<1> QED BY <1>1, <1>2 DEF Running, Same

LEMMA ProceedTurns ==
  ASSUME Typed, NEW p \in Process, Proceed(p), cmd[p].step \in {"load", "register", "append"},
         cmd[p].at \in {"checks", "raw", "findings"}
  PROVE  Turn(cmd[p], cmd'[p])
<1>1. cmd[p] \in Running BY DEF Typed, TypeOK
<1>2. \/ cmd[p].at = "checks" /\ cmd[p].how = "plain" /\ After(p) = <<"report", "load">>
      \/ cmd[p].at = "checks" /\ cmd[p].how = "packet" /\ After(p) = <<"findings", "load">>
      \/ cmd[p].at = "checks" /\ cmd[p].how = "native" /\ After(p) = <<"panel", "launch">>
      \/ cmd[p].at = "raw" /\ After(p) = <<"blocked", "load">>
      \/ cmd[p].at = "findings" /\ After(p) = <<"report", "load">>
  BY <1>1 DEF After, Running, Kind
<1>3. /\ cmd'[p].at = After(p)[1] /\ cmd'[p].step = After(p)[2]
      /\ Same(cmd[p], cmd'[p]) /\ cmd'[p].why = cmd[p].why /\ cmd'[p].raised = cmd[p].raised
      /\ cmd'[p].child = cmd[p].child
  <2>1. Goto(p, After(p)[1], After(p)[2]) BY DEF Proceed
  <2> QED BY <2>1, GotoTurns
<1>4. Onward(cmd[p], cmd'[p]) BY <1>2, <1>3 DEF Onward
<1> QED BY <1>3, <1>4 DEF Turn

LEMMA OneCallMoves ==
  ASSUME Typed, NEW p \in Process, Begin(p) \/ Work(p) \/ Crash(p)
  PROVE  \A q \in Process : q # p => cmd'[q] = cmd[q]
<1>1. cmd \in [Process -> Running] BY DEF Typed, TypeOK
<1>2. CASE Begin(p) BY <1>1, <1>2 DEF Begin, Start
<1>3. CASE Crash(p) BY <1>1, <1>3 DEF Crash, Quit
<1>4. CASE Work(p)
  <2>1. CASE Load(p) BY <1>1, <2>1 DEF Load, Proceed, Goto
  <2>2. CASE LoadReport(p) BY <1>1, <2>2 DEF LoadReport, Quit, Goto
  <2>3. CASE Write(p) BY <1>1, <2>3 DEF Write, Goto
  <2>4. CASE Register(p)
    <3>1. Quit(p) \/ \E a, s : Goto(p, a, s)
      <4>1. CASE Terminal \/ Registered(p) BY <4>1, <2>4 DEF Register
      <4>2. CASE ~(Terminal \/ Registered(p))
        <5>1. CASE cmd[p].at = "raw" BY <5>1, <4>2, <2>4 DEF Register, Proceed
        <5>2. CASE cmd[p].at \in {"report", "blocked"} BY <5>2, <4>2, <2>4 DEF Register
        <5>3. CASE cmd[p].at \in {"checks", "findings"} BY <5>3, <4>2, <2>4 DEF Register
        <5>4. cmd[p].at \in {"raw", "report", "blocked", "checks", "findings"}
          BY <2>4 DEF Typed, Place, Register
        <5> QED BY <5>1, <5>2, <5>3, <5>4
      <4> QED BY <4>1, <4>2
    <3> QED BY <1>1, <3>1 DEF Quit, Goto
  <2>5. CASE ReadEvents(p) BY <1>1, <2>5 DEF ReadEvents
  <2>6. CASE Append(p) BY <1>1, <2>6 DEF Append, Proceed, Quit, Goto
  <2>7. CASE Launch(p) BY <1>1, <2>7 DEF Launch, Quit, Goto
  <2>8. CASE Ask(p) BY <1>1, <2>8, AskAnswered DEF Answered, Quit
  <2>9. CASE Block(p) \/ Finish(p) BY <1>1, <2>9 DEF Block, Finish, Quit
  <2> QED BY <1>4, <2>1, <2>2, <2>3, <2>4, <2>5, <2>6, <2>7, <2>8, <2>9 DEF Work
<1> QED BY <1>2, <1>3, <1>4

LEMMA WorkTurns == ASSUME Typed, NEW p \in Process, Work(p) PROVE Turn(cmd[p], cmd'[p])
<1>1. cmd \in [Process -> Running] /\ cmd[p] \in Running /\ Place(cmd[p], DOMAIN disk)
  BY DEF Typed, TypeOK
<1>2. ASSUME NEW s, Goto(p, cmd[p].at, s),
             \/ cmd[p].step = "load" /\ s \in {"read", "write", "commit"}
             \/ cmd[p].step = "write" /\ s = "register"
             \/ cmd[p].step = "register" /\ s \in {"read", "commit"}
      PROVE  Turn(cmd[p], cmd'[p])
  <2>1. Same(cmd[p], cmd'[p]) /\ cmd'[p].why = cmd[p].why /\ cmd'[p].raised = cmd[p].raised
        /\ cmd'[p].child = cmd[p].child
    BY <1>2, GotoTurns
  <2>2. cmd'[p].at = cmd[p].at /\ cmd'[p].step = s BY <1>2, GotoTurns
  <2>3. Within(cmd[p], cmd'[p]) BY <1>2, <2>2 DEF Within
  <2> QED BY <2>1, <2>3 DEF Turn
<1>3. CASE Load(p)
  <2>1. cmd[p].step = "load" /\ cmd[p].at \in {"checks", "raw", "findings"} BY <1>3 DEF Load
  <2>2. CASE Proceed(p) BY <2>1, <2>2, ProceedTurns
  <2>3. CASE Goto(p, cmd[p].at, "read") BY <2>1, <2>3, <1>2
  <2>4. CASE Goto(p, cmd[p].at, "write") BY <2>1, <2>4, <1>2
  <2> QED BY <1>3, <2>2, <2>3, <2>4 DEF Load
<1>4. CASE LoadReport(p)
  <2>1. cmd[p].step = "load" BY <1>4 DEF LoadReport
  <2>2. CASE Quit(p) BY <2>2, QuitTurns
  <2>3. CASE Goto(p, cmd[p].at, "commit") BY <2>1, <2>3, <1>2
  <2>4. CASE Goto(p, cmd[p].at, "write") BY <2>1, <2>4, <1>2
  <2> QED BY <1>4, <2>2, <2>3, <2>4 DEF LoadReport
<1>5. CASE Write(p)
  BY <1>2, <1>5 DEF Write
<1>6. CASE Register(p)
  <2>1. cmd[p].step = "register" BY <1>6 DEF Register
  <2>2. CASE Quit(p) BY <2>2, QuitTurns
  <2>3. CASE cmd[p].at = "raw" /\ Proceed(p) BY <2>1, <2>3, ProceedTurns
  <2>4. CASE Goto(p, cmd[p].at, "commit") BY <2>1, <2>4, <1>2
  <2>5. CASE Goto(p, cmd[p].at, "read") BY <2>1, <2>5, <1>2
  <2>6. cmd[p].at \in {"checks", "raw", "findings", "report", "blocked"} BY <2>1, <1>1 DEF Place
  <2> QED BY <1>6, <2>2, <2>3, <2>4, <2>5, <2>6 DEF Register
<1>7. CASE ReadEvents(p)
  BY <1>1, <1>7 DEF ReadEvents, Turn, Same, Within, Running
<1>8. CASE Append(p)
  <2>1. cmd[p].step = "append" /\ cmd[p].at \in {"checks", "findings"} BY <1>1, <1>8 DEF Append, Place
  <2>2. CASE Quit(p) BY <2>2, QuitTurns
  <2>3. CASE Proceed(p) BY <2>1, <2>3, ProceedTurns
  <2>4. CASE \E e : cmd' = [cmd EXCEPT ![p].todo = @ \ {e}]
    BY <1>1, <2>1, <2>4 DEF Turn, Same, Within, Running
  <2> QED BY <1>8, <2>2, <2>3, <2>4 DEF Append
<1>9. CASE Launch(p)
  <2>1. cmd[p].step = "launch" /\ cmd[p].at = "panel" BY <1>1, <1>9 DEF Launch, Place
  <2>2. CASE Quit(p) BY <2>2, QuitTurns
  <2>3. CASE Goto(p, "panel", "ask") BY <2>1, <2>3, GotoTurns DEF Turn, Paneled
  <2> QED BY <1>9, <2>2, <2>3 DEF Launch
<1>10. CASE Ask(p)
  <2>1. cmd[p].step = "ask" /\ cmd[p].at = "panel" BY <1>1, <1>10 DEF Ask, Place
  <2>2. CASE Quit(p) BY <2>2, QuitTurns
  <2>3. PICK a, log : Answered(p, a, log) BY <1>1, <1>10, AskAnswered
  <2>4. CASE cmd' = [cmd EXCEPT ![p] = Blocked(p, a, log)]
    BY <1>1, <2>1, <2>4 DEF Turn, Same, Paneled, Running, Blocked
  <2>5. CASE \E ok : cmd' = [cmd EXCEPT ![p] = NextChild(p, a, ok)]
    BY <1>1, <2>1, <2>5 DEF Turn, Same, Paneled, Running, NextChild
  <2>6. CASE cmd' = [cmd EXCEPT ![p] = Collected(p, a)]
    BY <1>1, <2>1, <2>6 DEF Turn, Same, Paneled, Running, Collected
  <2> QED BY <2>2, <2>3, <2>4, <2>5, <2>6 DEF Answered
<1>11. CASE Block(p) \/ Finish(p)
  BY <1>11, QuitTurns DEF Block, Finish
<1> QED BY <1>3, <1>4, <1>5, <1>6, <1>7, <1>8, <1>9, <1>10, <1>11 DEF Work

\* What a call begins with, whatever its kind.
LEMMA BeginTurns ==
  ASSUME Typed, NEW p \in Process, Begin(p)
  PROVE  /\ cmd[p].step = "idle" /\ wf.status # "completed_unreported"
         /\ cmd'[p].step = "load" /\ cmd'[p].at = "checks"
         /\ cmd'[p].cites = wf.lease.id /\ cmd'[p].seen = ("report" \in DOMAIN arts)
         /\ cmd'[p].version = (IF wf.request = "files" THEN target ELSE 0)
         /\ cmd'[p].why = "none" /\ cmd'[p].child = 1
         /\ hist'.alone = (hist.alone /\ \A q \in Process : cmd[q].step = "idle")
         /\ UNCHANGED <<wf, arts, raws, disk, events, target, session>>
<1>1. cmd \in [Process -> Running] /\ hist \in History BY DEF Typed, TypeOK
<1>2. ASSUME NEW how, NEW raised, Start(p, how, raised)
      PROVE  /\ cmd[p].step = "idle" /\ wf.status # "completed_unreported"
             /\ cmd'[p].step = "load" /\ cmd'[p].at = "checks"
             /\ cmd'[p].cites = wf.lease.id /\ cmd'[p].seen = ("report" \in DOMAIN arts)
             /\ cmd'[p].version = (IF wf.request = "files" THEN target ELSE 0)
             /\ cmd'[p].why = "none" /\ cmd'[p].child = 1
             /\ hist'.alone = (hist.alone /\ \A q \in Process : cmd[q].step = "idle")
             /\ UNCHANGED <<wf, arts, raws, disk, events, target, session>>
  <2>1. cmd[p].step = "idle" /\ wf.status # "completed_unreported"
        /\ UNCHANGED <<wf, arts, raws, disk, events, target, session>>
    BY <1>2 DEF Start
  <2>2. cmd' = [cmd EXCEPT ![p] =
                  [Idle EXCEPT !.step = "load", !.at = "checks", !.how = how, !.raised = raised,
                    !.run = hist.starts + 1, !.cites = wf.lease.id,
                    !.seen = "report" \in DOMAIN arts,
                    !.version = IF wf.request = "files" THEN target ELSE 0]]
    BY <1>2 DEF Start
  <2>3. /\ cmd'[p].step = "load" /\ cmd'[p].at = "checks" /\ cmd'[p].cites = wf.lease.id
        /\ cmd'[p].version = (IF wf.request = "files" THEN target ELSE 0) /\ cmd'[p].why = "none"
        /\ cmd'[p].child = 1
    BY <1>1, <2>2 DEF Idle
  <2>4. cmd'[p].seen = ("report" \in DOMAIN arts) BY <1>1, <2>2, Zenon DEF Idle
  <2>5. hist' = [hist EXCEPT !.starts = @ + 1, !.used = @ \cup {[how |-> how, raised |-> raised]},
                          !.alone = @ /\ \A q \in Process : cmd[q].step = "idle"]
    BY <1>2 DEF Start
  <2>6. hist'.alone = (hist.alone /\ \A q \in Process : cmd[q].step = "idle")
    BY <1>1, <2>5, Zenon DEF History
  <2> QED BY <2>1, <2>3, <2>4, <2>6, Zenon
<1> QED BY <1>2, Zenon DEF Begin

\* Everything but the steps of calls leaves them where they are.
LEMMA OthersStay ==
  ASSUME Typed, Environment \/ UNCHANGED vars
  PROVE  UNCHANGED <<cmd, arts, raws, disk, events, session>>
BY DEF Environment, Recover, LeaseExpires, OwnerDecides, Edit, vars

-----------------------------------------------------------------------------
\* A workflow that has a lease keeps it until it is finished; a call that cites one is
\* about such a workflow, and a native call whose panel was launched cites none.
Guarded == wf.lease.id # 0 \/ Terminal

Fenced(r) ==
  r.how = "native" /\ (r.at \in {"raw", "findings", "report", "blocked"} \/ r.step = "ask") =>
    r.cites = 0

Fence == Typed /\ \A p \in Process : Fenced(cmd[p]) /\ (cmd[p].cites # 0 => Guarded)

LEMMA GuardKept == Typed /\ Guarded /\ [Next]_vars => Guarded'
<1> SUFFICES ASSUME Typed, Guarded, [Next]_vars PROVE Guarded'
  OBVIOUS
<1>1. wf \in Workflow /\ hist \in History BY DEF Typed, TypeOK
<1>2. ASSUME NEW p \in Process, Begin(p) \/ Crash(p) PROVE Guarded'
  BY <1>2 DEF Begin, Start, Crash, Guarded, Terminal
<1>3. ASSUME NEW p \in Process, Work(p) PROVE Guarded'
  <2>1. CASE UNCHANGED wf BY <2>1 DEF Guarded, Terminal
  <2>2. CASE Launch(p) BY <2>2, <1>1 DEF Launch, MayMove, LeaseAdmits, Guarded, Terminal, Workflow
  <2>3. CASE Block(p) BY <2>3, <1>1 DEF Block, MayMove, LeaseAdmits, Guarded, Terminal, Workflow
  <2>4. CASE Finish(p)
    <3>1. Outcome(p) \in {"completed_unreported", "failed_unreported"} BY DEF Outcome
    <3> QED BY <2>4, <3>1, <1>1 DEF Finish, Guarded, Terminal, Workflow
  <2> QED BY <1>3, <2>1, <2>2, <2>3, <2>4
       DEF Work, Load, LoadReport, Write, Register, ReadEvents, Append, Ask
<1>4. CASE Environment
  <2>1. CASE Recover BY <2>1, <1>1 DEF Recover, Guarded, Terminal, Workflow, History
  <2>2. CASE LeaseExpires BY <2>2, <1>1 DEF LeaseExpires, Guarded, Terminal, Workflow
  <2>3. CASE OwnerDecides BY <2>3, <1>1 DEF OwnerDecides, Guarded, Terminal, Workflow
  <2>4. CASE Edit BY <2>4 DEF Edit, Guarded, Terminal
  <2> QED BY <1>4, <2>1, <2>2, <2>3, <2>4 DEF Environment
<1>5. CASE UNCHANGED vars BY <1>5 DEF vars, Guarded, Terminal
<1> QED BY <1>2, <1>3, <1>4, <1>5 DEF Next

LEMMA FenceStep == Fence /\ [Next]_vars => Fence'
<1> SUFFICES ASSUME Fence, [Next]_vars PROVE Fence'
  OBVIOUS
<1>1. Typed /\ Typed' BY StepTyped DEF Fence
<1>2. ASSUME NEW q \in Process, cmd'[q] = cmd[q]
      PROVE  Fenced(cmd'[q]) /\ (cmd'[q].cites # 0 => Guarded')
  BY <1>1, <1>2, GuardKept DEF Fence
<1>3. ASSUME NEW p \in Process, Begin(p)
      PROVE  Fenced(cmd'[p]) /\ (cmd'[p].cites # 0 => Guarded')
  <2>1. Fenced(cmd'[p]) BY <1>1, <1>3, BeginTurns DEF Fenced
  <2>2. cmd'[p].cites # 0 => Guarded BY <1>1, <1>3, BeginTurns DEF Guarded
  <2> QED BY <2>1, <2>2, <1>1, GuardKept
<1>4. ASSUME NEW p \in Process, cmd'[p] = Idle
      PROVE  Fenced(cmd'[p]) /\ (cmd'[p].cites # 0 => Guarded')
  BY <1>4 DEF Fenced, Idle
<1>5. ASSUME NEW p \in Process, Work(p)
      PROVE  Fenced(cmd'[p]) /\ (cmd'[p].cites # 0 => Guarded')
  <2>1. Turn(cmd[p], cmd'[p]) BY <1>1, <1>5, WorkTurns
  <2>2. CASE cmd'[p] = Idle BY <2>2, <1>4
  <2>3. CASE Same(cmd[p], cmd'[p])
    <3>1. cmd'[p].cites # 0 => Guarded' BY <2>3, <1>1, GuardKept DEF Same, Fence
    <3>2. Fenced(cmd[p]) BY DEF Fence
    <3>3. CASE cmd[p].step = "launch" /\ cmd[p].how = "native" /\ cmd'[p].step = "ask"
      <4>1. Launch(p)
        BY <1>5, <3>3 DEF Work, Load, LoadReport, Write, Register, ReadEvents, Append, Launch, Ask,
             Block, Finish
      <4>2. cmd'[p].step # "idle" BY <3>3
      <4>3. ~Quit(p) BY <4>2, <1>1 DEF Quit, Idle, Typed, TypeOK
      <4>4. MayMove("running", 0) BY <4>1, <4>3 DEF Launch
      <4>5. wf.lease.id = 0 /\ ~Terminal BY <4>4 DEF MayMove, LeaseAdmits
      <4>6. cmd[p].cites = 0 BY <4>5 DEF Fence, Guarded
      <4>7. Fenced(cmd'[p]) BY <4>6, <2>3 DEF Fenced, Same
      <4> QED BY <4>7, <3>1
    <3>4. CASE ~(cmd[p].step = "launch" /\ cmd[p].how = "native" /\ cmd'[p].step = "ask")
      <4>1. Onward(cmd[p], cmd'[p]) \/ Within(cmd[p], cmd'[p]) \/ Paneled(cmd[p], cmd'[p]) \/ cmd'[p] = Idle
        BY <2>1 DEF Turn
      <4>2. CASE Onward(cmd[p], cmd'[p]) BY <4>2, <2>3, <3>1, <3>2 DEF Onward, Fenced, Same
      <4>3. CASE Within(cmd[p], cmd'[p]) BY <4>3, <2>3, <3>1, <3>2 DEF Within, Fenced, Same
      <4>4. CASE Paneled(cmd[p], cmd'[p]) BY <4>4, <2>3, <3>1, <3>2, <3>4 DEF Paneled, Fenced, Same
      <4> QED BY <3>1, <4>1, <4>2, <4>3, <4>4, <1>4
    <3> QED BY <3>3, <3>4
  <2> QED BY <2>1, <2>2, <2>3 DEF Turn
<1>6. ASSUME NEW p \in Process, Begin(p) \/ Work(p) \/ Crash(p), NEW q \in Process
      PROVE  Fenced(cmd'[q]) /\ (cmd'[q].cites # 0 => Guarded')
  <2>1. CASE q # p BY <1>1, <1>2, <1>6, <2>1, OneCallMoves
  <2>2. CASE q = p /\ Crash(p)
    <3>1. cmd'[p] = Idle BY <1>1, <2>2 DEF Crash, Quit, Typed, TypeOK
    <3> QED BY <3>1, <2>2, <1>4
  <2> QED BY <1>3, <1>5, <1>6, <2>1, <2>2
<1>7. ASSUME Environment \/ UNCHANGED vars, NEW q \in Process
      PROVE  Fenced(cmd'[q]) /\ (cmd'[q].cites # 0 => Guarded')
  BY <1>1, <1>2, <1>7, OthersStay
<1>8. \A q \in Process : Fenced(cmd'[q]) /\ (cmd'[q].cites # 0 => Guarded')
  BY <1>6, <1>7 DEF Next
<1> QED BY <1>1, <1>8 DEF Fence

\* Recovery takes a stalled native launch out of the running, however many finalizers,
\* leases and crashes there are: while a lease is held, no answer of a panel launched
\* before it is recorded.
THEOREM StalledPanelStaysFenced == Spec => StalledPanelIsFenced
<1>1. Init => Fence
  <2> SUFFICES ASSUME Init PROVE Fence
    OBVIOUS
  <2>1. \A p \in Process : cmd[p] = Idle BY DEF Init
  <2> QED BY <2>1, InitTyped DEF Fence, Fenced, Idle
<1>2. ASSUME Fence, [Next]_vars, wf.lease.id # 0, wf'.status # wf.status
      PROVE  wf.lease.live /\ wf'.status # "blocked" /\ wf'.how # "native"
  <2>1. wf \in Workflow BY <1>2 DEF Fence, Typed, TypeOK
  <2>2. ~Environment
    BY <1>2, <2>1 DEF Environment, Recover, LeaseExpires, OwnerDecides, Edit, Workflow
  <2>3. PICK p \in Process : Work(p)
    BY <1>2, <2>2 DEF Next, vars, Begin, Start, Crash
  <2>4. Launch(p) \/ Block(p) \/ Finish(p)
    BY <1>2, <2>3 DEF Work, Load, LoadReport, Write, Register, ReadEvents, Append, Ask
  <2>5. ~Launch(p) /\ ~Block(p) BY <1>2 DEF Launch, Block, MayMove, LeaseAdmits
  <2>6. /\ cmd[p].at = "report" /\ MayMove(Outcome(p), cmd[p].cites)
        /\ wf'.status = Outcome(p) /\ wf'.how = cmd[p].how
    BY <1>2, <2>1, <2>4, <2>5 DEF Finish, Workflow
  <2>7. wf.lease.live /\ cmd[p].cites # 0 BY <1>2, <2>6 DEF MayMove, LeaseAdmits
  <2>8. cmd[p].how # "native" BY <2>6, <2>7, <1>2 DEF Fence, Fenced
  <2> QED BY <2>6, <2>7, <2>8 DEF Outcome
<1>3. Fence /\ [Next]_vars =>
        [wf.lease.id # 0 /\ wf'.status # wf.status =>
           wf.lease.live /\ wf'.status # "blocked" /\ wf'.how # "native"]_vars
  BY <1>2
<1> QED BY <1>1, <1>3, FenceStep, PTL DEF Spec, StalledPanelIsFenced

-----------------------------------------------------------------------------
\* Calls that do not overlap, reports that are there once they are relied on, and what a
\* call on a finished workflow may still write: no report, and only what is not
\* registered.
Late(r) ==
  /\ r.seen
  /\ r.step = "write" /\ r.at # "raw" =>
       /\ r.at \in {"checks", "findings"} /\ r.at \notin DOMAIN arts
       /\ r.at = "checks" => wf.request = "files"

OneAtATime ==
  hist.alone => \A p, q \in Process : cmd[p].step # "idle" /\ cmd[q].step # "idle" => p = q

ReportIsThere ==
  /\ \A p \in Process : cmd[p].seen \/ cmd[p].step = "commit" => "report" \in DOMAIN arts
  /\ Terminal => "report" \in DOMAIN arts

OnlyLate == Terminal /\ hist.alone => \A p \in Process : cmd[p].step # "idle" => Late(cmd[p])

Keep == Typed /\ OneAtATime /\ ReportIsThere /\ OnlyLate

\* Who works is not idle.
LEMMA WorkIsBusy == ASSUME NEW p \in Process, Work(p) PROVE cmd[p].step # "idle"
BY DEF Work, Load, LoadReport, Write, Register, ReadEvents, Append, Launch, Ask, Block, Finish

\* Once calls overlapped, they did.
LEMMA AloneEarlier == Typed /\ [Next]_vars /\ hist'.alone => hist.alone
<1> SUFFICES ASSUME Typed, [Next]_vars, hist'.alone PROVE hist.alone
  OBVIOUS
<1>1. hist \in History BY DEF Typed, TypeOK
<1>2. ASSUME NEW p \in Process, Begin(p) PROVE hist.alone BY <1>2, BeginTurns
<1>3. ASSUME NEW p \in Process, Crash(p) PROVE hist.alone BY <1>1, <1>3 DEF Crash, History
<1>4. ASSUME NEW p \in Process, Work(p) PROVE hist.alone
  BY <1>4 DEF Work, Load, LoadReport, Write, Register, ReadEvents, Append, Launch, Ask, Block, Finish
<1>5. CASE Environment BY <1>1, <1>5 DEF Environment, Recover, LeaseExpires, OwnerDecides, Edit, History
<1>6. CASE UNCHANGED vars BY <1>6 DEF vars
<1> QED BY <1>2, <1>3, <1>4, <1>5, <1>6 DEF Next

\* Nothing of a finished workflow that the audit looks at changes, and no id is taken.
LEMMA FinishedIsFrozen ==
  ASSUME Typed, Terminal, [Next]_vars
  PROVE  /\ wf'.status = wf.status /\ wf'.request = wf.request /\ wf'.how = wf.how
         /\ wf'.review = wf.review /\ wf'.text = wf.text
         /\ arts' = arts
<1>1. wf \in Workflow BY DEF Typed, TypeOK
<1>2. ASSUME NEW p \in Process, Work(p) PROVE UNCHANGED <<wf, arts>>
  BY <1>2 DEF Work, Load, LoadReport, Write, Register, ReadEvents, Append, Launch, Ask, Block,
       Finish, MayMove
<1>3. ASSUME NEW p \in Process, Begin(p) \/ Crash(p) PROVE UNCHANGED <<wf, arts>>
  BY <1>3 DEF Begin, Start, Crash
<1>4. CASE Environment
  BY <1>1, <1>4 DEF Environment, Recover, LeaseExpires, OwnerDecides, Edit, Terminal, Workflow
<1>5. CASE UNCHANGED vars BY <1>5 DEF vars
<1> QED BY <1>2, <1>3, <1>4, <1>5 DEF Next

LEMMA ArtsGrow == Typed /\ [Next]_vars => DOMAIN arts \subseteq DOMAIN arts'
<1> SUFFICES ASSUME Typed, [Next]_vars PROVE DOMAIN arts \subseteq DOMAIN arts'
  OBVIOUS
<1>1. ASSUME NEW p \in Process, Work(p) PROVE DOMAIN arts \subseteq DOMAIN arts'
  <2>1. CASE UNCHANGED arts BY <2>1
  <2>2. CASE arts' = With(arts, Id(p), disk[Id(p)])
    <3>1. DOMAIN arts' = DOMAIN arts \cup {Id(p)} BY <2>2, WithPut
    <3> QED BY <3>1
  <2>3. Register(p) => UNCHANGED arts \/ arts' = With(arts, Id(p), disk[Id(p)]) BY DEF Register
  <2> QED BY <1>1, <2>1, <2>2, <2>3
       DEF Work, Load, LoadReport, Write, ReadEvents, Append, Launch, Ask, Block, Finish
<1>2. ASSUME NEW p \in Process, Begin(p) \/ Crash(p) PROVE UNCHANGED arts
  BY <1>2 DEF Begin, Start, Crash
<1>3. CASE Environment \/ UNCHANGED vars BY <1>3, OthersStay
<1> QED BY <1>1, <1>2, <1>3 DEF Next

\* A call that is about to commit has its report registered.
LEMMA CommitHasReport ==
  ASSUME Keep, NEW p \in Process, Work(p), cmd'[p].step = "commit"
  PROVE  "report" \in DOMAIN arts'
<1>1. Typed /\ cmd \in [Process -> Running] /\ cmd[p] \in Running BY DEF Keep, Typed, TypeOK
<1>2. Turn(cmd[p], cmd'[p]) BY <1>1, WorkTurns
<1>3. cmd[p].step \in {"load", "register"} /\ cmd'[p].at = cmd[p].at
  BY <1>2 DEF Turn, Idle, Onward, Within, Paneled
<1>4. Place(cmd'[p], DOMAIN disk') BY <1>1, StepTyped DEF Typed, Next
<1>5. cmd'[p].at \in {"report", "blocked"} BY <1>4 DEF Place
<1>6. CASE LoadReport(p)
  <2>1. ~Goto(p, cmd[p].at, "write") BY <1>1, GotoTurns
  <2>2. ~Quit(p) BY <1>1 DEF Quit, Idle
  <2>3. CASE cmd[p].at = "report"
    <3>1. cmd[p].seen BY <1>6, <2>1, <2>3, Zenon DEF LoadReport
    <3> QED BY <3>1, <1>6 DEF Keep, ReportIsThere, LoadReport
  <2>4. CASE cmd[p].at = "blocked"
    <3>0. ~(cmd[p].at = "report") BY <2>4
    <3>1. Registered(p)
      <4>1. ~Registered(p) => Goto(p, cmd[p].at, "write") BY <1>6, <3>0, Zenon DEF LoadReport
      <4> QED BY <4>1, <2>1
    <3> QED BY <3>1, <2>4, <1>6 DEF Registered, Id, LoadReport
  <2> QED BY <1>3, <1>5, <2>3, <2>4
<1>7. CASE Register(p)
  <2>1. ~Quit(p) BY <1>1 DEF Quit, Idle
  <2>2. cmd[p].at # "raw" /\ Id(p) = "report" BY <1>3, <1>5 DEF Id
  <2>3. arts' = With(arts, Id(p), disk[Id(p)]) BY <1>7, <2>1, <2>2 DEF Register
  <2>4. DOMAIN arts' = DOMAIN arts \cup {Id(p)} BY <2>3, WithPut
  <2> QED BY <2>2, <2>4
<1>8. LoadReport(p) \/ Register(p)
  <2>1. ~Load(p) BY <1>3, <1>5 DEF Load
  <2> QED BY <1>3, <2>1 DEF Work, Write, ReadEvents, Append, Launch, Ask, Block, Finish
<1> QED BY <1>6, <1>7, <1>8

\* A finished workflow was so before, or was finished by the one call there is.
LEMMA FinishedBy ==
  ASSUME Typed, [Next]_vars, Terminal'
  PROVE  Terminal \/ \E p \in Process : Finish(p)
<1>1. wf \in Workflow BY DEF Typed, TypeOK
<1>2. ASSUME NEW p \in Process, Begin(p) \/ Crash(p) PROVE Terminal
  BY <1>2 DEF Begin, Start, Crash, Terminal
<1>3. ASSUME NEW p \in Process, Work(p), ~Finish(p) PROVE Terminal
  <2>1. CASE Launch(p) \/ Block(p) BY <1>1, <2>1 DEF Launch, Block, Terminal, Workflow
  <2>2. CASE UNCHANGED wf BY <2>2 DEF Terminal
  <2> QED BY <1>3, <2>1, <2>2 DEF Work, Load, LoadReport, Write, Register, ReadEvents, Append, Ask
<1>4. CASE Environment
  BY <1>1, <1>4 DEF Environment, Recover, LeaseExpires, OwnerDecides, Edit, Terminal, Workflow
<1>5. CASE UNCHANGED vars BY <1>5 DEF vars, Terminal
<1> QED BY <1>2, <1>3, <1>4, <1>5 DEF Next

LEMMA OneAtATimeStep == Keep /\ [Next]_vars => OneAtATime'
<1> SUFFICES ASSUME Keep, [Next]_vars, hist'.alone,
                    NEW q \in Process, NEW r \in Process,
                    cmd'[q].step # "idle", cmd'[r].step # "idle"
             PROVE  q = r
  BY DEF OneAtATime
<1>1. Typed /\ hist.alone BY AloneEarlier DEF Keep
<1>2. \A u, v \in Process : cmd[u].step # "idle" /\ cmd[v].step # "idle" => u = v
  BY <1>1 DEF Keep, OneAtATime
<1>3. ASSUME NEW p \in Process, Begin(p) PROVE q = r
  <2>1. \A u \in Process : cmd[u].step = "idle" BY <1>1, <1>3, BeginTurns
  <2> QED BY <2>1, <1>1, <1>3, OneCallMoves
<1>4. ASSUME NEW p \in Process, Work(p) \/ Crash(p) PROVE q = r
  <2>1. cmd[p].step # "idle" BY <1>4, WorkIsBusy DEF Crash
  <2> QED BY <2>1, <1>1, <1>2, <1>4, OneCallMoves
<1>5. CASE Environment \/ UNCHANGED vars BY <1>1, <1>2, <1>5, OthersStay
<1> QED BY <1>3, <1>4, <1>5 DEF Next

LEMMA ReportIsThereStep == Keep /\ [Next]_vars => ReportIsThere'
<1> SUFFICES ASSUME Keep, [Next]_vars PROVE ReportIsThere'
  OBVIOUS
<1>1. Typed /\ DOMAIN arts \subseteq DOMAIN arts' BY ArtsGrow DEF Keep
<1>2. ASSUME NEW q \in Process, cmd'[q] = cmd[q]
      PROVE  cmd'[q].seen \/ cmd'[q].step = "commit" => "report" \in DOMAIN arts'
  BY <1>1, <1>2 DEF Keep, ReportIsThere
<1>3. ASSUME NEW q \in Process, cmd'[q] = Idle
      PROVE  cmd'[q].seen \/ cmd'[q].step = "commit" => "report" \in DOMAIN arts'
  BY <1>3 DEF Idle
<1>4. ASSUME NEW p \in Process, Begin(p)
      PROVE  cmd'[p].seen \/ cmd'[p].step = "commit" => "report" \in DOMAIN arts'
  BY <1>1, <1>4, BeginTurns
<1>5. ASSUME NEW p \in Process, Work(p)
      PROVE  cmd'[p].seen \/ cmd'[p].step = "commit" => "report" \in DOMAIN arts'
  <2>1. Turn(cmd[p], cmd'[p]) BY <1>1, <1>5, WorkTurns
  <2>2. cmd'[p] = Idle \/ cmd'[p].seen = cmd[p].seen BY <2>1 DEF Turn, Same
  <2>3. cmd'[p].seen => "report" \in DOMAIN arts'
    <3>1. cmd[p].seen => "report" \in DOMAIN arts BY DEF Keep, ReportIsThere
    <3>2. CASE cmd'[p] = Idle BY <3>2, <1>3
    <3>3. CASE cmd'[p].seen = cmd[p].seen BY <3>1, <3>3, <1>1
    <3> QED BY <3>2, <3>3, <2>2
  <2>4. cmd'[p].step = "commit" => "report" \in DOMAIN arts' BY <1>5, CommitHasReport
  <2> QED BY <2>3, <2>4
<1>6. ASSUME NEW p \in Process, Begin(p) \/ Work(p) \/ Crash(p), NEW q \in Process
      PROVE  cmd'[q].seen \/ cmd'[q].step = "commit" => "report" \in DOMAIN arts'
  <2>1. CASE q # p BY <1>1, <1>2, <1>6, <2>1, OneCallMoves
  <2>2. CASE q = p /\ Crash(p)
    <3>1. cmd'[p] = Idle BY <1>1, <2>2 DEF Crash, Quit, Typed, TypeOK
    <3> QED BY <3>1, <2>2, <1>3
  <2> QED BY <1>4, <1>5, <1>6, <2>1, <2>2
<1>7. ASSUME Environment \/ UNCHANGED vars, NEW q \in Process
      PROVE  cmd'[q].seen \/ cmd'[q].step = "commit" => "report" \in DOMAIN arts'
  BY <1>1, <1>2, <1>7, OthersStay
<1>8. Terminal' => "report" \in DOMAIN arts'
  <2>1. CASE Terminal BY <2>1, <1>1 DEF Keep, ReportIsThere
  <2>2. ASSUME NEW p \in Process, Finish(p) PROVE "report" \in DOMAIN arts'
    BY <2>2, <1>1 DEF Finish, Keep, ReportIsThere
  <2> QED BY <1>1, <2>1, <2>2, FinishedBy
<1> QED BY <1>6, <1>7, <1>8 DEF Next, ReportIsThere

\* What a call on a finished workflow goes on to write.
LEMMA LateStays ==
  ASSUME Keep, Terminal, NEW p \in Process, Work(p), Late(cmd[p]), cmd'[p].step # "idle"
  PROVE  Late(cmd'[p])
<1>1. Typed /\ cmd[p] \in Running BY DEF Keep, Typed, TypeOK
<1>2. Turn(cmd[p], cmd'[p]) /\ cmd'[p] # Idle BY <1>1, WorkTurns DEF Idle
<1>3. cmd'[p].seen BY <1>2 DEF Turn, Same, Late
<1>4. ASSUME cmd'[p].step = "write", cmd'[p].at # "raw"
      PROVE  /\ cmd'[p].at \in {"checks", "findings"} /\ cmd'[p].at \notin DOMAIN arts
             /\ cmd'[p].at = "checks" => wf.request = "files"
  <2>1. cmd[p].step = "load" /\ cmd'[p].at = cmd[p].at
    BY <1>2, <1>4 DEF Turn, Onward, Within, Paneled
  <2>2. CASE Load(p)
    <3>1. ~Goto(p, cmd[p].at, "read") BY <1>1, <1>4, GotoTurns
    <3>2. ~Proceed(p)
      <4>1. ASSUME Proceed(p) PROVE FALSE
        <5>1. cmd'[p].step = After(p)[2] BY <1>1, <4>1, GotoTurns DEF Proceed
        <5>2. cmd[p].at \in {"checks", "raw", "findings"} BY <2>2 DEF Load
        <5>3. After(p)[2] \in {"load", "launch"} BY <5>2, <1>1 DEF After, Running, Kind
        <5> QED BY <5>1, <5>3, <1>4
      <4> QED BY <4>1
    <3>3. cmd[p].at \in {"checks", "findings"} BY <2>1, <2>2, <1>4 DEF Load
    <3>4. cmd[p].at = "checks" => wf.request = "files" BY <2>2, <3>2 DEF Load
    <3>5. ~Registered(p) BY <2>2, <3>1, <3>3, <3>4 DEF Load
    <3>6. cmd[p].at \notin DOMAIN arts BY <3>3, <3>5 DEF Registered, Id
    <3> QED BY <2>1, <3>3, <3>4, <3>6
  <2>3. CASE LoadReport(p)
    <3>1. cmd[p].seen /\ "report" \in DOMAIN arts BY DEF Late, Keep, ReportIsThere
    <3>2. cmd[p].at \in {"report", "blocked"} BY <2>3 DEF LoadReport
    <3>3. Registered(p) BY <3>1, <3>2 DEF Registered, Id
    <3>4. ~Goto(p, cmd[p].at, "commit") BY <1>1, <1>4, GotoTurns
    <3>5. ~Quit(p) BY <1>1, <1>4 DEF Quit, Idle, Typed, TypeOK
    <3>6. FALSE
      <4>1. CASE cmd[p].at = "report"
        <5>1. CASE disk["report"] = Report(p) BY <2>3, <4>1, <3>1, <3>4, <5>1 DEF LoadReport
        <5>2. CASE disk["report"] # Report(p) BY <2>3, <4>1, <3>1, <3>5, <5>2 DEF LoadReport
        <5> QED BY <5>1, <5>2
      <4>2. CASE cmd[p].at = "blocked"
        <5>1. CASE disk["report"] = Report(p) BY <2>3, <4>2, <3>3, <3>4, <5>1 DEF LoadReport
        <5>2. CASE disk["report"] # Report(p) BY <2>3, <4>2, <3>3, <3>5, <5>2 DEF LoadReport
        <5> QED BY <5>1, <5>2
      <4> QED BY <3>2, <4>1, <4>2
    <3> QED BY <3>6
  <2> QED BY <2>1, <2>2, <2>3
       DEF Work, Write, Register, ReadEvents, Append, Launch, Ask, Block, Finish
<1> QED BY <1>3, <1>4 DEF Late

LEMMA OnlyLateStep == Keep /\ [Next]_vars => OnlyLate'
<1> SUFFICES ASSUME Keep, [Next]_vars, Terminal', hist'.alone,
                    NEW q \in Process, cmd'[q].step # "idle"
             PROVE  Late(cmd[q])'
  BY DEF OnlyLate
<1>1. Typed /\ hist.alone BY AloneEarlier DEF Keep
<1>2. \A u, v \in Process : cmd[u].step # "idle" /\ cmd[v].step # "idle" => u = v
  BY <1>1 DEF Keep, OneAtATime
<1>3. ASSUME NEW p \in Process, Finish(p) PROVE FALSE
  <2>1. Work(p) BY <1>3 DEF Work
  <2>2. cmd'[p] = Idle BY <1>1, <1>3 DEF Finish, Quit, Typed, TypeOK
  <2>3. q # p BY <2>2 DEF Idle
  <2>4. cmd[q].step # "idle" BY <1>1, <2>1, <2>3, OneCallMoves
  <2> QED BY <1>2, <2>1, <2>3, <2>4, WorkIsBusy
<1>4. Terminal BY <1>1, <1>3, FinishedBy
<1>5. wf'.request = wf.request /\ arts' = arts BY <1>1, <1>4, FinishedIsFrozen
<1>6. Late(cmd'[q]) => Late(cmd[q])' BY <1>5 DEF Late
<1>7. cmd[q].step # "idle" => Late(cmd[q]) BY <1>1, <1>4 DEF Keep, OnlyLate
<1>8. ASSUME NEW p \in Process, Begin(p) PROVE Late(cmd'[q])
  <2>1. \A u \in Process : cmd[u].step = "idle" BY <1>1, <1>8, BeginTurns
  <2>2. q = p BY <2>1, <1>1, <1>8, OneCallMoves
  <2>3. cmd'[p].step = "load" /\ (cmd'[p].seen = ("report" \in DOMAIN arts)) BY <1>1, <1>8, BeginTurns
  <2>4. "report" \in DOMAIN arts BY <1>4 DEF Keep, ReportIsThere
  <2>5. cmd'[p].seen BY <2>3, <2>4
  <2> QED BY <2>2, <2>3, <2>5 DEF Late
<1>9. ASSUME NEW p \in Process, Work(p) \/ Crash(p) PROVE Late(cmd'[q])
  <2>1. cmd[p].step # "idle" BY <1>9, WorkIsBusy DEF Crash
  <2>2. q = p BY <2>1, <1>1, <1>2, <1>9, OneCallMoves
  <2>3. Work(p)
    <3>1. Crash(p) => cmd'[p] = Idle BY <1>1 DEF Crash, Quit, Typed, TypeOK
    <3> QED BY <3>1, <2>2, <1>9 DEF Idle
  <2> QED BY <2>1, <2>2, <2>3, <1>4, <1>7, LateStays
<1>10. CASE Environment \/ UNCHANGED vars
  <2>1. cmd'[q] = cmd[q] BY <1>1, <1>10, OthersStay
  <2> QED BY <2>1, <1>6, <1>7
<1> QED BY <1>6, <1>8, <1>9, <1>10 DEF Next

LEMMA KeepStep == Keep /\ [Next]_vars => Keep'
BY StepTyped, OneAtATimeStep, ReportIsThereStep, OnlyLateStep DEF Keep

LEMMA InitKeep == Init => Keep
<1> SUFFICES ASSUME Init PROVE Keep
  OBVIOUS
<1>1. \A p \in Process : cmd[p].step = "idle" /\ ~cmd[p].seen BY DEF Init, Idle
<1>2. ~Terminal BY DEF Init, Terminal
<1> QED BY <1>1, <1>2, InitTyped DEF Keep, OneAtATime, ReportIsThere, OnlyLate

\* Whatever is written or logged after the finish, the audit sees what it saw before.
LEMMA FilesOfTheFinishedStay ==
  ASSUME Keep, [Next]_vars, Terminal, hist.alone
  PROVE  /\ \A id \in DOMAIN arts : disk'[id] = disk[id]
         /\ DOMAIN events \subseteq DOMAIN events'
         /\ \A e \in DOMAIN events : events'[e] = events[e]
<1>1. Typed BY DEF Keep
<1>2. ASSUME NEW p \in Process, Write(p) PROVE \A id \in DOMAIN arts : disk'[id] = disk[id]
  <2>1. cmd[p].step = "write" BY <1>2 DEF Write
  <2>2. Late(cmd[p]) BY <2>1 DEF Keep, OnlyLate
  <2>3. CASE cmd[p].at = "raw" BY <1>2, <2>3 DEF Write
  <2>4. CASE cmd[p].at # "raw"
    <3>1. Id(p) \notin DOMAIN arts BY <2>1, <2>2, <2>4 DEF Late, Id
    <3>2. disk' = With(disk, Id(p), Content(p)) BY <1>2, <2>4 DEF Write
    <3>3. \A j \in DOMAIN disk : j # Id(p) => disk'[j] = disk[j] BY <3>2 DEF With
    <3> QED BY <3>1, <3>3, <1>1 DEF Typed, TypeOK
  <2> QED BY <2>3, <2>4
<1>3. ASSUME NEW p \in Process, Append(p)
      PROVE  /\ DOMAIN events \subseteq DOMAIN events'
             /\ \A e \in DOMAIN events : events'[e] = events[e]
  <2>1. CASE UNCHANGED events BY <2>1
  <2>2. CASE /\ NextEvent(p) \notin DOMAIN events
             /\ events' = With(events, NextEvent(p), Review(p))
    <3>1. DOMAIN events' = DOMAIN events \cup {NextEvent(p)} BY <2>2 DEF With
    <3>2. \A e \in DOMAIN events : e # NextEvent(p) => events'[e] = events[e] BY <2>2 DEF With
    <3> QED BY <2>2, <3>1, <3>2
  <2> QED BY <1>3, <2>1, <2>2 DEF Append, NextEvent
<1>4. ASSUME NEW p \in Process, Work(p), ~Write(p) PROVE UNCHANGED disk
  BY <1>4 DEF Work, Load, LoadReport, Register, ReadEvents, Append, Launch, Ask, Block, Finish
<1>5. ASSUME NEW p \in Process, Work(p), ~Append(p) PROVE UNCHANGED events
  BY <1>5 DEF Work, Load, LoadReport, Write, Register, ReadEvents, Launch, Ask, Block, Finish
<1>6. ASSUME NEW p \in Process, Begin(p) \/ Crash(p) PROVE UNCHANGED <<disk, events>>
  BY <1>6 DEF Begin, Start, Crash
<1>7. CASE Environment \/ UNCHANGED vars BY <1>1, <1>7, OthersStay
<1>8. \A id \in DOMAIN arts : disk'[id] = disk[id] BY <1>2, <1>4, <1>6, <1>7 DEF Next
<1>9. /\ DOMAIN events \subseteq DOMAIN events'
      /\ \A e \in DOMAIN events : events'[e] = events[e]
  BY <1>3, <1>5, <1>6, <1>7 DEF Next
<1> QED BY <1>8, <1>9

LEMMA DeliverableStep ==
  ASSUME Keep, [Next]_vars, Terminal, Deliverable, hist'.alone, target' = target
  PROVE  Deliverable'
<1> DEFINE required == {"report"} \cup (IF wf.how # "plain" THEN {"findings"} ELSE {})
                                 \cup (IF wf.request = "files" THEN {"checks"} ELSE {})
<1>1. Typed /\ hist.alone BY AloneEarlier DEF Keep
<1>2. /\ wf'.status = wf.status /\ wf'.request = wf.request /\ wf'.how = wf.how
      /\ wf'.review = wf.review /\ wf'.text = wf.text /\ arts' = arts
  BY <1>1, FinishedIsFrozen
<1>3. /\ \A id \in DOMAIN arts : disk'[id] = disk[id]
      /\ DOMAIN events \subseteq DOMAIN events'
      /\ \A e \in DOMAIN events : events'[e] = events[e]
  BY <1>1, FilesOfTheFinishedStay
<1>4. ContractHolds(DOMAIN arts, required, wf.status = "completed_unreported",
                    Accepted(wf.review.raised), {})
  BY DEF Deliverable
<1>5. required \subseteq DOMAIN arts BY <1>4 DEF ContractHolds
<1>6. /\ disk'["report"] = disk["report"]
      /\ wf.how # "plain" => disk'["findings"] = disk["findings"]
      /\ wf.request = "files" => disk'["checks"] = disk["checks"]
  BY <1>3, <1>5
<1>7. wf.how # "plain" => PanelIsAudited'
  <2> SUFFICES ASSUME wf.how # "plain" PROVE PanelIsAudited'
    OBVIOUS
  <2>1. PanelIsAudited BY DEF Deliverable
  <2>2. \A e \in PanelEvents : e \in DOMAIN events' /\ events'[e] = events[e]
    BY <2>1, <1>3 DEF PanelIsAudited
  <2> QED BY <2>1, <2>2, <1>2, <1>6 DEF PanelIsAudited
<1>8. wf.how = "plain" /\ wf.request = "files" => ChecksAreAudited'
  <2> SUFFICES ASSUME wf.how = "plain", wf.request = "files" PROVE ChecksAreAudited'
    OBVIOUS
  <2>1. ChecksAreAudited BY DEF Deliverable
  <2> QED BY <2>1, <1>3, <1>6 DEF ChecksAreAudited
<1>9. /\ arts'["report"] = disk'["report"] /\ disk'["report"] = wf'.text
      /\ wf.request = "files" => arts'["checks"] = disk'["checks"]
  BY <1>2, <1>6 DEF Deliverable
<1>10. ContractHolds(DOMAIN arts', {"report"} \cup (IF wf'.how # "plain" THEN {"findings"} ELSE {})
                                   \cup (IF wf'.request = "files" THEN {"checks"} ELSE {}),
                     wf'.status = "completed_unreported", Accepted(wf'.review.raised), {})
  BY <1>2, <1>4
<1> HIDE DEF required
<1> QED BY <1>2, <1>7, <1>8, <1>9, <1>10 DEF Deliverable

\* A finished workflow that can be delivered stays so, whoever finalizes it again, as
\* often as they like, as long as calls do not overlap and the target is left alone.
THEOREM DeliverableStays == Spec => DeliverableIsKept
<1>1. Keep /\ [Next]_vars =>
        [Terminal /\ Deliverable /\ hist'.alone /\ target' = target => Deliverable']_vars
  BY DeliverableStep
<1> QED BY <1>1, InitKeep, KeepStep, PTL DEF Spec, DeliverableIsKept

-----------------------------------------------------------------------------
\* A transcript that shows what a panel's proof asks of it: a read of every file, and a
\* status command.
Proved(log) ==
  /\ File \subseteq UNION {call.files : call \in {d \in log : d.does = "read"}}
  /\ StatusIsProved(log)

\* The children a native call has behind it are proved, all of them once it has findings.
ChildrenAreProved ==
  \A p \in Process, c \in Child :
    c < cmd[p].child \/ (cmd[p].how = "native" /\ cmd[p].at \in {"findings", "report"}) =>
      Proved(session[c])

\* Only a blocked panel has a reason to be blocked.
OnlyBlockedHasReason ==
  \A p \in Process : cmd[p].at \notin {"raw", "blocked"} => cmd[p].why = "none"

\* What a success was decided on.
SuccessIsBacked ==
  wf.status = "completed_unreported" =>
    IF wf.how # "plain"
    THEN ~NeedsFix(wf.review.raised) /\ (wf.how = "native" => \A c \in Child : Proved(session[c]))
    ELSE wf.request \in {"plan_only", "files"}

\* As long as calls do not overlap, no inspection on disk is newer than the call that
\* runs or than the report, and neither is newer than the target.
Newest(v, goal, files) ==
  v <= goal /\ ("checks" \in DOMAIN files => files["checks"].version <= v)

VersionsAreOrdered ==
  hist.alone /\ wf.request = "files" =>
    /\ "checks" \in DOMAIN disk => disk["checks"].version \in Nat /\ disk["checks"].version <= target
    /\ \A p \in Process : cmd[p].step # "idle" => Newest(cmd[p].version, target, disk)
    /\ wf.status = "completed_unreported" =>
         (\A p \in Process : cmd[p].step = "idle") /\ Newest(wf.text.version, target, disk)

Backing == Keep /\ ChildrenAreProved /\ OnlyBlockedHasReason /\ SuccessIsBacked /\ VersionsAreOrdered

\* An accepted answer comes with a transcript that proves it.
LEMMA AcceptedIsProved ==
  ASSUME NEW a \in Answer, NEW log, BlockedReason(a, log) = "none"
  PROVE  Proved(log)
<1>1. ProofHolds(a, log)
  <2>1. a.exit \in {"ok", "late", "full", "error", "garbled"} BY DEF Answer
  <2> QED BY <2>1 DEF BlockedReason
<1>2. StatusIsProved(log) /\ File \subseteq a.claim BY <1>1 DEF ProofHolds, ClaimCovers
<1>3. ASSUME NEW f \in File PROVE \E call \in log : call.does = "read" /\ f \in call.files
  <2>1. f \in Manifest(a) BY <1>2 DEF Manifest
  <2> QED BY <2>1, <1>1 DEF ProofHolds, ClaimIsProved
<1> QED BY <1>2, <1>3 DEF Proved

LEMMA ProvedStays ==
  ASSUME NEW log, NEW more, log \subseteq more, Proved(log)
  PROVE  Proved(more)
BY DEF Proved, StatusIsProved

LEMMA SessionsGrow == Typed /\ [Next]_vars => \A c \in Child : session[c] \subseteq session'[c]
<1> SUFFICES ASSUME Typed, [Next]_vars PROVE \A c \in Child : session[c] \subseteq session'[c]
  OBVIOUS
<1>1. cmd \in [Process -> Running] /\ session \in [Child -> SUBSET Call] BY DEF Typed, TypeOK
<1>2. ASSUME NEW p \in Process, Ask(p) PROVE \A c \in Child : session[c] \subseteq session'[c]
  <2>1. PICK a \in Answers[cmd[p].child] :
          session' = [session EXCEPT ![cmd[p].child] = session[cmd[p].child] \cup a.calls]
    BY <1>1, <1>2, AskAnswered
  <2> QED BY <1>1, <2>1
<1>3. ASSUME NEW p \in Process, Work(p), ~Ask(p) PROVE UNCHANGED session
  BY <1>3 DEF Work, Load, LoadReport, Write, Register, ReadEvents, Append, Launch, Block, Finish
<1>4. ASSUME NEW p \in Process, Begin(p) \/ Crash(p) PROVE UNCHANGED session
  BY <1>4 DEF Begin, Start, Crash
<1>5. CASE Environment \/ UNCHANGED vars BY <1>5, OthersStay
<1> QED BY <1>2, <1>3, <1>4, <1>5 DEF Next

LEMMA ChildrenAreProvedStep == Backing /\ [Next]_vars => ChildrenAreProved'
<1> DEFINE Due(r, c) == c < r.child \/ (r.how = "native" /\ r.at \in {"findings", "report"})
<1> SUFFICES ASSUME Backing, [Next]_vars, NEW q \in Process, NEW c \in Child, Due(cmd'[q], c)
             PROVE  Proved(session'[c])
  BY DEF ChildrenAreProved
<1>1. Typed /\ cmd \in [Process -> Running] /\ session \in [Child -> SUBSET Call]
  BY DEF Backing, Keep, Typed, TypeOK
<1>2. ASSUME NEW p \in Process, Due(cmd[p], c) PROVE Proved(session'[c])
  <2>1. Proved(session[c]) BY <1>2 DEF Backing, ChildrenAreProved
  <2>2. session[c] \subseteq session'[c] BY <1>1, SessionsGrow
  <2> QED BY <2>1, <2>2, ProvedStays
<1>3. c >= 1 /\ c <= PanelSize /\ c \in Int BY PanelAssumption DEF Child
<1>4. ~Due(Idle, c) BY <1>3 DEF Idle
<1>5. ASSUME NEW p \in Process, Ask(p), q = p PROVE Proved(session'[c])
  <2> DEFINE d == cmd[p].child
  <2>1. PICK a \in Answers[d] :
          /\ session' = [session EXCEPT ![d] = session[d] \cup a.calls]
          /\ Answered(p, a, session[d] \cup a.calls)
    BY <1>1, <1>5, AskAnswered
  <2>2. d \in Child /\ cmd[p] \in Running /\ cmd[p].at = "panel"
    BY <1>1, <1>5 DEF Running, Ask, Typed, TypeOK, Place
  <2>3. a \in Answer BY <2>1, <2>2, VerifyAssumption
  <2> DEFINE log == session[d] \cup a.calls
  <2>4. session'[d] = log BY <1>1, <2>1, <2>2
  <2>5. BlockedReason(a, log) = "none" => Proved(session'[d]) BY <2>3, <2>4, AcceptedIsProved
  <2>6. d \in Int BY <2>2, PanelAssumption DEF Child
  <2> HIDE DEF log, d
  <2>7. CASE c < d BY <2>7, <1>2 DEF d
  <2>8. CASE c = d /\ BlockedReason(a, log) = "none" BY <2>5, <2>8
  <2>9. CASE cmd'[p] = Idle BY <2>9, <1>4, <1>5
  <2>10. CASE cmd'[p] = Blocked(p, a, log)
    <3>1. cmd'[p].child = d /\ cmd'[p].at = "raw" BY <2>2, <2>10 DEF Blocked, Running, d
    <3> QED BY <3>1, <2>7, <1>5
  <2>11. ASSUME NEW ok \in BOOLEAN, cmd'[p] = NextChild(p, a, ok), BlockedReason(a, log) = "none"
         PROVE  Proved(session'[c])
    <3>1. cmd'[p].child = d + 1 /\ cmd'[p].at = "panel" BY <2>2, <2>11 DEF NextChild, Running, d
    <3>2. c < d + 1 BY <3>1, <1>5
    <3>3. c < d \/ c = d BY <3>2, <1>3, <2>6
    <3> QED BY <3>3, <2>7, <2>8, <2>11
  <2>12. CASE d = PanelSize /\ BlockedReason(a, log) = "none"
    <3>1. c < d \/ c = d BY <2>12, <1>3, <2>6
    <3> QED BY <3>1, <2>7, <2>8, <2>12
  <2>13. Answered(p, a, log) BY <2>1 DEF log, d
  <2>14. \/ cmd'[p] = Blocked(p, a, log)
         \/ BlockedReason(a, log) = "none" /\ \E ok \in BOOLEAN : cmd'[p] = NextChild(p, a, ok)
         \/ BlockedReason(a, log) = "none" /\ d = PanelSize
         \/ cmd'[p] = Idle
    BY <1>1, <2>13 DEF Answered, Quit, d
  <2> QED BY <2>9, <2>10, <2>11, <2>12, <2>14
<1>6. ASSUME NEW p \in Process, Work(p), ~Ask(p), q = p PROVE Proved(session'[c])
  <2>1. CASE Launch(p)
    <3>1. CASE Quit(p) BY <3>1, <1>1, <1>4, <1>6 DEF Quit
    <3>2. CASE Goto(p, "panel", "ask")
      <4>1. cmd'[p].child = cmd[p].child /\ cmd'[p].at = "panel" BY <3>2, <1>1, GotoTurns
      <4> QED BY <4>1, <1>2, <1>6
    <3> QED BY <2>1, <3>1, <3>2 DEF Launch
  <2>2. CASE ~Launch(p)
    <3>1. Turn(cmd[p], cmd'[p]) BY <1>1, <1>6, WorkTurns
    <3>2. CASE cmd'[p] = Idle BY <3>2, <1>4, <1>6
    <3>3. CASE /\ Same(cmd[p], cmd'[p]) /\ cmd'[p].child = cmd[p].child
               /\ Onward(cmd[p], cmd'[p]) \/ Within(cmd[p], cmd'[p])
      <4>1. Due(cmd[p], c) BY <3>3, <1>6 DEF Same, Onward, Within
      <4> QED BY <4>1, <1>2
    <3>4. cmd[p].step \notin {"launch", "ask"}
      BY <1>6, <2>2 DEF Work, Load, LoadReport, Write, Register, ReadEvents, Append, Block, Finish
    <3> QED BY <3>1, <3>2, <3>3, <3>4 DEF Turn, Paneled
  <2> QED BY <2>1, <2>2
<1>7. ASSUME NEW p \in Process, Begin(p) \/ Crash(p), q = p PROVE Proved(session'[c])
  <2>1. CASE Begin(p)
    <3>1. cmd'[p].child = 1 /\ cmd'[p].at = "checks" BY <1>1, <2>1, BeginTurns
    <3> QED BY <3>1, <1>3, <1>7
  <2>2. CASE Crash(p)
    <3>1. cmd'[p] = Idle BY <1>1, <2>2 DEF Crash, Quit
    <3> QED BY <3>1, <1>4, <1>7
  <2> QED BY <1>7, <2>1, <2>2
<1>8. ASSUME NEW p \in Process, Begin(p) \/ Work(p) \/ Crash(p), q # p PROVE Proved(session'[c])
  <2>1. cmd'[q] = cmd[q] BY <1>1, <1>8, OneCallMoves
  <2> QED BY <2>1, <1>2
<1>9. CASE Environment \/ UNCHANGED vars
  <2>1. cmd'[q] = cmd[q] BY <1>1, <1>9, OthersStay
  <2> QED BY <2>1, <1>2
<1> QED BY <1>5, <1>6, <1>7, <1>8, <1>9 DEF Next

LEMMA OnlyBlockedHasReasonStep == Backing /\ [Next]_vars => OnlyBlockedHasReason'
<1> SUFFICES ASSUME Backing, [Next]_vars, NEW q \in Process, cmd'[q].at \notin {"raw", "blocked"}
             PROVE  cmd'[q].why = "none"
  BY DEF OnlyBlockedHasReason
<1>1. Typed /\ cmd \in [Process -> Running] BY DEF Backing, Keep, Typed, TypeOK
<1>2. cmd[q].at \notin {"raw", "blocked"} => cmd[q].why = "none" BY DEF Backing, OnlyBlockedHasReason
<1>3. ASSUME NEW p \in Process, Work(p), q = p PROVE cmd'[q].why = "none"
  <2>1. Turn(cmd[q], cmd'[q]) BY <1>1, <1>3, WorkTurns
  <2>2. CASE cmd'[q] = Idle BY <2>2 DEF Idle
  <2>3. CASE Paneled(cmd[q], cmd'[q]) BY <2>3, <1>2 DEF Paneled
  <2>4. CASE cmd'[q].why = cmd[q].why /\ Onward(cmd[q], cmd'[q]) BY <2>4, <1>2 DEF Onward
  <2>5. CASE cmd'[q].why = cmd[q].why /\ Within(cmd[q], cmd'[q]) BY <2>5, <1>2 DEF Within
  <2> QED BY <2>1, <2>2, <2>3, <2>4, <2>5 DEF Turn
<1>4. ASSUME NEW p \in Process, Begin(p), q = p PROVE cmd'[q].why = "none"
  BY <1>1, <1>4, BeginTurns
<1>5. ASSUME NEW p \in Process, Crash(p), q = p PROVE cmd'[q].why = "none"
  BY <1>1, <1>5 DEF Crash, Quit, Idle
<1>6. ASSUME NEW p \in Process, Begin(p) \/ Work(p) \/ Crash(p), q # p PROVE cmd'[q].why = "none"
  BY <1>1, <1>2, <1>6, OneCallMoves
<1>7. CASE Environment \/ UNCHANGED vars BY <1>1, <1>2, <1>7, OthersStay
<1> QED BY <1>3, <1>4, <1>5, <1>6, <1>7 DEF Next

\* What a finish with success records.
LEMMA FinishRecords ==
  ASSUME Backing, NEW p \in Process, Finish(p), ~Terminal, Terminal'
  PROVE  /\ wf' = [wf EXCEPT !.status = Outcome(p), !.lease = [id |-> 0, live |-> FALSE],
                             !.how = cmd[p].how, !.review = Review(p), !.text = Report(p)]
         /\ cmd[p].why = "none" /\ cmd[p].at = "report" /\ cmd'[p] = Idle
<1>1. Typed /\ cmd \in [Process -> Running] BY DEF Backing, Keep, Typed, TypeOK
<1>2. wf' # wf BY DEF Terminal
<1>3. cmd[p].at = "report" BY DEF Finish
<1>4. cmd[p].why = "none" BY <1>3 DEF Backing, OnlyBlockedHasReason
<1>5. cmd'[p] = Idle BY <1>1 DEF Finish, Quit
<1> QED BY <1>2, <1>3, <1>4, <1>5 DEF Finish

\* A plain call succeeds only on a request to plan or about files, one with findings only
\* if they ask for no fix.
LEMMA PassMeans ==
  ASSUME Typed, NEW p \in Process, Outcome(p) = "completed_unreported"
  PROVE  /\ cmd[p].how # "plain" => ~NeedsFix(cmd[p].raised)
         /\ cmd[p].how = "plain" => wf.request \in {"plan_only", "files"}
<1>1. Verdict(p) = "pass_with_risks" BY DEF Outcome
<1>2. cmd[p].how # "plain" => ~TruthBlocked(MarkersOf(p))
  <2> SUFFICES ASSUME cmd[p].how # "plain" PROVE ~TruthBlocked(MarkersOf(p))
    OBVIOUS
  <2>1. MarkersOf(p) = Executed(Classified(wf.request = "plan_only"), {"findings"}) BY DEF MarkersOf
  <2>2. MarkersOf(p).performed /\ MarkersOf(p).refs = {"findings"} /\ ~MarkersOf(p).synthetic
    BY <2>1 DEF Executed, Classified
  <2> QED BY <2>2 DEF TruthBlocked
<1>3. cmd[p].how # "plain" => ~NeedsFix(cmd[p].raised) BY <1>1, <1>2 DEF Verdict
<1>4. ASSUME cmd[p].how = "plain", wf.request \notin {"plan_only", "files"} PROVE FALSE
  <2>1. MarkersOf(p) = Classified(wf.request = "plan_only") BY <1>4 DEF MarkersOf
  <2> DEFINE must == ~(wf.request = "plan_only")
  <2>2. must = TRUE BY <1>4
  <2>3. MarkersOf(p) = [required |-> must, performed |-> FALSE, synthetic |-> TRUE, refs |-> {}]
    BY <2>1 DEF Classified
  <2> HIDE DEF must
  <2>4. MarkersOf(p).required /\ ~MarkersOf(p).performed BY <2>2, <2>3
  <2>5. TruthBlocked(MarkersOf(p)) BY <2>4 DEF TruthBlocked
  <2> QED BY <2>5, <1>1, <1>4 DEF Verdict
<1> QED BY <1>3, <1>4

LEMMA SuccessIsBackedStep == Backing /\ [Next]_vars => SuccessIsBacked'
<1> SUFFICES ASSUME Backing, [Next]_vars, wf'.status = "completed_unreported"
             PROVE  IF wf'.how # "plain"
                    THEN ~NeedsFix(wf'.review.raised)
                         /\ (wf'.how = "native" => \A c \in Child : Proved(session'[c]))
                    ELSE wf'.request \in {"plan_only", "files"}
  BY DEF SuccessIsBacked
<1>1. Typed /\ wf \in Workflow /\ cmd \in [Process -> Running] BY DEF Backing, Keep, Typed, TypeOK
<1>2. \A c \in Child : Proved(session[c]) => Proved(session'[c])
  BY <1>1, SessionsGrow, ProvedStays
<1>3. Terminal' BY DEF Terminal
<1>4. CASE Terminal
  <2>1. /\ wf'.status = wf.status /\ wf'.request = wf.request /\ wf'.how = wf.how
        /\ wf'.review = wf.review
    BY <1>1, <1>4, FinishedIsFrozen
  <2> QED BY <2>1, <1>2 DEF Backing, SuccessIsBacked
<1>5. ASSUME NEW p \in Process, Finish(p), ~Terminal
      PROVE  IF wf'.how # "plain"
             THEN ~NeedsFix(wf'.review.raised)
                  /\ (wf'.how = "native" => \A c \in Child : Proved(session'[c]))
             ELSE wf'.request \in {"plan_only", "files"}
  <2>1. /\ wf' = [wf EXCEPT !.status = Outcome(p), !.lease = [id |-> 0, live |-> FALSE],
                            !.how = cmd[p].how, !.review = Review(p), !.text = Report(p)]
        /\ cmd[p].at = "report"
    BY <1>3, <1>5, FinishRecords
  <2>2. /\ wf'.status = Outcome(p) /\ wf'.how = cmd[p].how /\ wf'.review = Review(p)
        /\ wf'.request = wf.request
    BY <2>1, <1>1 DEF Workflow
  <2>3. wf'.review.raised = cmd[p].raised BY <2>2 DEF Review
  <2>4. cmd[p].how = "native" => \A c \in Child : Proved(session'[c])
    BY <2>1, <1>2 DEF Backing, ChildrenAreProved
  <2> QED BY <2>2, <2>3, <2>4, <1>1, PassMeans
<1> QED BY <1>1, <1>3, <1>4, <1>5, FinishedBy

\* Who writes an inspection writes the version the call started from.
LEMMA InspectionsWritten ==
  ASSUME Typed, [Next]_vars
  PROVE  \/ DOMAIN disk' \ {"findings", "report"} = DOMAIN disk \ {"findings", "report"}
            /\ ("checks" \in DOMAIN disk => disk'["checks"] = disk["checks"])
         \/ \E p \in Process : /\ cmd[p].step = "write" /\ cmd'[p].version = cmd[p].version
                               /\ UNCHANGED <<wf, target, hist>> /\ cmd'[p].step = "register"
                               /\ "checks" \in DOMAIN disk'
                               /\ disk'["checks"].version = cmd[p].version
<1>1. ASSUME NEW p \in Process, Write(p), cmd[p].at # "checks"
      PROVE  DOMAIN disk' \ {"findings", "report"} = DOMAIN disk \ {"findings", "report"}
             /\ ("checks" \in DOMAIN disk => disk'["checks"] = disk["checks"])
  <2>1. CASE cmd[p].at = "raw" BY <1>1, <2>1 DEF Write
  <2>2. CASE cmd[p].at # "raw"
    <3>1. cmd[p].at \in {"raw", "findings", "report", "blocked"}
      BY <1>1 DEF Write, Typed, Place
    <3>2. Id(p) \in {"findings", "report"} BY <2>2, <3>1 DEF Id
    <3>3. disk' = With(disk, Id(p), Content(p)) BY <1>1, <2>2 DEF Write
    <3> QED BY <3>2, <3>3 DEF With
  <2> QED BY <2>1, <2>2
<1>2. ASSUME NEW p \in Process, Write(p), cmd[p].at = "checks"
      PROVE  /\ cmd[p].step = "write" /\ cmd'[p].version = cmd[p].version
             /\ UNCHANGED <<wf, target, hist>> /\ cmd'[p].step = "register"
             /\ "checks" \in DOMAIN disk' /\ disk'["checks"].version = cmd[p].version
  <2>1. disk' = With(disk, "checks", [run |-> cmd[p].run, version |-> cmd[p].version])
    BY <1>2 DEF Write, Id, Content
  <2>2. "checks" \in DOMAIN disk' /\ disk'["checks"].version = cmd[p].version BY <2>1 DEF With
  <2>3. cmd'[p].step = "register" /\ cmd'[p].version = cmd[p].version
    BY <1>2, GotoTurns DEF Write, Same
  <2> QED BY <1>2, <2>2, <2>3 DEF Write
<1>3. ASSUME NEW p \in Process, Work(p), ~Write(p) PROVE UNCHANGED disk
  BY <1>3 DEF Work, Load, LoadReport, Register, ReadEvents, Append, Launch, Ask, Block, Finish
<1>4. ASSUME NEW p \in Process, Begin(p) \/ Crash(p) PROVE UNCHANGED disk
  BY <1>4 DEF Begin, Start, Crash
<1>5. CASE Environment \/ UNCHANGED vars BY <1>5, OthersStay
<1> QED BY <1>1, <1>2, <1>3, <1>4, <1>5 DEF Next

LEMMA RequestStays ==
  ASSUME Typed, [Next]_vars
  PROVE  wf'.request = wf.request /\ target \in Int /\ target' \in Int /\ target <= target'
<1>1. wf \in Workflow /\ target \in 1 .. MaxEdits + 1 BY DEF Typed, TypeOK
<1>2. ASSUME NEW p \in Process, Begin(p) \/ Crash(p) PROVE UNCHANGED <<wf, target>>
  BY <1>2 DEF Begin, Start, Crash
<1>3. ASSUME NEW p \in Process, Work(p) PROVE wf'.request = wf.request /\ UNCHANGED target
  <2>1. CASE Launch(p) BY <1>1, <2>1 DEF Launch, Workflow
  <2>2. CASE Block(p) BY <1>1, <2>2 DEF Block, Workflow
  <2>3. CASE Finish(p) BY <1>1, <2>3 DEF Finish, Workflow
  <2>4. CASE UNCHANGED <<wf, target>> BY <2>4
  <2> QED BY <1>3, <2>1, <2>2, <2>3, <2>4
       DEF Work, Load, LoadReport, Write, Register, ReadEvents, Append, Ask
<1>4. CASE Environment
  BY <1>1, <1>4, VerifyAssumption DEF Environment, Recover, LeaseExpires, OwnerDecides, Edit, Workflow
<1>5. CASE UNCHANGED vars BY <1>1, <1>5, VerifyAssumption DEF vars
<1> QED BY <1>1, <1>2, <1>3, <1>4, <1>5, VerifyAssumption DEF Next

LEMMA VersionsAreOrderedStep == Backing /\ [Next]_vars => VersionsAreOrdered'
<1> SUFFICES ASSUME Backing, [Next]_vars, hist'.alone, wf'.request = "files"
             PROVE  /\ "checks" \in DOMAIN disk' =>
                         disk'["checks"].version \in Nat /\ disk'["checks"].version <= target'
                    /\ \A p \in Process : cmd'[p].step # "idle" => Newest(cmd'[p].version, target', disk')
                    /\ wf'.status = "completed_unreported" =>
                         (\A p \in Process : cmd'[p].step = "idle") /\ Newest(wf'.text.version, target', disk')
  BY DEF VersionsAreOrdered
<1>1. Typed /\ Typed' /\ hist.alone BY AloneEarlier, StepTyped DEF Backing, Keep
<1>2. wf.request = "files" /\ target \in Int /\ target' \in Int /\ target <= target'
  BY <1>1, RequestStays
<1>3. /\ "checks" \in DOMAIN disk => disk["checks"].version \in Nat /\ disk["checks"].version <= target
      /\ \A p \in Process : cmd[p].step # "idle" => Newest(cmd[p].version, target, disk)
      /\ wf.status = "completed_unreported" =>
           (\A p \in Process : cmd[p].step = "idle") /\ Newest(wf.text.version, target, disk)
  BY <1>1, <1>2 DEF Backing, VersionsAreOrdered
<1>4. OneAtATime /\ OneAtATime' BY OneAtATimeStep DEF Backing, Keep
<1>5. /\ cmd \in [Process -> Running] /\ wf \in Workflow
      /\ \A p \in Process : cmd[p].version \in Nat
      /\ wf.text.version \in Nat
  <2>1. cmd \in [Process -> Running] /\ wf \in Workflow BY <1>1 DEF Typed, TypeOK
  <2>2. \A p \in Process : cmd[p].version \in 0 .. MaxEdits + 1 BY <2>1 DEF Running
  <2>3. wf.text.version \in 0 .. MaxEdits + 1 BY <2>1 DEF Workflow, Text
  <2> QED BY <2>1, <2>2, <2>3, VerifyAssumption
<1>6. ASSUME NEW p \in Process, cmd[p].step = "write", cmd'[p].version = cmd[p].version,
             UNCHANGED <<wf, target, hist>>, cmd'[p].step = "register",
             "checks" \in DOMAIN disk', disk'["checks"].version = cmd[p].version
      PROVE  /\ disk'["checks"].version \in Nat /\ disk'["checks"].version <= target'
             /\ \A q \in Process : cmd'[q].step # "idle" => Newest(cmd'[q].version, target', disk')
             /\ wf'.status # "completed_unreported"
  <2>1. Newest(cmd[p].version, target, disk) BY <1>3, <1>6
  <2>2. cmd[p].version <= target /\ cmd[p].version \in Nat BY <2>1, <1>5 DEF Newest
  <2>3. Newest(cmd'[p].version, target', disk') BY <2>2, <1>6 DEF Newest
  <2>4. \A q \in Process : cmd'[q].step # "idle" => q = p BY <1>4, <1>6 DEF OneAtATime
  <2>5. wf'.status # "completed_unreported" BY <1>3, <1>6
  <2> QED BY <2>2, <2>3, <2>4, <2>5, <1>6
<1>7. ASSUME "checks" \in DOMAIN disk' <=> "checks" \in DOMAIN disk,
             "checks" \in DOMAIN disk => disk'["checks"] = disk["checks"]
      PROVE  /\ "checks" \in DOMAIN disk' =>
                  disk'["checks"].version \in Nat /\ disk'["checks"].version <= target'
             /\ \A p \in Process : cmd'[p].step # "idle" => Newest(cmd'[p].version, target', disk')
             /\ wf'.status = "completed_unreported" =>
                  (\A p \in Process : cmd'[p].step = "idle") /\ Newest(wf'.text.version, target', disk')
  <2>1. "checks" \in DOMAIN disk' =>
          disk'["checks"].version \in Nat /\ disk'["checks"].version <= target'
    BY <1>2, <1>3, <1>7
  <2>2. ASSUME NEW v \in Nat, Newest(v, target, disk) PROVE Newest(v, target', disk')
    BY <2>2, <1>2, <1>7 DEF Newest
  <2>3. ASSUME NEW q \in Process, cmd[q].step # "idle", cmd'[q].version = cmd[q].version
        PROVE  Newest(cmd'[q].version, target', disk')
    BY <2>2, <2>3, <1>3, <1>5 DEF Newest
  <2>4. ASSUME NEW p \in Process, Begin(p) PROVE Newest(cmd'[p].version, target', disk')
    <3>1. cmd'[p].version = target BY <1>1, <1>2, <2>4, BeginTurns
    <3> QED BY <3>1, <2>4, <1>1, <1>2, <1>3, <1>7, BeginTurns DEF Newest
  <2>5. ASSUME NEW p \in Process, Begin(p) \/ Work(p) \/ Crash(p),
               NEW q \in Process, cmd'[q].step # "idle"
        PROVE  Newest(cmd'[q].version, target', disk')
    <3>1. CASE q # p
      <4>1. cmd'[q] = cmd[q] BY <1>1, <2>5, <3>1, OneCallMoves
      <4> QED BY <4>1, <2>3, <2>5
    <3>2. CASE q = p /\ Begin(p) BY <3>2, <2>4
    <3>3. CASE q = p /\ Work(p)
      <4>1. Turn(cmd[p], cmd'[p]) /\ cmd[p].step # "idle" BY <1>1, <3>3, WorkTurns, WorkIsBusy
      <4>2. cmd'[p].version = cmd[p].version BY <4>1, <2>5, <3>3 DEF Turn, Same, Idle
      <4> QED BY <4>1, <4>2, <3>3, <2>3
    <3>4. CASE q = p /\ Crash(p) BY <3>4, <1>5, <2>5 DEF Crash, Quit, Idle
    <3> QED BY <2>5, <3>1, <3>2, <3>3, <3>4
  <2>6. ASSUME Environment \/ UNCHANGED vars, NEW q \in Process, cmd'[q].step # "idle"
        PROVE  Newest(cmd'[q].version, target', disk')
    <3>1. cmd'[q] = cmd[q] BY <1>1, <2>6, OthersStay
    <3> QED BY <3>1, <2>3, <2>6
  <2>7. ASSUME wf'.status = "completed_unreported"
        PROVE  (\A p \in Process : cmd'[p].step = "idle") /\ Newest(wf'.text.version, target', disk')
    <3>1. CASE Terminal
      <4>1. wf'.status = wf.status /\ wf'.text = wf.text BY <1>1, <3>1, FinishedIsFrozen
      <4>2. (\A p \in Process : cmd[p].step = "idle") /\ Newest(wf.text.version, target, disk)
        BY <4>1, <2>7, <1>3
      <4>3. ASSUME NEW p \in Process PROVE ~Begin(p) /\ ~Work(p) /\ ~Crash(p)
        BY <4>1, <4>2, <2>7, <1>1, BeginTurns, WorkIsBusy DEF Crash
      <4>4. UNCHANGED cmd BY <4>3, <1>1, OthersStay DEF Next
      <4>5. Newest(wf'.text.version, target', disk') BY <4>1, <4>2, <2>2, <1>5 DEF Newest
      <4> QED BY <4>2, <4>4, <4>5
    <3>2. ASSUME ~Terminal, NEW p \in Process, Finish(p)
          PROVE  (\A q \in Process : cmd'[q].step = "idle") /\ Newest(wf'.text.version, target', disk')
      <4>1. Terminal' BY <2>7 DEF Terminal
      <4>2. /\ wf' = [wf EXCEPT !.status = Outcome(p), !.lease = [id |-> 0, live |-> FALSE],
                                !.how = cmd[p].how, !.review = Review(p), !.text = Report(p)]
            /\ cmd[p].why = "none" /\ cmd'[p] = Idle
        BY <3>2, <4>1, FinishRecords
      <4>3. wf'.text = Report(p) BY <4>2, <1>5 DEF Workflow
      <4>4. wf'.text.version = cmd[p].version BY <4>2, <4>3 DEF Report
      <4>5. cmd[p].step # "idle" BY <3>2 DEF Finish
      <4>6. Newest(wf'.text.version, target', disk') BY <4>4, <4>5, <2>2, <1>3, <1>5 DEF Newest
      <4>7. ASSUME NEW q \in Process PROVE cmd'[q].step = "idle"
        <5>1. q # p => cmd'[q] = cmd[q] BY <1>1, <3>2, OneCallMoves DEF Work
        <5>2. q # p => cmd[q].step = "idle" BY <1>1, <1>4, <4>5 DEF OneAtATime
        <5> QED BY <5>1, <5>2, <4>2 DEF Idle
      <4> QED BY <4>6, <4>7
    <3>3. Terminal' BY <2>7 DEF Terminal
    <3> QED BY <3>1, <3>2, <3>3, <1>1, FinishedBy
  <2> QED BY <2>1, <2>5, <2>6, <2>7 DEF Next
<1>8. CASE DOMAIN disk' \ {"findings", "report"} = DOMAIN disk \ {"findings", "report"}
           /\ ("checks" \in DOMAIN disk => disk'["checks"] = disk["checks"])
  <2>1. "checks" \in DOMAIN disk' <=> "checks" \in DOMAIN disk BY <1>8
  <2> QED BY <2>1, <1>7, <1>8
<1>9. CASE \E p \in Process : /\ cmd[p].step = "write" /\ cmd'[p].version = cmd[p].version
                              /\ UNCHANGED <<wf, target, hist>> /\ cmd'[p].step = "register"
                              /\ "checks" \in DOMAIN disk' /\ disk'["checks"].version = cmd[p].version
  BY <1>6, <1>9
<1> QED BY <1>1, <1>8, <1>9, InspectionsWritten

LEMMA InitBacking == Init => Backing
<1> SUFFICES ASSUME Init PROVE Backing
  OBVIOUS
<1>1. \A p \in Process : cmd[p] = Idle BY DEF Init
<1>2. ChildrenAreProved /\ OnlyBlockedHasReason
  BY <1>1, PanelAssumption DEF ChildrenAreProved, OnlyBlockedHasReason, Idle, Child
<1>3. wf.status = "running" BY DEF Init
<1>4. "checks" \notin DOMAIN disk BY DEF Init
<1>5. SuccessIsBacked /\ VersionsAreOrdered
  BY <1>1, <1>3, <1>4 DEF SuccessIsBacked, VersionsAreOrdered, Idle
<1> QED BY <1>2, <1>5, InitKeep DEF Backing

LEMMA BackingStep == Backing /\ [Next]_vars => Backing'
BY KeepStep, ChildrenAreProvedStep, OnlyBlockedHasReasonStep, SuccessIsBackedStep,
   VersionsAreOrderedStep DEF Backing

\* A success that passes the audit rests on work that was done, whatever the finalizers,
\* the children, the owner and the editor of the target do.  Findings ask for no fix as
\* the code's arbitration decides, which rejects an unconfident P0 or P1.
THEOREM VerdictStaysBacked == Spec => []VerdictIsBacked
<1>1. ASSUME Backing PROVE VerdictIsBacked
  <2> SUFFICES ASSUME wf.status = "completed_unreported", Deliverable
               PROVE  IF wf.how # "plain" THEN FindingsAreBacked
                      ELSE wf.request = "plan_only" \/ (wf.request = "files" /\ FilesAreAsInspected)
    BY DEF VerdictIsBacked
  <2>1. SuccessIsBacked BY <1>1 DEF Backing
  <2>2. CASE wf.how # "plain"
    <3>1. disk["findings"] = wf.review BY <2>2 DEF Deliverable, PanelIsAudited
    <3> QED BY <2>1, <2>2, <3>1 DEF SuccessIsBacked, FindingsAreBacked, Proved
  <2>3. CASE wf.how = "plain"
    <3>1. wf.request \in {"plan_only", "files"} BY <2>1, <2>3 DEF SuccessIsBacked
    <3>2. CASE wf.request = "files"
      <4>1. disk["checks"].version = target BY <2>3, <3>2 DEF Deliverable, ChecksAreAudited
      <4>2. "checks" \in DOMAIN disk
        <5>1. "checks" \in DOMAIN arts BY <3>2 DEF Deliverable, ContractHolds
        <5> QED BY <5>1, <1>1 DEF Backing, Keep, Typed, TypeOK
      <4>3. hist.alone => wf.text.version = target
        <5> SUFFICES ASSUME hist.alone PROVE wf.text.version = target
          OBVIOUS
        <5>1. Newest(wf.text.version, target, disk) BY <1>1, <3>2 DEF Backing, VersionsAreOrdered
        <5>2. wf.text.version \in Int /\ target \in Int
          <6>1. wf.text.version \in 0 .. MaxEdits + 1 /\ target \in 1 .. MaxEdits + 1
            BY <1>1 DEF Backing, Keep, Typed, TypeOK, Workflow, Text
          <6> QED BY <6>1, VerifyAssumption
        <5> QED BY <5>1, <5>2, <4>1, <4>2 DEF Newest
      <4> QED BY <3>2, <4>1, <4>3, <2>3 DEF FilesAreAsInspected
    <3> QED BY <3>1, <3>2, <2>3
  <2> QED BY <2>2, <2>3
<1> QED BY <1>1, InitBacking, BackingStep, PTL DEF Spec

-----------------------------------------------------------------------------
(***************************************************************************)
(* What is finished can be delivered, as long as nothing disturbs it.      *)
(***************************************************************************)
\* What a call of kind u with a packet or without findings records, whenever it runs.
MarkersFor(u) ==
  LET plain == Classified(wf.request = "plan_only")
  IN CASE u.how # "plain" -> Executed(plain, {"findings"})
       [] u.how = "plain" /\ wf.request = "files" -> Executed(plain, {"checks"})
       [] OTHER -> plain
Inspected   == IF wf.request = "files" THEN 1 ELSE 0
ReviewOf(u) == [run |-> 0, raised |-> u.raised]
TextOf(u) ==
  [verdict |-> CASE u.how # "plain" /\ NeedsFix(u.raised) -> "needs_fix"
                 [] TruthBlocked(MarkersFor(u)) -> "blocked"
                 [] OTHER -> "pass_with_risks",
   version |-> Inspected, raised |-> u.raised, why |-> "none"]

\* Undisturbed, or nothing has happened yet.
Quiet ==
  /\ target = 1 /\ \A u, v \in hist.used : u = v
  /\ hist.alone \/ (wf.request # "files" /\ \A u \in hist.used : u.how # "native")
  /\ \A u \in hist.used : u.how = "native" => hist.starts = 1

Active(p) == cmd[p].step # "idle"
Later     == {"panel", "raw", "findings", "report", "blocked"}
KindOf(p) == [how |-> cmd[p].how, raised |-> IF cmd[p].how = "native" THEN {} ELSE cmd[p].raised]

Unstarted ==
  /\ hist.starts = 0 <=> hist.used = {}
  /\ hist.starts = 0 => /\ DOMAIN disk = {} /\ DOMAIN events = {} /\ ~Terminal
                        /\ \A p \in Process : ~Active(p)

\* Every call is of the one kind, and stands where that kind may stand.
SameKind(p) ==
  /\ KindOf(p) \in hist.used /\ cmd[p].version = Inspected
  /\ cmd[p].at \in {"panel", "raw", "blocked"} => cmd[p].how = "native"
  /\ cmd[p].at = "findings" => cmd[p].how # "plain"
  /\ cmd[p].how = "plain" => cmd[p].raised = {}
  /\ cmd[p].at = "checks" /\ wf.request # "files" => cmd[p].step = "load"

\* What is registered is on disk, and files and events that do not tell one call from
\* another say what every call says.
OneStory ==
  /\ \A id \in DOMAIN arts : arts[id] = disk[id]
  /\ "checks" \in DOMAIN disk => disk["checks"].version = 1
  /\ \A u \in hist.used : u.how # "native" =>
       /\ "report" \in DOMAIN disk => disk["report"] = TextOf(u)
       /\ "findings" \in DOMAIN disk => disk["findings"] = ReviewOf(u)
       /\ \A e \in PanelEvents \cap DOMAIN events : events[e] = ReviewOf(u)

\* What a call finds there at each of its stages: the inspection, ...
ChecksAreThere(p) ==
  /\ cmd[p].at = "checks" /\ cmd[p].step = "append" => cmd[p].todo \subseteq {"checks"}
  /\ wf.request = "files" =>
       /\ cmd[p].at = "checks" /\ cmd[p].step \in {"write", "register"} => "checks" \notin DOMAIN arts
       /\ cmd[p].at \in Later \/ cmd[p].step \in {"read", "append"} => "checks" \in DOMAIN arts
       /\ cmd[p].at = "checks" /\ cmd[p].step = "append" => "checks" \in cmd[p].todo \cup DOMAIN events
       /\ cmd[p].at \in Later => "checks" \in DOMAIN events

\* ... the findings and their events, ...
FindingsAreThere(p) ==
  /\ cmd[p].at = "findings" /\ cmd[p].step = "append" =>
       \A e \in PanelEvents \ cmd[p].todo : e \in DOMAIN events /\ events[e] = Review(p)
  /\ cmd[p].how # "plain"
     /\ (cmd[p].at = "report" \/ (cmd[p].at = "findings" /\ cmd[p].step \in {"read", "append"})) =>
       "findings" \in DOMAIN arts /\ arts["findings"] = Review(p)
  /\ cmd[p].how # "plain" /\ cmd[p].at = "report" =>
       \A e \in PanelEvents : e \in DOMAIN events /\ events[e] = Review(p)

\* ... its report, ...
ReportIsReady(p) ==
  cmd[p].at = "report" /\ cmd[p].step = "commit" => "report" \in DOMAIN arts /\ arts["report"] = Report(p)

\* ... and, of a native panel, nothing that it did not write itself.
PanelIsFirst(p) ==
  cmd[p].how = "native" =>
    /\ ~cmd[p].seen
    /\ cmd[p].step # "commit" => "report" \notin DOMAIN arts
    /\ cmd[p].at = "report" /\ cmd[p].step = "register" => disk["report"] = Report(p)
    /\ cmd[p].at = "findings" /\ cmd[p].step = "register" => disk["findings"] = Review(p)
    /\ cmd[p].at \in {"checks", "panel"}
       \/ (cmd[p].at = "findings" /\ cmd[p].step \in {"load", "write", "register"}) =>
         "findings" \notin DOMAIN arts
    /\ cmd[p].at \in {"checks", "panel"}
       \/ (cmd[p].at = "findings" /\ cmd[p].step \in {"load", "write", "register", "read"}) =>
         PanelEvents \cap DOMAIN events = {}

Told(p) ==
  SameKind(p) /\ ChecksAreThere(p) /\ FindingsAreThere(p) /\ ReportIsReady(p) /\ PanelIsFirst(p)

Story ==
  /\ IsFiniteSet(hist.used) /\ Unstarted
  /\ Quiet => /\ OneStory
              /\ \A p \in Process : Active(p) => Told(p)
              /\ Terminal => Deliverable

Retold == Backing /\ Story

\* Nothing that was registered or logged changes.
Grows ==
  /\ \A i \in DOMAIN arts : i \in DOMAIN arts' /\ arts'[i] = arts[i] /\ disk'[i] = disk[i]
  /\ \A k \in DOMAIN events : k \in DOMAIN events' /\ events'[k] = events[k]

LEMMA GrownDeliverable ==
  ASSUME Deliverable, Grows, target' = target, wf'.status = wf.status, wf'.request = wf.request,
         wf'.how = wf.how, wf'.review = wf.review, wf'.text = wf.text
  PROVE  Deliverable'
<1>1. PICK required :
        required = {"report"} \cup (IF wf.how # "plain" THEN {"findings"} ELSE {})
                              \cup (IF wf.request = "files" THEN {"checks"} ELSE {})
  OBVIOUS
<1>2. /\ ContractHolds(DOMAIN arts, required, wf.status = "completed_unreported", Accepted(wf.review.raised), {})
      /\ arts["report"] = disk["report"] /\ disk["report"] = wf.text
      /\ wf.request = "files" => arts["checks"] = disk["checks"]
      /\ wf.how # "plain" => PanelIsAudited
      /\ wf.how = "plain" /\ wf.request = "files" => ChecksAreAudited
  BY <1>1 DEF Deliverable
<1>3. required \subseteq DOMAIN arts BY <1>2 DEF ContractHolds
<1>4. required \subseteq DOMAIN arts' BY <1>3 DEF Grows
<1>5. ContractHolds(DOMAIN arts', required, wf.status = "completed_unreported", Accepted(wf.review.raised), {})
  BY <1>2, <1>4 DEF ContractHolds
<1>6. arts'["report"] = disk'["report"] /\ disk'["report"] = wf.text
  <2>1. "report" \in DOMAIN arts BY <1>1, <1>3
  <2> QED BY <1>2, <2>1 DEF Grows
<1>7. wf.request = "files" => arts'["checks"] = disk'["checks"] /\ disk'["checks"] = disk["checks"]
  <2>1. wf.request = "files" => "checks" \in DOMAIN arts BY <1>1, <1>3
  <2> QED BY <1>2, <2>1 DEF Grows
<1>8. wf.how # "plain" => PanelIsAudited'
  <2>1. wf.how # "plain" => "findings" \in DOMAIN arts BY <1>1, <1>3
  <2> QED BY <1>2, <2>1 DEF Grows, PanelIsAudited
<1>9. wf.how = "plain" /\ wf.request = "files" => ChecksAreAudited'
  BY <1>2, <1>7 DEF Grows, ChecksAreAudited
<1> QED BY <1>1, <1>5, <1>6, <1>7, <1>8, <1>9 DEF Deliverable

\* What a start adds to the history, and that nothing else touches it.
LEMMA BeginIsNoted ==
  ASSUME Typed, NEW p \in Process, Begin(p)
  PROVE  /\ hist'.starts = hist.starts + 1 /\ hist'.used = hist.used \cup {KindOf(p)'}
         /\ cmd'[p].how # "packet" => cmd'[p].raised = {}
<1>1. cmd \in [Process -> Running] /\ hist \in History BY DEF Typed, TypeOK
<1>2. ASSUME NEW how, NEW raised, Start(p, how, raised), how # "packet" => raised = {}
      PROVE  /\ hist'.starts = hist.starts + 1 /\ hist'.used = hist.used \cup {KindOf(p)'}
             /\ cmd'[p].how # "packet" => cmd'[p].raised = {}
  <2>1. PICK u : u = [how |-> how, raised |-> raised] OBVIOUS
  <2>2. PICK b : b = (hist.alone /\ \A q \in Process : cmd[q].step = "idle") OBVIOUS
  <2>3. hist' = [hist EXCEPT !.starts = @ + 1, !.used = @ \cup {u}, !.alone = b]
    BY <1>2, <2>1, <2>2 DEF Start
  <2>4. hist'.starts = hist.starts + 1 /\ hist'.used = hist.used \cup {u} BY <1>1, <2>3 DEF History
  <2>5. PICK s : s = ("report" \in DOMAIN arts) OBVIOUS
  <2>6. PICK v : v = IF wf.request = "files" THEN target ELSE 0 OBVIOUS
  <2>7. cmd' = [cmd EXCEPT ![p] =
                  [Idle EXCEPT !.step = "load", !.at = "checks", !.how = how, !.raised = raised,
                    !.run = hist.starts + 1, !.cites = wf.lease.id, !.seen = s, !.version = v]]
    BY <1>2, <2>5, <2>6 DEF Start
  <2>8. cmd'[p].how = how /\ cmd'[p].raised = raised BY <1>1, <2>7 DEF Idle
  <2>9. KindOf(p)' = u BY <1>2, <2>1, <2>8 DEF KindOf
  <2> QED BY <1>2, <2>4, <2>8, <2>9
<1> QED BY <1>2 DEF Begin

LEMMA OnlyBeginsAreNoted ==
  ASSUME Typed, [Next]_vars
  PROVE  \/ hist'.starts = hist.starts /\ hist'.used = hist.used /\ hist'.alone = hist.alone
         \/ \E p \in Process : Begin(p)
<1>1. hist \in History BY DEF Typed, TypeOK
<1>2. ASSUME NEW p \in Process, Work(p) PROVE UNCHANGED hist
  BY <1>2 DEF Work, Load, LoadReport, Write, Register, ReadEvents, Append, Launch, Ask, Block, Finish
<1>3. ASSUME NEW p \in Process, Crash(p) PROVE hist'.starts = hist.starts /\ hist'.used = hist.used /\ hist'.alone = hist.alone
  BY <1>1, <1>3 DEF Crash, History
<1>4. CASE Environment
  BY <1>1, <1>4 DEF Environment, Recover, LeaseExpires, OwnerDecides, Edit, History
<1>5. CASE UNCHANGED vars BY <1>5 DEF vars
<1> QED BY <1>2, <1>3, <1>4, <1>5 DEF Next

\* A quiet state comes from a quiet one.
LEMMA QuietEarlier ==
  ASSUME Typed, Unstarted, [Next]_vars, Quiet'
  PROVE  Quiet
<1>1. hist \in History /\ target \in 1 .. MaxEdits + 1 BY DEF Typed, TypeOK
<1>2. hist.starts \in Int BY <1>1, VerifyAssumption DEF History
<1>3. \/ hist'.starts = hist.starts /\ hist'.used = hist.used
      \/ hist'.starts = hist.starts + 1 /\ hist.used \subseteq hist'.used
  BY OnlyBeginsAreNoted, BeginIsNoted
<1>4. hist.used \subseteq hist'.used BY <1>3
<1>5. target = 1
  <2>1. target \in Int /\ target >= 1 BY <1>1, VerifyAssumption
  <2>2. target <= 1 BY RequestStays DEF Quiet
  <2> QED BY <2>1, <2>2
<1>6. \A u, v \in hist.used : u = v BY <1>4 DEF Quiet
<1>7. hist.alone \/ (wf.request # "files" /\ \A u \in hist.used : u.how # "native")
  <2>1. hist'.alone => hist.alone BY AloneEarlier
  <2> QED BY <1>4, <2>1, RequestStays DEF Quiet
<1>8. \A u \in hist.used : u.how = "native" => hist.starts = 1
  <2> SUFFICES ASSUME NEW u \in hist.used, u.how = "native" PROVE hist.starts = 1
    OBVIOUS
  <2>1. hist'.starts = 1 BY <1>4 DEF Quiet
  <2>2. hist.starts # 0 BY DEF Unstarted
  <2> QED BY <1>2, <1>3, <2>1, <2>2
<1> QED BY <1>5, <1>6, <1>7, <1>8 DEF Quiet

LEMMA UnstartedStep == ASSUME Typed, Unstarted, [Next]_vars PROVE Unstarted'
<1>1. hist \in History /\ hist.starts \in Nat BY VerifyAssumption DEF Typed, TypeOK, History
<1>2. ASSUME NEW p \in Process, Begin(p) PROVE Unstarted'
  <2>1. hist'.starts = hist.starts + 1 /\ hist'.used # {} BY <1>2, BeginIsNoted
  <2> QED BY <1>1, <2>1 DEF Unstarted
<1>3. ASSUME NEW p \in Process, Work(p) \/ Crash(p) PROVE Unstarted'
  <2>1. cmd[p].step # "idle" BY <1>3, WorkIsBusy DEF Crash
  <2>2. hist.starts # 0 BY <2>1 DEF Unstarted, Active
  <2>3. hist'.starts = hist.starts /\ hist'.used = hist.used
    BY <1>1, <1>3 DEF Crash, History, Work, Load, LoadReport, Write, Register, ReadEvents, Append, Launch, Ask, Block, Finish
  <2> QED BY <2>2, <2>3 DEF Unstarted
<1>4. CASE Environment
  <2>1. UNCHANGED <<cmd, disk, events>> BY <1>4, OthersStay
  <2>2. hist'.starts = hist.starts /\ hist'.used = hist.used
    BY <1>1, <1>4 DEF Environment, Recover, LeaseExpires, OwnerDecides, Edit, History
  <2>3. wf \in Workflow BY DEF Typed, TypeOK
  <2>4. wf'.status = wf.status
    BY <1>4, <2>3 DEF Environment, Recover, LeaseExpires, OwnerDecides, Edit, Workflow
  <2> QED BY <2>1, <2>2, <2>4 DEF Unstarted, Active, Terminal
<1>5. CASE UNCHANGED vars BY <1>5 DEF vars, Unstarted, Active, Terminal
<1> QED BY <1>2, <1>3, <1>4, <1>5 DEF Next

LEMMA UsedStep == ASSUME Typed, IsFiniteSet(hist.used), [Next]_vars PROVE IsFiniteSet(hist.used)'
<1>1. ASSUME NEW p \in Process, Begin(p) PROVE IsFiniteSet(hist'.used)
  <2>1. PICK u : u = KindOf(p)' OBVIOUS
  <2>2. hist'.used = hist.used \cup {u} BY <1>1, <2>1, BeginIsNoted
  <2> QED BY <2>2, FS_AddElement
<1> QED BY <1>1, OnlyBeginsAreNoted

\* One kind of call is one.
LEMMA OneUsed ==
  ASSUME NEW S, IsFiniteSet(S), Cardinality(S) = 1
  PROVE  \A u, v \in S : u = v
<1> SUFFICES ASSUME NEW u \in S, NEW v \in S PROVE u = v
  OBVIOUS
<1>1. IsFiniteSet(S \ {u}) /\ Cardinality(S \ {u}) = Cardinality(S) - 1 BY FS_RemoveElement
<1>2. S \ {u} = {} BY <1>1, FS_EmptySet
<1> QED BY <1>2

-----------------------------------------------------------------------------
\* What a call under way may rely on.
LEMMA StoryFacts ==
  ASSUME Retold, Quiet, NEW p \in Process, Active(p)
  PROVE  /\ Typed /\ cmd \in [Process -> Running] /\ cmd[p] \in Running /\ wf \in Workflow
         /\ Place(cmd[p], DOMAIN disk) /\ DOMAIN arts \subseteq DOMAIN disk
         /\ OneStory /\ Told(p)
         /\ \A id \in DOMAIN arts : arts[id] = disk[id]
         /\ cmd[p].seen => "report" \in DOMAIN arts
<1>1. Typed /\ ReportIsThere BY DEF Retold, Backing, Keep
<1>2. OneStory /\ Told(p) BY DEF Retold, Story
<1> QED BY <1>1, <1>2 DEF Typed, TypeOK, OneStory, ReportIsThere

\* But for native panels, a call finds what it would write itself.
LEMMA AsWritten ==
  ASSUME Retold, Quiet, NEW p \in Process, Active(p), cmd[p].how # "native"
  PROVE  /\ \A u \in hist.used : u.how # "native" /\ ReviewOf(u) = Review(p) /\ TextOf(u) = Report(p)
         /\ "report" \in DOMAIN disk => disk["report"] = Report(p)
         /\ "findings" \in DOMAIN disk => disk["findings"] = Review(p)
         /\ \A e \in PanelEvents \cap DOMAIN events : events[e] = Review(p)
<1>1. /\ KindOf(p) \in hist.used /\ cmd[p].version = Inspected
      /\ cmd[p].at \notin {"raw", "blocked"} /\ OneStory
  BY StoryFacts DEF Told, SameKind
<1>2. cmd[p].why = "none" BY <1>1 DEF Retold, Backing, OnlyBlockedHasReason
<1>3. PICK u : u = KindOf(p) OBVIOUS
<1>4. u.how = cmd[p].how /\ u.raised = cmd[p].raised BY <1>3 DEF KindOf
<1>5. ReviewOf(u) = Review(p) BY <1>4 DEF ReviewOf, Review
<1>6. MarkersFor(u) = MarkersOf(p) BY <1>4 DEF MarkersFor, MarkersOf
<1>7. TextOf(u) = Report(p) BY <1>1, <1>2, <1>4, <1>6 DEF TextOf, Report, Verdict
<1>8. \A v \in hist.used : v = u BY <1>1, <1>3 DEF Quiet
<1> QED BY <1>1, <1>3, <1>4, <1>5, <1>7, <1>8 DEF OneStory

\* A native panel is the only call there ever was, and nothing runs beside it.
LEMMA PanelIsAlone ==
  ASSUME Retold, Quiet, NEW p \in Process, Active(p), cmd[p].how = "native" \/ wf.request = "files"
  PROVE  \A q \in Process : Active(q) => q = p
<1>1. KindOf(p) \in hist.used BY StoryFacts DEF Told, SameKind
<1>2. KindOf(p).how = cmd[p].how BY DEF KindOf
<1>3. hist.alone BY <1>1, <1>2 DEF Quiet
<1> QED BY <1>3 DEF Retold, Backing, Keep, OneAtATime, Active

\* What a call has in its memory is what it would record.
LEMMA SameRecords ==
  ASSUME NEW q, cmd'[q] = cmd[q], wf'.request = wf.request
  PROVE  Review(q)' = Review(q) /\ Report(q)' = Report(q) /\ KindOf(q)' = KindOf(q)
<1>1. Review(q)' = Review(q) BY DEF Review
<1>2. MarkersOf(q)' = MarkersOf(q) BY DEF MarkersOf
<1>3. Verdict(q)' = Verdict(q) BY <1>2 DEF Verdict
<1>4. Report(q)' = Report(q) BY <1>3 DEF Report
<1> QED BY <1>1, <1>4 DEF KindOf

\* The step of another call, or its start, leaves what a call relies on.
LEMMA OthersStayTold ==
  ASSUME Retold, Quiet, NEW q \in Process, Active(q), cmd[q].how # "native", wf.request # "files",
         Grows, cmd'[q] = cmd[q], wf'.request = wf.request, hist.used \subseteq hist'.used
  PROVE  Told(q)'
<1>2. Review(q)' = Review(q) /\ Report(q)' = Report(q) /\ KindOf(q)' = KindOf(q) BY SameRecords
<1>3. SameKind(q) /\ ChecksAreThere(q) /\ FindingsAreThere(q) /\ ReportIsReady(q) BY StoryFacts DEF Told
<1>4. SameKind(q)' BY <1>2, <1>3 DEF SameKind, Inspected
<1>5. ChecksAreThere(q)' BY <1>3 DEF ChecksAreThere
<1>6. FindingsAreThere(q)' BY <1>2, <1>3 DEF FindingsAreThere, Grows
<1>7. ReportIsReady(q)' BY <1>2, <1>3 DEF ReportIsReady, Grows
<1>8. PanelIsFirst(q)' BY DEF PanelIsFirst
<1> QED BY <1>4, <1>5, <1>6, <1>7, <1>8 DEF Told

LEMMA ToldStays ==
  ASSUME NEW q, Told(q), UNCHANGED <<cmd, arts, disk, events>>, wf'.request = wf.request,
         hist'.used = hist.used
  PROVE  Told(q)'
<1>1. cmd'[q] = cmd[q] OBVIOUS
<1>2. Review(q)' = Review(q) /\ Report(q)' = Report(q) /\ KindOf(q)' = KindOf(q) BY <1>1, SameRecords
<1>3. SameKind(q)' BY <1>2 DEF Told, SameKind, Inspected
<1>4. ChecksAreThere(q)' BY DEF Told, ChecksAreThere
<1>5. FindingsAreThere(q)' BY <1>2 DEF Told, FindingsAreThere
<1>6. ReportIsReady(q)' BY <1>2 DEF Told, ReportIsReady
<1>7. PanelIsFirst(q)' BY <1>2 DEF Told, PanelIsFirst
<1> QED BY <1>3, <1>4, <1>5, <1>6, <1>7 DEF Told

\* What files and events say stays said.
LEMMA StoryKept ==
  ASSUME OneStory, UNCHANGED <<arts, disk, events>>, hist'.used = hist.used, wf'.request = wf.request
  PROVE  OneStory'
<1>1. ASSUME NEW u PROVE TextOf(u)' = TextOf(u) /\ ReviewOf(u)' = ReviewOf(u)
  <2>1. MarkersFor(u)' = MarkersFor(u) BY DEF MarkersFor
  <2> QED BY <2>1 DEF TextOf, ReviewOf, Inspected
<1> QED BY <1>1 DEF OneStory

LEMMA NothingNew == ASSUME UNCHANGED <<arts, disk, events>> PROVE Grows
BY DEF Grows

\* A step within a call: what it does not leave at once, it is told.
LEMMA GoesTold ==
  ASSUME Typed, NEW p \in Process, NEW a, NEW s, Goto(p, a, s), wf'.request = wf.request
  PROVE  /\ cmd'[p].at = a /\ cmd'[p].step = s /\ cmd'[p].how = cmd[p].how /\ cmd'[p].seen = cmd[p].seen
         /\ cmd'[p].todo = cmd[p].todo
         /\ Review(p)' = Review(p) /\ Report(p)' = Report(p)
<1>1. cmd \in [Process -> Running] /\ cmd[p] \in Running BY DEF Typed, TypeOK
<1>2. cmd'[p] = [cmd[p] EXCEPT !.at = a, !.step = s] BY <1>1 DEF Goto
<1>3. /\ cmd'[p].at = a /\ cmd'[p].step = s /\ cmd'[p].how = cmd[p].how /\ cmd'[p].seen = cmd[p].seen
      /\ cmd'[p].todo = cmd[p].todo /\ cmd'[p].run = cmd[p].run /\ cmd'[p].raised = cmd[p].raised
      /\ cmd'[p].version = cmd[p].version /\ cmd'[p].why = cmd[p].why
  BY <1>1, <1>2 DEF Running
<1>4. Review(p)' = Review(p) BY <1>3 DEF Review
<1>5. MarkersOf(p)' = MarkersOf(p) BY <1>3 DEF MarkersOf
<1>6. Verdict(p)' = Verdict(p) BY <1>3, <1>5 DEF Verdict
<1>7. Report(p)' = Report(p) BY <1>3, <1>6 DEF Report
<1> QED BY <1>3, <1>4, <1>7

LEMMA QuitIsIdle == ASSUME Typed, NEW p \in Process, Quit(p) PROVE cmd'[p].step = "idle"
BY DEF Typed, TypeOK, Quit, Idle

\* The kind of a call stays what it was.
LEMMA SameKindStays ==
  ASSUME Retold, Quiet, NEW p \in Process, Work(p), cmd'[p].step # "idle"
  PROVE  SameKind(p)'
<1>0. Active(p) BY WorkIsBusy DEF Active
<1>1. /\ Typed /\ cmd \in [Process -> Running] /\ cmd[p] \in Running /\ wf \in Workflow
      /\ Place(cmd[p], DOMAIN disk) /\ SameKind(p)
  BY <1>0, StoryFacts DEF Told
<1>2. [Next]_vars BY DEF Next
<1>3. wf'.request = wf.request /\ hist'.used = hist.used
  BY <1>1, <1>2, RequestStays DEF Work, Load, LoadReport, Write, Register, ReadEvents, Append, Launch, Ask, Block, Finish
<1>4. Turn(cmd[p], cmd'[p]) /\ cmd'[p] # Idle BY <1>1, WorkTurns DEF Idle
<1>5. Same(cmd[p], cmd'[p]) BY <1>4 DEF Turn
<1>6. \/ Paneled(cmd[p], cmd'[p]) /\ cmd[p].how = "native"
      \/ cmd'[p].raised = cmd[p].raised /\ (Onward(cmd[p], cmd'[p]) \/ Within(cmd[p], cmd'[p]))
  BY <1>1, <1>4 DEF Turn, Paneled, SameKind
<1>7. KindOf(p)' = KindOf(p) BY <1>5, <1>6 DEF KindOf, Same
<1>8. cmd'[p].at \in {"panel", "raw", "blocked"} => cmd'[p].how = "native"
  BY <1>1, <1>5, <1>6 DEF Paneled, Onward, Within, Same, SameKind
<1>9. (cmd'[p].at = "findings" => cmd'[p].how # "plain") /\ (cmd'[p].how = "plain" => cmd'[p].raised = {})
  BY <1>1, <1>5, <1>6 DEF Paneled, Onward, Within, Same, SameKind
<1>10. ASSUME cmd'[p].at = "checks", wf.request # "files" PROVE FALSE
  <2>1. cmd[p].at = "checks" /\ cmd[p].step = "load" BY <1>1, <1>6, <1>10 DEF Paneled, Onward, Within, SameKind
  <2>2. Load(p) BY <2>1 DEF Work, LoadReport, Write, Register, ReadEvents, Append, Launch, Ask, Block, Finish
  <2>3. Proceed(p) BY <1>10, <2>1, <2>2 DEF Load
  <2>4. After(p)[1] # "checks" BY <1>1, <2>1 DEF After, Running, Kind
  <2>5. cmd'[p].at = After(p)[1] BY <1>1, <2>3, GotoTurns DEF Proceed
  <2> QED BY <1>10, <2>4, <2>5
<1> QED BY <1>1, <1>3, <1>5, <1>7, <1>8, <1>9, <1>10 DEF SameKind, Same, Inspected

-----------------------------------------------------------------------------
\* What a step of a call has to show: it changes nothing that was said, and either ends
\* the call or leaves what the next step relies on.
Fine(p) == OneStory' /\ Grows /\ (cmd'[p].step = "idle" \/ Told(p)')

LEMMA LoadIsFine == ASSUME Retold, Quiet, NEW p \in Process, Load(p) PROVE Fine(p)
<1>0. Active(p) /\ Work(p) /\ cmd[p].step = "load" /\ cmd[p].at \in {"checks", "raw", "findings"}
  BY DEF Active, Work, Load
<1>1. /\ Typed /\ cmd[p] \in Running /\ OneStory /\ \A id \in DOMAIN arts : arts[id] = disk[id]
      /\ DOMAIN arts \subseteq DOMAIN disk
      /\ SameKind(p) /\ ChecksAreThere(p) /\ FindingsAreThere(p) /\ PanelIsFirst(p)
  BY <1>0, StoryFacts DEF Told
<1>2. UNCHANGED <<wf, arts, raws, disk, events, target, session, hist>> BY DEF Load
<1>3. OneStory' /\ Grows BY <1>1, <1>2, StoryKept, NothingNew
<1>4. PICK a, s :
        /\ Goto(p, a, s)
        /\ \/ /\ (cmd[p].at = "checks" /\ wf.request # "files") \/ cmd[p].at = "raw"
              /\ a = After(p)[1] /\ s = After(p)[2]
           \/ a = cmd[p].at /\ cmd[p].at # "raw" /\ s = "read" /\ cmd[p].at \in DOMAIN arts
              /\ (cmd[p].at = "checks" => wf.request = "files")
           \/ a = cmd[p].at /\ s = "write" /\ (cmd[p].at # "raw" => cmd[p].at \notin DOMAIN arts)
              /\ (cmd[p].at = "checks" => wf.request = "files")
  <2>1. cmd[p].at # "raw" => (Registered(p) <=> cmd[p].at \in DOMAIN arts) BY <1>0 DEF Registered, Id
  <2>2. CASE cmd[p].at = "checks" /\ wf.request # "files"
    <3>1. Proceed(p) BY <2>2 DEF Load
    <3> QED BY <2>2, <3>1 DEF Proceed
  <2>3. CASE cmd[p].at = "raw" /\ Registered(p)
    <3>1. Proceed(p) BY <2>3 DEF Load
    <3> QED BY <2>3, <3>1 DEF Proceed
  <2>4. CASE cmd[p].at = "raw" /\ ~Registered(p)
    <3>1. Goto(p, cmd[p].at, "write") BY <2>4 DEF Load
    <3> QED BY <2>4, <3>1
  <2>5. CASE cmd[p].at # "raw" /\ ~(cmd[p].at = "checks" /\ wf.request # "files") /\ Registered(p)
    <3>1. Goto(p, cmd[p].at, "read") BY <2>5 DEF Load
    <3> QED BY <2>1, <2>5, <3>1
  <2>6. CASE cmd[p].at # "raw" /\ ~(cmd[p].at = "checks" /\ wf.request # "files") /\ ~Registered(p)
    <3>1. Goto(p, cmd[p].at, "write") BY <2>6 DEF Load
    <3> QED BY <2>1, <2>6, <3>1
  <2> QED BY <2>2, <2>3, <2>4, <2>5, <2>6
<1>5. /\ cmd'[p].at = a /\ cmd'[p].step = s /\ cmd'[p].how = cmd[p].how /\ cmd'[p].seen = cmd[p].seen
      /\ cmd'[p].todo = cmd[p].todo
      /\ Review(p)' = Review(p) /\ Report(p)' = Report(p)
  BY <1>1, <1>2, <1>4, GoesTold
<1>6. CASE (cmd[p].at = "checks" /\ wf.request # "files") \/ cmd[p].at = "raw"
  <2>1. CASE a = After(p)[1] /\ s = After(p)[2]
    <3>1. \/ cmd[p].at = "checks" /\ cmd[p].how = "plain" /\ a = "report" /\ s = "load"
          \/ cmd[p].at = "checks" /\ cmd[p].how = "packet" /\ a = "findings" /\ s = "load"
          \/ cmd[p].at = "checks" /\ cmd[p].how = "native" /\ a = "panel" /\ s = "launch"
          \/ cmd[p].at = "raw" /\ a = "blocked" /\ s = "load"
      BY <1>1, <1>6, <2>1 DEF After, Running, Kind
    <3>2. ChecksAreThere(p)' BY <1>1, <1>2, <1>5, <1>6, <3>1 DEF ChecksAreThere, Later
    <3>3. FindingsAreThere(p)' BY <1>5, <3>1 DEF FindingsAreThere
    <3>4. ReportIsReady(p)' BY <1>5, <3>1 DEF ReportIsReady
    <3>5. PanelIsFirst(p)' BY <1>0, <1>1, <1>2, <1>5, <3>1 DEF PanelIsFirst
    <3>6. SameKind(p)' BY <1>0, <1>5, <3>1, SameKindStays
    <3> QED BY <1>3, <3>2, <3>3, <3>4, <3>5, <3>6 DEF Fine, Told
  <2>2. CASE cmd[p].at = "raw" /\ a = "raw" /\ s = "write"
    <3>2. ChecksAreThere(p)' BY <1>1, <1>2, <1>5, <2>2 DEF ChecksAreThere, Later
    <3>3. FindingsAreThere(p)' BY <1>5, <2>2 DEF FindingsAreThere
    <3>4. ReportIsReady(p)' BY <1>5, <2>2 DEF ReportIsReady
    <3>5. PanelIsFirst(p)' BY <1>0, <1>1, <1>2, <1>5, <2>2 DEF PanelIsFirst
    <3>6. SameKind(p)' BY <1>0, <1>5, <2>2, SameKindStays
    <3> QED BY <1>3, <3>2, <3>3, <3>4, <3>5, <3>6 DEF Fine, Told
  <2> QED BY <1>4, <1>6, <2>1, <2>2
<1>7. CASE ~((cmd[p].at = "checks" /\ wf.request # "files") \/ cmd[p].at = "raw")
  <2>1. /\ a = cmd[p].at /\ cmd[p].at \in {"checks", "findings"} /\ s \in {"read", "write"}
        /\ s = "read" <=> cmd[p].at \in DOMAIN arts
        /\ cmd[p].at = "checks" => wf.request = "files"
    BY <1>0, <1>4, <1>7
  <2>2. ChecksAreThere(p)' BY <1>1, <1>2, <1>5, <2>1 DEF ChecksAreThere, Later
  <2>3. FindingsAreThere(p)'
    <3>1. ASSUME s = "read", cmd[p].at = "findings" PROVE arts["findings"] = Review(p)
      <4>1. "findings" \in DOMAIN arts /\ cmd[p].how # "native" BY <1>0, <1>1, <2>1, <3>1 DEF PanelIsFirst
      <4>2. "findings" \in DOMAIN disk /\ arts["findings"] = disk["findings"] BY <1>1, <4>1
      <4> QED BY <1>0, <4>1, <4>2, AsWritten
    <3> QED BY <1>2, <1>5, <2>1, <3>1 DEF FindingsAreThere
  <2>4. ReportIsReady(p)' BY <1>5, <2>1 DEF ReportIsReady
  <2>5. PanelIsFirst(p)' BY <1>0, <1>1, <1>2, <1>5, <2>1 DEF PanelIsFirst
  <2>6. SameKind(p)' BY <1>0, <1>5, <2>1, SameKindStays
  <2> QED BY <1>3, <2>2, <2>3, <2>4, <2>5, <2>6 DEF Fine, Told
<1> QED BY <1>6, <1>7

LEMMA LoadReportIsFine == ASSUME Retold, Quiet, NEW p \in Process, LoadReport(p) PROVE Fine(p)
<1>0. Active(p) /\ Work(p) /\ cmd[p].step = "load" /\ cmd[p].at \in {"report", "blocked"}
  BY DEF Active, Work, LoadReport
<1>1. /\ Typed /\ cmd[p] \in Running /\ OneStory /\ \A id \in DOMAIN arts : arts[id] = disk[id]
      /\ SameKind(p) /\ ChecksAreThere(p) /\ FindingsAreThere(p) /\ PanelIsFirst(p)
      /\ cmd[p].seen => "report" \in DOMAIN arts
  BY <1>0, StoryFacts DEF Told
<1>2. UNCHANGED <<wf, arts, raws, disk, events, target, session, hist>> BY DEF LoadReport
<1>3. OneStory' /\ Grows BY <1>1, <1>2, StoryKept, NothingNew
<1>4. CASE Quit(p) BY <1>1, <1>3, <1>4, QuitIsIdle DEF Fine
<1>5. ASSUME NEW s \in {"write", "commit"}, Goto(p, cmd[p].at, s),
             s = "commit" => /\ cmd[p].at = "report" => cmd[p].seen
                             /\ cmd[p].at = "blocked" => Registered(p)
                             /\ disk["report"] = Report(p)
      PROVE  Fine(p)
  <2>1. /\ cmd'[p].at = cmd[p].at /\ cmd'[p].step = s /\ cmd'[p].how = cmd[p].how
        /\ cmd'[p].seen = cmd[p].seen /\ cmd'[p].todo = cmd[p].todo
        /\ Review(p)' = Review(p) /\ Report(p)' = Report(p)
    BY <1>1, <1>2, <1>5, GoesTold
  <2>2. ChecksAreThere(p)' BY <1>0, <1>1, <1>2, <2>1 DEF ChecksAreThere, Later
  <2>3. FindingsAreThere(p)' BY <1>0, <1>1, <1>2, <2>1 DEF FindingsAreThere
  <2>4. ReportIsReady(p)' BY <1>1, <1>2, <1>5, <2>1 DEF ReportIsReady
  <2>5. PanelIsFirst(p)' BY <1>0, <1>1, <1>2, <2>1 DEF PanelIsFirst
  <2>6. SameKind(p)' BY <1>0, <2>1, SameKindStays
  <2> QED BY <1>3, <2>2, <2>3, <2>4, <2>5, <2>6 DEF Fine, Told
<1>6. \/ Quit(p) \/ Goto(p, cmd[p].at, "write")
      \/ /\ Goto(p, cmd[p].at, "commit") /\ disk["report"] = Report(p)
         /\ cmd[p].at = "report" => cmd[p].seen
         /\ cmd[p].at = "blocked" => Registered(p)
  <2>1. PICK seen : seen = IF cmd[p].at = "report" THEN cmd[p].seen ELSE Registered(p) OBVIOUS
  <2>2. CASE ~seen
    <3>1. Goto(p, cmd[p].at, "write") BY <2>1, <2>2 DEF LoadReport
    <3> QED BY <3>1
  <2>3. CASE seen
    <3>1. CASE disk["report"] = Report(p)
      <4>1. Goto(p, cmd[p].at, "commit") BY <2>1, <2>3, <3>1 DEF LoadReport
      <4> QED BY <2>1, <2>3, <3>1, <4>1
    <3>2. CASE disk["report"] # Report(p)
      <4>1. Quit(p) BY <2>1, <2>3, <3>2 DEF LoadReport
      <4> QED BY <4>1
    <3> QED BY <3>1, <3>2
  <2> QED BY <2>2, <2>3
<1> QED BY <1>4, <1>5, <1>6

LEMMA WriteIsFine == ASSUME Retold, Quiet, NEW p \in Process, Write(p) PROVE Fine(p)
<1>0. Active(p) /\ Work(p) /\ cmd[p].step = "write" BY DEF Active, Work, Write
<1>1. /\ Typed /\ cmd[p] \in Running /\ wf \in Workflow /\ Place(cmd[p], DOMAIN disk) /\ OneStory
      /\ \A id \in DOMAIN arts : arts[id] = disk[id] /\ id \in DOMAIN disk
      /\ SameKind(p) /\ ChecksAreThere(p) /\ FindingsAreThere(p) /\ PanelIsFirst(p)
  BY <1>0, StoryFacts DEF Told
<1>2. UNCHANGED <<wf, arts, raws, events, target, session, hist>> /\ Goto(p, cmd[p].at, "register") BY DEF Write
<1>3. /\ cmd'[p].at = cmd[p].at /\ cmd'[p].step = "register" /\ cmd'[p].how = cmd[p].how
      /\ cmd'[p].seen = cmd[p].seen /\ cmd'[p].todo = cmd[p].todo
      /\ Review(p)' = Review(p) /\ Report(p)' = Report(p)
  BY <1>1, <1>2, GoesTold
<1>4. cmd[p].at \in {"checks", "raw", "findings", "report", "blocked"} BY <1>0, <1>1 DEF Place
<1>5. CASE cmd[p].at = "raw"
  <2>1. UNCHANGED disk BY <1>5 DEF Write
  <2>2. OneStory' /\ Grows BY <1>1, <1>2, <2>1, StoryKept, NothingNew
  <2>3. ChecksAreThere(p)' BY <1>1, <1>2, <1>3, <1>5 DEF ChecksAreThere, Later
  <2>4. FindingsAreThere(p)' /\ ReportIsReady(p)' BY <1>3, <1>5 DEF FindingsAreThere, ReportIsReady
  <2>5. PanelIsFirst(p)' BY <1>0, <1>1, <1>2, <1>3, <1>5 DEF PanelIsFirst
  <2>6. SameKind(p)' BY <1>0, <1>3, SameKindStays
  <2> QED BY <2>2, <2>3, <2>4, <2>5, <2>6 DEF Fine, Told
<1>6. CASE cmd[p].at # "raw"
  <2>1. PICK id : id = Id(p) OBVIOUS
  <2>2. PICK c : c = Content(p) OBVIOUS
  <2>3. disk' = With(disk, id, c) BY <1>6, <2>1, <2>2 DEF Write
  <2>4. DOMAIN disk' = DOMAIN disk \cup {id} /\ disk'[id] = c /\ \A i \in DOMAIN disk : i # id => disk'[i] = disk[i]
    <3>1. /\ DOMAIN With(disk, id, c) = DOMAIN disk \cup {id} /\ With(disk, id, c)[id] = c
          /\ \A i \in DOMAIN disk : i # id => With(disk, id, c)[i] = disk[i]
      BY DEF With
    <3> QED BY <2>3, <3>1
  <2>5. /\ cmd[p].at = "checks" => id = "checks" /\ c.version = cmd[p].version /\ wf.request = "files"
        /\ cmd[p].at = "findings" => id = "findings" /\ c = Review(p)
        /\ cmd[p].at \in {"report", "blocked"} => id = "report" /\ c = Report(p)
        /\ cmd[p].at = "blocked" => cmd[p].how = "native"
    BY <1>0, <1>1, <2>1, <2>2 DEF Id, Content, SameKind
  <2>6. ASSUME id \in DOMAIN arts PROVE c = disk[id]
    <3>1. cmd[p].at # "checks" BY <1>0, <1>1, <2>5, <2>6 DEF ChecksAreThere
    <3>2. cmd[p].how # "native" BY <1>0, <1>1, <1>4, <1>6, <2>5, <2>6, <3>1 DEF PanelIsFirst
    <3>3. id \in DOMAIN disk BY <1>1, <2>6
    <3> QED BY <1>0, <1>4, <1>6, <2>5, <3>1, <3>2, <3>3, AsWritten
  <2>7. Grows BY <1>1, <1>2, <2>4, <2>6 DEF Grows
  <2>8. OneStory'
    <3>1. \A i \in DOMAIN arts' : arts'[i] = disk'[i] BY <1>1, <1>2, <2>4, <2>6
    <3>2. "checks" \in DOMAIN disk' => disk'["checks"].version = 1
      <4>1. cmd[p].at = "checks" => c.version = 1 BY <1>1, <2>5 DEF SameKind, Inspected
      <4>2. id = "checks" => cmd[p].at = "checks" BY <1>4, <1>6, <2>5
      <4> QED BY <1>1, <2>4, <4>1, <4>2 DEF OneStory
    <3>3. ASSUME NEW u \in hist.used, u.how # "native"
          PROVE  /\ "report" \in DOMAIN disk' => disk'["report"] = TextOf(u)
                 /\ "findings" \in DOMAIN disk' => disk'["findings"] = ReviewOf(u)
                 /\ \A e \in PanelEvents \cap DOMAIN events : events[e] = ReviewOf(u)
      <4>1. KindOf(p) = u BY <1>1, <3>3 DEF SameKind, Quiet
      <4>2. cmd[p].how # "native" BY <3>3, <4>1 DEF KindOf
      <4>3. ReviewOf(u) = Review(p) /\ TextOf(u) = Report(p) BY <1>0, <4>2, AsWritten
      <4>4. /\ "report" \in DOMAIN disk => disk["report"] = TextOf(u)
            /\ "findings" \in DOMAIN disk => disk["findings"] = ReviewOf(u)
            /\ \A e \in PanelEvents \cap DOMAIN events : events[e] = ReviewOf(u)
        BY <1>1, <3>3 DEF OneStory
      <4> QED BY <1>4, <1>6, <2>4, <2>5, <4>3, <4>4
    <3>4. ASSUME NEW u PROVE TextOf(u)' = TextOf(u) /\ ReviewOf(u)' = ReviewOf(u)
      <4>1. MarkersFor(u)' = MarkersFor(u) BY <1>2 DEF MarkersFor
      <4> QED BY <1>2, <4>1 DEF TextOf, ReviewOf, Inspected
    <3> QED BY <1>2, <3>1, <3>2, <3>3, <3>4 DEF OneStory
  <2>9. ChecksAreThere(p)' BY <1>0, <1>1, <1>2, <1>3, <1>4, <1>6 DEF ChecksAreThere, Later
  <2>10. FindingsAreThere(p)' BY <1>1, <1>2, <1>3, <1>4, <1>6 DEF FindingsAreThere
  <2>11. ReportIsReady(p)' BY <1>3 DEF ReportIsReady
  <2>12. PanelIsFirst(p)' BY <1>0, <1>1, <1>2, <1>3, <1>4, <1>6, <2>4, <2>5 DEF PanelIsFirst
  <2>13. SameKind(p)' BY <1>0, <1>3, SameKindStays
  <2> QED BY <2>7, <2>8, <2>9, <2>10, <2>11, <2>12, <2>13 DEF Fine, Told
<1> QED BY <1>5, <1>6

LEMMA RegisterIsFine == ASSUME Retold, Quiet, NEW p \in Process, Register(p) PROVE Fine(p)
<1>0. Active(p) /\ Work(p) /\ cmd[p].step = "register" BY DEF Active, Work, Register
<1>1. /\ Typed /\ cmd[p] \in Running /\ Place(cmd[p], DOMAIN disk) /\ OneStory
      /\ \A id \in DOMAIN arts : arts[id] = disk[id]
      /\ SameKind(p) /\ ChecksAreThere(p) /\ FindingsAreThere(p) /\ PanelIsFirst(p)
  BY <1>0, StoryFacts DEF Told
<1>2. UNCHANGED <<wf, disk, events, target, session, hist>> BY DEF Register
<1>3. cmd[p].at \in {"checks", "raw", "findings", "report", "blocked"} BY <1>0, <1>1 DEF Place
<1>4. CASE Terminal \/ Registered(p)
  <2>1. Quit(p) /\ UNCHANGED <<arts, raws>> BY <1>4 DEF Register
  <2>2. OneStory' /\ Grows BY <1>1, <1>2, <2>1, StoryKept, NothingNew
  <2> QED BY <1>1, <2>1, <2>2, QuitIsIdle DEF Fine
<1>5. CASE ~(Terminal \/ Registered(p)) /\ cmd[p].at = "raw"
  <2>1. Proceed(p) /\ UNCHANGED arts BY <1>5 DEF Register
  <2>2. OneStory' /\ Grows BY <1>1, <1>2, <2>1, StoryKept, NothingNew
  <2>3. Goto(p, "blocked", "load") BY <1>5, <2>1 DEF Proceed, After
  <2>4. /\ cmd'[p].at = "blocked" /\ cmd'[p].step = "load" /\ cmd'[p].how = cmd[p].how
        /\ cmd'[p].seen = cmd[p].seen
    BY <1>1, <1>2, <2>3, GoesTold
  <2>5. ChecksAreThere(p)' BY <1>1, <1>2, <1>5, <2>1, <2>4 DEF ChecksAreThere, Later
  <2>6. FindingsAreThere(p)' /\ ReportIsReady(p)' BY <2>4 DEF FindingsAreThere, ReportIsReady
  <2>7. PanelIsFirst(p)' BY <1>0, <1>1, <2>1, <2>4 DEF PanelIsFirst
  <2>8. SameKind(p)' BY <1>0, <2>4, SameKindStays
  <2> QED BY <2>2, <2>5, <2>6, <2>7, <2>8 DEF Fine, Told
<1>6. CASE ~(Terminal \/ Registered(p)) /\ cmd[p].at # "raw"
  <2>1. PICK id : id = Id(p) OBVIOUS
  <2>2. /\ cmd[p].at \in {"checks", "findings"} => id = cmd[p].at
        /\ cmd[p].at \in {"report", "blocked"} => id = "report"
        /\ id \notin DOMAIN arts /\ id \in DOMAIN disk
    BY <1>0, <1>1, <1>3, <1>6, <2>1 DEF Id, Registered, Place
  <2>3. arts' = With(arts, id, disk[id])
    <3>1. arts' = With(arts, Id(p), disk[Id(p)]) BY <1>6 DEF Register
    <3> QED BY <2>1, <3>1
  <2>4. /\ DOMAIN arts' = DOMAIN arts \cup {id} /\ arts'[id] = disk[id]
        /\ \A i \in DOMAIN arts : i # id => arts'[i] = arts[i]
    <3>1. PICK c : c = disk[id] OBVIOUS
    <3>2. /\ DOMAIN With(arts, id, c) = DOMAIN arts \cup {id} /\ With(arts, id, c)[id] = c
          /\ \A i \in DOMAIN arts : i # id => With(arts, id, c)[i] = arts[i]
      BY DEF With
    <3> QED BY <2>3, <3>1, <3>2
  <2>5. PICK s \in {"commit", "read"} :
          /\ Goto(p, cmd[p].at, s)
          /\ s = "commit" <=> cmd[p].at \in {"report", "blocked"}
    <3>1. CASE cmd[p].at \in {"report", "blocked"}
      <4>1. Goto(p, cmd[p].at, "commit") BY <1>6, <3>1 DEF Register
      <4> QED BY <3>1, <4>1
    <3>2. CASE cmd[p].at \in {"checks", "findings"}
      <4>1. Goto(p, cmd[p].at, "read") BY <1>6, <3>2 DEF Register
      <4> QED BY <3>2, <4>1
    <3> QED BY <1>3, <1>6, <3>1, <3>2
  <2>6. /\ cmd'[p].at = cmd[p].at /\ cmd'[p].step = s /\ cmd'[p].how = cmd[p].how
        /\ cmd'[p].seen = cmd[p].seen /\ cmd'[p].todo = cmd[p].todo
        /\ Review(p)' = Review(p) /\ Report(p)' = Report(p)
    BY <1>1, <1>2, <2>5, GoesTold
  <2>7. Grows BY <1>2, <2>2, <2>4 DEF Grows
  <2>8. OneStory'
    <3>1. ASSUME NEW u PROVE TextOf(u)' = TextOf(u) /\ ReviewOf(u)' = ReviewOf(u)
      <4>1. MarkersFor(u)' = MarkersFor(u) BY <1>2 DEF MarkersFor
      <4> QED BY <1>2, <4>1 DEF TextOf, ReviewOf, Inspected
    <3>2. \A i \in DOMAIN arts' : arts'[i] = disk'[i] BY <1>1, <1>2, <2>4
    <3> QED BY <1>1, <1>2, <3>1, <3>2 DEF OneStory
  <2>9. cmd[p].at = "findings" => disk["findings"] = Review(p)
    <3>1. cmd[p].how # "native" /\ cmd[p].at = "findings" => disk["findings"] = Review(p)
      BY <1>0, <2>2, AsWritten
    <3> QED BY <1>0, <1>1, <3>1 DEF PanelIsFirst
  <2>10. cmd[p].at = "report" => disk["report"] = Report(p)
    <3>1. cmd[p].how # "native" /\ cmd[p].at = "report" => disk["report"] = Report(p)
      BY <1>0, <2>2, AsWritten
    <3> QED BY <1>0, <1>1, <3>1 DEF PanelIsFirst
  <2>11. ChecksAreThere(p)' BY <1>1, <1>2, <1>3, <1>6, <2>2, <2>4, <2>5, <2>6 DEF ChecksAreThere, Later
  <2>12. FindingsAreThere(p)'
    BY <1>1, <1>2, <1>3, <1>6, <2>2, <2>4, <2>5, <2>6, <2>9 DEF FindingsAreThere
  <2>13. ReportIsReady(p)' BY <2>2, <2>4, <2>6, <2>10 DEF ReportIsReady
  <2>14. PanelIsFirst(p)' BY <1>0, <1>1, <1>2, <1>3, <1>6, <2>2, <2>4, <2>5, <2>6 DEF PanelIsFirst
  <2>15. SameKind(p)' BY <1>0, <2>6, SameKindStays
  <2> QED BY <2>7, <2>8, <2>11, <2>12, <2>13, <2>14, <2>15 DEF Fine, Told
<1> QED BY <1>4, <1>5, <1>6

LEMMA ReadEventsIsFine == ASSUME Retold, Quiet, NEW p \in Process, ReadEvents(p) PROVE Fine(p)
<1>0. Active(p) /\ Work(p) /\ cmd[p].step = "read" BY DEF Active, Work, ReadEvents
<1>1. /\ Typed /\ cmd \in [Process -> Running] /\ cmd[p] \in Running /\ Place(cmd[p], DOMAIN disk) /\ OneStory
      /\ SameKind(p) /\ ChecksAreThere(p) /\ FindingsAreThere(p) /\ PanelIsFirst(p)
  BY <1>0, StoryFacts DEF Told
<1>2. UNCHANGED <<wf, arts, raws, disk, events, target, session, hist>> BY DEF ReadEvents
<1>3. OneStory' /\ Grows BY <1>1, <1>2, StoryKept, NothingNew
<1>4. cmd[p].at \in {"checks", "findings"} BY <1>0, <1>1 DEF Place
<1>5. PICK t : t = (IF cmd[p].at = "checks" THEN {"checks"} ELSE PanelEvents) \ DOMAIN events OBVIOUS
<1>6. cmd' = [cmd EXCEPT ![p].step = "append", ![p].todo = t] BY <1>5 DEF ReadEvents
<1>7. /\ cmd'[p].at = cmd[p].at /\ cmd'[p].step = "append" /\ cmd'[p].how = cmd[p].how
      /\ cmd'[p].seen = cmd[p].seen /\ cmd'[p].todo = t /\ cmd'[p].run = cmd[p].run
      /\ cmd'[p].raised = cmd[p].raised
  BY <1>1, <1>6 DEF Running
<1>8. Review(p)' = Review(p) BY <1>7 DEF Review
<1>9. ChecksAreThere(p)' BY <1>0, <1>1, <1>2, <1>4, <1>5, <1>7 DEF ChecksAreThere, Later
<1>10. FindingsAreThere(p)'
  <2>1. ASSUME cmd[p].at = "findings" PROVE \A e \in PanelEvents \cap DOMAIN events : events[e] = Review(p)
    <3>1. CASE cmd[p].how # "native" BY <1>0, <3>1, AsWritten
    <3>2. CASE cmd[p].how = "native" BY <1>0, <1>1, <2>1, <3>2 DEF PanelIsFirst
    <3> QED BY <3>1, <3>2
  <2> QED BY <1>0, <1>1, <1>2, <1>4, <1>5, <1>7, <1>8, <2>1 DEF FindingsAreThere
<1>11. ReportIsReady(p)' BY <1>7 DEF ReportIsReady
<1>12. PanelIsFirst(p)' BY <1>0, <1>1, <1>2, <1>4, <1>7 DEF PanelIsFirst
<1>13. SameKind(p)' BY <1>0, <1>7, SameKindStays
<1> QED BY <1>3, <1>9, <1>10, <1>11, <1>12, <1>13 DEF Fine, Told

LEMMA AppendIsFine == ASSUME Retold, Quiet, NEW p \in Process, Append(p) PROVE Fine(p)
<1>0. Active(p) /\ Work(p) /\ cmd[p].step = "append" BY DEF Active, Work, Append
<1>1. /\ Typed /\ cmd \in [Process -> Running] /\ cmd[p] \in Running /\ Place(cmd[p], DOMAIN disk) /\ OneStory
      /\ SameKind(p) /\ ChecksAreThere(p) /\ FindingsAreThere(p) /\ PanelIsFirst(p)
  BY <1>0, StoryFacts DEF Told
<1>2. UNCHANGED <<wf, arts, raws, disk, target, session, hist>> BY DEF Append
<1>3. cmd[p].at \in {"checks", "findings"} BY <1>0, <1>1 DEF Place
<1>4. CASE Quit(p) /\ UNCHANGED events
  <2>1. OneStory' /\ Grows BY <1>1, <1>2, <1>4, StoryKept, NothingNew
  <2> QED BY <1>1, <1>4, <2>1, QuitIsIdle DEF Fine
<1>5. CASE cmd[p].todo = {}
  <2>1. Proceed(p) /\ UNCHANGED events BY <1>5 DEF Append
  <2>2. OneStory' /\ Grows BY <1>1, <1>2, <2>1, StoryKept, NothingNew
  <2>3. PICK a, s : a = After(p)[1] /\ s = After(p)[2] /\ Goto(p, a, s) BY <2>1 DEF Proceed
  <2>4. \/ cmd[p].at = "checks" /\ cmd[p].how = "plain" /\ a = "report" /\ s = "load"
        \/ cmd[p].at = "checks" /\ cmd[p].how = "packet" /\ a = "findings" /\ s = "load"
        \/ cmd[p].at = "checks" /\ cmd[p].how = "native" /\ a = "panel" /\ s = "launch"
        \/ cmd[p].at = "findings" /\ a = "report" /\ s = "load"
    BY <1>1, <1>3, <2>3 DEF After, Running, Kind
  <2>5. /\ cmd'[p].at = a /\ cmd'[p].step = s /\ cmd'[p].how = cmd[p].how /\ cmd'[p].seen = cmd[p].seen
        /\ Review(p)' = Review(p)
    BY <1>1, <1>2, <2>3, GoesTold
  <2>6. ChecksAreThere(p)' BY <1>0, <1>1, <1>2, <1>5, <2>1, <2>4, <2>5 DEF ChecksAreThere, Later
  <2>7. FindingsAreThere(p)' BY <1>0, <1>1, <1>2, <1>5, <2>1, <2>4, <2>5 DEF FindingsAreThere
  <2>8. ReportIsReady(p)' BY <2>4, <2>5 DEF ReportIsReady
  <2>9. PanelIsFirst(p)' BY <1>0, <1>1, <1>2, <2>1, <2>4, <2>5 DEF PanelIsFirst
  <2>10. SameKind(p)' BY <1>0, <2>4, <2>5, SameKindStays
  <2> QED BY <2>2, <2>6, <2>7, <2>8, <2>9, <2>10 DEF Fine, Told
<1>6. ASSUME NEW e, e \in cmd[p].todo, e \notin DOMAIN events,
             cmd' = [cmd EXCEPT ![p].todo = @ \ {e}], events' = With(events, e, Review(p))
      PROVE  Fine(p)
  <2>1. /\ cmd'[p].at = cmd[p].at /\ cmd'[p].step = "append" /\ cmd'[p].how = cmd[p].how
        /\ cmd'[p].seen = cmd[p].seen /\ cmd'[p].todo = cmd[p].todo \ {e}
        /\ cmd'[p].run = cmd[p].run /\ cmd'[p].raised = cmd[p].raised
    BY <1>0, <1>1, <1>6 DEF Running
  <2>2. Review(p)' = Review(p) BY <2>1 DEF Review
  <2>3. /\ DOMAIN events' = DOMAIN events \cup {e} /\ events'[e] = Review(p)
        /\ \A k \in DOMAIN events : events'[k] = events[k]
    <3>1. PICK c : c = Review(p) OBVIOUS
    <3>2. /\ DOMAIN With(events, e, c) = DOMAIN events \cup {e} /\ With(events, e, c)[e] = c
          /\ \A i \in DOMAIN events : i # e => With(events, e, c)[i] = events[i]
      BY DEF With
    <3> QED BY <1>6, <3>1, <3>2
  <2>4. Grows BY <1>2, <2>3 DEF Grows
  <2>5. OneStory'
    <3>1. ASSUME NEW u PROVE TextOf(u)' = TextOf(u) /\ ReviewOf(u)' = ReviewOf(u)
      <4>1. MarkersFor(u)' = MarkersFor(u) BY <1>2 DEF MarkersFor
      <4> QED BY <1>2, <4>1 DEF TextOf, ReviewOf, Inspected
    <3>2. ASSUME NEW u \in hist.used, u.how # "native"
          PROVE  \A k \in PanelEvents \cap DOMAIN events' : events'[k] = ReviewOf(u)
      <4>1. KindOf(p) = u BY <1>1, <3>2 DEF SameKind, Quiet
      <4>2. cmd[p].how # "native" BY <3>2, <4>1 DEF KindOf
      <4>3. ReviewOf(u) = Review(p) BY <1>0, <3>2, <4>2, AsWritten
      <4>4. \A k \in PanelEvents \cap DOMAIN events : events[k] = ReviewOf(u) BY <1>1, <3>2 DEF OneStory
      <4> QED BY <2>3, <4>3, <4>4
    <3> QED BY <1>1, <1>2, <3>1, <3>2 DEF OneStory
  <2>6. ChecksAreThere(p)' BY <1>0, <1>1, <1>2, <2>1, <2>3 DEF ChecksAreThere, Later
  <2>7. FindingsAreThere(p)'
    <3>1. cmd[p].at = "findings" => \A k \in PanelEvents \ cmd'[p].todo : k \in DOMAIN events' /\ events'[k] = Review(p)
      BY <1>0, <1>1, <2>1, <2>3 DEF FindingsAreThere
    <3>2. cmd[p].how # "plain" /\ cmd[p].at = "findings" => "findings" \in DOMAIN arts /\ arts["findings"] = Review(p)
      BY <1>0, <1>1 DEF FindingsAreThere
    <3> QED BY <1>2, <1>3, <2>1, <2>2, <3>1, <3>2 DEF FindingsAreThere
  <2>8. ReportIsReady(p)' BY <2>1 DEF ReportIsReady
  <2>9. PanelIsFirst(p)'
    <3>1. "checks" \notin PanelEvents BY DEF PanelEvents
    <3>2. cmd[p].at = "checks" => e = "checks" BY <1>0, <1>1, <1>6 DEF ChecksAreThere
    <3> QED BY <1>0, <1>1, <1>2, <1>3, <2>1, <2>3, <3>1, <3>2 DEF PanelIsFirst
  <2>10. SameKind(p)' BY <1>0, <2>1, SameKindStays
  <2> QED BY <2>4, <2>5, <2>6, <2>7, <2>8, <2>9, <2>10 DEF Fine, Told
<1>7. CASE cmd[p].todo # {}
  <2>1. PICK e : e = NextEvent(p) OBVIOUS
  <2>2. e \in cmd[p].todo BY <1>1, <1>7, <2>1, NextEventIsDue
  <2>3. \/ Quit(p) /\ UNCHANGED events
        \/ /\ e \notin DOMAIN events /\ cmd' = [cmd EXCEPT ![p].todo = @ \ {e}]
           /\ events' = With(events, e, Review(p))
    <3>1. \/ Quit(p) /\ UNCHANGED events
          \/ /\ NextEvent(p) \notin DOMAIN events /\ cmd' = [cmd EXCEPT ![p].todo = @ \ {NextEvent(p)}]
             /\ events' = With(events, NextEvent(p), Review(p))
      BY <1>7 DEF Append, NextEvent
    <3> QED BY <2>1, <3>1
  <2> QED BY <1>4, <1>6, <2>2, <2>3
<1> QED BY <1>5, <1>7

LEMMA LaunchIsFine == ASSUME Retold, Quiet, NEW p \in Process, Launch(p) PROVE Fine(p)
<1>0. Active(p) /\ Work(p) /\ cmd[p].step = "launch" BY DEF Active, Work, Launch
<1>1. /\ Typed /\ cmd[p] \in Running /\ wf \in Workflow /\ Place(cmd[p], DOMAIN disk) /\ OneStory
      /\ SameKind(p) /\ ChecksAreThere(p) /\ PanelIsFirst(p)
  BY <1>0, StoryFacts DEF Told
<1>2. UNCHANGED <<arts, raws, disk, events, target, session, hist>> BY DEF Launch
<1>3. cmd[p].at = "panel" BY <1>0, <1>1 DEF Place
<1>4. wf'.request = wf.request
  <2>1. [Next]_vars BY <1>0 DEF Next
  <2> QED BY <1>1, <2>1, RequestStays
<1>5. OneStory' /\ Grows BY <1>1, <1>2, <1>4, StoryKept, NothingNew
<1>6. CASE Quit(p) BY <1>1, <1>5, <1>6, QuitIsIdle DEF Fine
<1>7. CASE Goto(p, "panel", "ask")
  <2>1. /\ cmd'[p].at = "panel" /\ cmd'[p].step = "ask" /\ cmd'[p].how = cmd[p].how
        /\ cmd'[p].seen = cmd[p].seen
    BY <1>1, <1>4, <1>7, GoesTold
  <2>2. ChecksAreThere(p)' BY <1>1, <1>2, <1>3, <1>4, <2>1 DEF ChecksAreThere, Later
  <2>3. FindingsAreThere(p)' /\ ReportIsReady(p)' BY <2>1 DEF FindingsAreThere, ReportIsReady
  <2>4. PanelIsFirst(p)' BY <1>0, <1>1, <1>2, <1>3, <2>1 DEF PanelIsFirst
  <2>5. SameKind(p)' BY <1>0, <2>1, SameKindStays
  <2> QED BY <1>5, <2>2, <2>3, <2>4, <2>5 DEF Fine, Told
<1> QED BY <1>6, <1>7 DEF Launch

LEMMA AskIsFine == ASSUME Retold, Quiet, NEW p \in Process, Ask(p) PROVE Fine(p)
<1>0. Active(p) /\ Work(p) /\ cmd[p].step = "ask" BY DEF Active, Work, Ask
<1>1. /\ Typed /\ cmd \in [Process -> Running] /\ cmd[p] \in Running /\ Place(cmd[p], DOMAIN disk) /\ OneStory
      /\ SameKind(p) /\ ChecksAreThere(p) /\ PanelIsFirst(p)
  BY <1>0, StoryFacts DEF Told
<1>2. UNCHANGED <<wf, arts, raws, disk, events, target, hist>> BY DEF Ask
<1>3. cmd[p].at = "panel" BY <1>0, <1>1 DEF Place
<1>4. OneStory' /\ Grows BY <1>1, <1>2, StoryKept, NothingNew
<1>5. CASE Quit(p) BY <1>1, <1>4, <1>5, QuitIsIdle DEF Fine
<1>6. ASSUME /\ cmd'[p].how = cmd[p].how /\ cmd'[p].seen = cmd[p].seen
             /\ \/ cmd'[p].at = "panel" /\ cmd'[p].step = "ask"
                \/ cmd'[p].at \in {"raw", "findings"} /\ cmd'[p].step = "load"
      PROVE  Fine(p)
  <2>1. ChecksAreThere(p)' BY <1>1, <1>2, <1>3, <1>6 DEF ChecksAreThere, Later
  <2>2. FindingsAreThere(p)' /\ ReportIsReady(p)' BY <1>6 DEF FindingsAreThere, ReportIsReady
  <2>3. PanelIsFirst(p)' BY <1>0, <1>1, <1>2, <1>3, <1>6 DEF PanelIsFirst
  <2>4. SameKind(p)' BY <1>0, <1>6, SameKindStays
  <2> QED BY <1>4, <2>1, <2>2, <2>3, <2>4 DEF Fine, Told
<1>7. PICK a, log : Answered(p, a, log) BY <1>1, AskAnswered
<1>8. CASE cmd' = [cmd EXCEPT ![p] = Blocked(p, a, log)]
  <2>1. /\ cmd'[p].how = cmd[p].how /\ cmd'[p].seen = cmd[p].seen
        /\ cmd'[p].at = "raw" /\ cmd'[p].step = "load"
    BY <1>1, <1>8 DEF Blocked, Running
  <2> QED BY <1>6, <2>1
<1>9. CASE \E ok : cmd' = [cmd EXCEPT ![p] = NextChild(p, a, ok)]
  <2>1. /\ cmd'[p].how = cmd[p].how /\ cmd'[p].seen = cmd[p].seen
        /\ cmd'[p].at = "panel" /\ cmd'[p].step = "ask"
    BY <1>0, <1>1, <1>3, <1>9 DEF NextChild, Running
  <2> QED BY <1>6, <2>1
<1>10. CASE cmd' = [cmd EXCEPT ![p] = Collected(p, a)]
  <2>1. /\ cmd'[p].how = cmd[p].how /\ cmd'[p].seen = cmd[p].seen
        /\ cmd'[p].at = "findings" /\ cmd'[p].step = "load"
    BY <1>1, <1>10 DEF Collected, Running
  <2> QED BY <1>6, <2>1
<1> QED BY <1>5, <1>7, <1>8, <1>9, <1>10 DEF Answered

LEMMA EndIsFine == ASSUME Retold, Quiet, NEW p \in Process, Block(p) \/ Finish(p) PROVE Fine(p)
<1>0. Active(p) /\ Work(p) BY DEF Active, Work, Block, Finish
<1>1. Typed /\ OneStory BY <1>0, StoryFacts
<1>2. UNCHANGED <<arts, raws, disk, events, target, session, hist>> /\ Quit(p) BY DEF Block, Finish
<1>3. wf'.request = wf.request
  <2>1. [Next]_vars BY <1>0 DEF Next
  <2> QED BY <1>1, <2>1, RequestStays
<1>4. OneStory' /\ Grows BY <1>1, <1>2, <1>3, StoryKept, NothingNew
<1> QED BY <1>1, <1>2, <1>4, QuitIsIdle DEF Fine

LEMMA WorkIsFine == ASSUME Retold, Quiet, NEW p \in Process, Work(p) PROVE Fine(p)
BY LoadIsFine, LoadReportIsFine, WriteIsFine, RegisterIsFine, ReadEventsIsFine, AppendIsFine,
   LaunchIsFine, AskIsFine, EndIsFine DEF Work

\* What a call finishes undisturbed can be delivered.
LEMMA FinishDelivers ==
  ASSUME Retold, Quiet, NEW p \in Process, Finish(p), ~Terminal, Terminal'
  PROVE  Deliverable'
<1>0. Active(p) /\ cmd[p].step = "commit" /\ cmd[p].at = "report" BY DEF Active, Finish
<1>1. /\ Typed /\ cmd[p] \in Running /\ wf \in Workflow /\ OneStory
      /\ \A id \in DOMAIN arts : arts[id] = disk[id]
      /\ SameKind(p) /\ ChecksAreThere(p) /\ FindingsAreThere(p) /\ ReportIsReady(p)
      /\ DOMAIN arts \subseteq DOMAIN disk
  BY <1>0, StoryFacts DEF Told
<1>2. UNCHANGED <<arts, disk, events, target>> BY DEF Finish
<1>3. wf' = [wf EXCEPT !.status = Outcome(p), !.lease = [id |-> 0, live |-> FALSE],
                       !.how = cmd[p].how, !.review = Review(p), !.text = Report(p)]
  BY FinishRecords DEF Retold
<1>4. /\ wf'.status = Outcome(p) /\ wf'.how = cmd[p].how /\ wf'.review = Review(p)
      /\ wf'.text = Report(p) /\ wf'.request = wf.request
  BY <1>1, <1>3 DEF Workflow
<1>5. wf'.review.raised = cmd[p].raised BY <1>4 DEF Review
<1>6. wf'.status = "completed_unreported" => Accepted(wf'.review.raised) = {}
  <2> SUFFICES ASSUME wf'.status = "completed_unreported" PROVE Accepted(wf'.review.raised) = {}
    OBVIOUS
  <2>1. PICK r : r = cmd[p].raised OBVIOUS
  <2>2. CASE cmd[p].how # "plain"
    <3>1. ~NeedsFix(r) BY <1>1, <1>4, <2>1, <2>2, PassMeans
    <3>2. Accepted(r) = {} BY <3>1 DEF NeedsFix, Accepted
    <3> QED BY <1>5, <2>1, <3>2
  <2>3. CASE cmd[p].how = "plain"
    <3>1. r = {} BY <1>1, <2>1, <2>3 DEF SameKind
    <3>2. Modes(r) = {} BY <3>1 DEF Modes
    <3>3. Accepted(r) = {} BY <3>2 DEF Accepted
    <3> QED BY <1>5, <2>1, <3>3
  <2> QED BY <2>2, <2>3
<1>7. "report" \in DOMAIN arts /\ arts["report"] = Report(p) /\ disk["report"] = Report(p)
  BY <1>0, <1>1 DEF ReportIsReady
<1>8. cmd[p].how # "plain" =>
        /\ "findings" \in DOMAIN arts /\ arts["findings"] = Review(p) /\ disk["findings"] = Review(p)
        /\ \A e \in PanelEvents : e \in DOMAIN events /\ events[e] = Review(p)
  BY <1>0, <1>1 DEF FindingsAreThere
<1>9. wf.request = "files" =>
        /\ "checks" \in DOMAIN arts /\ arts["checks"] = disk["checks"]
        /\ "checks" \in DOMAIN events /\ disk["checks"].version = target
  <2> SUFFICES ASSUME wf.request = "files"
               PROVE  /\ "checks" \in DOMAIN arts /\ arts["checks"] = disk["checks"]
                      /\ "checks" \in DOMAIN events /\ disk["checks"].version = target
    OBVIOUS
  <2>1. "checks" \in DOMAIN arts /\ "checks" \in DOMAIN events
    BY <1>0, <1>1 DEF ChecksAreThere, Later
  <2>2. disk["checks"].version = 1 BY <1>1, <2>1 DEF OneStory
  <2> QED BY <1>1, <2>1, <2>2 DEF Quiet
<1>10. PICK required :
         required = {"report"} \cup (IF wf'.how # "plain" THEN {"findings"} ELSE {})
                               \cup (IF wf'.request = "files" THEN {"checks"} ELSE {})
  OBVIOUS
<1>11. required \subseteq DOMAIN arts BY <1>4, <1>7, <1>8, <1>9, <1>10
<1>12. ContractHolds(DOMAIN arts', required, wf'.status = "completed_unreported",
                     Accepted(wf'.review.raised), {})
  BY <1>2, <1>6, <1>11 DEF ContractHolds
<1>13. wf'.how # "plain" => PanelIsAudited' BY <1>2, <1>4, <1>8 DEF PanelIsAudited
<1>14. wf'.how = "plain" /\ wf'.request = "files" => ChecksAreAudited'
  BY <1>2, <1>4, <1>9 DEF ChecksAreAudited
<1>15. /\ arts'["report"] = disk'["report"] /\ disk'["report"] = wf'.text
       /\ wf'.request = "files" => arts'["checks"] = disk'["checks"]
  BY <1>2, <1>4, <1>7, <1>9
<1> QED BY <1>10, <1>12, <1>13, <1>14, <1>15 DEF Deliverable

\* A call that starts finds nothing, or what another of its kind left.
LEMMA StartTold ==
  ASSUME Retold, Quiet, Quiet', NEW p \in Process, Begin(p)
  PROVE  OneStory' /\ Grows /\ \A q \in Process : Active(q)' => Told(q)'
<1>1. /\ Typed /\ cmd \in [Process -> Running] /\ hist \in History /\ OneStory /\ Unstarted
      /\ DOMAIN arts \subseteq DOMAIN disk
  BY DEF Retold, Backing, Keep, Story, Typed, TypeOK
<1>2. /\ cmd'[p].step = "load" /\ cmd'[p].at = "checks"
      /\ cmd'[p].seen = ("report" \in DOMAIN arts)
      /\ cmd'[p].version = (IF wf.request = "files" THEN target ELSE 0)
      /\ hist'.alone = (hist.alone /\ \A q \in Process : cmd[q].step = "idle")
      /\ UNCHANGED <<wf, arts, raws, disk, events, target, session>>
  BY <1>1, BeginTurns
<1>3. PICK u : u = KindOf(p)' OBVIOUS
<1>4. /\ hist'.starts = hist.starts + 1 /\ hist'.used = hist.used \cup {u}
      /\ cmd'[p].how # "packet" => cmd'[p].raised = {}
  BY <1>1, <1>3, BeginIsNoted
<1>5. u.how = cmd'[p].how BY <1>3 DEF KindOf
<1>6. \A v \in hist'.used : v = u BY <1>4 DEF Quiet
<1>7. Grows BY <1>2, NothingNew
<1>8. OneStory'
  <2>1. CASE hist.starts = 0
    <3>1. DOMAIN disk = {} /\ DOMAIN events = {} /\ DOMAIN arts = {} BY <1>1, <2>1 DEF Unstarted
    <3>2. DOMAIN disk' = {} /\ DOMAIN events' = {} /\ DOMAIN arts' = {} BY <1>2, <3>1
    <3> QED BY <3>2 DEF OneStory
  <2>2. CASE hist.starts # 0
    <3>1. hist.used # {} BY <1>1, <2>2 DEF Unstarted
    <3>2. u \in hist.used BY <1>4, <1>6, <3>1
    <3>3. hist'.used = hist.used BY <1>4, <3>2
    <3> QED BY <1>1, <1>2, <3>3, StoryKept
  <2> QED BY <2>1, <2>2
<1>9. Told(p)'
  <2>1. SameKind(p)'
    <3>1. KindOf(p)' \in hist'.used BY <1>3, <1>4
    <3>2. cmd'[p].version = Inspected' BY <1>2 DEF Inspected, Quiet
    <3> QED BY <1>2, <1>4, <3>1, <3>2 DEF SameKind
  <2>2. ChecksAreThere(p)' BY <1>2 DEF ChecksAreThere, Later
  <2>3. FindingsAreThere(p)' BY <1>2 DEF FindingsAreThere
  <2>4. ReportIsReady(p)' BY <1>2 DEF ReportIsReady
  <2>5. ASSUME cmd'[p].how = "native" PROVE DOMAIN arts' = {} /\ DOMAIN events' = {} /\ ~cmd'[p].seen
    <3>1. hist'.starts = 1 BY <1>4, <1>5, <2>5 DEF Quiet
    <3>2. hist.starts \in Int BY <1>1, VerifyAssumption DEF History
    <3>3. hist.starts = 0 BY <1>4, <3>1, <3>2
    <3>4. DOMAIN disk = {} /\ DOMAIN events = {} /\ DOMAIN arts = {} BY <1>1, <3>3 DEF Unstarted
    <3> QED BY <1>2, <3>4
  <2>6. PanelIsFirst(p)' BY <1>2, <2>5 DEF PanelIsFirst
  <2> QED BY <2>1, <2>2, <2>3, <2>4, <2>6 DEF Told
<1>10. ASSUME NEW q \in Process, q # p, Active(q)' PROVE Told(q)'
  <2>1. cmd'[q] = cmd[q] BY <1>1, <1>10, OneCallMoves
  <2>2. Active(q) BY <1>10, <2>1 DEF Active
  <2>3. ~hist'.alone BY <1>2, <2>2 DEF Active
  <2>4. wf'.request # "files" /\ \A v \in hist'.used : v.how # "native" BY <2>3 DEF Quiet
  <2>5. KindOf(q) \in hist.used BY <2>2, StoryFacts DEF Told, SameKind
  <2>6. KindOf(q).how = cmd[q].how BY DEF KindOf
  <2>7. cmd[q].how # "native" BY <1>4, <2>4, <2>5, <2>6
  <2> QED BY <1>2, <1>4, <1>7, <2>1, <2>2, <2>4, <2>7, OthersStayTold
<1> QED BY <1>7, <1>8, <1>9, <1>10

\* A call that works or dies tells the others nothing new.
LEMMA OneCallTells ==
  ASSUME Retold, Quiet, NEW p \in Process, Work(p) \/ Crash(p)
  PROVE  OneStory' /\ Grows /\ \A q \in Process : Active(q)' => Told(q)'
<1>1. Typed /\ cmd \in [Process -> Running] /\ hist \in History /\ OneStory
  BY DEF Retold, Backing, Keep, Story, Typed, TypeOK
<1>2. Active(p) BY WorkIsBusy DEF Active, Crash
<1>3. wf'.request = wf.request
  <2>1. [Next]_vars BY DEF Next
  <2> QED BY <1>1, <2>1, RequestStays
<1>4. hist'.used = hist.used
  BY <1>1 DEF Crash, History, Work, Load, LoadReport, Write, Register, ReadEvents, Append, Launch,
       Ask, Block, Finish
<1>5. Fine(p)
  <2>1. CASE Work(p) BY <2>1, WorkIsFine
  <2>2. CASE Crash(p)
    <3>1. Quit(p) /\ UNCHANGED <<arts, disk, events>> BY <2>2 DEF Crash
    <3> QED BY <1>1, <1>3, <1>4, <3>1, QuitIsIdle, StoryKept, NothingNew DEF Fine
  <2> QED BY <2>1, <2>2
<1>6. ASSUME NEW q \in Process, q # p, Active(q)' PROVE Told(q)'
  <2>1. cmd'[q] = cmd[q] BY <1>1, <1>6, OneCallMoves
  <2>2. Active(q) BY <1>6, <2>1 DEF Active
  <2>3. cmd[q].how # "native" /\ wf.request # "files" BY <1>2, <1>6, <2>2, PanelIsAlone
  <2> QED BY <1>3, <1>4, <1>5, <2>1, <2>2, <2>3, OthersStayTold DEF Fine
<1> QED BY <1>5, <1>6 DEF Fine, Active

LEMMA StoryStep == Retold /\ [Next]_vars => Story'
<1> SUFFICES ASSUME Retold, [Next]_vars PROVE Story'
  OBVIOUS
<1>1. Typed /\ IsFiniteSet(hist.used) /\ Unstarted BY DEF Retold, Backing, Keep, Story
<1>2. IsFiniteSet(hist.used)' /\ Unstarted' BY <1>1, UsedStep, UnstartedStep
<1>3. ASSUME Quiet' PROVE OneStory' /\ (\A q \in Process : Active(q)' => Told(q)') /\ (Terminal' => Deliverable')
  <2>1. Quiet BY <1>1, <1>3, QuietEarlier
  <2>2. OneStory /\ (\A q \in Process : Active(q) => Told(q)) /\ (Terminal => Deliverable)
    BY <2>1 DEF Retold, Story
  <2>3. target' = target BY <1>3, <2>1 DEF Quiet
  <2>4. OneStory' /\ Grows /\ \A q \in Process : Active(q)' => Told(q)'
    <3>1. CASE \E p \in Process : Begin(p) BY <1>3, <2>1, <3>1, StartTold
    <3>2. CASE \E p \in Process : Work(p) \/ Crash(p) BY <2>1, <3>2, OneCallTells
    <3>3. CASE Environment \/ UNCHANGED vars
      <4>1. UNCHANGED <<cmd, arts, raws, disk, events, session>> BY <1>1, <3>3, OthersStay
      <4>2. hist \in History BY <1>1 DEF Typed, TypeOK
      <4>3. hist'.used = hist.used
        BY <3>3, <4>2 DEF Environment, Recover, LeaseExpires, OwnerDecides, Edit, History, vars
      <4>4. wf'.request = wf.request BY <1>1, RequestStays
      <4>5. OneStory' /\ Grows BY <2>2, <4>1, <4>3, <4>4, StoryKept, NothingNew
      <4>6. \A q \in Process : Active(q)' => Told(q)' BY <2>2, <4>1, <4>3, <4>4, ToldStays DEF Active
      <4> QED BY <4>5, <4>6
    <3> QED BY <3>1, <3>2, <3>3 DEF Next
  <2>5. ASSUME Terminal' PROVE Deliverable'
    <3>1. CASE Terminal
      <4>1. /\ wf'.status = wf.status /\ wf'.request = wf.request /\ wf'.how = wf.how
            /\ wf'.review = wf.review /\ wf'.text = wf.text
        BY <1>1, <3>1, FinishedIsFrozen
      <4> QED BY <2>2, <2>3, <2>4, <3>1, <4>1, GrownDeliverable
    <3>2. CASE ~Terminal
      <4>1. PICK p \in Process : Finish(p) BY <1>1, <2>5, <3>2, FinishedBy
      <4> QED BY <2>1, <2>5, <3>2, <4>1, FinishDelivers
    <3> QED BY <3>1, <3>2
  <2> QED BY <2>4, <2>5
<1> QED BY <1>2, <1>3 DEF Story

LEMMA InitStory == Init => Story
<1> SUFFICES ASSUME Init PROVE Story
  OBVIOUS
<1>1. hist.starts = 0 /\ hist.used = {} BY DEF Init
<1>2. DOMAIN arts = {} /\ DOMAIN disk = {} /\ DOMAIN events = {} BY DEF Init
<1>3. \A p \in Process : ~Active(p) BY DEF Init, Idle, Active
<1>4. ~Terminal BY DEF Init, Terminal
<1>5. IsFiniteSet(hist.used) BY <1>1, FS_EmptySet
<1>6. Unstarted BY <1>1, <1>2, <1>3, <1>4 DEF Unstarted
<1>7. OneStory BY <1>1, <1>2 DEF OneStory
<1> QED BY <1>3, <1>4, <1>5, <1>6, <1>7 DEF Story

\* Finalizing again, after a crash at any step and as often as one likes, ends in a
\* result that the audit before delivery accepts: as long as the target is left alone,
\* every call is of one kind with one packet, a native panel is launched once, and calls
\* do not overlap unless there is no file to inspect.
THEOREM FinishedIsDeliverableHolds == Spec => []FinishedIsDeliverable
<1>1. Init => Retold BY InitBacking, InitStory DEF Retold
<1>2. Retold /\ [Next]_vars => Retold' BY BackingStep, StoryStep DEF Retold
<1>3. ASSUME Retold PROVE FinishedIsDeliverable
  <2> SUFFICES ASSUME Terminal, Undisturbed PROVE Deliverable
    BY DEF FinishedIsDeliverable
  <2>1. IsFiniteSet(hist.used) BY <1>3 DEF Retold, Story
  <2>2. \A u, v \in hist.used : u = v BY <2>1, OneUsed DEF Undisturbed
  <2>3. Quiet BY <2>2 DEF Undisturbed, Quiet
  <2> QED BY <1>3, <2>3 DEF Retold, Story
<1> QED BY <1>1, <1>2, <1>3, PTL DEF Spec
=============================================================================
