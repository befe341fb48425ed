---------------------------- MODULE RecoveryProofs ----------------------------
(***************************************************************************)
(* Markers, log, index and leases agree whatever crashes: the properties   *)
(* of Recovery hold of every workflow, for any number of processes, ids,   *)
(* crashes and leases, from one invariant that follows the open locked     *)
(* section.                                                                *)
(***************************************************************************)
EXTENDS ReportingProofs, FiniteSetTheorems

Commits  == EventsOf("checkpoint")
Grants   == EventsOf("recovery_lease_acquired")
Releases == EventsOf("lease_released")
Decisions == EventsOf("owner_decision")

Committing == tx.cmd = "checkpoint" /\ tx.step # "clear"

\* An id that was logged, or is about to be, was drawn; a clock that was read is past.
IdsAreDrawn ==
  /\ Acquired \subseteq 1 .. minted
  /\ \A i \in Commits : events[i].chk <= minted
  /\ tx.cmd \in {"checkpoint", "recover"} => tx.id \in 1 .. minted
  /\ \A p \in Proc : call[p].stage = "recover" => call[p].at <= now

\* The commands that log are told apart by what they log, and go through their writes in
\* order.
Sections ==
  /\ tx.cmd = "none" => tx.step = "idle"
  /\ tx.cmd = "checkpoint" =>
       /\ tx.step \in {"mark", "append", "worklog", "save", "clear"}
       /\ tx.event.type = "checkpoint" /\ tx.event.chk = tx.id /\ tx.by \in Proc
  /\ tx.cmd = "recover" =>
       /\ tx.step \in {"release", "mark", "append", "save", "clear"}
       /\ tx.event.type = "recovery_lease_acquired" /\ tx.event.lease = tx.id
       /\ tx.step = "release" => wf.lease.id # NoId
  /\ tx.cmd \notin {"checkpoint", "recover"} =>
       /\ tx.event.lease = NoId
       /\ tx.event.type \notin {"checkpoint", "recovery_lease_acquired", "lease_released"}

\* A marker is there from the first write of a transaction to its last, alone; a note or a
\* round is not written beside the marker of a checkpoint.
Markers ==
  /\ tx.cmd = "checkpoint" =>
       pendingRec = {} /\ pendingChk = IF tx.step = "mark" THEN {} ELSE {tx.id}
  /\ tx.cmd = "recover" =>
       pendingChk = {} /\ pendingRec = IF tx.step \in {"release", "mark"} THEN {} ELSE {tx.id}
  /\ tx.cmd \in {"note", "round"} => pendingChk = {}
  /\ \A a, b \in pendingChk \cup pendingRec : a = b

\* The index, the log and the worklog, and the checkpoint under way.
IndexIsLogged ==
  /\ \A i, j \in Commits : events[i].chk = events[j].chk => i = j
  /\ \A id \in IndexIds : id \in worklog /\ \E i \in Commits : events[i].chk = id
  /\ \A i \in Commits : events[i].chk \in IndexIds \cup pendingChk
  /\ tx.cmd = "checkpoint" =>
       /\ tx.step \in {"mark", "append"} => \A i \in Commits : events[i].chk # tx.id
       /\ tx.step \in {"worklog", "save"} => \E i \in Commits : events[i].chk = tx.id
       /\ tx.step = "save" => tx.id \in worklog
       /\ tx.step = "clear" => tx.id \in IndexIds

\* What a checkpoint adds to the index, and that nobody else adds to it.
IndexGrows ==
  /\ IndexIsAChain
  /\ Len(wf.index) = 0 => wf.status = "running"
  /\ Len(wf.index) > 0 => wf.status \in {wf.index[Len(wf.index)].status, "reported"}
  /\ Committing =>
       /\ tx.wf.index = Append(wf.index, [id |-> tx.id, status |-> tx.wf.status,
                                          before |-> wf.cursor, after |-> tx.wf.cursor])
       /\ tx.wf.cursor \in {wf.cursor, wf.cursor + 1}
       /\ tx.id \notin IndexIds
  /\ tx.cmd \notin {"none", "checkpoint"} => tx.wf.index = wf.index /\ tx.wf.cursor = wf.cursor

\* A block that the checkpoint under way opens was decided after it was logged.
BlocksAreDecided ==
  /\ BlockedNeedsDecision
  /\ Committing /\ wf.status = "blocked" /\ tx.wf.status # "blocked" =>
       IF tx.step \in {"mark", "append"} THEN Decided
       ELSE \E d \in Decisions, c \in Commits :
              /\ events[c].chk = tx.id /\ d < c
              /\ \A b \in Commits : b # c => b < d

\* The lease books, and which lease is the latest.
LatestGrant(id) == \E a \in Grants : events[a].lease = id /\ \A b \in Grants : b <= a

LeasesAreBooked ==
  /\ Consumed \subseteq Acquired
  /\ Acquired \subseteq Consumed \cup {wf.lease.id} \cup pendingRec
  /\ wf.lease.id # NoId =>
       /\ wf.lease.id \in Acquired
       /\ pendingRec = {} => LatestGrant(wf.lease.id)
       /\ pendingChk = {} => \A c \in Commits : events[c].lease # wf.lease.id
  /\ \A r \in Releases : events[r].lease = wf.lease.id => Expired(wf.lease, now)
  /\ LeaseIsSpentOnce

\* A checkpoint spends the lease it was admitted by.
LeaseIsCited ==
  /\ tx.cmd = "checkpoint" /\ tx.step = "clear" => wf.lease.id = NoId
  /\ Committing =>
    /\ tx.event.lease = wf.lease.id /\ tx.wf.lease = NoLease
    /\ wf.lease.id # NoId /\ tx.step \in {"mark", "append"} =>
         \A i \in Commits \cup Releases : events[i].lease # wf.lease.id
    /\ wf.lease.id # NoId => held[tx.by] = wf.lease.id
    /\ tx.step \in {"worklog", "save"} /\ wf.lease.id # NoId => wf.lease.id \in Consumed

\* recover replaces no lease, or one that ran out and was released first.
LeaseIsReplaced ==
  tx.cmd = "recover" =>
    /\ tx.id \notin Consumed
    /\ tx.step \in {"release", "mark", "append"} => tx.id \notin Acquired
    /\ tx.step \in {"save", "clear"} => LatestGrant(tx.id)
    /\ IF tx.step = "clear" THEN wf.lease.id = tx.id
       ELSE tx.wf.lease.id = tx.id /\ (wf.lease.id = NoId \/ Expired(wf.lease, now))
    /\ tx.step \in {"mark", "append", "save"} => wf.lease.id \in Consumed \cup {NoId}

\* No lease outlives a workflow; only a checkpoint finishes one.
FinishedHasNoLease ==
  /\ TerminalIsReleased
  /\ Committing \/ tx.cmd = "recover" => wf.status \notin Terminal
  /\ tx.cmd \notin {"none", "checkpoint", "recover"} => tx.wf.lease = wf.lease
  /\ tx.cmd = "recover" => tx.wf.status = wf.status
  /\ tx.cmd \notin {"none", "checkpoint", "recover"} => tx.wf.status \in {wf.status, "reported"}
  /\ tx.cmd \notin {"none", "checkpoint", "recover"} /\ tx.wf.status = "reported" =>
       wf.status \in Terminal

RecoveryAgrees ==
  /\ IdsAreDrawn /\ Sections /\ Markers /\ IndexIsLogged /\ IndexGrows
  /\ BlocksAreDecided /\ LeasesAreBooked /\ LeaseIsCited /\ LeaseIsReplaced
  /\ FinishedHasNoLease


-----------------------------------------------------------------------------
\* What a step leaves of the log for these properties when it appends nothing, or a line
\* that is neither a checkpoint nor about a lease.
SameBooks ==
  /\ UNCHANGED <<Commits, Grants, Releases, Acquired, Consumed>>
  /\ Decisions \subseteq Decisions'
  /\ \A i \in Commits \cup Grants \cup Releases \cup Decisions : events'[i] = events[i]

LEMMA SameLog == events' = events => SameBooks
BY DEF SameBooks, Commits, Grants, Releases, Decisions, Acquired, Consumed, EventsOf

\* The ids a logged checkpoint names are numbers.
LEMMA LinesTyped ==
  ASSUME StoreTypeOK
  PROVE  \A i \in Commits : events[i].chk \in Nat /\ events[i].lease \in Nat
<1>1. \A i \in DOMAIN events : events[i] \in Event BY DEF StoreTypeOK
<1>2. \A e \in Event : e.chk \in Nat /\ e.lease \in Nat BY DEF Event, Id
<1> QED BY <1>1, <1>2 DEF Commits, EventsOf

\* A line appended: where it stands and what it adds to the books.
LEMMA LogGrows ==
  ASSUME StoreTypeOK, NEW event \in Event, AppendEvent(event)
  PROVE  LET n == Len(events) + 1 IN
         /\ Commits' = Commits \cup (IF event.type = "checkpoint" THEN {n} ELSE {})
         /\ Grants' = Grants \cup (IF event.type = "recovery_lease_acquired" THEN {n} ELSE {})
         /\ Releases' = Releases \cup (IF event.type = "lease_released" THEN {n} ELSE {})
         /\ Decisions' = Decisions \cup (IF event.type = "owner_decision" THEN {n} ELSE {})
         /\ \A i \in Commits \cup Grants \cup Releases \cup Decisions :
              events'[i] = events[i] /\ i < n /\ i \in Nat
         /\ events'[n] = event /\ n \in Nat
         /\ Acquired' = Acquired \cup
              (IF event.type = "recovery_lease_acquired" THEN {event.lease} ELSE {})
         /\ Consumed' = Consumed \cup
              (IF event.type \in {"checkpoint", "lease_released"} /\ event.lease # NoId
               THEN {event.lease} ELSE {})
<1> DEFINE n == Len(events) + 1
<1>0. events \in Seq(Event) /\ events' = Append(events, event) BY DEF StoreTypeOK, AppendEvent
<1>1. /\ DOMAIN events = 1 .. Len(events) /\ Len(events) \in Nat
      /\ \A i \in DOMAIN events : events'[i] = events[i]
      /\ events'[n] = event
  BY <1>0
<1>2. ASSUME NEW type
      PROVE  EventsOf(type)' = EventsOf(type) \cup (IF event.type = type THEN {n} ELSE {})
  BY <1>0, Appended
<1>3. \A i \in DOMAIN events : events'[i] = events[i] /\ i < n /\ i \in Nat BY <1>1
<1>4. Commits \cup Grants \cup Releases \cup Decisions \subseteq DOMAIN events
  BY DEF Commits, Grants, Releases, Decisions, EventsOf
<1>5. /\ Commits' = Commits \cup (IF event.type = "checkpoint" THEN {n} ELSE {})
      /\ Grants' = Grants \cup (IF event.type = "recovery_lease_acquired" THEN {n} ELSE {})
      /\ Releases' = Releases \cup (IF event.type = "lease_released" THEN {n} ELSE {})
      /\ Decisions' = Decisions \cup (IF event.type = "owner_decision" THEN {n} ELSE {})
  BY <1>2 DEF Commits, Grants, Releases, Decisions
<1>6. /\ Acquired = {events[i].lease : i \in Grants}
      /\ Acquired' = {events'[i].lease : i \in Grants'}
      /\ Consumed = {events[i].lease : i \in Releases \cup Commits} \ {NoId}
      /\ Consumed' = {events'[i].lease : i \in Releases' \cup Commits'} \ {NoId}
  BY DEF Acquired, Consumed, Grants, Releases, Commits
<1> HIDE DEF n
<1>7. Acquired' = Acquired \cup
        (IF event.type = "recovery_lease_acquired" THEN {event.lease} ELSE {})
  BY <1>1, <1>3, <1>4, <1>5, <1>6
<1>8. Consumed' = Consumed \cup
        (IF event.type \in {"checkpoint", "lease_released"} /\ event.lease # NoId
         THEN {event.lease} ELSE {})
  <2>1. ASSUME event.type \in {"checkpoint", "lease_released"}
        PROVE  Releases' \cup Commits' = Releases \cup Commits \cup {n}
    BY <2>1, <1>5
  <2>2. ASSUME event.type \notin {"checkpoint", "lease_released"}
        PROVE  Releases' \cup Commits' = Releases \cup Commits
    BY <2>2, <1>5
  <2>3. \A i \in Releases \cup Commits : events'[i].lease = events[i].lease BY <1>3, <1>4
  <2> QED BY <2>1, <2>2, <2>3, <1>1, <1>6
<1>9. n \in Nat BY <1>1 DEF n
<1> QED BY <1>1, <1>3, <1>4, <1>5, <1>7, <1>8, <1>9 DEF n

LEMMA OtherLine ==
  ASSUME StoreTypeOK, NEW event \in Event, AppendEvent(event),
         event.type \notin {"checkpoint", "recovery_lease_acquired", "lease_released"}
  PROVE  SameBooks
BY LogGrows DEF SameBooks

-----------------------------------------------------------------------------
\* A step that leaves the checkpoints, the leases and the markers alone, and the locked
\* section too unless a command of delivery, a note or a round, or nobody, is in it then.
Aside ==
  /\ SameBooks /\ worklog \subseteq worklog' /\ UNCHANGED <<pendingChk, pendingRec>>
  /\ wf'.index = wf.index /\ wf'.cursor = wf.cursor /\ wf'.lease = wf.lease
  /\ wf'.status = wf.status \/ (wf.status \in Terminal /\ wf'.status = "reported")
  /\ now <= now' /\ minted <= minted'
  /\ \A p \in Proc : call'[p].stage = "recover" => call'[p].at <= now'

SameSection ==
  /\ tx' = tx /\ wf' = wf
  /\ tx.cmd = "checkpoint" => held'[tx.by] = held[tx.by]

OtherSection ==
  /\ tx'.cmd \notin {"checkpoint", "recover"} /\ Sections'
  /\ tx'.cmd \in {"note", "round"} => pendingChk' = {}
  /\ tx'.cmd # "none" =>
       /\ tx'.wf.index = wf'.index /\ tx'.wf.cursor = wf'.cursor /\ tx'.wf.lease = wf'.lease
       /\ tx'.wf.status \in {wf'.status, "reported"}
       /\ tx'.wf.status = "reported" => wf'.status \in Terminal

LEMMA AsideAgrees ==
  ASSUME StoreTypeOK, StoreTypeOK', RecoveryAgrees, Aside, SameSection \/ OtherSection
  PROVE  RecoveryAgrees'
<1> USE DEF RecoveryAgrees
<1>0. /\ now \in Nat /\ now' \in Nat /\ minted \in Nat /\ minted' \in Nat
      /\ wf.lease \in Lease /\ wf \in Record
  BY DEF StoreTypeOK, Id, Record
<1>1. IndexIds' = IndexIds BY DEF Aside, IndexIds
<1>2. /\ now <= now' /\ minted <= minted' /\ wf'.lease = wf.lease /\ wf'.index = wf.index
      /\ wf'.cursor = wf.cursor /\ worklog \subseteq worklog'
      /\ UNCHANGED <<pendingChk, pendingRec>>
      /\ UNCHANGED <<Commits, Grants, Releases, Acquired, Consumed>> /\ Decisions \subseteq Decisions'
      /\ \A i \in Commits \cup Grants \cup Releases \cup Decisions : events'[i] = events[i]
  BY DEF Aside, SameBooks
<1>3. wf.lease.expires \in Nat BY <1>0 DEF Lease, NoLease
<1>4. Expired(wf.lease, now) => Expired(wf'.lease, now') BY <1>0, <1>2, <1>3 DEF Expired
<1>5. IdsAreDrawn'
  <2>1. \A i \in Commits : events[i].chk \in Nat BY LinesTyped
  <2>2. \A i \in Commits' : events'[i].chk <= minted' BY <1>0, <1>2, <2>1 DEF IdsAreDrawn
  <2>3. Acquired' \subseteq 1 .. minted' BY <1>0, <1>2 DEF IdsAreDrawn
  <2>4. tx'.cmd \in {"checkpoint", "recover"} => tx'.id \in 1 .. minted'
    BY <1>0, <1>2 DEF IdsAreDrawn, SameSection, OtherSection
  <2> QED BY <2>2, <2>3, <2>4 DEF IdsAreDrawn, Aside
<1>6. Sections' BY DEF SameSection, OtherSection, Sections
<1>7. Markers' BY <1>2 DEF Markers, SameSection, OtherSection
<1>8. IndexIsLogged' BY <1>1, <1>2 DEF IndexIsLogged, SameSection, OtherSection
<1>9. IndexGrows'
  <2>1. IndexIsAChain' BY <1>2 DEF IndexIsAChain, IndexGrows
  <2>2. /\ Len(wf'.index) = 0 => wf'.status = "running"
        /\ Len(wf'.index) > 0 => wf'.status \in {wf'.index[Len(wf'.index)].status, "reported"}
    BY <1>2 DEF IndexGrows, Aside, Terminal, Unreported
  <2> QED BY <2>1, <2>2, <1>1, <1>2 DEF IndexGrows, Committing, SameSection, OtherSection
<1>10. BlocksAreDecided'
  <2>1. BlockedNeedsDecision'
    <3> USE DEF Commits, Decisions
    <3> QED BY <1>2 DEF BlocksAreDecided, BlockedNeedsDecision
  <2>2. Decided => Decided' BY <1>2 DEF Decided, Commits, Decisions
  <2> QED BY <2>1, <2>2, <1>2 DEF BlocksAreDecided, Committing, SameSection, OtherSection
<1>11. ASSUME NEW id PROVE LatestGrant(id)' <=> LatestGrant(id) BY <1>2 DEF LatestGrant
<1>12. LeaseIsSpentOnce' BY <1>2 DEF LeasesAreBooked, LeaseIsSpentOnce, Commits, Grants, Releases
<1>13. LeasesAreBooked' BY <1>2, <1>4, <1>11, <1>12 DEF LeasesAreBooked
<1>14. LeaseIsCited' BY <1>2 DEF LeaseIsCited, Committing, SameSection, OtherSection
<1>15. LeaseIsReplaced' BY <1>2, <1>4, <1>11 DEF LeaseIsReplaced, SameSection, OtherSection
<1>16. FinishedHasNoLease'
  <2>1. TerminalIsReleased' BY <1>2 DEF FinishedHasNoLease, TerminalIsReleased, Aside, Terminal
  <2> QED BY <2>1, <1>2 DEF FinishedHasNoLease, Committing, SameSection, OtherSection
<1> QED BY <1>5, <1>6, <1>7, <1>8, <1>9, <1>10, <1>13, <1>14, <1>15, <1>16


-----------------------------------------------------------------------------
\* Reads, answers, giving up and the clock step aside.
LEMMA QuietAside ==
  ASSUME StoreTypeOK, StoreTypeOK', RecoveryAgrees,
         \/ \E p \in Proc : \/ CheckpointRead(p) \/ RecoverRead(p) \/ RecoverReply(p) \/ Leave(p)
                            \/ ReserveRead(p) \/ ReserveReply(p) \/ ProofKnown(p)
                            \/ Send(p) \/ LoseSender(p)
         \/ Tick
         \/ UNCHANGED storeVars
  PROVE  Aside /\ SameSection
<1>0. /\ now \in Nat /\ minted \in Nat /\ call \in [Proc -> Call] /\ held \in [Proc -> Id]
      /\ \A p \in Proc : call[p].stage = "recover" => call[p].at <= now
      /\ \A p \in Proc : call[p].at \in Nat /\ call'[p].at \in Nat
  <2>1. /\ now \in Nat /\ minted \in Nat /\ held \in [Proc -> Id]
        /\ call \in [Proc -> Call] /\ call' \in [Proc -> Call]
    BY DEF StoreTypeOK, Id
  <2>2. \A c \in Call : c.at \in Nat BY DEF Call
  <2>3. \A p \in Proc : call[p].stage = "recover" => call[p].at <= now
    BY DEF RecoveryAgrees, IdsAreDrawn
  <2> QED BY <2>1, <2>2, <2>3
<1>1. UNCHANGED <<files, tx, minted>> /\ now' \in {now, now + 1}
  BY DEF CheckpointRead, RecoverRead, RecoverReply, Leave, ReserveRead, ReserveReply, ProofKnown,
         Send, LoseSender, Tick, bounds, storeVars, files
<1>2. \A p \in Proc : call'[p].stage = "recover" => call'[p].at <= now'
  <2> DEFINE Moves(p, c) == call' = [call EXCEPT ![p] = c] /\ (c.stage = "recover" => c.at <= now)
  <2>1. call' = call \/ \E p \in Proc : \E c : Moves(p, c)
    <3>1. ASSUME NEW p \in Proc, RecoverRead(p) PROVE Moves(p, [NoCall EXCEPT !.stage = "recover", !.at = now])
      BY <3>1, <1>0 DEF RecoverRead, NoCall
    <3>2. ASSUME NEW p \in Proc, CheckpointRead(p)
          PROVE  Moves(p, [NoCall EXCEPT !.stage = "checkpoint", !.cursor = wf.cursor])
      BY <3>2 DEF CheckpointRead, NoCall
    <3>3. ASSUME NEW p \in Proc, RecoverReply(p) \/ Leave(p) \/ ReserveReply(p) PROVE Moves(p, NoCall)
      BY <3>3 DEF RecoverReply, Leave, ReserveReply, NoCall
    <3>4. ASSUME NEW p \in Proc, ReserveRead(p) PROVE \E c : Moves(p, c)
      <4>1. PICK k \in DOMAIN wf.index :
              call' = [call EXCEPT ![p] = [NoCall EXCEPT !.stage = "reserve", !.at = now,
                                                        !.id = wf.index[k].id]]
        BY <3>4 DEF ReserveRead
      <4>2. Moves(p, [NoCall EXCEPT !.stage = "reserve", !.at = now, !.id = wf.index[k].id])
        BY <4>1 DEF NoCall
      <4> QED BY <4>2
    <3>5. ASSUME NEW p \in Proc, ProofKnown(p) PROVE \E c : Moves(p, c)
      <4>1. PICK proof \in Claim :
              call' = [call EXCEPT ![p] = [NoCall EXCEPT !.stage = "proved", !.proof = proof]]
        BY <3>5 DEF ProofKnown
      <4>2. Moves(p, [NoCall EXCEPT !.stage = "proved", !.proof = proof])
        BY <4>1 DEF NoCall
      <4> QED BY <4>2
    <3>6. ASSUME \/ \E p \in Proc : Send(p) \/ LoseSender(p)
                 \/ Tick \/ UNCHANGED storeVars
          PROVE  call' = call
      BY <3>6 DEF Send, LoseSender, Tick, storeVars
    <3> HIDE DEF Moves
    <3> QED BY <3>1, <3>2, <3>3, <3>4, <3>5, <3>6
  <2>2. CASE call' = call BY <1>0, <1>1, <2>2
  <2>3. ASSUME NEW p \in Proc, NEW c, Moves(p, c)
        PROVE  \A q \in Proc : call'[q].stage = "recover" => call'[q].at <= now
    BY <1>0, <2>3
  <2> QED BY <1>0, <1>1, <2>1, <2>2, <2>3
<1>3. tx.cmd = "checkpoint" => held'[tx.by] = held[tx.by]
  <2>1. tx.cmd = "checkpoint" => tx.by \in Proc BY DEF RecoveryAgrees, Sections
  <2>2. held' = held \/ \E p \in Proc : tx.by # p /\ held' = [held EXCEPT ![p] = call[p].id]
    BY DEF CheckpointRead, RecoverRead, RecoverReply, Leave, ReserveRead, ReserveReply, ProofKnown,
           Send, LoseSender, Tick, storeVars
  <2> QED BY <1>0, <2>1, <2>2
<1>4. SameBooks BY <1>1, SameLog DEF files
<1> QED BY <1>0, <1>1, <1>2, <1>3, <1>4 DEF Aside, SameSection, files

\* Nobody is in the locked section after a crash.
LEMMA NobodyIsOther == tx' = NoTx => OtherSection
BY DEF OtherSection, Sections, NoTx, NoEvent

LEMMA CrashAside ==
  ASSUME StoreTypeOK, RecoveryAgrees, Crash
  PROVE  Aside /\ OtherSection
<1>0. /\ now \in Nat /\ minted \in Nat /\ call \in [Proc -> Call]
      /\ \A p \in Proc : call[p].stage = "recover" => call[p].at <= now
  BY DEF StoreTypeOK, Id, RecoveryAgrees, IdsAreDrawn
<1>1. UNCHANGED <<files, now, minted>> /\ tx' = NoTx /\ call' = [call EXCEPT ![tx.by] = NoCall]
  BY DEF Crash
<1>2. \A p \in Proc : call'[p].stage = "recover" => call'[p].at <= now'
  BY <1>0, <1>1 DEF NoCall
<1>3. SameBooks BY <1>1, SameLog DEF files
<1> QED BY <1>0, <1>1, <1>2, <1>3, NobodyIsOther DEF Aside, files


\* A note or a round opens the lock, logs its line and adds its block.
LEMMA RecordAside ==
  ASSUME StoreTypeOK, RecoveryAgrees,
         NoteWrite \/ RoundWrite \/ \E p \in Proc : NoteBegin(p) \/ RoundBegin(p)
  PROVE  Aside /\ OtherSection
<1>0. /\ now \in Nat /\ minted \in Nat
      /\ \A p \in Proc : call[p].stage = "recover" => call[p].at <= now
  BY DEF StoreTypeOK, Id, RecoveryAgrees, IdsAreDrawn
<1>1. ASSUME NEW p \in Proc, NoteBegin(p) \/ RoundBegin(p) PROVE Aside /\ OtherSection
  <2>1. PICK cmd \in {"note", "round"}, type \in {"owner_decision", "progress"} :
          Open(p, cmd, "append", wf, [NoEvent EXCEPT !.type = type], Fresh)
    BY <1>1, RecordOpens
  <2>2. /\ tx'.cmd = cmd /\ tx'.step = "append" /\ tx'.wf = wf
        /\ tx'.event.type = type /\ tx'.event.lease = NoId
    BY <2>1 DEF Open, NoEvent
  <2>3. /\ UNCHANGED <<files, now, call>> /\ minted' = minted + 1
        /\ wf.status \notin Terminal /\ pendingChk = {}
    BY <1>1, RecordOpens DEF MayRecord, Fresh
  <2>4. OtherSection BY <2>2, <2>3 DEF OtherSection, Sections, files, Terminal
  <2>5. SameBooks BY <2>3, SameLog DEF files
  <2> QED BY <1>0, <2>3, <2>4, <2>5 DEF Aside, files
<1>2. CASE NoteWrite \/ RoundWrite
  <2>1. tx \in Tx /\ tx.event \in Event BY DEF StoreTypeOK, Tx
  <2>2. tx.event.type \notin {"checkpoint", "recovery_lease_acquired", "lease_released"}
    BY <1>2 DEF NoteWrite, RoundWrite, RecoveryAgrees, Sections
  <2>3. SameBooks
    BY <1>2, <2>1, <2>2, OtherLine, SameLog DEF NoteWrite, RoundWrite, AppendWorklog
  <2>4. \/ tx' = NoTx
        \/ tx'.cmd = tx.cmd /\ tx'.wf = tx.wf /\ tx'.event = tx.event
    BY <1>2, <2>1 DEF NoteWrite, RoundWrite, Proceed, Tx
  <2>5. /\ wf' = wf /\ worklog \subseteq worklog' /\ UNCHANGED <<pendingChk, pendingRec>>
        /\ UNCHANGED <<call, now, minted>>
    BY <1>2 DEF NoteWrite, RoundWrite, AppendEvent, AppendWorklog, bounds
  <2>6. OtherSection
    <3>1. CASE tx' = NoTx BY <3>1, NobodyIsOther
    <3>2. CASE tx'.cmd = tx.cmd /\ tx'.wf = tx.wf /\ tx'.event = tx.event
      BY <1>2, <2>5, <3>2 DEF OtherSection, Sections, Markers, NoteWrite, RoundWrite,
         RecoveryAgrees, IndexGrows, FinishedHasNoLease
    <3> QED BY <2>4, <3>1, <3>2
  <2> QED BY <1>0, <2>3, <2>5, <2>6 DEF Aside
<1> QED BY <1>1, <1>2

\* The delivery commands open the lock on a copy with the same index, cursor and lease.
LEMMA DeliveryOpenAside ==
  ASSUME StoreTypeOK, RecoveryAgrees, NEW p \in Proc,
         \/ ReserveBegin(p) \/ ProofRecord(p) \/ ProofAdopt(p)
         \/ CompleteBegin(p) \/ CompleteAdopt(p)
  PROVE  Aside /\ OtherSection
<1>0. /\ now \in Nat /\ minted \in Nat /\ call \in [Proc -> Call] /\ wf \in Record
      /\ \A q \in Proc : call[q].stage = "recover" => call[q].at <= now
  BY DEF StoreTypeOK, Id, RecoveryAgrees, IdsAreDrawn
<1>1. UNCHANGED <<files, bounds>>
  BY DEF ReserveBegin, ProofRecord, ProofAdopt, CompleteBegin, CompleteAdopt
<1>2. \A q \in Proc : call'[q].stage = "recover" => call'[q].at <= now
  <2>1. ReserveBegin(p) => call' = [call EXCEPT ![p].stage = "authorised"] BY DEF ReserveBegin
  <2>2. ~ReserveBegin(p) => call' = call \/ call' = [call EXCEPT ![p] = NoCall]
    BY DEF ProofRecord, ProofAdopt, CompleteBegin, CompleteAdopt
  <2>3. CASE call' = [call EXCEPT ![p].stage = "authorised"]
    <3>1. call'[p].stage = "authorised" BY <1>0, <2>3 DEF Call
    <3> QED BY <1>0, <2>3, <3>1
  <2>4. CASE call' = call \/ call' = [call EXCEPT ![p] = NoCall] BY <1>0, <2>4 DEF NoCall
  <2> QED BY <2>1, <2>2, <2>3, <2>4
<1> DEFINE Copies(cmd, step, copy, event) ==
      /\ tx' = [by |-> p, cmd |-> cmd, step |-> step, wf |-> copy, event |-> event, id |-> tx'.id]
      /\ cmd \in DeliveryCommand
      /\ copy.index = wf.index /\ copy.cursor = wf.cursor /\ copy.lease = wf.lease
      /\ copy.status = wf.status \/ (copy.status = "reported" /\ wf.status \in Unreported)
      /\ event.lease = NoId /\ event.type \in DeliveryEvent \cup {"none"}
<1>3. \E cmd, step, copy, event : Copies(cmd, step, copy, event)
  <2>1. CASE ReserveBegin(p)
    <3> DEFINE booking(rsv, seconds) ==
          [rsv |-> rsv, chk |-> call[p].id, expires |-> call[p].at + seconds]
    <3>1. PICK rsv \in Reservation, seconds \in LeaseSeconds :
            Open(p, "reserve", "append", [wf EXCEPT !.reservation = booking(rsv, seconds)],
                 ReservedEvent(rsv, call[p].id), call[p].id)
      BY <2>1 DEF ReserveBegin
    <3> HIDE DEF booking
    <3>2. Copies("reserve", "append", [wf EXCEPT !.reservation = booking(rsv, seconds)],
                 ReservedEvent(rsv, call[p].id))
      BY <3>1, <1>0 DEF Open, Record, DeliveryCommand, DeliveryEvent, ReservedEvent, NoEvent
    <3> QED BY <3>2
  <2>2. CASE ProofRecord(p)
    <3>1. PICK proof \in Claim :
            Open(p, "proof", "append", [wf EXCEPT !.proof = proof],
                 ReportEvent("report_proof", proof), NoId)
      BY <2>2 DEF ProofRecord
    <3>2. Copies("proof", "append", [wf EXCEPT !.proof = proof], ReportEvent("report_proof", proof))
      BY <3>1, <1>0 DEF Open, Record, DeliveryCommand, DeliveryEvent, ReportEvent, NoEvent
    <3> QED BY <3>2
  <2>3. CASE ProofAdopt(p)
    <3>1. PICK proof \in Claim : Open(p, "proof", "save", [wf EXCEPT !.proof = proof], NoEvent, NoId)
      BY <2>3 DEF ProofAdopt
    <3>2. Copies("proof", "save", [wf EXCEPT !.proof = proof], NoEvent)
      BY <3>1, <1>0 DEF Open, Record, DeliveryCommand, DeliveryEvent, NoEvent
    <3> QED BY <3>2
  <2>4. CASE CompleteBegin(p) \/ CompleteAdopt(p)
    <3>1. wf.status \in Unreported BY <2>4 DEF CompleteBegin, CompleteAdopt
    <3>2. \/ Open(p, "complete", "append", Reported(call[p].proof),
                  ReportEvent("report_sent", call[p].proof), NoId)
          \/ Open(p, "complete", "save", Reported(call[p].proof), NoEvent, NoId)
      BY <2>4 DEF CompleteBegin, CompleteAdopt
    <3>3. \/ Copies("complete", "append", Reported(call[p].proof), ReportEvent("report_sent", call[p].proof))
          \/ Copies("complete", "save", Reported(call[p].proof), NoEvent)
      BY <3>1, <3>2, <1>0
         DEF Open, Record, Reported, DeliveryCommand, DeliveryEvent, ReportEvent, NoEvent
    <3> QED BY <3>3
  <2> QED BY <2>1, <2>2, <2>3, <2>4
<1>4. OtherSection
  <2>1. PICK cmd, step, copy, event : Copies(cmd, step, copy, event) BY <1>3
  <2>2. /\ tx'.cmd = cmd /\ tx'.wf = copy /\ tx'.event = event BY <2>1
  <2> QED BY <2>1, <2>2, <1>1
       DEF OtherSection, Sections, DeliveryCommand, DeliveryEvent, files, Terminal, Unreported
<1>5. SameBooks BY <1>1, SameLog DEF files
<1> QED BY <1>0, <1>1, <1>2, <1>4, <1>5 DEF Aside, files, bounds

\* Their writes: an event about the report, or the copy.
LEMMA DeliveryWriteAside ==
  ASSUME StoreTypeOK, RecoveryAgrees, DeliveryWrite
  PROVE  Aside /\ OtherSection
<1>0. /\ now \in Nat /\ minted \in Nat /\ wf \in Record /\ tx \in Tx
      /\ \A q \in Proc : call[q].stage = "recover" => call[q].at <= now
  BY DEF StoreTypeOK, Id, RecoveryAgrees, IdsAreDrawn
<1>1. UNCHANGED <<call, held, bounds>> BY DEF DeliveryWrite
<1>2. /\ tx.event.lease = NoId
      /\ tx.event.type \notin {"checkpoint", "recovery_lease_acquired", "lease_released"}
      /\ tx.wf.index = wf.index /\ tx.wf.cursor = wf.cursor /\ tx.wf.lease = wf.lease
      /\ tx.wf.status \in {wf.status, "reported"}
      /\ tx.wf.status = "reported" => wf.status \in Terminal
  BY DEF DeliveryWrite, RecoveryAgrees, Sections, FinishedHasNoLease, IndexGrows
<1>3. CASE tx.step = "append" /\ AppendEvent(tx.event)
  <2>1. tx.event \in Event BY <1>0 DEF Tx
  <2>2. SameBooks BY <1>2, <1>3, <2>1, OtherLine
  <2>3. tx' = [tx EXCEPT !.step = "save"] BY <1>3 DEF DeliveryWrite, Proceed, DeliveryOrder
  <2>4. tx'.cmd = tx.cmd /\ tx'.wf = tx.wf /\ tx'.event = tx.event BY <2>3, <1>0 DEF Tx
  <2>5. OtherSection BY <1>2, <1>3, <2>4 DEF OtherSection, Sections, DeliveryWrite, AppendEvent
  <2> QED BY <1>0, <1>1, <1>3, <2>2, <2>5 DEF Aside, AppendEvent, bounds
<1>4. CASE tx.step = "save" /\ SaveWorkflow
  <2>1. SameBooks BY <1>4, SameLog DEF SaveWorkflow
  <2>2. tx' = NoTx BY <1>4 DEF DeliveryWrite, Proceed, DeliveryOrder
  <2>3. /\ wf'.index = tx.wf.index /\ wf'.cursor = tx.wf.cursor /\ wf'.lease = tx.wf.lease
        /\ wf'.status = tx.wf.status
    BY <1>0, <1>4 DEF SaveWorkflow, Tx, Record
  <2> QED BY <1>0, <1>1, <1>2, <1>4, <2>1, <2>2, <2>3, NobodyIsOther DEF Aside, SaveWorkflow, bounds
<1> QED BY <1>3, <1>4 DEF DeliveryWrite


-----------------------------------------------------------------------------
\* record_checkpoint opens the lock with an id that was never drawn, on a workflow
\* without markers, and under the lease it cites.
LEMMA CheckpointBeginRecovers ==
  ASSUME StoreTypeOK, StoreTypeOK', RecoveryAgrees, NEW p \in Proc, CheckpointBegin(p)
  PROVE  RecoveryAgrees'
<1> USE DEF RecoveryAgrees
<1> DEFINE before == call[p].cursor
<1>1. PICK status \in Asked, advance \in BOOLEAN, cited \in {NoId, held[p]} :
        LET after == IF advance THEN before + 1 ELSE before
        IN /\ CanCheckpoint(status)
           /\ Unblocked(status)
           /\ LeaseAdmits(p, cited, before)
           /\ CursorMay(before, status, advance)
           /\ \E gated \in NextActions(status),
                 snapshot \in IF status \in Unreported THEN BOOLEAN ELSE {FALSE} :
                Open(p, "checkpoint", "mark",
                     Checkpointed(Fresh, before, after, status, gated, snapshot),
                     CheckpointEvent(Fresh, cited), Fresh)
  BY Zenon DEF CheckpointBegin
<1> DEFINE after == IF advance THEN before + 1 ELSE before
<1>2. PICK gated, snapshot :
         Open(p, "checkpoint", "mark",
              Checkpointed(Fresh, before, after, status, gated, snapshot),
              CheckpointEvent(Fresh, cited), Fresh)
  BY <1>1
<1>0. /\ now \in Nat /\ minted \in Nat /\ wf \in Record /\ tx \in Tx /\ wf.lease \in Lease
      /\ call \in [Proc -> Call] /\ before \in Nat /\ wf.index \in Seq(Entry) /\ wf.cursor \in Nat
  <2>1. /\ now \in Nat /\ minted \in Nat /\ wf \in Record /\ tx \in Tx
        /\ call \in [Proc -> Call]
    BY DEF StoreTypeOK, Id
  <2>2. wf.lease \in Lease /\ wf.index \in Seq(Entry) /\ wf.cursor \in Cursor
    BY <2>1 DEF Record
  <2>3. call[p].cursor \in Cursor BY <2>1 DEF Call
  <2>4. Cursor \subseteq Nat BY StoreAssumption DEF Cursor
  <2> QED BY <2>1, <2>2, <2>3, <2>4
<1>3. /\ UNCHANGED <<files, held, now>> /\ minted' = minted + 1 /\ call' = [call EXCEPT ![p] = NoCall]
      /\ pendingChk = {} /\ pendingRec = {} /\ tx.step = "idle"
  BY <1>2 DEF CheckpointBegin, NothingPending, Fresh, Open, Free
<1>4. /\ tx'.cmd = "checkpoint" /\ tx'.step = "mark" /\ tx'.by = p /\ tx'.id = minted + 1
      /\ tx'.event.type = "checkpoint" /\ tx'.event.chk = minted + 1 /\ tx'.event.lease = cited
  BY <1>2 DEF Open, CheckpointEvent, NoEvent, Fresh
<1>5. /\ tx'.wf.index = Append(wf.index, [id |-> minted + 1, status |-> status, before |-> before,
                                         after |-> after])
      /\ tx'.wf.status = status /\ tx'.wf.cursor = after
      /\ tx'.wf.lease = IF wf.lease.cursor = before THEN NoLease ELSE wf.lease
  <2>1. tx'.wf = Checkpointed(minted + 1, before, after, status, gated, snapshot)
    BY <1>2 DEF Open, Fresh
  <2> HIDE DEF after, before
  <2> QED BY <2>1, <1>0 DEF Checkpointed, Record
<1>6. before = wf.cursor /\ after \in {wf.cursor, wf.cursor + 1} BY <1>1 DEF CursorMay
<1>7. /\ cited = wf.lease.id /\ tx'.wf.lease = NoLease
      /\ wf.lease.id # NoId => held[p] = wf.lease.id /\ ~Expired(wf.lease, now)
  BY <1>0, <1>1, <1>5 DEF LeaseAdmits, Lease, NoLease
<1>8. /\ wf.status \notin Terminal
      /\ wf.status = "blocked" /\ status # "blocked" => Decided
  BY <1>1 DEF CanCheckpoint, Unblocked
<1> HIDE DEF before, after
<1>9. SameBooks BY <1>3, SameLog DEF files
<1>10. /\ UNCHANGED <<Commits, Grants, Releases, Acquired, Consumed>>
       /\ Decisions \subseteq Decisions'
       /\ \A i \in Commits \cup Grants \cup Releases \cup Decisions : events'[i] = events[i]
       /\ UNCHANGED <<wf, events, worklog, pendingChk, pendingRec, now, held>>
       /\ IndexIds' = IndexIds
  BY <1>3, <1>9 DEF SameBooks, files, IndexIds
<1>11. /\ \A i \in Commits : events[i].chk \in Nat /\ events[i].chk <= minted
       /\ \A id \in IndexIds : id \in Nat /\ id <= minted
  BY LinesTyped DEF IdsAreDrawn, IndexIsLogged
<1>12. IdsAreDrawn'
  <2>1. call'[p].stage # "recover" BY <1>0, <1>3 DEF NoCall
  <2>2. \A q \in Proc : call'[q].stage = "recover" => call'[q].at <= now'
    BY <1>0, <1>3, <2>1 DEF IdsAreDrawn
  <2>3. Acquired' \subseteq 1 .. minted' BY <1>0, <1>3, <1>10 DEF IdsAreDrawn
  <2>4. \A i \in Commits' : events'[i].chk <= minted' BY <1>0, <1>3, <1>10, <1>11
  <2> QED BY <1>0, <1>3, <1>4, <2>2, <2>3, <2>4 DEF IdsAreDrawn
<1>13. Sections' BY <1>4 DEF Sections
<1>14. Markers' BY <1>3, <1>4, <1>10 DEF Markers
<1>15. IndexIsLogged' BY <1>0, <1>4, <1>10, <1>11 DEF IndexIsLogged
<1>16. IndexGrows'
  <2>1. IndexIsAChain' BY <1>10 DEF IndexGrows, IndexIsAChain
  <2>2. minted + 1 \notin IndexIds BY <1>0, <1>11
  <2> QED BY <1>4, <1>5, <1>6, <1>10, <2>1, <2>2 DEF IndexGrows
<1>17. BlocksAreDecided'
  <2>1. BlockedNeedsDecision' BY <1>10 DEF BlocksAreDecided, BlockedNeedsDecision, EventsOf
  <2>2. Decided' <=> Decided BY <1>10 DEF Decided, EventsOf
  <2> QED BY <1>4, <1>5, <1>8, <1>10, <2>1, <2>2 DEF BlocksAreDecided
<1>18. ASSUME NEW id PROVE LatestGrant(id)' <=> LatestGrant(id) BY <1>10 DEF LatestGrant
<1>19. LeasesAreBooked'
  <2>1. LeaseIsSpentOnce' BY <1>10 DEF LeasesAreBooked, LeaseIsSpentOnce, EventsOf
  <2> QED BY <1>10, <1>18, <2>1 DEF LeasesAreBooked, Expired
<1>20. LeaseIsCited' BY <1>3, <1>4, <1>7, <1>10 DEF LeaseIsCited, Committing, LeasesAreBooked
<1>21. LeaseIsReplaced' BY <1>4 DEF LeaseIsReplaced
<1>22. FinishedHasNoLease'
  BY <1>4, <1>8, <1>10 DEF FinishedHasNoLease, TerminalIsReleased
<1> QED BY <1>12, <1>13, <1>14, <1>15, <1>16, <1>17, <1>19, <1>20, <1>21, <1>22


\* recover opens the lock on a workflow that runs, without markers, whose lease ran out,
\* with a lease id that was never drawn.
LEMMA RecoverBeginRecovers ==
  ASSUME StoreTypeOK, StoreTypeOK', RecoveryAgrees, NEW p \in Proc, RecoverBegin(p)
  PROVE  RecoveryAgrees'
<1> USE DEF RecoveryAgrees
<1> DEFINE lease(seconds) == [id |-> Fresh, cursor |-> wf.cursor, holder |-> p,
                              expires |-> call[p].at + seconds]
<1>1. PICK seconds \in LeaseSeconds :
        Open(p, "recover", IF wf.lease.id = NoId THEN "mark" ELSE "release",
             [wf EXCEPT !.lease = lease(seconds)],
             LeaseEvent("recovery_lease_acquired", Fresh), Fresh)
  BY DEF RecoverBegin
<1>0. /\ now \in Nat /\ minted \in Nat /\ wf \in Record /\ tx \in Tx /\ wf.lease \in Lease
      /\ call \in [Proc -> Call] /\ call[p].at \in Nat /\ wf.lease.expires \in Nat
  <2>1. wf \in Record /\ tx \in Tx /\ call \in [Proc -> Call] /\ now \in Nat /\ minted \in Nat
    BY DEF StoreTypeOK, Id
  <2>2. wf.lease \in Lease BY <2>1 DEF Record
  <2>3. wf.lease.expires \in Nat BY <2>2 DEF Lease, NoLease
  <2>4. call[p].at \in Nat BY <2>1 DEF Call
  <2> QED BY <2>1, <2>2, <2>3, <2>4
<1>2. /\ UNCHANGED <<files, held, now>> /\ minted' = minted + 1
      /\ call' = [call EXCEPT ![p] = [NoCall EXCEPT !.stage = "leased", !.id = Fresh]]
      /\ call[p].stage = "recover" /\ Resumable(call[p].at)
  BY DEF RecoverBegin, Fresh
<1>3. /\ pendingChk = {} /\ pendingRec = {} /\ ~LeaseMismatch /\ ~HasLease(call[p].at)
      /\ wf.status \notin Terminal
  BY <1>2 DEF Resumable, Reason, RecoveryMismatch, Terminal, Unreported, Active
<1>4. /\ tx'.cmd = "recover" /\ tx'.step = (IF wf.lease.id = NoId THEN "mark" ELSE "release")
      /\ tx'.id = minted + 1
      /\ tx'.event.type = "recovery_lease_acquired" /\ tx'.event.lease = minted + 1
  BY <1>1 DEF Open, LeaseEvent, NoEvent, Fresh
<1>5. /\ tx'.wf.index = wf.index /\ tx'.wf.cursor = wf.cursor /\ tx'.wf.status = wf.status
      /\ tx'.wf.lease.id = minted + 1
  <2>1. tx'.wf = [wf EXCEPT !.lease = lease(seconds)] BY <1>1 DEF Open
  <2>2. lease(seconds).id = minted + 1 BY DEF Fresh
  <2> HIDE DEF lease
  <2> QED BY <2>1, <2>2, <1>0 DEF Record
<1> HIDE DEF lease
<1>6. wf.lease.id = NoId \/ Expired(wf.lease, now)
  BY <1>0, <1>2, <1>3 DEF HasLease, Expired, IdsAreDrawn
<1>9. SameBooks BY <1>2, SameLog DEF files
<1>10. /\ UNCHANGED <<Commits, Grants, Releases, Acquired, Consumed>>
       /\ Decisions \subseteq Decisions'
       /\ \A i \in Commits \cup Grants \cup Releases \cup Decisions : events'[i] = events[i]
       /\ UNCHANGED <<wf, events, worklog, pendingChk, pendingRec, now, held>>
       /\ IndexIds' = IndexIds
  BY <1>2, <1>9 DEF SameBooks, files, IndexIds
<1>11. minted + 1 \notin Acquired /\ minted + 1 \notin Consumed
  BY <1>0 DEF IdsAreDrawn, LeasesAreBooked
<1>12. IdsAreDrawn'
  <2>1. call'[p].stage # "recover" BY <1>0, <1>2 DEF NoCall
  <2>2. \A q \in Proc : call'[q].stage = "recover" => call'[q].at <= now'
    BY <1>0, <1>2, <2>1 DEF IdsAreDrawn
  <2>3. Acquired' \subseteq 1 .. minted' BY <1>0, <1>2, <1>10 DEF IdsAreDrawn
  <2>4. \A i \in Commits' : events'[i].chk <= minted' BY <1>0, <1>2, <1>10, LinesTyped DEF IdsAreDrawn
  <2> QED BY <1>0, <1>2, <1>4, <2>2, <2>3, <2>4 DEF IdsAreDrawn
<1>13. Sections' BY <1>4, <1>10 DEF Sections
<1>14. Markers' BY <1>3, <1>4, <1>10 DEF Markers
<1>15. IndexIsLogged' BY <1>4, <1>10 DEF IndexIsLogged
<1>16. IndexGrows'
  <2>1. IndexIsAChain' BY <1>10 DEF IndexGrows, IndexIsAChain
  <2> QED BY <1>4, <1>5, <1>10, <2>1 DEF IndexGrows, Committing
<1>17. BlocksAreDecided'
  <2>1. BlockedNeedsDecision' BY <1>10 DEF BlocksAreDecided, BlockedNeedsDecision, EventsOf
  <2> QED BY <1>4, <2>1 DEF BlocksAreDecided, Committing
<1>18. ASSUME NEW id PROVE LatestGrant(id)' <=> LatestGrant(id) BY <1>10 DEF LatestGrant
<1>19. LeasesAreBooked'
  <2>1. LeaseIsSpentOnce' BY <1>10 DEF LeasesAreBooked, LeaseIsSpentOnce, EventsOf
  <2> QED BY <1>10, <1>18, <2>1 DEF LeasesAreBooked, Expired
<1>20. LeaseIsCited' BY <1>4 DEF LeaseIsCited, Committing
<1>21. LeaseIsReplaced' BY <1>4, <1>5, <1>6, <1>10, <1>11 DEF LeaseIsReplaced, Expired
<1>22. FinishedHasNoLease'
  BY <1>3, <1>4, <1>5, <1>10 DEF FinishedHasNoLease, TerminalIsReleased, Committing
<1> QED BY <1>12, <1>13, <1>14, <1>15, <1>16, <1>17, <1>19, <1>20, <1>21, <1>22

-----------------------------------------------------------------------------
\* The writes of a checkpoint.  First the marker: nothing else moves.
LEMMA CheckpointMarks ==
  ASSUME StoreTypeOK, StoreTypeOK', RecoveryAgrees, CheckpointWrite, tx.step = "mark"
  PROVE  RecoveryAgrees'
<1> USE DEF RecoveryAgrees
<1>1. /\ pendingChk' = pendingChk \cup {tx.id} /\ tx' = [tx EXCEPT !.step = "append"]
      /\ UNCHANGED <<wf, events, worklog, pendingRec, call, held, now, minted>>
  BY DEF CheckpointWrite, WritePendingCheckpoint, Proceed, CheckpointOrder, bounds
<1>2. /\ tx.cmd = "checkpoint" /\ tx'.cmd = "checkpoint" /\ tx'.step = "append" /\ tx'.id = tx.id
      /\ tx'.event = tx.event /\ tx'.wf = tx.wf /\ tx'.by = tx.by
  BY <1>1 DEF CheckpointWrite, StoreTypeOK, Tx
<1>3. SameBooks BY <1>1, SameLog
<1>4. /\ UNCHANGED <<Commits, Grants, Releases, Acquired, Consumed>> /\ IndexIds' = IndexIds
  BY <1>1, <1>3 DEF SameBooks, IndexIds
<1>5. IdsAreDrawn' BY <1>1, <1>2, <1>4 DEF IdsAreDrawn
<1>6. Sections' BY <1>2 DEF Sections
<1>7. Markers' BY <1>1, <1>2 DEF Markers
<1>8. IndexIsLogged' BY <1>1, <1>2, <1>4 DEF IndexIsLogged
<1>9. IndexGrows'
  <2>1. IndexIsAChain' BY <1>1 DEF IndexGrows, IndexIsAChain
  <2> QED BY <1>1, <1>2, <1>4, <2>1 DEF IndexGrows, Committing
<1>10. BlocksAreDecided'
  <2>1. BlockedNeedsDecision' BY <1>1 DEF BlocksAreDecided, BlockedNeedsDecision, EventsOf
  <2>2. Decided' <=> Decided BY <1>1 DEF Decided, EventsOf
  <2> QED BY <1>1, <1>2, <2>1, <2>2 DEF BlocksAreDecided, Committing
<1>11. LeasesAreBooked'
  <2>1. LeaseIsSpentOnce' BY <1>1 DEF LeasesAreBooked, LeaseIsSpentOnce, EventsOf
  <2>2. \A id : LatestGrant(id)' <=> LatestGrant(id) BY <1>1, <1>4 DEF LatestGrant
  <2>3. pendingChk' # {} BY <1>1
  <2> QED BY <1>1, <1>4, <2>1, <2>2, <2>3 DEF LeasesAreBooked, Expired
<1>12. LeaseIsCited' BY <1>1, <1>2, <1>4 DEF LeaseIsCited, Committing
<1>13. LeaseIsReplaced' BY <1>2 DEF LeaseIsReplaced
<1>14. FinishedHasNoLease' BY <1>1, <1>2 DEF FinishedHasNoLease, TerminalIsReleased, Committing
<1> QED BY <1>5, <1>6, <1>7, <1>8, <1>9, <1>10, <1>11, <1>12, <1>13, <1>14

\* Its event: the only one with its id, after the decision it needs, and the spending of
\* the lease it cites, which is the latest.
LEMMA CheckpointLogs ==
  ASSUME StoreTypeOK, StoreTypeOK', RecoveryAgrees, CheckpointWrite, tx.step = "append"
  PROVE  RecoveryAgrees'
<1> USE DEF RecoveryAgrees
<1> DEFINE n == Len(events) + 1
<1>1. /\ AppendEvent(tx.event) /\ tx' = [tx EXCEPT !.step = "worklog"]
      /\ UNCHANGED <<wf, worklog, pendingChk, pendingRec, call, held, now, minted>>
  BY DEF CheckpointWrite, AppendEvent, Proceed, CheckpointOrder, bounds
<1>2. /\ tx.cmd = "checkpoint" /\ tx'.cmd = "checkpoint" /\ tx'.step = "worklog" /\ tx'.id = tx.id
      /\ tx'.event = tx.event /\ tx'.wf = tx.wf /\ tx'.by = tx.by /\ tx.event \in Event
  BY <1>1 DEF CheckpointWrite, StoreTypeOK, Tx
<1>3. /\ tx.event.type = "checkpoint" /\ tx.event.chk = tx.id /\ tx.event.lease = wf.lease.id
      /\ pendingChk = {tx.id} /\ pendingRec = {}
  BY <1>2 DEF Sections, LeaseIsCited, Committing, Markers
<1>4. /\ Commits' = Commits \cup {n} /\ UNCHANGED <<Grants, Releases, Decisions, Acquired>>
      /\ \A i \in Commits \cup Grants \cup Releases \cup Decisions :
           events'[i] = events[i] /\ i < n /\ i \in Nat
      /\ events'[n] = tx.event /\ n \in Nat
      /\ Consumed' = Consumed \cup (IF wf.lease.id # NoId THEN {wf.lease.id} ELSE {})
      /\ IndexIds' = IndexIds
  BY <1>1, <1>2, <1>3, LogGrows DEF IndexIds
<1> HIDE DEF n
<1>5. IdsAreDrawn'
  <2>1. \A i \in Commits' : events'[i].chk <= minted'
    BY <1>1, <1>2, <1>3, <1>4 DEF IdsAreDrawn
  <2> QED BY <1>1, <1>2, <1>4, <2>1 DEF IdsAreDrawn
<1>6. Sections' BY <1>2 DEF Sections
<1>7. Markers' BY <1>1, <1>2 DEF Markers
<1>8. IndexIsLogged'
  <2>1. \A i \in Commits : events[i].chk # tx.id BY <1>2 DEF IndexIsLogged
  <2>2. \A i, j \in Commits' : events'[i].chk = events'[j].chk => i = j
    BY <1>3, <1>4, <2>1 DEF IndexIsLogged
  <2>3. \A i \in Commits' : events'[i].chk \in IndexIds' \cup pendingChk'
    BY <1>1, <1>3, <1>4 DEF IndexIsLogged
  <2>4. \A id \in IndexIds' : id \in worklog' /\ \E i \in Commits' : events'[i].chk = id
    BY <1>1, <1>4 DEF IndexIsLogged
  <2>5. \E i \in Commits' : events'[i].chk = tx'.id BY <1>2, <1>3, <1>4
  <2> QED BY <1>2, <2>2, <2>3, <2>4, <2>5 DEF IndexIsLogged
<1>9. IndexGrows'
  <2>1. IndexIsAChain' BY <1>1 DEF IndexGrows, IndexIsAChain
  <2> QED BY <1>1, <1>2, <1>4, <2>1 DEF IndexGrows, Committing
<1>10. BlocksAreDecided'
  <2>1. BlockedNeedsDecision'
    <3> USE DEF Commits, Decisions
    <3> QED BY <1>1, <1>4 DEF BlocksAreDecided, BlockedNeedsDecision
  <2>2. ASSUME Decided
        PROVE  \E d \in Decisions', c \in Commits' :
                 events'[c].chk = tx.id /\ d < c /\ \A b \in Commits' : b # c => b < d
    BY <1>3, <1>4, <2>2 DEF Decided, Commits, Decisions
  <2> QED BY <1>1, <1>2, <2>1, <2>2 DEF BlocksAreDecided, Committing
<1>11. LeasesAreBooked'
  <2>1. LeaseIsSpentOnce'
    <3>1. LeaseIsSpentOnce BY DEF LeasesAreBooked
    <3>2. \A i \in Commits \cup Releases : wf.lease.id # NoId => events[i].lease # wf.lease.id
      BY <1>2, <1>3 DEF LeaseIsCited, Committing
    <3>3. wf.lease.id # NoId => LatestGrant(wf.lease.id) BY <1>3 DEF LeasesAreBooked
    <3>4. ASSUME NEW c \in Commits, events'[c].lease # NoId
          PROVE  /\ \A d \in Commits' : events'[d].lease = events'[c].lease => d = c
                 /\ \A r \in Releases' : events'[r].lease # events'[c].lease
                 /\ \E a \in Grants' : /\ a < c /\ events'[a].lease = events'[c].lease
                                      /\ \A b \in Grants' : a < b => c < b
      <4>1. events'[c] = events[c] /\ events[c].lease # NoId BY <1>4, <3>4
      <4>2. /\ \A d \in Commits : events[d].lease = events[c].lease => d = c
            /\ \A r \in Releases : events[r].lease # events[c].lease
            /\ \E a \in Grants : /\ a < c /\ events[a].lease = events[c].lease
                                 /\ \A b \in Grants : a < b => c < b
        BY <3>1, <4>1 DEF LeaseIsSpentOnce, Commits, Releases, Grants
      <4> QED BY <1>3, <1>4, <3>2, <4>1, <4>2
    <3>5. ASSUME wf.lease.id # NoId
          PROVE  /\ \A d \in Commits' : events'[d].lease = events'[n].lease => d = n
                 /\ \A r \in Releases' : events'[r].lease # events'[n].lease
                 /\ \E a \in Grants' : /\ a < n /\ events'[a].lease = events'[n].lease
                                      /\ \A b \in Grants' : a < b => n < b
      BY <1>3, <1>4, <3>2, <3>3, <3>5 DEF LatestGrant
    <3>6. \A c \in Commits' : events'[c].lease # NoId =>
            /\ \A d \in Commits' : events'[d].lease = events'[c].lease => d = c
            /\ \A r \in Releases' : events'[r].lease # events'[c].lease
            /\ \E a \in Grants' : /\ a < c /\ events'[a].lease = events'[c].lease
                                 /\ \A b \in Grants' : a < b => c < b
      BY <1>3, <1>4, <3>4, <3>5
    <3> QED BY <3>6 DEF LeaseIsSpentOnce, Commits, Releases, Grants
  <2>2. /\ Consumed' \subseteq Acquired'
        /\ Acquired' \subseteq Consumed' \cup {wf'.lease.id} \cup pendingRec'
    BY <1>1, <1>4 DEF LeasesAreBooked
  <2>3. \A r \in Releases' : events'[r].lease = wf'.lease.id => Expired(wf'.lease, now')
    BY <1>1, <1>4 DEF LeasesAreBooked
  <2>4. LatestGrant(wf.lease.id)' <=> LatestGrant(wf.lease.id)
    BY <1>1, <1>4 DEF LatestGrant
  <2>5. wf.lease.id # NoId => wf.lease.id \in Acquired /\ LatestGrant(wf.lease.id)
    BY <1>3 DEF LeasesAreBooked
  <2>6. pendingChk' # {} BY <1>1, <1>3
  <2> QED BY <1>1, <1>4, <2>1, <2>2, <2>3, <2>4, <2>5, <2>6 DEF LeasesAreBooked
<1>12. LeaseIsCited' BY <1>1, <1>2, <1>4 DEF LeaseIsCited, Committing
<1>13. LeaseIsReplaced' BY <1>2 DEF LeaseIsReplaced
<1>14. FinishedHasNoLease' BY <1>1, <1>2 DEF FinishedHasNoLease, TerminalIsReleased, Committing
<1> QED BY <1>5, <1>6, <1>7, <1>8, <1>9, <1>10, <1>11, <1>12, <1>13, <1>14

\* Its worklog block.
LEMMA CheckpointWritesWorklog ==
  ASSUME StoreTypeOK, StoreTypeOK', RecoveryAgrees, CheckpointWrite, tx.step = "worklog"
  PROVE  RecoveryAgrees'
<1> USE DEF RecoveryAgrees
<1>1. /\ worklog' = worklog \cup {tx.id} /\ tx' = [tx EXCEPT !.step = "save"]
      /\ UNCHANGED <<wf, events, pendingChk, pendingRec, call, held, now, minted>>
  BY DEF CheckpointWrite, AppendWorklog, Proceed, CheckpointOrder, bounds
<1>2. /\ tx.cmd = "checkpoint" /\ tx'.cmd = "checkpoint" /\ tx'.step = "save" /\ tx'.id = tx.id
      /\ tx'.event = tx.event /\ tx'.wf = tx.wf /\ tx'.by = tx.by
  BY <1>1 DEF CheckpointWrite, StoreTypeOK, Tx
<1>3. SameBooks BY <1>1, SameLog
<1>4. /\ UNCHANGED <<Commits, Grants, Releases, Decisions, Acquired, Consumed>> /\ IndexIds' = IndexIds
  BY <1>1, <1>3 DEF SameBooks, IndexIds, Decisions, EventsOf
<1>5. IdsAreDrawn' BY <1>1, <1>2, <1>4 DEF IdsAreDrawn
<1>6. Sections' BY <1>2 DEF Sections
<1>7. Markers' BY <1>1, <1>2 DEF Markers
<1>8. IndexIsLogged' BY <1>1, <1>2, <1>4 DEF IndexIsLogged
<1>9. IndexGrows'
  <2>1. IndexIsAChain' BY <1>1 DEF IndexGrows, IndexIsAChain
  <2> QED BY <1>1, <1>2, <1>4, <2>1 DEF IndexGrows, Committing
<1>10. BlocksAreDecided'
  <2>1. BlockedNeedsDecision' BY <1>1 DEF BlocksAreDecided, BlockedNeedsDecision, EventsOf
  <2> QED BY <1>1, <1>2, <1>4, <2>1 DEF BlocksAreDecided, Committing
<1>11. LeasesAreBooked'
  <2>1. LeaseIsSpentOnce' BY <1>1 DEF LeasesAreBooked, LeaseIsSpentOnce, EventsOf
  <2>2. \A id : LatestGrant(id)' <=> LatestGrant(id) BY <1>1, <1>4 DEF LatestGrant
  <2> QED BY <1>1, <1>4, <2>1, <2>2 DEF LeasesAreBooked, Expired
<1>12. LeaseIsCited' BY <1>1, <1>2, <1>4 DEF LeaseIsCited, Committing
<1>13. LeaseIsReplaced' BY <1>2 DEF LeaseIsReplaced
<1>14. FinishedHasNoLease' BY <1>1, <1>2 DEF FinishedHasNoLease, TerminalIsReleased, Committing
<1> QED BY <1>5, <1>6, <1>7, <1>8, <1>9, <1>10, <1>11, <1>12, <1>13, <1>14

\* workflow.json: the index grows by the logged checkpoint, and the lease is gone.
LEMMA CheckpointSaves ==
  ASSUME StoreTypeOK, StoreTypeOK', RecoveryAgrees, CheckpointWrite, tx.step = "save"
  PROVE  RecoveryAgrees'
<1> USE DEF RecoveryAgrees
<1> DEFINE n == Len(wf.index)
           entry == [id |-> tx.id, status |-> tx.wf.status, before |-> wf.cursor, after |-> tx.wf.cursor]
<1>0. /\ wf \in Record /\ tx.wf \in Record /\ wf.index \in Seq(Entry) /\ n \in Nat /\ now \in Nat
      /\ minted \in Nat
  BY DEF StoreTypeOK, Tx, Record, Id
<1>1. /\ wf' = [tx.wf EXCEPT !.lastActivity = now] /\ tx' = [tx EXCEPT !.step = "clear"]
      /\ UNCHANGED <<events, worklog, pendingChk, pendingRec, call, held, now, minted>>
  BY DEF CheckpointWrite, SaveWorkflow, Proceed, CheckpointOrder, bounds
<1>2. /\ tx.cmd = "checkpoint" /\ tx'.cmd = "checkpoint" /\ tx'.step = "clear" /\ tx'.id = tx.id
      /\ tx'.event = tx.event /\ tx'.wf = tx.wf /\ tx'.by = tx.by
  BY <1>1 DEF CheckpointWrite, StoreTypeOK, Tx
<1>3. /\ wf'.index = Append(wf.index, entry) /\ wf'.cursor = tx.wf.cursor
      /\ wf'.status = tx.wf.status /\ wf'.lease = NoLease
      /\ tx.id \notin IndexIds /\ tx.wf.cursor \in {wf.cursor, wf.cursor + 1}
      /\ wf.status \notin Terminal /\ pendingChk = {tx.id} /\ pendingRec = {}
  <2>1. /\ wf'.index = tx.wf.index /\ wf'.cursor = tx.wf.cursor /\ wf'.status = tx.wf.status
        /\ wf'.lease = tx.wf.lease
    BY <1>0, <1>1 DEF Record
  <2>2. Committing BY <1>2 DEF Committing
  <2> QED BY <1>2, <2>1, <2>2 DEF IndexGrows, LeaseIsCited, FinishedHasNoLease, Markers
<1>4. /\ DOMAIN wf'.index = DOMAIN wf.index \cup {n + 1} /\ Len(wf'.index) = n + 1
      /\ DOMAIN wf.index = 1 .. n
      /\ \A k \in DOMAIN wf.index : wf'.index[k] = wf.index[k]
      /\ wf'.index[n + 1] = entry
  <2>1. wf'.index \in Seq(Entry) BY DEF StoreTypeOK, Record
  <2>2. Len(wf'.index) = n + 1 /\ DOMAIN wf'.index = 1 .. n + 1 /\ DOMAIN wf.index = 1 .. n
    BY <1>0, <1>3
  <2>3. \A k \in 1 .. n : wf'.index[k] = wf.index[k] BY <1>0, <1>3
  <2> QED BY <1>0, <1>3, <2>2, <2>3
<1>5. IndexIds' = IndexIds \cup {tx.id} BY <1>4 DEF IndexIds
<1>6. SameBooks BY <1>1, SameLog
<1>7. UNCHANGED <<Commits, Grants, Releases, Decisions, Acquired, Consumed>>
  BY <1>1, <1>6 DEF SameBooks, Decisions, EventsOf
<1>8. IdsAreDrawn' BY <1>1, <1>2, <1>7 DEF IdsAreDrawn
<1>9. Sections' BY <1>2 DEF Sections
<1>10. Markers' BY <1>1, <1>2 DEF Markers
<1>11. IndexIsLogged' BY <1>1, <1>2, <1>5, <1>7 DEF IndexIsLogged
<1>12. IndexGrows'
  <2>1. IndexIsAChain'
    <3>1. /\ \A k \in 1 .. n :
               /\ wf.index[k].before = IF k = 1 THEN 0 ELSE wf.index[k - 1].after
               /\ wf.index[k].after \in {wf.index[k].before, wf.index[k].before + 1}
          /\ wf.cursor = IF n = 0 THEN 0 ELSE wf.index[n].after
      BY DEF IndexGrows, IndexIsAChain
    <3>2. ASSUME NEW k \in 1 .. n + 1
          PROVE  /\ wf'.index[k].before = IF k = 1 THEN 0 ELSE wf'.index[k - 1].after
                 /\ wf'.index[k].after \in {wf'.index[k].before, wf'.index[k].before + 1}
      <4>1. CASE k \in 1 .. n
        <5>1. wf'.index[k] = wf.index[k] /\ (k # 1 => wf'.index[k - 1] = wf.index[k - 1])
          BY <1>0, <1>4, <4>1
        <5> QED BY <3>1, <4>1, <5>1
      <4>2. CASE k = n + 1
        <5>1. wf'.index[k].before = wf.cursor /\ wf'.index[k].after = tx.wf.cursor BY <1>4, <4>2
        <5>2. k # 1 => wf'.index[k - 1] = wf.index[n] BY <1>0, <1>4, <4>2
        <5> QED BY <1>0, <1>3, <3>1, <4>2, <5>1, <5>2
      <4> QED BY <1>0, <4>1, <4>2
    <3>3. wf'.cursor = wf'.index[n + 1].after BY <1>3, <1>4
    <3> QED BY <1>0, <1>4, <3>2, <3>3 DEF IndexIsAChain
  <2>2. Len(wf'.index) > 0 /\ wf'.status = wf'.index[Len(wf'.index)].status
    BY <1>0, <1>3, <1>4
  <2> QED BY <1>2, <2>1, <2>2 DEF IndexGrows, Committing
<1>13. BlocksAreDecided'
  <2>1. ASSUME NEW k \in 2 .. n + 1,
               wf'.index[k - 1].status = "blocked", wf'.index[k].status # "blocked"
        PROVE  \E d \in Decisions, b, c \in Commits :
                 /\ events[b].chk = wf'.index[k - 1].id /\ events[c].chk = wf'.index[k].id
                 /\ b < d /\ d < c
    <3>1. CASE k \in 2 .. n
      <4>1. wf'.index[k] = wf.index[k] /\ wf'.index[k - 1] = wf.index[k - 1] BY <1>0, <1>4, <3>1
      <4> QED BY <2>1, <3>1, <4>1 DEF BlocksAreDecided, BlockedNeedsDecision, Commits, Decisions
    <3>2. CASE k = n + 1
      <4>1. /\ n \in DOMAIN wf.index /\ wf'.index[k - 1] = wf.index[n] /\ wf'.index[k] = entry
        BY <1>0, <1>4, <3>2
      <4>2. n > 0 /\ wf.index[n].status = "blocked" /\ tx.wf.status # "blocked" BY <1>0, <2>1, <3>2, <4>1
      <4>3. wf.status = "blocked" BY <1>3, <4>2 DEF IndexGrows, Terminal
      <4>4. PICK d \in Decisions, c \in Commits :
              events[c].chk = tx.id /\ d < c /\ \A b \in Commits : b # c => b < d
        BY <1>2, <4>2, <4>3 DEF BlocksAreDecided, Committing
      <4>5. wf.index[n].id \in IndexIds BY <4>1 DEF IndexIds
      <4>6. PICK b \in Commits : events[b].chk = wf.index[n].id BY <4>5 DEF IndexIsLogged
      <4>7. b # c BY <1>3, <4>4, <4>5, <4>6
      <4> QED BY <4>1, <4>4, <4>6, <4>7
    <3> QED BY <1>0, <3>1, <3>2
  <2>2. BlockedNeedsDecision'
    BY <1>1, <1>4, <2>1 DEF BlockedNeedsDecision, Commits, Decisions, EventsOf
  <2> QED BY <1>2, <2>2 DEF BlocksAreDecided, Committing
<1>14. LeasesAreBooked'
  <2>1. LeaseIsSpentOnce' BY <1>1 DEF LeasesAreBooked, LeaseIsSpentOnce, EventsOf
  <2>2. wf'.lease.id = NoId /\ Expired(wf'.lease, now') BY <1>0, <1>1, <1>3 DEF NoLease, Expired
  <2>3. wf.lease.id \in Consumed \cup {NoId} BY <1>2 DEF LeaseIsCited, Committing
  <2> QED BY <1>1, <1>7, <2>1, <2>2, <2>3 DEF LeasesAreBooked
<1>15. LeaseIsCited' BY <1>2, <1>3 DEF LeaseIsCited, Committing, NoLease
<1>16. LeaseIsReplaced' BY <1>2 DEF LeaseIsReplaced
<1>17. FinishedHasNoLease'
  BY <1>1, <1>2, <1>3 DEF FinishedHasNoLease, TerminalIsReleased, Committing, NoLease
<1> QED BY <1>8, <1>9, <1>10, <1>11, <1>12, <1>13, <1>14, <1>15, <1>16, <1>17

\* The marker goes: the checkpoint it stood for is in the index.
LEMMA CheckpointClears ==
  ASSUME StoreTypeOK, StoreTypeOK', RecoveryAgrees, CheckpointWrite, tx.step = "clear"
  PROVE  RecoveryAgrees'
<1> USE DEF RecoveryAgrees
<1>1. /\ pendingChk' = pendingChk \ {tx.id} /\ tx' = NoTx
      /\ UNCHANGED <<wf, events, worklog, pendingRec, call, held, now, minted>>
  BY DEF CheckpointWrite, ClearPendingCheckpoint, Proceed, CheckpointOrder, bounds
<1>2. /\ tx.cmd = "checkpoint" /\ pendingChk = {tx.id} /\ pendingChk' = {} /\ pendingRec = {}
      /\ tx.id \in IndexIds /\ wf.lease.id = NoId
  BY <1>1 DEF CheckpointWrite, Markers, IndexIsLogged, LeaseIsCited
<1>3. SameBooks BY <1>1, SameLog
<1>4. /\ UNCHANGED <<Commits, Grants, Releases, Acquired, Consumed>> /\ IndexIds' = IndexIds
  BY <1>1, <1>3 DEF SameBooks, IndexIds
<1>5. tx'.cmd = "none" BY <1>1 DEF NoTx
<1>6. IdsAreDrawn' BY <1>1, <1>4, <1>5 DEF IdsAreDrawn
<1>7. Sections' BY <1>1, <1>5 DEF Sections, NoTx, NoEvent
<1>8. Markers' BY <1>1, <1>2, <1>5 DEF Markers
<1>9. IndexIsLogged' BY <1>1, <1>2, <1>4, <1>5 DEF IndexIsLogged
<1>10. IndexGrows'
  <2>1. IndexIsAChain' BY <1>1 DEF IndexGrows, IndexIsAChain
  <2> QED BY <1>1, <1>5, <2>1 DEF IndexGrows, Committing
<1>11. BlocksAreDecided'
  <2>1. BlockedNeedsDecision' BY <1>1 DEF BlocksAreDecided, BlockedNeedsDecision, EventsOf
  <2> QED BY <1>5, <2>1 DEF BlocksAreDecided, Committing
<1>12. LeasesAreBooked'
  <2>1. LeaseIsSpentOnce' BY <1>1 DEF LeasesAreBooked, LeaseIsSpentOnce, EventsOf
  <2> QED BY <1>1, <1>2, <1>4, <2>1 DEF LeasesAreBooked, Expired
<1>13. LeaseIsCited' /\ LeaseIsReplaced' BY <1>5 DEF LeaseIsCited, LeaseIsReplaced, Committing
<1>14. FinishedHasNoLease' BY <1>1, <1>5 DEF FinishedHasNoLease, TerminalIsReleased, Committing
<1> QED BY <1>6, <1>7, <1>8, <1>9, <1>10, <1>11, <1>12, <1>13, <1>14

-----------------------------------------------------------------------------
\* The writes of recover.  First, for a lease that ran out, its release.
LEMMA RecoverReleases ==
  ASSUME StoreTypeOK, StoreTypeOK', RecoveryAgrees, RecoverWrite, tx.step = "release"
  PROVE  RecoveryAgrees'
<1> USE DEF RecoveryAgrees
<1> DEFINE n == Len(events) + 1
           event == LeaseEvent("lease_released", wf.lease.id)
<1>1. /\ AppendEvent(event) /\ tx' = [tx EXCEPT !.step = "mark"]
      /\ UNCHANGED <<wf, worklog, pendingChk, pendingRec, call, held, now, minted>>
  BY DEF RecoverWrite, AppendEvent, Proceed, RecoverOrder, bounds
<1>2. /\ tx.cmd = "recover" /\ tx'.cmd = "recover" /\ tx'.step = "mark" /\ tx'.id = tx.id
      /\ tx'.event = tx.event /\ tx'.wf = tx.wf
  BY <1>1 DEF RecoverWrite, StoreTypeOK, Tx
<1>3. /\ wf.lease.id # NoId /\ pendingChk = {} /\ pendingRec = {}
      /\ wf.lease.id \in Acquired /\ Expired(wf.lease, now)
      /\ tx.id \notin Acquired /\ tx.id \notin Consumed
      /\ \A c \in Commits : events[c].lease # wf.lease.id
  BY <1>2 DEF Sections, Markers, LeasesAreBooked, LeaseIsReplaced
<1>4. /\ event \in Event /\ event.type = "lease_released" /\ event.lease = wf.lease.id
  BY LeaseReleasedTyped DEF LeaseEvent, NoEvent
<1> HIDE DEF event
<1>5. /\ Releases' = Releases \cup {n} /\ UNCHANGED <<Commits, Grants, Decisions, Acquired>>
      /\ \A i \in Commits \cup Grants \cup Releases \cup Decisions :
           events'[i] = events[i] /\ i < n /\ i \in Nat
      /\ events'[n] = event /\ n \in Nat
      /\ Consumed' = Consumed \cup {wf.lease.id}
      /\ IndexIds' = IndexIds
  BY <1>1, <1>3, <1>4, LogGrows DEF IndexIds
<1> HIDE DEF n
<1>6. IdsAreDrawn' BY <1>1, <1>2, <1>5 DEF IdsAreDrawn
<1>7. Sections' BY <1>2 DEF Sections
<1>8. Markers' BY <1>1, <1>2 DEF Markers
<1>9. IndexIsLogged' BY <1>1, <1>2, <1>5 DEF IndexIsLogged
<1>10. IndexGrows'
  <2>1. IndexIsAChain' BY <1>1 DEF IndexGrows, IndexIsAChain
  <2> QED BY <1>1, <1>2, <2>1 DEF IndexGrows, Committing
<1>11. BlocksAreDecided'
  <2>1. BlockedNeedsDecision'
    <3> USE DEF Commits, Decisions
    <3> QED BY <1>1, <1>5 DEF BlocksAreDecided, BlockedNeedsDecision
  <2> QED BY <1>2, <2>1 DEF BlocksAreDecided, Committing
<1>12. LeasesAreBooked'
  <2>1. LeaseIsSpentOnce'
    <3> USE DEF Commits, Grants, Releases
    <3> QED BY <1>3, <1>4, <1>5 DEF LeasesAreBooked, LeaseIsSpentOnce
  <2>2. LatestGrant(wf.lease.id)' <=> LatestGrant(wf.lease.id) BY <1>1, <1>5 DEF LatestGrant
  <2>3. LatestGrant(wf.lease.id) BY <1>3 DEF LeasesAreBooked
  <2> QED BY <1>1, <1>3, <1>4, <1>5, <2>1, <2>2, <2>3 DEF LeasesAreBooked
<1>13. LeaseIsCited' BY <1>2 DEF LeaseIsCited, Committing
<1>14. LeaseIsReplaced' BY <1>1, <1>2, <1>3, <1>5 DEF LeaseIsReplaced
<1>15. FinishedHasNoLease' BY <1>1, <1>2 DEF FinishedHasNoLease, TerminalIsReleased, Committing
<1> QED BY <1>6, <1>7, <1>8, <1>9, <1>10, <1>11, <1>12, <1>13, <1>14, <1>15

\* Then the marker.
LEMMA RecoverMarks ==
  ASSUME StoreTypeOK, StoreTypeOK', RecoveryAgrees, RecoverWrite, tx.step = "mark"
  PROVE  RecoveryAgrees'
<1> USE DEF RecoveryAgrees
<1>1. /\ pendingRec' = pendingRec \cup {tx.id} /\ tx' = [tx EXCEPT !.step = "append"]
      /\ UNCHANGED <<wf, events, worklog, pendingChk, call, held, now, minted>>
  BY DEF RecoverWrite, WritePendingRecovery, Proceed, RecoverOrder, bounds
<1>2. /\ tx.cmd = "recover" /\ tx'.cmd = "recover" /\ tx'.step = "append" /\ tx'.id = tx.id
      /\ tx'.event = tx.event /\ tx'.wf = tx.wf
  BY <1>1 DEF RecoverWrite, StoreTypeOK, Tx
<1>3. SameBooks BY <1>1, SameLog
<1>4. /\ UNCHANGED <<Commits, Grants, Releases, Acquired, Consumed>> /\ IndexIds' = IndexIds
  BY <1>1, <1>3 DEF SameBooks, IndexIds
<1>5. IdsAreDrawn' BY <1>1, <1>2, <1>4 DEF IdsAreDrawn
<1>6. Sections' BY <1>2 DEF Sections
<1>7. Markers' BY <1>1, <1>2 DEF Markers
<1>8. IndexIsLogged' BY <1>1, <1>2, <1>4 DEF IndexIsLogged
<1>9. IndexGrows'
  <2>1. IndexIsAChain' BY <1>1 DEF IndexGrows, IndexIsAChain
  <2> QED BY <1>1, <1>2, <2>1 DEF IndexGrows, Committing
<1>10. BlocksAreDecided'
  <2>1. BlockedNeedsDecision' BY <1>1 DEF BlocksAreDecided, BlockedNeedsDecision, EventsOf
  <2> QED BY <1>2, <2>1 DEF BlocksAreDecided, Committing
<1>11. LeasesAreBooked'
  <2>1. LeaseIsSpentOnce' BY <1>1 DEF LeasesAreBooked, LeaseIsSpentOnce, EventsOf
  <2>2. pendingRec' # {} BY <1>1
  <2> QED BY <1>1, <1>4, <2>1, <2>2 DEF LeasesAreBooked, Expired
<1>12. LeaseIsCited' BY <1>2 DEF LeaseIsCited, Committing
<1>13. LeaseIsReplaced' BY <1>1, <1>2, <1>4 DEF LeaseIsReplaced, Expired
<1>14. FinishedHasNoLease' BY <1>1, <1>2 DEF FinishedHasNoLease, TerminalIsReleased, Committing
<1> QED BY <1>5, <1>6, <1>7, <1>8, <1>9, <1>10, <1>11, <1>12, <1>13, <1>14

\* The grant: the lease under way becomes the latest.
LEMMA RecoverLogs ==
  ASSUME StoreTypeOK, StoreTypeOK', RecoveryAgrees, RecoverWrite, tx.step = "append"
  PROVE  RecoveryAgrees'
<1> USE DEF RecoveryAgrees
<1> DEFINE n == Len(events) + 1
<1>0. minted \in Nat /\ NoId = 0 BY DEF StoreTypeOK, Id, NoId
<1>1. /\ AppendEvent(tx.event) /\ tx' = [tx EXCEPT !.step = "save"]
      /\ UNCHANGED <<wf, worklog, pendingChk, pendingRec, call, held, now, minted>>
  BY DEF RecoverWrite, AppendEvent, Proceed, RecoverOrder, bounds
<1>2. /\ tx.cmd = "recover" /\ tx'.cmd = "recover" /\ tx'.step = "save" /\ tx'.id = tx.id
      /\ tx'.event = tx.event /\ tx'.wf = tx.wf /\ tx.event \in Event
  BY <1>1 DEF RecoverWrite, StoreTypeOK, Tx
<1>3. /\ tx.event.type = "recovery_lease_acquired" /\ tx.event.lease = tx.id
      /\ pendingChk = {} /\ pendingRec = {tx.id}
  BY <1>2 DEF Sections, Markers
<1>4. /\ Grants' = Grants \cup {n} /\ UNCHANGED <<Commits, Releases, Decisions, Consumed>>
      /\ \A i \in Commits \cup Grants \cup Releases \cup Decisions :
           events'[i] = events[i] /\ i < n /\ i \in Nat
      /\ events'[n] = tx.event /\ n \in Nat
      /\ Acquired' = Acquired \cup {tx.id}
      /\ IndexIds' = IndexIds
  BY <1>1, <1>2, <1>3, LogGrows DEF IndexIds
<1> HIDE DEF n
<1>5. IdsAreDrawn' BY <1>1, <1>2, <1>4 DEF IdsAreDrawn
<1>6. Sections' BY <1>2 DEF Sections
<1>7. Markers' BY <1>1, <1>2 DEF Markers
<1>8. IndexIsLogged' BY <1>1, <1>2, <1>4 DEF IndexIsLogged
<1>9. IndexGrows'
  <2>1. IndexIsAChain' BY <1>1 DEF IndexGrows, IndexIsAChain
  <2> QED BY <1>1, <1>2, <2>1 DEF IndexGrows, Committing
<1>10. BlocksAreDecided'
  <2>1. BlockedNeedsDecision'
    <3> USE DEF Commits, Decisions
    <3> QED BY <1>1, <1>4 DEF BlocksAreDecided, BlockedNeedsDecision
  <2> QED BY <1>2, <2>1 DEF BlocksAreDecided, Committing
<1>11. LeasesAreBooked'
  <2>1. LeaseIsSpentOnce'
    <3> USE DEF Commits, Grants, Releases
    <3> QED BY <1>4 DEF LeasesAreBooked, LeaseIsSpentOnce
  <2>2. /\ Consumed' \subseteq Acquired'
        /\ Acquired' \subseteq Consumed' \cup {wf'.lease.id} \cup pendingRec'
    BY <1>1, <1>3, <1>4 DEF LeasesAreBooked
  <2> QED BY <1>1, <1>3, <1>4, <2>1, <2>2 DEF LeasesAreBooked, Expired
<1>12. LeaseIsCited' BY <1>2 DEF LeaseIsCited, Committing
<1>13. LeaseIsReplaced'
  <2>1. LatestGrant(tx.id)' BY <1>2, <1>3, <1>4 DEF LatestGrant
  <2> QED BY <1>1, <1>2, <1>4, <2>1 DEF LeaseIsReplaced, Expired
<1>14. FinishedHasNoLease' BY <1>1, <1>2 DEF FinishedHasNoLease, TerminalIsReleased, Committing
<1> QED BY <1>5, <1>6, <1>7, <1>8, <1>9, <1>10, <1>11, <1>12, <1>13, <1>14

\* workflow.json: the new lease is in it, the old one is consumed.
LEMMA RecoverSaves ==
  ASSUME StoreTypeOK, StoreTypeOK', RecoveryAgrees, RecoverWrite, tx.step = "save"
  PROVE  RecoveryAgrees'
<1> USE DEF RecoveryAgrees
<1>0. tx.wf \in Record /\ minted \in Nat /\ NoId = 0 BY DEF StoreTypeOK, Tx, Id, NoId
<1>1. /\ wf' = [tx.wf EXCEPT !.lastActivity = now] /\ tx' = [tx EXCEPT !.step = "clear"]
      /\ UNCHANGED <<events, worklog, pendingChk, pendingRec, call, held, now, minted>>
  BY DEF RecoverWrite, SaveWorkflow, Proceed, RecoverOrder, bounds
<1>2. /\ tx.cmd = "recover" /\ tx'.cmd = "recover" /\ tx'.step = "clear" /\ tx'.id = tx.id
      /\ tx'.event = tx.event /\ tx'.wf = tx.wf
  BY <1>1 DEF RecoverWrite, StoreTypeOK, Tx
<1>3. /\ wf'.index = wf.index /\ wf'.cursor = wf.cursor /\ wf'.status = wf.status
      /\ wf'.lease.id = tx.id /\ wf.status \notin Terminal
      /\ pendingChk = {} /\ pendingRec = {tx.id}
      /\ wf.lease.id \in Consumed \cup {NoId} /\ tx.id \notin Consumed /\ LatestGrant(tx.id)
  <2>1. /\ wf'.index = tx.wf.index /\ wf'.cursor = tx.wf.cursor /\ wf'.status = tx.wf.status
        /\ wf'.lease = tx.wf.lease
    BY <1>0, <1>1 DEF Record
  <2> QED BY <1>2, <2>1 DEF IndexGrows, FinishedHasNoLease, LeaseIsReplaced, Markers
<1>4. SameBooks BY <1>1, SameLog
<1>5. /\ UNCHANGED <<Commits, Grants, Releases, Acquired, Consumed>> /\ IndexIds' = IndexIds
  BY <1>3, <1>4 DEF SameBooks, IndexIds
<1>6. IdsAreDrawn' BY <1>1, <1>2, <1>5 DEF IdsAreDrawn
<1>7. Sections' BY <1>2 DEF Sections
<1>8. Markers' BY <1>1, <1>2 DEF Markers
<1>9. IndexIsLogged' BY <1>1, <1>2, <1>5 DEF IndexIsLogged
<1>10. IndexGrows'
  <2>1. IndexIsAChain' BY <1>3 DEF IndexGrows, IndexIsAChain
  <2>2. tx'.wf.index = wf'.index /\ tx'.wf.cursor = wf'.cursor BY <1>2, <1>3 DEF IndexGrows
  <2> QED BY <1>2, <1>3, <2>1, <2>2 DEF IndexGrows, Committing
<1>11. BlocksAreDecided'
  <2>1. BlockedNeedsDecision' BY <1>1, <1>3 DEF BlocksAreDecided, BlockedNeedsDecision, EventsOf
  <2> QED BY <1>2, <2>1 DEF BlocksAreDecided, Committing
<1>12. LatestGrant(tx.id)' BY <1>1, <1>3, <1>5 DEF LatestGrant
<1>13. LeasesAreBooked'
  <2>1. LeaseIsSpentOnce' BY <1>1 DEF LeasesAreBooked, LeaseIsSpentOnce, EventsOf
  <2>2. tx.id \in Acquired /\ tx.id # NoId BY <1>0, <1>2, <1>3 DEF LatestGrant, Grants, Acquired, IdsAreDrawn
  <2>3. \A i \in Commits \cup Releases : events[i].lease # tx.id
    BY <1>3, <2>2 DEF Consumed, Commits, Releases
  <2>4. NoId \notin Acquired BY <1>0 DEF IdsAreDrawn
  <2>5. Acquired' \subseteq Consumed' \cup {wf'.lease.id} \cup pendingRec'
    BY <1>1, <1>3, <1>5, <2>4 DEF LeasesAreBooked
  <2>6. Consumed' \subseteq Acquired' BY <1>5 DEF LeasesAreBooked
  <2>7. \A i \in Commits' \cup Releases' : events'[i].lease # wf'.lease.id BY <1>1, <1>3, <1>5, <2>3
  <2> QED BY <1>1, <1>3, <1>5, <1>12, <2>1, <2>2, <2>5, <2>6, <2>7 DEF LeasesAreBooked
<1>14. LeaseIsCited' BY <1>2 DEF LeaseIsCited, Committing
<1>15. LeaseIsReplaced' BY <1>2, <1>3, <1>5, <1>12 DEF LeaseIsReplaced
<1>16. FinishedHasNoLease' BY <1>2, <1>3 DEF FinishedHasNoLease, TerminalIsReleased, Committing
<1> QED BY <1>6, <1>7, <1>8, <1>9, <1>10, <1>11, <1>13, <1>14, <1>15, <1>16

\* The marker goes: the lease it stood for is the active one.
LEMMA RecoverClears ==
  ASSUME StoreTypeOK, StoreTypeOK', RecoveryAgrees, RecoverWrite, tx.step = "clear"
  PROVE  RecoveryAgrees'
<1> USE DEF RecoveryAgrees
<1>1. /\ pendingRec' = pendingRec \ {tx.id} /\ tx' = NoTx
      /\ UNCHANGED <<wf, events, worklog, pendingChk, call, held, now, minted>>
  BY DEF RecoverWrite, ClearPendingRecovery, Proceed, RecoverOrder, bounds
<1>2. /\ tx.cmd = "recover" /\ pendingRec = {tx.id} /\ pendingRec' = {} /\ pendingChk = {}
      /\ wf.lease.id = tx.id /\ LatestGrant(tx.id)
  BY <1>1 DEF RecoverWrite, Markers, LeaseIsReplaced
<1>3. SameBooks BY <1>1, SameLog
<1>4. /\ UNCHANGED <<Commits, Grants, Releases, Acquired, Consumed>> /\ IndexIds' = IndexIds
  BY <1>1, <1>3 DEF SameBooks, IndexIds
<1>5. tx'.cmd = "none" BY <1>1 DEF NoTx
<1>6. IdsAreDrawn' BY <1>1, <1>4, <1>5 DEF IdsAreDrawn
<1>7. Sections' BY <1>1, <1>5 DEF Sections, NoTx, NoEvent
<1>8. Markers' BY <1>1, <1>2, <1>5 DEF Markers
<1>9. IndexIsLogged' BY <1>1, <1>4, <1>5 DEF IndexIsLogged
<1>10. IndexGrows'
  <2>1. IndexIsAChain' BY <1>1 DEF IndexGrows, IndexIsAChain
  <2> QED BY <1>1, <1>5, <2>1 DEF IndexGrows, Committing
<1>11. BlocksAreDecided'
  <2>1. BlockedNeedsDecision' BY <1>1 DEF BlocksAreDecided, BlockedNeedsDecision, EventsOf
  <2> QED BY <1>5, <2>1 DEF BlocksAreDecided, Committing
<1>12. LeasesAreBooked'
  <2>1. LeaseIsSpentOnce' BY <1>1 DEF LeasesAreBooked, LeaseIsSpentOnce, EventsOf
  <2>2. LatestGrant(wf.lease.id)' BY <1>1, <1>2, <1>4 DEF LatestGrant
  <2> QED BY <1>1, <1>2, <1>4, <2>1, <2>2 DEF LeasesAreBooked, Expired
<1>13. LeaseIsCited' /\ LeaseIsReplaced' BY <1>5 DEF LeaseIsCited, LeaseIsReplaced, Committing
<1>14. FinishedHasNoLease' BY <1>1, <1>2, <1>5 DEF FinishedHasNoLease, TerminalIsReleased, Committing
<1> QED BY <1>6, <1>7, <1>8, <1>9, <1>10, <1>11, <1>12, <1>13, <1>14

-----------------------------------------------------------------------------
\* Every step, of the life of a workflow or of its report, keeps the invariant.
LEMMA RecoveryStep ==
  ASSUME StoreTypeOK, StoreTypeOK', RecoveryAgrees, LifeStep \/ ReportStep \/ UNCHANGED storeVars
  PROVE  RecoveryAgrees'
<1>1. CASE \/ \E p \in Proc : \/ CheckpointRead(p) \/ RecoverRead(p) \/ RecoverReply(p) \/ Leave(p)
                              \/ ReserveRead(p) \/ ReserveReply(p) \/ ProofKnown(p)
                              \/ Send(p) \/ LoseSender(p)
           \/ Tick
           \/ UNCHANGED storeVars
  BY <1>1, QuietAside, AsideAgrees
<1>2. CASE Crash BY <1>2, CrashAside, AsideAgrees
<1>3. CASE NoteWrite \/ RoundWrite \/ \E p \in Proc : NoteBegin(p) \/ RoundBegin(p)
  BY <1>3, RecordAside, AsideAgrees
<1>4. ASSUME NEW p \in Proc,
             \/ ReserveBegin(p) \/ ProofRecord(p) \/ ProofAdopt(p)
             \/ CompleteBegin(p) \/ CompleteAdopt(p)
      PROVE  RecoveryAgrees'
  BY <1>4, DeliveryOpenAside, AsideAgrees
<1>5. CASE DeliveryWrite BY <1>5, DeliveryWriteAside, AsideAgrees
<1>6. ASSUME NEW p \in Proc, CheckpointBegin(p) \/ RecoverBegin(p) PROVE RecoveryAgrees'
  BY <1>6, CheckpointBeginRecovers, RecoverBeginRecovers
<1>7. CASE CheckpointWrite
  <2>1. tx.step \in {"mark", "append", "worklog", "save", "clear"} BY <1>7 DEF CheckpointWrite
  <2> QED BY <1>7, <2>1, CheckpointMarks, CheckpointLogs, CheckpointWritesWorklog, CheckpointSaves,
             CheckpointClears
<1>8. CASE RecoverWrite
  <2>1. tx.step \in {"release", "mark", "append", "save", "clear"} BY <1>8 DEF RecoverWrite
  <2> QED BY <1>8, <2>1, RecoverReleases, RecoverMarks, RecoverLogs, RecoverSaves, RecoverClears
<1> QED BY <1>1, <1>2, <1>3, <1>4, <1>5, <1>6, <1>7, <1>8 DEF LifeStep, ReportStep

\* A workflow just created has an empty log, no marker, no lease and a free lock.
LEMMA RecoveryInit == StoreInit => StoreTypeOK /\ RecoveryAgrees
<1> SUFFICES ASSUME StoreInit PROVE StoreTypeOK /\ RecoveryAgrees OBVIOUS
<1>1. /\ wf = NewWorkflow /\ tx = NoTx /\ events = << >> /\ pendingChk = {} /\ pendingRec = {}
      /\ call = [p \in Proc |-> NoCall] /\ now = 0 /\ minted = 0
  BY DEF StoreInit
<1>2. StoreTypeOK
  <2>1. wf \in Record /\ tx \in Tx BY <1>1, NewTyped
  <2>2. call \in [Proc -> Call] BY <1>1, NothingTyped
  <2>3. NoId \in Id /\ minted \in Id BY <1>1, StoreAssumption DEF Id, NoId
  <2>4. held \in [Proc -> Id] BY <2>3 DEF StoreInit
  <2>5. events \in Seq(Event) BY <1>1
  <2>6. worklog = {} /\ crashes = 0 BY DEF StoreInit
  <2>7. worklog \in SUBSET Id /\ pendingChk \in SUBSET Id /\ pendingRec \in SUBSET Id BY <1>1, <2>6
  <2> QED BY <1>1, <2>1, <2>2, <2>3, <2>4, <2>5, <2>6, <2>7 DEF StoreTypeOK
<1>3. Commits = {} /\ Grants = {} /\ Releases = {} /\ Decisions = {}
  BY <1>1 DEF Commits, Grants, Releases, Decisions, EventsOf
<1>4. Acquired = {} /\ Consumed = {} BY <1>3 DEF Acquired, Consumed, Commits, Grants, Releases
<1>5. /\ tx.cmd = "none" /\ tx.step = "idle" /\ tx.event.type = "none" /\ tx.event.lease = NoId
      /\ wf.index = << >> /\ wf.cursor = 0 /\ wf.status = "running" /\ wf.lease = NoLease
  BY <1>1 DEF NoTx, NoEvent, NewWorkflow
<1>6. Len(wf.index) = 0 /\ IndexIds = {} BY <1>5 DEF IndexIds
<1>7. IdsAreDrawn BY <1>1, <1>3, <1>4, <1>5 DEF IdsAreDrawn, NoCall
<1>8. Sections /\ Markers BY <1>1, <1>5 DEF Sections, Markers
<1>9. IndexIsLogged BY <1>3, <1>5, <1>6 DEF IndexIsLogged
<1>10. IndexGrows BY <1>5, <1>6 DEF IndexGrows, IndexIsAChain, Committing
<1>11. BlocksAreDecided BY <1>5, <1>6 DEF BlocksAreDecided, BlockedNeedsDecision, Committing
<1>12. LeasesAreBooked
  <2>1. LeaseIsSpentOnce BY <1>3 DEF LeaseIsSpentOnce, Commits
  <2> QED BY <1>3, <1>4, <1>5, <2>1 DEF LeasesAreBooked, NoLease
<1>13. LeaseIsCited /\ LeaseIsReplaced BY <1>5 DEF LeaseIsCited, LeaseIsReplaced, Committing
<1>14. FinishedHasNoLease
  BY <1>5 DEF FinishedHasNoLease, TerminalIsReleased, Committing, Terminal, Unreported
<1> QED BY <1>2, <1>7, <1>8, <1>9, <1>10, <1>11, <1>12, <1>13, <1>14 DEF RecoveryAgrees

\* What a reader of the directory may rely on follows from the invariant.
RecoveryPromises ==
  /\ TornWritesAreMarked /\ IndexIsBacked /\ LeaseBooksBalance /\ OneMarker
  /\ IndexIsAChain /\ BlockedNeedsDecision /\ LeaseIsSpentOnce /\ TerminalIsReleased

LEMMA AgreementPromises == RecoveryAgrees => RecoveryPromises
<1> SUFFICES ASSUME RecoveryAgrees PROVE RecoveryPromises OBVIOUS
<1> USE DEF RecoveryAgrees
<1>1. TornWritesAreMarked BY DEF TornWritesAreMarked, IndexIsLogged, LeasesAreBooked, Commits
<1>2. IndexIsBacked
  <2>1. ASSUME NEW k \in DOMAIN wf.index
        PROVE  /\ \E i \in Commits : {j \in Commits : events[j].chk = wf.index[k].id} = {i}
               /\ wf.index[k].id \in worklog
    <3>1. wf.index[k].id \in IndexIds BY DEF IndexIds
    <3>2. PICK i \in Commits : events[i].chk = wf.index[k].id BY <3>1 DEF IndexIsLogged
    <3>3. {j \in Commits : events[j].chk = wf.index[k].id} = {i} BY <3>2 DEF IndexIsLogged
    <3> QED BY <3>1, <3>3 DEF IndexIsLogged
  <2> QED BY <2>1 DEF IndexIsBacked, Commits
<1>3. LeaseBooksBalance BY DEF LeaseBooksBalance, LeaseMismatch, LeasesAreBooked
<1>4. OneMarker
  <2> DEFINE markers == pendingChk \cup pendingRec
  <2>1. markers = {} \/ \E a : markers = {a} BY DEF Markers
  <2>2. Cardinality(markers) \in {0, 1} BY <2>1, FS_EmptySet, FS_Singleton
  <2> QED BY <2>2 DEF OneMarker
<1>5. IndexIsAChain /\ BlockedNeedsDecision /\ LeaseIsSpentOnce /\ TerminalIsReleased
  BY DEF IndexGrows, BlocksAreDecided, LeasesAreBooked, FinishedHasNoLease
<1> QED BY <1>1, <1>2, <1>3, <1>4, <1>5 DEF RecoveryPromises

-----------------------------------------------------------------------------
\* What LeaseIsExclusive, LeaseFencesCommits and TornMeansFrozen say of one step.
Exclusive == wf'.lease.id \notin {NoId, wf.lease.id} => wf.lease.id = NoId \/ Expired(wf.lease, now)
Fenced    == wf'.index # wf.index /\ wf.lease.id # NoId =>
               held[tx.by] = wf.lease.id /\ wf'.lease = NoLease
TornStops ==
  /\ pendingChk \ {tx.id} # {} => UNCHANGED <<wf, events, worklog>>
  /\ pendingRec \ {tx.id} # {} =>
       /\ UNCHANGED wf
       /\ UNCHANGED <<events, worklog>> \/ tx.cmd \in {"note", "round"}

\* Reads, locks, answers, crashes and the clock write none of the three files.
LEMMA OnlyWritesWrite ==
  ASSUME \/ \E p \in Proc :
              \/ CheckpointRead(p) \/ CheckpointBegin(p) \/ NoteBegin(p) \/ RoundBegin(p)
              \/ RecoverRead(p) \/ RecoverBegin(p) \/ RecoverReply(p) \/ Leave(p)
              \/ ReserveRead(p) \/ ReserveBegin(p) \/ ReserveReply(p)
              \/ Send(p) \/ LoseSender(p)
              \/ ProofRecord(p) \/ ProofAdopt(p) \/ ProofKnown(p)
              \/ CompleteBegin(p) \/ CompleteAdopt(p)
         \/ Crash \/ Tick \/ UNCHANGED storeVars
  PROVE  UNCHANGED <<wf, events, worklog>>
<1>1. CASE \/ \E p \in Proc :
                \/ CheckpointRead(p) \/ CheckpointBegin(p) \/ NoteBegin(p) \/ RoundBegin(p)
                \/ RecoverRead(p) \/ RecoverBegin(p) \/ RecoverReply(p) \/ Leave(p)
           \/ Crash \/ Tick
  BY <1>1 DEF files, CheckpointRead, CheckpointBegin, NoteBegin, RoundBegin, RecoverRead,
     RecoverBegin, RecoverReply, Leave, Crash, Tick
<1>2. CASE \/ \E p \in Proc :
                \/ ReserveRead(p) \/ ReserveBegin(p) \/ ReserveReply(p)
                \/ Send(p) \/ LoseSender(p)
                \/ ProofRecord(p) \/ ProofAdopt(p) \/ ProofKnown(p)
                \/ CompleteBegin(p) \/ CompleteAdopt(p)
           \/ UNCHANGED storeVars
  BY <1>2 DEF files, storeVars, ReserveRead, ReserveBegin, ReserveReply, Send, LoseSender,
     ProofRecord, ProofAdopt, ProofKnown, CompleteBegin, CompleteAdopt
<1> QED BY <1>1, <1>2

LEMMA CheckpointWriteFenced ==
  ASSUME StoreTypeOK, RecoveryAgrees, CheckpointWrite
  PROVE  Exclusive /\ Fenced /\ TornStops
<1> USE DEF RecoveryAgrees
<1>1. pendingChk \cup pendingRec \subseteq {tx.id} BY DEF CheckpointWrite, Markers
<1>2. CASE tx.step = "save"
  <2>1. tx.wf \in Record /\ wf' = [tx.wf EXCEPT !.lastActivity = now]
    BY <1>2 DEF CheckpointWrite, SaveWorkflow, StoreTypeOK, Tx
  <2>2. wf'.lease = tx.wf.lease BY <2>1 DEF Record
  <2>3. Committing BY <1>2 DEF CheckpointWrite, Committing
  <2> QED BY <1>1, <2>2, <2>3 DEF Exclusive, Fenced, TornStops, LeaseIsCited, NoLease
<1>3. CASE tx.step # "save"
  <2>1. wf' = wf
    BY <1>3 DEF CheckpointWrite, WritePendingCheckpoint, AppendEvent, AppendWorklog,
                ClearPendingCheckpoint
  <2> QED BY <1>1, <2>1 DEF Exclusive, Fenced, TornStops
<1> QED BY <1>2, <1>3

LEMMA RecoverWriteFenced ==
  ASSUME StoreTypeOK, RecoveryAgrees, RecoverWrite
  PROVE  Exclusive /\ Fenced /\ TornStops
<1> USE DEF RecoveryAgrees
<1>1. pendingChk \cup pendingRec \subseteq {tx.id} /\ tx.cmd = "recover"
  BY DEF RecoverWrite, Markers
<1>2. CASE tx.step = "save"
  <2>1. tx.wf \in Record /\ wf' = [tx.wf EXCEPT !.lastActivity = now]
    BY <1>2 DEF RecoverWrite, SaveWorkflow, StoreTypeOK, Tx
  <2>2. wf'.index = wf.index BY <1>1, <2>1 DEF Record, IndexGrows
  <2>3. wf.lease.id = NoId \/ Expired(wf.lease, now) BY <1>1, <1>2 DEF LeaseIsReplaced
  <2> QED BY <1>1, <2>2, <2>3 DEF Exclusive, Fenced, TornStops
<1>3. CASE tx.step # "save"
  <2>1. wf' = wf
    BY <1>3 DEF RecoverWrite, WritePendingRecovery, AppendEvent, ClearPendingRecovery
  <2> QED BY <1>1, <2>1 DEF Exclusive, Fenced, TornStops
<1> QED BY <1>2, <1>3

\* A note or a round is written under no checkpoint's marker and leaves workflow.json alone.
LEMMA RecordWriteFenced ==
  ASSUME RecoveryAgrees, NoteWrite \/ RoundWrite
  PROVE  Exclusive /\ Fenced /\ TornStops
<1>1. tx.cmd \in {"note", "round"} /\ pendingChk = {}
  BY DEF NoteWrite, RoundWrite, RecoveryAgrees, Markers
<1>2. wf' = wf BY DEF NoteWrite, RoundWrite, AppendEvent, AppendWorklog
<1> QED BY <1>1, <1>2 DEF Exclusive, Fenced, TornStops

\* Every step of a checkpoint, a note, a round or a recovery respects the fences.
LEMMA LifeFenced ==
  ASSUME StoreTypeOK, RecoveryAgrees, LifeStep \/ UNCHANGED storeVars
  PROVE  Exclusive /\ Fenced /\ TornStops
<1>1. CASE CheckpointWrite BY <1>1, CheckpointWriteFenced
<1>2. CASE RecoverWrite BY <1>2, RecoverWriteFenced
<1>3. CASE NoteWrite \/ RoundWrite BY <1>3, RecordWriteFenced
<1>4. CASE \/ \E p \in Proc :
                \/ CheckpointRead(p) \/ CheckpointBegin(p) \/ NoteBegin(p) \/ RoundBegin(p)
                \/ RecoverRead(p) \/ RecoverBegin(p) \/ RecoverReply(p) \/ Leave(p)
           \/ Crash \/ Tick \/ UNCHANGED storeVars
  BY <1>4, OnlyWritesWrite DEF Exclusive, Fenced, TornStops
<1> QED BY <1>1, <1>2, <1>3, <1>4 DEF LifeStep

-----------------------------------------------------------------------------
\* The commands of this module never report a workflow.
NeverReported == wf.status # "reported" /\ tx.wf.status # "reported"

LEMMA LifeNeverReports ==
  ASSUME StoreTypeOK, NeverReported, [LifeStep]_storeVars
  PROVE  NeverReported'
<1>0. wf \in Record /\ tx \in Tx /\ tx.wf \in Record BY DEF StoreTypeOK, Tx
<1>1. /\ wf' = wf \/ wf' = [tx.wf EXCEPT !.lastActivity = now]
  BY DEF LifeStep, CheckpointRead, CheckpointBegin, NoteBegin, RoundBegin, RecoverRead,
         RecoverBegin, RecoverReply, Leave, CheckpointWrite, NoteWrite, RoundWrite, RecoverWrite,
         Crash, Tick, files, storeVars,
         WritePendingCheckpoint, WritePendingRecovery, AppendEvent, AppendWorklog, SaveWorkflow,
         ClearPendingCheckpoint, ClearPendingRecovery
<1>2. wf'.status # "reported" BY <1>0, <1>1 DEF NeverReported, Record
<1>3. tx'.wf.status # "reported"
  <2>1. ASSUME NEW p \in Proc, CheckpointBegin(p) PROVE tx'.wf.status # "reported"
    <3>1. PICK status \in Asked, advance \in BOOLEAN, cited \in {NoId, held[p]},
               gated \in BOOLEAN, snapshot \in BOOLEAN :
            LET before == call[p].cursor
                after  == IF advance THEN before + 1 ELSE before
            IN Open(p, "checkpoint", "mark",
                    Checkpointed(Fresh, before, after, status, gated, snapshot),
                    CheckpointEvent(Fresh, cited), Fresh)
      BY <2>1, CheckpointBeginParts
    <3>2. tx'.wf.status = status BY <1>0, <3>1 DEF Open, Checkpointed, Record
    <3> QED BY <3>2, CheckpointAssumption
  <2>2. ASSUME NEW p \in Proc, NoteBegin(p) \/ RoundBegin(p) PROVE tx'.wf.status # "reported"
    BY <2>2, RecordOpens DEF Open, NeverReported
  <2>3. ASSUME NEW p \in Proc, RecoverBegin(p) PROVE tx'.wf.status # "reported"
    <3> DEFINE lease(seconds) == [id |-> Fresh, cursor |-> wf.cursor, holder |-> p,
                                  expires |-> call[p].at + seconds]
    <3>1. PICK seconds \in LeaseSeconds :
            Open(p, "recover", IF wf.lease.id = NoId THEN "mark" ELSE "release",
                 [wf EXCEPT !.lease = lease(seconds)],
                 LeaseEvent("recovery_lease_acquired", Fresh), Fresh)
      BY <2>3 DEF RecoverBegin
    <3>2. tx'.wf = [wf EXCEPT !.lease = lease(seconds)] BY <3>1 DEF Open
    <3> HIDE DEF lease
    <3> QED BY <1>0, <3>2 DEF NeverReported, Record
  <2>4. CASE tx' = tx \/ tx' = NoTx BY <2>4 DEF NeverReported, NoTx, NewWorkflow
  <2>5. CASE CheckpointWrite \/ NoteWrite \/ RoundWrite \/ RecoverWrite
    <3>1. tx' = NoTx \/ \E step : tx' = [tx EXCEPT !.step = step]
      BY <2>5 DEF CheckpointWrite, NoteWrite, RoundWrite, RecoverWrite, Proceed
    <3> QED BY <1>0, <2>4, <3>1 DEF NeverReported, Tx
  <2>6. CASE \/ \E p \in Proc : CheckpointRead(p) \/ RecoverRead(p) \/ RecoverReply(p) \/ Leave(p)
             \/ Crash \/ Tick \/ UNCHANGED storeVars
    BY <2>4, <2>6 DEF CheckpointRead, RecoverRead, RecoverReply, Leave, Crash, Tick, storeVars
  <2> QED BY <2>1, <2>2, <2>3, <2>5, <2>6 DEF LifeStep
<1> QED BY <1>2, <1>3 DEF NeverReported

\* While it is not reported, a half-written transaction is a reason to block.
LEMMA TornIsSeen == RecoveryAgrees /\ NeverReported => ScanSeesTornWrites
<1> SUFFICES ASSUME RecoveryAgrees, NeverReported,
                    (\E i \in Commits : events[i].chk \notin IndexIds) \/ LeaseMismatch
             PROVE  Reason(now) \in BlockedReasons
  BY DEF ScanSeesTornWrites, Commits
<1>1. pendingChk # {} \/ RecoveryMismatch
  BY DEF RecoveryAgrees, IndexIsLogged, RecoveryMismatch
<1> QED BY <1>1 DEF Reason, BlockedReasons, NeverReported

-----------------------------------------------------------------------------
\* The record, the log, the locked section and what every command holds keep their types
\* while checkpoints, notes and recoveries of any processes interleave and crash.
THEOREM RecoveryTyped == RecoverySpec => []TypeOK
<1>1. TypeOK /\ [LifeStep]_storeVars => TypeOK'
  <2>1. UNCHANGED storeVars /\ StoreTypeOK => StoreTypeOK' BY DEF storeVars, StoreTypeOK
  <2> QED BY <2>1, LifeTyped DEF TypeOK
<1> QED BY <1>1, RecoveryInit, PTL DEF RecoverySpec, TypeOK

\* The invariant holds while workflows are checkpointed and recovered, and log, markers,
\* index and leases agree in every reachable state.
THEOREM RecoveryAlwaysAgrees == RecoverySpec => []RecoveryAgrees
<1>1. TypeOK /\ TypeOK' /\ RecoveryAgrees /\ [LifeStep]_storeVars => RecoveryAgrees'
  BY RecoveryStep DEF TypeOK
<1> QED BY <1>1, RecoveryTyped, RecoveryInit, PTL DEF RecoverySpec

\* And from the creation of a workflow to its report, with every command of delivery
\* interleaved.
THEOREM WorkflowAlwaysRecoverable == Spec => []RecoveryAgrees
<1>1. DeliveryTypeOK /\ DeliveryTypeOK' /\ RecoveryAgrees /\ [Next]_deliveryVars => RecoveryAgrees'
  <2>1. Next => LifeStep \/ ReportStep BY DEF Next
  <2>2. UNCHANGED deliveryVars => UNCHANGED storeVars BY DEF deliveryVars
  <2> QED BY <2>1, <2>2, RecoveryStep DEF DeliveryTypeOK
<1>2. Init => RecoveryAgrees BY RecoveryInit DEF Init
<1> QED BY <1>1, <1>2, WorkflowTyped, PTL DEF Spec

\* A logged checkpoint or lease that workflow.json does not know has its marker: a crash
\* between two writes is never silent.
THEOREM TornWritesAreMarkedHolds == RecoverySpec => []TornWritesAreMarked
<1>1. RecoveryAgrees => TornWritesAreMarked BY AgreementPromises DEF RecoveryPromises
<1> QED BY <1>1, RecoveryAlwaysAgrees, PTL

\* Every indexed checkpoint has exactly one event and its worklog block.
THEOREM IndexIsBackedHolds == RecoverySpec => []IndexIsBacked
<1>1. RecoveryAgrees => IndexIsBacked BY AgreementPromises DEF RecoveryPromises
<1> QED BY <1>1, RecoveryAlwaysAgrees, PTL

\* Without a marker the lease books balance, whatever was crashed or released before.
THEOREM LeaseBooksBalanceHolds == RecoverySpec => []LeaseBooksBalance
<1>1. RecoveryAgrees => LeaseBooksBalance BY AgreementPromises DEF RecoveryPromises
<1> QED BY <1>1, RecoveryAlwaysAgrees, PTL

\* There is never more than one marker to reconcile, however many processes crash.
THEOREM OneMarkerHolds == RecoverySpec => []OneMarker
<1>1. RecoveryAgrees => OneMarker BY AgreementPromises DEF RecoveryPromises
<1> QED BY <1>1, RecoveryAlwaysAgrees, PTL

\* Checkpoints computed from cursors read without the lock still form one chain.
THEOREM IndexIsAChainHolds == RecoverySpec => []IndexIsAChain
<1>1. RecoveryAgrees => IndexIsAChain BY AgreementPromises DEF RecoveryPromises
<1> QED BY <1>1, RecoveryAlwaysAgrees, PTL

\* Every block is left after a decision logged between the two checkpoints.
THEOREM BlockedNeedsDecisionHolds == RecoverySpec => []BlockedNeedsDecision
<1>1. RecoveryAgrees => BlockedNeedsDecision BY AgreementPromises DEF RecoveryPromises
<1> QED BY <1>1, RecoveryAlwaysAgrees, PTL

\* A lease is spent once, while it is the latest one and was not released.
THEOREM LeaseIsSpentOnceHolds == RecoverySpec => []LeaseIsSpentOnce
<1>1. RecoveryAgrees => LeaseIsSpentOnce BY AgreementPromises DEF RecoveryPromises
<1> QED BY <1>1, RecoveryAlwaysAgrees, PTL

\* A finished workflow holds neither a lease nor a recovery marker.
THEOREM TerminalIsReleasedHolds == RecoverySpec => []TerminalIsReleased
<1>1. RecoveryAgrees => TerminalIsReleased BY AgreementPromises DEF RecoveryPromises
<1> QED BY <1>1, RecoveryAlwaysAgrees, PTL

\* The scan reports a half-written transaction as a reason to block.
THEOREM ScanSeesTornWritesHolds == RecoverySpec => []ScanSeesTornWrites
<1>1. TypeOK /\ NeverReported /\ [LifeStep]_storeVars => NeverReported'
  BY LifeNeverReports DEF TypeOK
<1>2. StoreInit => NeverReported BY DEF StoreInit, NeverReported, NewWorkflow, NoTx
<1>3. RecoverySpec => []NeverReported BY <1>1, <1>2, RecoveryTyped, PTL DEF RecoverySpec
<1> QED BY <1>3, TornIsSeen, RecoveryAlwaysAgrees, PTL

\* Everything of this module but the scan holds with the commands of delivery interleaved
\* too, from the creation of a workflow to its report.
THEOREM WorkflowKeepsPromises == Spec => []RecoveryPromises
BY AgreementPromises, WorkflowAlwaysRecoverable, PTL

-----------------------------------------------------------------------------
\* A new lease replaces none or one that ran out.
THEOREM LeaseIsExclusiveHolds == RecoverySpec => LeaseIsExclusive
<1>1. TypeOK /\ RecoveryAgrees /\ [LifeStep]_storeVars
        => [wf'.lease.id \notin {NoId, wf.lease.id}
              => wf.lease.id = NoId \/ Expired(wf.lease, now)]_storeVars
  BY LifeFenced DEF Exclusive, TypeOK
<1> QED BY <1>1, RecoveryTyped, RecoveryAlwaysAgrees, PTL DEF RecoverySpec, LeaseIsExclusive

\* While a lease is on disk only the process it was returned to commits, and the commit
\* ends the lease.
THEOREM LeaseFencesCommitsHolds == RecoverySpec => LeaseFencesCommits
<1>1. TypeOK /\ RecoveryAgrees /\ [LifeStep]_storeVars
        => [wf'.index # wf.index /\ wf.lease.id # NoId
              => held[tx.by] = wf.lease.id /\ wf'.lease = NoLease]_storeVars
  BY LifeFenced DEF Fenced, TypeOK
<1> QED BY <1>1, RecoveryTyped, RecoveryAlwaysAgrees, PTL DEF RecoverySpec, LeaseFencesCommits

\* What a dead checkpoint or recover left half written stays so: workflow.json does not move
\* beside either marker, and only event and append-round still write, beside a recovery's.
THEOREM TornMeansFrozenHolds == RecoverySpec => TornMeansFrozen
<1>1. TypeOK /\ RecoveryAgrees /\ [LifeStep]_storeVars
        => [/\ pendingChk \ {tx.id} # {} => UNCHANGED <<wf, events, worklog>>
            /\ pendingRec \ {tx.id} # {} =>
                 /\ UNCHANGED wf
                 /\ UNCHANGED <<events, worklog>> \/ tx.cmd \in {"note", "round"}]_storeVars
  BY LifeFenced DEF TornStops, TypeOK
<1> QED BY <1>1, RecoveryTyped, RecoveryAlwaysAgrees, PTL DEF RecoverySpec, TornMeansFrozen
===============================================================================
