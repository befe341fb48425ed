-------------------------------- MODULE Panel --------------------------------
(***************************************************************************)
(* What a panel of specialist reviewers may come to: which answer of a     *)
(* child session counts (agents/openclaw_cli.py, agents/contracts.py),     *)
(* what the collected findings decide (modes/specialist_panel.py), and     *)
(* what a mode may claim from them: the execution truth gate               *)
(* (modes/base.py) and the terminal evidence contract                      *)
(* (modes/evidence_contract.py).  Pure rules; VerifyMode and ConvMode are  *)
(* the commands that apply them.                                           *)
(*                                                                         *)
(* A child's transcript is a set of tool calls, each of one of the kinds   *)
(* the proof checker tells apart; a finding is its failure mode, severity  *)
(* and whether it is confident (0.4 or more).  Wording, paths, hashes and  *)
(* timestamps are left out.                                                *)
(***************************************************************************)
EXTENDS Integers, FiniteSets

CONSTANTS
  PanelSize,   \* child sessions of a panel
  File,        \* file target refs of the request
  OtherFile,   \* files a child may read although nobody asked
  Mode         \* failure modes findings may have

ASSUME PanelAssumption ==
  /\ PanelSize \in {3, 5}
  /\ File \cap OtherFile = {}

Child == 1 .. PanelSize

\* What is registered, written or logged under k becomes v.
With(m, k, v) == [i \in DOMAIN m \cup {k} |-> IF i = k THEN v ELSE m[i]]

-----------------------------------------------------------------------------
\* One tool call of a child: a safe read of a file, a harmless status command
\* (which may mention files), a read of the context the policy allows, or
\* anything else.
CallKind == {"read", "status", "context", "other"}
Call == [does : CallKind, files : SUBSET (File \cup OtherFile)]

Severity == {"p0", "p1", "p2", "p3"}
Finding  == [mode : Mode, severity : Severity, confident : BOOLEAN]

\* What the openclaw process of one child comes back with.  smoke: the child
\* claims its tool smoke passed, without an error; session: the session store
\* lists it; claim: read_target_refs; calls: what it did; found: its findings.
Answer == [exit : {"ok", "late", "full", "error", "garbled"}, smoke : BOOLEAN,
           session : BOOLEAN, claim : SUBSET (File \cup OtherFile),
           calls : SUBSET Call, found : SUBSET Finding]

\* _validate_child_read_manifest: every file asked for is claimed; a claim of more
\* is let through.
ClaimCovers(a) == File \subseteq a.claim

\* The claim is only looked at when files were asked for.
Manifest(a) == IF File = {} THEN {} ELSE a.claim

\* _validate_trajectory_read_manifest: a read call for every claimed file.
ClaimIsProved(a, transcript) ==
  \A f \in Manifest(a) : \E c \in transcript : c.does = "read" /\ f \in c.files

\* _validate_trajectory_status_action: some status call beside the reads.
StatusIsProved(transcript) == \E c \in transcript : c.does = "status"

\* _validate_trajectory_has_no_unexpected_tool_calls: reads of claimed files,
\* allowed context, and status commands that mention no claimed file.
Allowed(c, a) ==
  \/ c.does = "context"
  \/ c.does = "status" /\ c.files \cap Manifest(a) = {}
  \/ c.does = "read" /\ c.files \cap Manifest(a) # {}

\* Faulty: what the child claims to have read is not looked for in its transcript.
ProofHoldsOnClaim(a, transcript) ==
  /\ a.smoke /\ ClaimCovers(a) /\ a.session
  /\ StatusIsProved(transcript)
  /\ \A c \in transcript : Allowed(c, a)

\* _validate_child_smoke_claim, prove_session, prove_tool_events and
\* coordinator_verified_tool_smoke_evidence.
ProofHolds(a, transcript) ==
  /\ a.smoke /\ ClaimCovers(a) /\ a.session
  /\ ClaimIsProved(a, transcript) /\ StatusIsProved(transcript)
  /\ \A c \in transcript : Allowed(c, a)

\* run_review and the proof section of run_panel: "none" accepts the answer, the
\* other reasons block the panel at this child.
Reason == {"none", "subagent_spawn_timeout", "subagent_capacity_exhausted",
           "subagent_spawn_failed", "subagent_cli_contract_changed", "subagent_proof_failed"}
BlockedReason(a, transcript) ==
  CASE a.exit = "late" -> "subagent_spawn_timeout"
    [] a.exit = "full" -> "subagent_capacity_exhausted"
    [] a.exit = "error" -> "subagent_spawn_failed"
    [] a.exit = "garbled" \/ (a.exit = "ok" /\ a.smoke /\ a.found = {}) -> "subagent_cli_contract_changed"
    [] OTHER -> IF ProofHolds(a, transcript) THEN "none" ELSE "subagent_proof_failed"

\* _validate_native_session_store_evidence: the review of a collected panel
\* refuses a child that claims more than it was asked to read.
ReviewAdmits(a) == Manifest(a) = File

-----------------------------------------------------------------------------
\* A finding with its place: findings are taken child by child (from, 0 for a
\* packet).  A child's own findings have different failure modes here, so that
\* no order among them matters.
Raised == [from : 0 .. PanelSize, finding : Finding]

RaisedBy(child, a) == {[from |-> child, finding |-> f] : f \in a.found}

Rank == [p0 |-> 0, p1 |-> 1, p2 |-> 2, p3 |-> 3]
Graver(r, s) ==
  \/ Rank[r.finding.severity] < Rank[s.finding.severity]
  \/ r.finding.severity = s.finding.severity /\ r.from <= s.from

\* _dedupe_findings groups by failure mode; _arbitrate_group takes the first of
\* the gravest.
Group(raised, mode) == {r \in raised : r.finding.mode = mode}
Modes(raised)       == {r.finding.mode : r \in raised}
Strongest(raised, mode) ==
  (CHOOSE r \in Group(raised, mode) : \A s \in Group(raised, mode) : Graver(r, s)).finding

Decision(raised, mode) ==
  LET f == Strongest(raised, mode)
  IN CASE ~f.confident -> "reject"
       [] f.confident /\ f.severity \in {"p0", "p1"} -> "block"
       [] f.confident /\ f.severity = "p2" -> "fix"
       [] OTHER -> "accept_risk"

\* accepted_change_refs, follow_up_round_required and the needs_fix verdict.
Accepted(raised)  == {m \in Modes(raised) : Decision(raised, m) = "fix"}
NeedsFix(raised)  == \E m \in Modes(raised) : Decision(raised, m) \in {"block", "fix"}

-----------------------------------------------------------------------------
\* The execution markers of a mode state; refs: execution_evidence_refs.
Markers == [required : BOOLEAN, performed : BOOLEAN, synthetic : BOOLEAN,
            refs : SUBSET {"checks", "findings", "rounds"}]

\* classify_execution_markers: only an explicit plan-only request needs no proof.
Classified(planOnly) ==
  [required |-> ~planOnly, performed |-> FALSE, synthetic |-> TRUE, refs |-> {}]

\* What a trusted runner's evidence makes of them.
Executed(markers, refs) ==
  [markers EXCEPT !.performed = TRUE, !.synthetic = FALSE, !.refs = refs]

\* apply_execution_truth_block: a terminal success without execution evidence is
\* turned into a failure.
TruthBlocked(m) == m.required /\ (~m.performed \/ m.refs = {} \/ m.synthetic)

\* validate_phase5a_evidence_contract: every gate has a registered artifact, and a
\* success has evidence produced after every accepted change, the findings
\* themselves excepted.
ContractHolds(registered, required, success, accepted, producedAfter) ==
  /\ required \subseteq registered
  /\ success /\ required \ {"findings"} # {} => accepted \subseteq producedAfter
=============================================================================
