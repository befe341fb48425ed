----------------------------- MODULE ReportOnce ------------------------------
(***************************************************************************)
(* What Converge promises about the visible report of a finished workflow: *)
(* the right to send is reserved once, given to one sender once, used at   *)
(* most once, and the workflow is recorded as reported once, with a        *)
(* message id that never changes afterwards.                               *)
(***************************************************************************)
EXTENDS Naturals, FiniteSets

CONSTANTS Message, None

VARIABLES
  reserved,    \* delivery authority exists for the terminal checkpoint
  authorised,  \* how many callers were told to send
  sent,        \* messages posted
  reported     \* message the workflow is reported with, or None

onceVars == <<reserved, authorised, sent, reported>>

Reserve ==
  /\ ~reserved
  /\ reserved' = TRUE
  /\ UNCHANGED <<authorised, sent, reported>>

Authorise ==
  /\ reserved /\ authorised = 0
  /\ authorised' = 1
  /\ UNCHANGED <<reserved, sent, reported>>

Send ==
  /\ authorised = 1 /\ sent = {}
  /\ \E msg \in Message : sent' = {msg}
  /\ UNCHANGED <<reserved, authorised, reported>>

MarkReported ==
  /\ reserved /\ reported = None
  /\ reported' \in Message
  /\ UNCHANGED <<reserved, authorised, sent>>

OnceInit == ~reserved /\ authorised = 0 /\ sent = {} /\ reported = None
OnceNext == Reserve \/ Authorise \/ Send \/ MarkReported
OnceSpec == OnceInit /\ [][OnceNext]_onceVars
=============================================================================
