------------------------------- MODULE MCGoal --------------------------------
(***************************************************************************)
(* The children of a goal, in the order _ensure_goal_children runs them.   *)
(***************************************************************************)
EXTENDS GoalChildren

MCRoles == <<"verify", "conv">>

\* Between them the children end in every way.
MCEnds == [verify |-> {"completed_unreported", "blocked"},
           conv   |-> {"completed_unreported", "failed_unreported"}]

AllComplete == [r \in {"verify", "conv"} |-> {"completed_unreported"}]
=============================================================================
