------------------------------ MODULE MCVerify ------------------------------
(***************************************************************************)
(* VerifyMode for TLC: a panel of three children about one file, and what  *)
(* each of them may answer.                                                *)
(***************************************************************************)
EXTENDS VerifyMode, TLC

CONSTANTS p1, p2, f1, g1, m1, m2

Read(f)  == [does |-> "read", files |-> {f}]
Status   == [does |-> "status", files |-> {}]
Grep     == [does |-> "other", files |-> {f1}]
Raise(m, s, sure) == [mode |-> m, severity |-> s, confident |-> sure]

Answered(calls, claim, found) ==
  [exit |-> "ok", smoke |-> TRUE, session |-> TRUE, claim |-> claim, calls |-> calls, found |-> found]
Good(found) == Answered({Read(f1), Status}, {f1}, found)

\* The first child may find a risk or something to fix; the second may come late, or
\* claim a file it did not read; the third may claim one it was not asked to read.
AnswersOfThree ==
  << {Good({Raise(m1, "p3", TRUE)}), Good({Raise(m1, "p2", TRUE)})},
     {Good({Raise(m2, "p3", TRUE)}), [Good({Raise(m2, "p3", TRUE)}) EXCEPT !.exit = "late"],
      Answered({Status}, {f1}, {Raise(m2, "p3", TRUE)})},
     {Good({Raise(m2, "p1", FALSE)}),
      Answered({Read(f1), Read(g1), Status}, {f1, g1}, {Raise(m1, "p3", TRUE)})} >>

Handed(m, s) == {[from |-> 0, finding |-> Raise(m, s, TRUE)]}
Packets == {Handed(m1, "p3"), Handed(m2, "p2")}
Finalizers == Permutations({p1, p2})
=============================================================================
