------------------------------- MODULE MCConv -------------------------------
(***************************************************************************)
(* ConvMode for TLC: two files, each rewritten as a whole by an edit; e2   *)
(* keeps the old text and adds to it.                                      *)
(***************************************************************************)
EXTENDS ConvMode, TLC

CONSTANTS p1, p2, f1, f2, e1, e2, m1, m2

Raise(m, s) == [from |-> 0, finding |-> [mode |-> m, severity |-> s, confident |-> TRUE]]

FilesOf == (e1 :> f1) @@ (e2 :> f2)

Fix1(edits)   == [raised |-> {Raise(m1, "p2")}, edits |-> [NoEdits EXCEPT ![m1] = edits]]
FixAndBlock   == [Fix1({e1}) EXCEPT !.raised = @ \cup {Raise(m2, "p1")}]
PanelFindings == {{Raise(m1, "p2")}}

\* A fix of both files, and one of a single file beside a finding that blocks.
SomePackets == {Fix1({e1, e2}), FixAndBlock}

\* A fix that only adds to a file.
PacketThatExtends == {Fix1({e2})}

Callers == Permutations({p1, p2})
=============================================================================
