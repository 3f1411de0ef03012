------------------------------ MODULE MCFinish ------------------------------
(* FinishRecovery on a small repository: the commits not yet made
   are interchangeable. *)
EXTENDS FinishRecovery, TLC

CONSTANTS c0, c1, c2, p, q

Paths == {p, q}
OneFile == {{p}}

Commits3 == {c0, c1, c2}

FreshCommits == Permutations({c1, c2})
=============================================================================
