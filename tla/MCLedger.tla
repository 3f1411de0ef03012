------------------------------ MODULE MCLedger ------------------------------
(* EvidenceLedger with one verifier and runs that change p.  The checks fail
   exactly when p is new and q, which only the user edits, is still old. *)
EXTENDS EvidenceLedger

CONSTANTS p, q, old, new

Paths == {p, q}
Contents == {old, new}
OneFile == {{p}}
NeedsBoth == {[x \in Paths |-> IF x = p THEN new ELSE old]}
=============================================================================
