------------------------------ MODULE MCAccept ------------------------------
(* AcceptTransaction on two paths, each of which a run may have changed in place
   or in isolation, or not at all. *)
EXTENDS AcceptTransaction
=============================================================================
