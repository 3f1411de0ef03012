------------------------------- MODULE Phase -------------------------------
(***************************************************************************)
(* The six-phase Work flow (workflow/phase.rs): which phase is actionable  *)
(* is derived, on every read, from the evidence receipt and the state of   *)
(* the repository; nothing about it is stored.                             *)
(***************************************************************************)
EXTENDS Naturals, Receipt

\* Phase::ALL in its order.
PhaseOrder == <<"scope", "prepare", "execute", "review", "verify", "finish">>

\* Evidence: e.scope_ok and e.prepare_ok are the conjunctions the engine's *_ok
\* flags feed, e.mode_matches says the receipt is of the chosen execution mode,
\* e.succeeded that all required steps of the run ended Ok.
Committed(e) ==
  /\ e.receipt # None
  /\ e.receipt.finish # None
  /\ e.receipt.finish.run_id = e.receipt.run_id
  /\ e.finish_commit_exists

ExecutionSucceeded(e) ==
  /\ e.receipt # None
  /\ e.mode_matches
  /\ e.succeeded
  /\ e.receipt.review # None => e.receipt.review.decision # "rejected"

HasChanges(e) == e.receipt # None /\ e.receipt.changeset_digest # None

ChangesReviewed(e) == HasChanges(e) /\ BoundReview(e.receipt)

FinalChecksOk(e) ==
  /\ HasChanges(e)
  /\ e.receipt.verification # None
  /\ e.receipt.verification.run_id = e.receipt.run_id
  /\ valid_for(e.receipt.verification, e.head_sha, e.index_tree_sha,
               e.receipt.changeset_digest)

\* is_done of derive_signals: a recorded commit is terminal proof of the chain.
is_done(e, phase) ==
  CASE phase = "scope"   -> e.scope_ok
    [] phase = "prepare" -> e.prepare_ok
    [] phase = "execute" -> Committed(e) \/ ExecutionSucceeded(e)
    [] phase = "review"  -> Committed(e) \/ ~HasChanges(e) \/ ChangesReviewed(e)
    [] phase = "verify"  -> Committed(e) \/ FinalChecksOk(e)
    [] phase = "finish"  -> Committed(e)

Complete(e) == \A i \in DOMAIN PhaseOrder : is_done(e, PhaseOrder[i])

\* The one actionable phase, and so the one primary call to action: the first
\* phase that is not done, the last one when all are.
CurrentPhase(e) ==
  IF Complete(e) THEN "finish"
  ELSE LET first == CHOOSE i \in DOMAIN PhaseOrder :
                      /\ ~ is_done(e, PhaseOrder[i])
                      /\ \A j \in DOMAIN PhaseOrder :
                           ~ is_done(e, PhaseOrder[j]) => ~ (j < i)
       IN  PhaseOrder[first]
=============================================================================
