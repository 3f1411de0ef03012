--------------------------- MODULE RecoveryEngine ---------------------------
(* The recovery ledger of one capability (recovery/engine.rs, language.rs):
   the diagnosis kept for it, the actions it offers and the attempt under way.
   A diagnosis revision is the failure code with the actions observed for it;
   wording, evidence and the list of past attempts are left out. *)
EXTENDS Naturals

CONSTANTS
  Nothing,
  InstallRecipe     \* is there a managed recipe for the server?

ASSUME InstallRecipeAssumption == InstallRecipe \in BOOLEAN

AUTOMATIC_ATTEMPT_LIMIT == 2

RecoveryState == {"Healthy", "Degraded", "Repairing", "NeedsApproval", "Blocked", "Unknown"}
RecoveryAction == {"install", "restart"}
Automatic == {"restart"}                 \* installing is Confirmable
FailureCode == {Nothing, "MissingExecutable", "InitializationFailed"}
Revision == [code : FailureCode, actions : SUBSET RecoveryAction]
Observation == [state : RecoveryState, revision : Revision]
RecoveryRecord ==
  [state : RecoveryState, revision : Revision, actions : SUBSET RecoveryAction,
   automatic_attempts : 0..AUTOMATIC_ATTEMPT_LIMIT]
Engine ==
  [record : RecoveryRecord \cup {Nothing}, active : RecoveryAction \cup {Nothing}]
NewEngine == [record |-> Nothing, active |-> Nothing]

ASSUME RecoveryNoneAssumption == Nothing \notin RecoveryRecord \cup RecoveryAction

Diagnosis(state, code, actions) ==
  [state |-> state, revision |-> [code |-> code, actions |-> actions]]

(* What a probe of the language server says.  A server that answers wins over
   everything; an install counts as a repair while it runs and after it is
   ready; a missing executable is never restarted. *)
language_observation(runtime, install, available) ==
  CASE runtime = "Ready" -> Diagnosis("Healthy", Nothing, {})
    [] runtime # "Ready" /\ install \in {"Installing", "Ready"} ->
         Diagnosis("Repairing", Nothing, {})
    [] runtime # "Ready" /\ install \notin {"Installing", "Ready"} /\ ~available ->
         IF InstallRecipe
         THEN Diagnosis("NeedsApproval", "MissingExecutable", {"install"})
         ELSE Diagnosis("Blocked", "MissingExecutable", {})
    [] runtime = "Error" /\ install \notin {"Installing", "Ready"} /\ available ->
         Diagnosis("Degraded", "InitializationFailed", {"restart"})
    [] OTHER -> Diagnosis("Unknown", Nothing, {})

(* Mutant: every observation starts a new budget. *)
ObserveForgetsAttempts(engine, obs) ==
  [engine EXCEPT !.record =
     [state |-> obs.state, revision |-> obs.revision,
      actions |-> obs.revision.actions, automatic_attempts |-> 0]]

(* observe: the attempts carry over only to the same diagnosis, and a spent
   budget takes the automatic actions away. *)
observe(engine, obs) ==
  LET attempts == IF engine.record # Nothing /\ engine.record.revision = obs.revision
                  THEN engine.record.automatic_attempts ELSE 0
      spent == IF attempts >= AUTOMATIC_ATTEMPT_LIMIT THEN Automatic ELSE {}
  IN [engine EXCEPT !.record =
        [state |-> obs.state, revision |-> obs.revision,
         actions |-> obs.revision.actions \ spent, automatic_attempts |-> attempts]]

(* Mutant: a second repair is let in beside the one under way. *)
BeginBesideActive(engine, action) ==
  /\ engine.record # Nothing
  /\ action \in engine.record.actions
  /\ action \in Automatic => engine.record.automatic_attempts < AUTOMATIC_ATTEMPT_LIMIT

CanBegin(engine, action) ==
  /\ engine.active = Nothing
  /\ engine.record # Nothing
  /\ action \in engine.record.actions
  /\ action \in Automatic => engine.record.automatic_attempts < AUTOMATIC_ATTEMPT_LIMIT

(* Mutant: confirmed repairs count as automatic attempts. *)
BeginCountsAll(engine, action) ==
  [record |-> [engine.record EXCEPT !.state = "Repairing", !.automatic_attempts = @ + 1],
   active |-> action]

begin_repair(engine, action) ==
  [record |-> [engine.record EXCEPT
     !.state = "Repairing",
     !.automatic_attempts = IF action \in Automatic THEN @ + 1 ELSE @],
   active |-> action]

Result == {"Verified", "Cancelled", "Failed"}

(* finish_repair: VerificationFailed ends as Failed does. *)
finish_repair(engine, result) ==
  LET exhausted == engine.record.automatic_attempts >= AUTOMATIC_ATTEMPT_LIMIT
  IN [record |-> [engine.record EXCEPT
        !.state = CASE result = "Verified" -> "Healthy"
                    [] result = "Cancelled" -> "NeedsApproval"
                    [] result = "Failed" -> IF exhausted THEN "Blocked" ELSE "Degraded",
        !.actions = CASE result = "Verified" -> {}
                      [] result = "Cancelled" -> @
                      [] result = "Failed" -> IF exhausted THEN @ \ Automatic ELSE @],
      active |-> Nothing]
=============================================================================
