------------------------------ MODULE AutoLoop ------------------------------
(***************************************************************************)
(* The autonomous loop (orchestrator/auto_loop.rs) over runs whose         *)
(* evidence is made durable after they have ended, or is not               *)
(* (execution_evidence.rs), and the review that rests on that evidence.    *)
(* The process may die at any point; other surfaces run on the same task.  *)
(***************************************************************************)
EXTENDS Runner

CONSTANTS
  Plans,          \* the plans routing may come up with
  LoopOptions,    \* the options a loop may be started with
  DirectOptions,  \* the RunOptions of a run outside a loop
  OtherRun        \* the run of another surface

LoopOption ==
  [max_iterations : 0 .. OtherRun - 1, max_total_cost : Nat \cup {None}, dry_run : BOOLEAN,
   approve_paid : BOOLEAN, approve_coding_agents : BOOLEAN, isolate_all : BOOLEAN]

ASSUME AutoLoopAssumption ==
  /\ RunId \subseteq Nat /\ OtherRun \in RunId /\ OtherRun > 1
  /\ 1 .. OtherRun \subseteq RunId
  /\ LoopOptions \subseteq LoopOption /\ DirectOptions \subseteq RunOptions
  /\ Plans \subseteq Seq(SubAgentTask)

VARIABLES
  loop,       \* the loop: options, attempts made, total cost and status
  receipt,    \* task-run-receipt.json, its execution part
  recovery,   \* evidence-recovery/{run_id}.json
  saved,      \* history: the runs whose receipt has been in the file
  reviewed    \* history: the runs accepted

evidenceVars == <<receipt, recovery, saved>>
vars == <<runnerVars, loop, evidenceVars, reviewed>>

LoopStatus == {"running", "exhausted", "needs_approval", "succeeded", "dry_run",
               "guardrail", "recovery_required", "error", "crashed"}
LoopState ==
  [opts : LoopOptions \cup DirectOptions, index : Nat, total_cost : Nat,
   status : LoopStatus \cup {"direct"}]

Init ==
  /\ InitRunner
  /\ \/ loop \in [opts : LoopOptions, index : {0}, total_cost : {0}, status : {"running"}]
     \/ loop \in [opts : DirectOptions, index : {0}, total_cost : {0}, status : {"direct"}]
  /\ receipt = None
  /\ recovery = [r \in RunId |-> None]
  /\ saved = {} /\ reviewed = {}

----------------------------------------------------------------------------
\* build_execution_receipt
ReceiptOf(id, orchestration) ==
  [run_id |-> id, status |-> orchestration.status, steps |-> orchestration.results]

execution_receipt_matches_run(rc, id) ==
  /\ rc # None /\ rc.run_id = id
  /\ rc.status = runs[id].status
  /\ rc.steps = runs[id].results

\* Mutant: the provenance of write steps is not looked at.
AlwaysReady(rc) == "ready"

matching_receipt_status(rc) ==
  IF \E k \in DOMAIN rc.steps : rc.steps[k].evidence # "complete"
  THEN "incomplete" ELSE "ready"

evidence_state_for_run(id) ==
  IF runs[id].dry_run THEN "not_required"
  ELSE IF execution_receipt_matches_run(receipt, id) THEN matching_receipt_status(receipt)
  ELSE "recovery_required"

\* finalize_execution_evidence: the receipt is saved; or the save fails, before
\* or after the file was replaced, and a recovery record is written, or not; or
\* the file of another run cannot be read and nothing is written.
FinalizeEvidence ==
  /\ run.phase = "persisted"
  /\ run' = [run EXCEPT !.phase = "ended"]
  /\ LET rc == ReceiptOf(run.id, runs[run.id])
     IN \/ /\ run.opts.dry_run
           /\ UNCHANGED evidenceVars
        \/ /\ ~ run.opts.dry_run
           /\ \E replaced, reported, recorded \in BOOLEAN :
                /\ reported \/ replaced
                /\ recorded => reported
                /\ receipt' = IF replaced THEN rc ELSE receipt
                /\ saved' = IF replaced THEN saved \cup {run.id} ELSE saved
                /\ recovery' = [recovery EXCEPT ![run.id] =
                                  IF recorded THEN rc ELSE None]
  /\ UNCHANGED <<tracked, runs, spent, loop, reviewed>>

\* repair_execution_evidence: replays the recovery record, whatever run the file
\* belongs to by now.
repair_execution_evidence(id) ==
  /\ runs[id] # None /\ ~ runs[id].dry_run
  /\ recovery[id] # None
  /\ recovery' = [recovery EXCEPT ![id] = None]
  /\ receipt' = IF execution_receipt_matches_run(receipt, id) THEN receipt ELSE recovery[id]
  /\ saved' = saved \cup {id}
  /\ UNCHANGED <<runnerVars, loop, reviewed>>

\* Accept of a run: its evidence has to be ready, and every workspace its
\* results name has to be there.
AcceptRun(id) ==
  /\ runs[id] # None
  /\ evidence_state_for_run(id) = "ready"
  /\ \A k \in DOMAIN runs[id].results :
       runs[id].results[k].workspace => <<id, runs[id].results[k].id>> \in tracked
  /\ reviewed' = reviewed \cup {id}
  /\ UNCHANGED <<runnerVars, loop, evidenceVars>>

----------------------------------------------------------------------------
\* A run's id is new: here the number of the attempt.
NextRunId == loop.index + 1

\* One turn of the loop up to the run: a plan, its approvals, what is left.
LoopAttempt ==
  /\ loop.status = "running" /\ run = NoRun
  /\ loop.index < loop.opts.max_iterations
  /\ \E plan \in Plans :
       IF /\ ~ loop.opts.dry_run
          /\ \/ plan_has_paid_provider_step(plan) /\ ~ loop.opts.approve_paid
             \/ plan_has_coding_agent_step(plan) /\ ~ loop.opts.approve_coding_agents
       THEN /\ loop' = [loop EXCEPT !.status = "needs_approval"]
            /\ UNCHANGED runnerVars
       ELSE IF dependency_waves(plan) = None
       THEN /\ loop' = [loop EXCEPT !.status = "error"]
            /\ UNCHANGED runnerVars
       ELSE LET max == loop.opts.max_total_cost
                left == max - loop.total_cost
            IN /\ StartRun(NextRunId, plan,
                    [dry_run |-> loop.opts.dry_run,
                     max_cost |-> IF max = None THEN None ELSE IF left < 0 THEN 0 ELSE left,
                     allow_paid |-> loop.opts.approve_paid,
                     allow_agents |-> loop.opts.approve_coding_agents,
                     allow_writes |-> loop.opts.approve_coding_agents,
                     isolate_all |-> loop.opts.isolate_all])
               /\ loop' = [loop EXCEPT !.index = @ + 1]
  /\ UNCHANGED <<evidenceVars, reviewed>>

GuardrailHit(results) == \E k \in DOMAIN results : results[k].why = "guardrail"

\* Mutant: a completed run counts as a success before its evidence is looked at.
ClassifyStatusFirst(id) ==
  LET orchestration == runs[id]
  IN CASE orchestration.dry_run -> "dry_run"
       [] orchestration.status = "completed" -> "succeeded"
       [] GuardrailHit(run.results) -> "guardrail"
       [] OTHER -> "running"

\* "running": a retry is warranted.
classify(id) ==
  LET orchestration == runs[id]
      evidence == evidence_state_for_run(id)
  IN IF orchestration.dry_run THEN "dry_run"
     ELSE IF evidence = "recovery_required" THEN "recovery_required"
     ELSE IF GuardrailHit(run.results) THEN "guardrail"
     ELSE IF evidence # "incomplete" /\ orchestration.status = "completed" THEN "succeeded"
     ELSE "running"

\* The end of a turn: terminal, or out of money, or out of turns, or again.
LoopTurnEnds ==
  /\ loop.status = "running" /\ run.phase = "ended"
  /\ LET total == loop.total_cost + TotalCost(run)
         max == loop.opts.max_total_cost
         verdict == classify(run.id)
     IN loop' = [loop EXCEPT !.total_cost = total,
                   !.status = IF /\ verdict = "running"
                                 /\ \/ max # None /\ total >= max
                                    \/ loop.index = loop.opts.max_iterations
                              THEN "exhausted" ELSE verdict]
  /\ run' = NoRun
  /\ UNCHANGED <<tracked, runs, spent, evidenceVars, reviewed>>

\* An error of the run, or of reading its evidence, ends the loop.
LoopErrs ==
  /\ loop.status = "running" /\ run # NoRun
  /\ run.phase = "error" \/ (run.phase = "ended" /\ ~ loop.opts.dry_run)
  /\ loop' = [loop EXCEPT !.status = "error"]
  /\ run' = NoRun
  /\ UNCHANGED <<tracked, runs, spent, evidenceVars, reviewed>>

\* A run outside a loop.
DirectRun ==
  /\ loop.status = "direct" /\ loop.index = 0
  /\ \E plan \in Plans : StartRun(NextRunId, plan, loop.opts)
  /\ loop' = [loop EXCEPT !.index = 1]
  /\ UNCHANGED <<evidenceVars, reviewed>>

DirectRunEnds ==
  /\ loop.status = "direct" /\ run # NoRun
  /\ run.phase \in {"error", "ended"}
  /\ run' = NoRun
  /\ UNCHANGED <<tracked, runs, spent, loop, evidenceVars, reviewed>>

----------------------------------------------------------------------------
\* Another surface ends a run of its own on the task.
OtherRunEnds ==
  /\ runs[OtherRun] = None
  /\ runs' = [runs EXCEPT ![OtherRun] =
       [dry_run |-> FALSE, results |-> <<>>, status |-> "completed"]]
  /\ receipt' = ReceiptOf(OtherRun, runs'[OtherRun])
  /\ saved' = saved \cup {OtherRun}
  /\ UNCHANGED <<run, tracked, spent, loop, recovery, reviewed>>

Crash ==
  /\ run # NoRun
  /\ run' = NoRun
  /\ loop' = [loop EXCEPT !.status = "crashed"]
  /\ UNCHANGED <<tracked, runs, spent, evidenceVars, reviewed>>

Cleanup ==
  /\ \E workspace \in tracked : cleanup_run_worktree(workspace)
  /\ UNCHANGED <<loop, evidenceVars, reviewed>>

RunStep ==
  /\ \/ DecideStep
     \/ \E i \in IF run = NoRun THEN {} ELSE run.inflight : Respond(i)
     \/ FinalizeCall
     \/ WaveEnds
     \/ PersistRun
     \/ RunErrs
  /\ UNCHANGED <<loop, evidenceVars, reviewed>>

Attempt ==
  \/ RunStep
  \/ FinalizeEvidence
  \/ LoopAttempt
  \/ LoopTurnEnds
  \/ LoopErrs
  \/ DirectRun
  \/ DirectRunEnds

Next ==
  \/ Attempt
  \/ \E id \in RunId : repair_execution_evidence(id) \/ AcceptRun(id)
  \/ OtherRunEnds
  \/ Crash
  \/ Cleanup

Spec == Init /\ [][Next]_vars

----------------------------------------------------------------------------
TypeOK ==
  /\ run # NoRun =>
       /\ run.plan \in Plans /\ run \in Running(run.plan)
       /\ \A i \in DOMAIN run.plan : run.responses[i] # None => i \in run.inflight
  /\ loop \in LoopState
  /\ tracked \subseteq RunId \X StepId /\ spent \in Nat
  /\ saved \subseteq RunId /\ reviewed \subseteq RunId

\* Over all its attempts a loop spends at most its total ceiling and what single
\* calls cost beyond their projection: concurrent calls of a wave do not each
\* count on the same rest, refunds are not given twice, and a retry starts from
\* what is really left.
SpendWithinCeiling ==
  loop.opts \in LoopOptions /\ loop.opts.max_total_cost # None
    => spent <= loop.opts.max_total_cost

\* No call of a step runs unless every step it depends on has ended well; a
\* dependency that was skipped, blocked or failed keeps it from running, through
\* any number of waves.
CallsFollowDependencies ==
  run # NoRun =>
    \A i \in run.inflight : \A d \in run.plan[i].depends_on :
      \E k \in DOMAIN run.results : run.results[k].id = d /\ run.results[k].status = "ok"

\* A loop launches its agents again only after an attempt whose execution
\* receipt was in the file: an attempt of which no evidence was saved is the
\* last one, however it ended.
UnprovenRunIsNotRepeated ==
  [][loop.status = "running" /\ loop.index > 0 /\ loop'.index > loop.index
       => loop.index \in saved]_vars

\* When a run is persisted each step of its plan has exactly one result: none is
\* left out because a wave, a gate or a call passed it over, and none is counted
\* twice.
EveryStepHasOneResult ==
  run # NoRun /\ run.phase \in {"persisting", "persisted", "ended"} =>
    /\ \A i \in DOMAIN run.plan : \E k \in DOMAIN run.results :
         \A l \in DOMAIN run.results : run.results[l].id = run.plan[i].id <=> l = k
    /\ \A l \in DOMAIN run.results : run.results[l].id \in StepIds(run.plan)

\* The results of a run stand in the order of its plan, whichever call answers
\* first: wave after wave, in each what the gates decided before what was called,
\* and either kind by the index of its step.
ResultsInPlanOrder ==
  run # NoRun =>
    LET waves == dependency_waves(run.plan)
        Called(k) == run.results[k].why = "call"
    IN \A k, l \in DOMAIN run.results, v, w \in DOMAIN waves :
         \A i \in waves[v], j \in waves[w] :
           k < l /\ run.results[k].id = run.plan[i].id /\ run.results[l].id = run.plan[j].id =>
             \/ v < w
             \/ v = w /\ (Called(k) => Called(l)) /\ ((Called(k) <=> Called(l)) => i < j)

\* What is accepted was a real run, persisted whole, whose receipt reached the
\* file and each of whose steps has complete change evidence: a step that was
\* skipped, failed to start, or lost its workspace while it ran counts against it.
AcceptedIsProven ==
  \A id \in reviewed :
    /\ runs[id] # None /\ ~ runs[id].dry_run
    /\ id \in saved
    /\ \A k \in DOMAIN runs[id].results : runs[id].results[k].evidence = "complete"
=============================================================================
