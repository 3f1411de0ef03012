------------------------------- MODULE Runner -------------------------------
(***************************************************************************)
(* One orchestration run (orchestrator/runner.rs run_plan_with_id): wave   *)
(* by wave it decides every step, lets the scheduled calls run             *)
(* concurrently, and finalizes them once all have answered.  Cost is       *)
(* reserved when a call is scheduled and reconciled, or refunded, when it  *)
(* is finalized.  Agents that may write get a Git worktree of their own    *)
(* (worktree.rs), which the user may clean up at any time.                 *)
(***************************************************************************)
EXTENDS Integers, RunPlan, FiniteSetsExt

CONSTANTS
  RunId,
  Actual        \* the costs a call may turn out to have

Response ==
  [outcome : {"ok", "failed", "error"}, complete : BOOLEAN, cost : Actual \cup {0}]
Result ==
  [id : StepId, status : StepStatus, why : Why, cost : Nat,
   evidence : {"unknown", "complete", "unavailable"}, workspace : BOOLEAN]
RunState == [unsuccessful : SUBSET StepId, running_cost : Int, ceiling_hit : BOOLEAN]
Running(plan) ==
  [id : RunId, plan : {plan}, opts : RunOptions, waves : Seq(SUBSET DOMAIN plan),
   phase : {"deciding", "executing", "persisting", "persisted", "ended", "error"},
   todo : SUBSET DOMAIN plan, inflight : SUBSET DOMAIN plan,
   responses : [DOMAIN plan -> Response \cup {None}], results : Seq(Result), state : RunState]

ASSUME RunnerAssumption == Actual \subseteq Nat /\ None \notin Response

VARIABLES
  run,          \* the run in progress, or NoRun
  tracked,      \* the worktrees Git tracks, as <<run id, step id>>
  runs,         \* the {run_id}.json files of the task
  spent         \* history: what the calls have cost, each up to its projection

runnerVars == <<run, tracked, runs, spent>>

NoRun == [phase |-> "none"]

InitRunner ==
  /\ run = NoRun
  /\ tracked = {}
  /\ runs = [r \in RunId |-> None]
  /\ spent = 0

\* The loop over the waves, with those to come.
AtWaves(r, waves) ==
  [r EXCEPT !.waves = waves, !.todo = IF waves = <<>> THEN {} ELSE Head(waves),
            !.phase = IF waves = <<>> THEN "persisting" ELSE "deciding"]

\* run_plan_with_id up to its loop over the waves.
StartRun(id, plan, opts) ==
  /\ run = NoRun
  /\ dependency_waves(plan) # None
  /\ run' = AtWaves([id |-> id, plan |-> plan, opts |-> opts, waves |-> <<>>,
                     phase |-> "deciding", todo |-> {}, inflight |-> {},
                     responses |-> [i \in DOMAIN plan |-> None], results |-> <<>>,
                     state |-> [unsuccessful |-> {}, running_cost |-> 0,
                                ceiling_hit |-> FALSE]],
                    dependency_waves(plan))
  /\ UNCHANGED <<tracked, runs, spent>>

\* Mutant: only a failure makes a step unsuccessful.
PushForgetsBlocked(r, result) ==
  [r EXCEPT !.results = Append(@, result),
            !.state.unsuccessful = IF result.status = "failed" THEN @ \cup {result.id} ELSE @]

\* RunState::push
Push(r, result) ==
  [r EXCEPT !.results = Append(@, result),
            !.state.unsuccessful = IF result.status = "ok" THEN @ ELSE @ \cup {result.id}]

Workspace(r, i) == <<r.id, r.plan[i].id>>

\* Mutant: the projection of a scheduled call is not reserved.
ReservesNothing(step, gate) == FALSE

\* A scheduled call reserves its projection; so does the preview of a provider
\* call, and the preview of an agent does not.
Reserves(step, gate) ==
  gate = None \/ (gate[2] = "ok" /\ gate[3] = "preview" /\ step.executor # "agent")

\* The decision pass for the next step of the wave: finalized by a gate, or
\* scheduled.  The gate that finds the ceiling closes it for what follows.
StepDecided(i, gate) ==
  LET step == run.plan[i]
      decided == [run EXCEPT !.todo = @ \ {i},
                    !.phase = IF run.todo = {i} THEN "executing" ELSE @,
                    !.state.running_cost =
                       IF Reserves(step, gate) THEN @ + Projected[step.executor] ELSE @]
  IN IF gate = None THEN [decided EXCEPT !.inflight = @ \cup {i}]
     ELSE [Push(decided, SubAgentResult(step, gate[2], gate[3],
                                        GateCost(step, run.opts, gate)))
             EXCEPT !.state.ceiling_hit = @ \/ (gate[2] = "blocked" /\ gate[3] = "ceiling")]

\* create_run_worktree: `git worktree add`, then a metadata file; when that
\* cannot be written the step is blocked and the worktree stays behind, tracked.
DecideStep ==
  /\ run.phase = "deciding"
  /\ LET i == Min(run.todo)
         Created(gate, env) ==
           /\ NeedsWorkspace(run.plan[i], run.opts)
           /\ gate = None \/ gate[3] = "workspace"
           /\ env.workspace # "refused"
         outcomes == {LET gate == Gate(run.plan[i], run.opts, env, run.state)
                      IN <<gate, Created(gate, env)>> : env \in StepEnvironment}
     IN \E outcome \in outcomes :
          /\ run' = StepDecided(i, outcome[1])
          /\ tracked' = IF outcome[2] THEN tracked \cup {Workspace(run, i)} ELSE tracked
  /\ UNCHANGED <<runs, spent>>

\* A scheduled call answers, in any order.  An agent whose changeset could not
\* be captured has failed whatever its process says; one whose workspace is gone
\* cannot have it captured.
Respond(i) ==
  /\ run.phase = "executing"
  /\ i \in run.inflight /\ run.responses[i] = None
  /\ \E outcome \in {"ok", "failed", "error"}, complete \in BOOLEAN, cost \in Actual \cup {0} :
       LET agent == run.plan[i].executor = "agent"
           lost == NeedsWorkspace(run.plan[i], run.opts) /\ Workspace(run, i) \notin tracked
       IN /\ outcome = "failed" => agent
          /\ outcome = "ok" => complete
          /\ agent \/ complete
          /\ lost => ~ complete
          /\ IF outcome = "error" THEN cost = 0 ELSE cost \in Actual
          /\ run' = [run EXCEPT !.responses[i] =
                       [outcome |-> outcome, complete |-> complete, cost |-> cost]]
          /\ spent' = spent + Min({cost, Projected[run.plan[i].executor]})
  /\ UNCHANGED <<tracked, runs>>

\* The result of a call, and what its reservation becomes.
CallResult(r, i) ==
  LET step == r.plan[i]
      response == r.responses[i]
      agent == step.executor = "agent"
  IN [SubAgentResult(step, IF response.outcome = "ok" THEN "ok" ELSE "failed",
                     "call", response.cost)
        EXCEPT !.evidence = IF agent /\ response.outcome # "error"
                            THEN IF response.complete THEN "complete" ELSE "unavailable"
                            ELSE @,
               !.workspace = NeedsWorkspace(step, r.opts) /\ response.outcome # "error"]

Reconcile(r, i) == r.responses[i].cost - Projected[r.plan[i].executor]

\* Mutant: an answer is not taken out of the map.
FinalizedKeepsResponse(r, i) ==
  [Push(r, CallResult(r, i)) EXCEPT !.inflight = @ \ {i},
                                    !.state.running_cost = @ + Reconcile(r, i)]

Finalized(r, i) ==
  [Push(r, CallResult(r, i)) EXCEPT !.inflight = @ \ {i}, !.responses[i] = None,
                                    !.state.running_cost = @ + Reconcile(r, i)]

\* The finalize pass, once all have answered, in ascending index order, a call
\* at a time: nothing but this pass looks at the run meanwhile.
FinalizeCall ==
  /\ run.phase = "executing" /\ run.inflight # {}
  /\ \A i \in run.inflight : run.responses[i] # None
  /\ run' = Finalized(run, Min(run.inflight))
  /\ UNCHANGED <<tracked, runs, spent>>

WaveEnds ==
  /\ run.phase = "executing" /\ run.inflight = {}
  /\ run' = AtWaves(run, Tail(run.waves))
  /\ UNCHANGED <<tracked, runs, spent>>

----------------------------------------------------------------------------
OrchestrationRun(r) ==
  [dry_run |-> r.opts.dry_run,
   results |-> [k \in DOMAIN r.results |->
      [id |-> r.results[k].id, status |-> r.results[k].status,
       evidence |-> r.results[k].evidence, workspace |-> r.results[k].workspace]],
   status |-> RunStatus(r.opts, {r.results[k].status : k \in DOMAIN r.results})]

\* What the first n of some costs come to.
SumTo(cost, n) ==
  LET sum[k \in 0 .. n] == IF k = 0 THEN 0 ELSE sum[k - 1] + cost[k]
  IN sum[n]

TotalCost(r) == SumTo([k \in DOMAIN r.results |-> r.results[k].cost], Len(r.results))

\* persist_run: {run_id}.json; latest.json, written next, is a copy nothing here
\* decides by.
PersistRun ==
  /\ run.phase = "persisting"
  /\ runs' = [runs EXCEPT ![run.id] = OrchestrationRun(run)]
  /\ run' = [run EXCEPT !.phase = "persisted"]
  /\ UNCHANGED <<tracked, spent>>

\* A task that panics, or a file that cannot be written, fails the whole run:
\* what its agents did is not recorded.
RunErrs ==
  /\ run.phase \in {"executing", "persisting", "persisted"}
  /\ run.phase = "executing" => \E i \in run.inflight : run.responses[i] = None
  /\ run' = [run EXCEPT !.phase = "error"]
  /\ UNCHANGED <<tracked, runs, spent>>

\* cleanup_run_worktree, by the user: forced, whoever works in it.  The metadata
\* file goes with it, if there is one.
cleanup_run_worktree(workspace) ==
  /\ workspace \in tracked
  /\ tracked' = tracked \ {workspace}
  /\ UNCHANGED <<run, runs, spent>>
=============================================================================
