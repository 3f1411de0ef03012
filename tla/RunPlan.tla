------------------------------ MODULE RunPlan ------------------------------
(***************************************************************************)
(* The plan of an orchestration run: a sequence of steps, grouped into     *)
(* waves by their dependencies, each step passed through the gates of the  *)
(* runner in a fixed order (orchestrator/types.rs, plan.rs and the         *)
(* decision pass of runner.rs).                                            *)
(***************************************************************************)
EXTENDS Naturals, Sequences, FiniteSets

CONSTANTS
  None,
  StepId,
  Projected    \* the projected cost of a call to each kind of executor

Executor == {"manual", "agent", "paid", "local"}

SubAgentTask ==
  [id : StepId, executor : Executor, depends_on : SUBSET StepId, allow_write : BOOLEAN]

ASSUME ProjectedAssumption == Projected \in [Executor -> Nat]
StepStatus == {"ok", "skipped", "blocked", "failed"}

\* Why a step has its result: its call, or the gate that stopped it.
Why == {"call", "dependency", "ceiling", "guardrail", "manual", "preview", "approval",
        "unavailable", "workspace"}

\* A gate: is it closed, and the status and reason it gives a step.
Verdict == BOOLEAN \X StepStatus \X Why

ASSUME NoneAssumption == None \notin Verdict /\ None \notin Nat

\* The environment a step meets when it is decided: what the scans say of its
\* prompt, whether the executor is there, and how its workspace comes out.
StepEnvironment ==
  [context : {"clean", "secret", "too_long"}, available : BOOLEAN,
   workspace : {"ready", "refused", "no_metadata"}]

RunOptions ==
  [dry_run : BOOLEAN, max_cost : Nat \cup {None}, allow_paid : BOOLEAN,
   allow_agents : BOOLEAN, allow_writes : BOOLEAN, isolate_all : BOOLEAN]

----------------------------------------------------------------------------
\* Layered Kahn: a wave is every step left whose dependencies have all landed.
WavesFrom(plan) ==
  LET Ready(done) ==
        {i \in DOMAIN plan \ done : plan[i].depends_on \subseteq {plan[j].id : j \in done}}
      waves[done \in SUBSET DOMAIN plan] ==
        IF Ready(done) = {} THEN <<>>
        ELSE <<Ready(done)>> \o waves[done \cup Ready(done)]
  IN waves[{}]

StepIds(plan) == {plan[i].id : i \in DOMAIN plan}

\* Duplicate ids, unknown dependencies and cycles are errors of the whole plan.
dependency_waves(plan) ==
  LET waves == WavesFrom(plan)
  IN IF /\ Cardinality(StepIds(plan)) = Len(plan)
        /\ \A i \in DOMAIN plan : plan[i].depends_on \subseteq StepIds(plan)
        /\ UNION {waves[w] : w \in DOMAIN waves} = DOMAIN plan
     THEN waves ELSE None

plan_has_paid_provider_step(plan) == \E i \in DOMAIN plan : plan[i].executor = "paid"
plan_has_coding_agent_step(plan) == \E i \in DOMAIN plan : plan[i].executor = "agent"

----------------------------------------------------------------------------
\* base_result: a write step's evidence is unknown until its agent has run.
SubAgentResult(step, status, why, cost) ==
  [id |-> step.id, status |-> status, why |-> why, cost |-> cost,
   evidence |-> IF step.allow_write THEN "unknown" ELSE "complete",
   workspace |-> FALSE]

NeedsWorkspace(step, opts) ==
  step.executor = "agent" /\ (opts.isolate_all \/ step.allow_write)

WouldExceed(step, opts, running_cost) ==
  opts.max_cost # None /\ running_cost + Projected[step.executor] > opts.max_cost

\* The gates of the decision pass in the order of the code: the condition of
\* each, the status of the step it stops, and why.
Gates(step, opts, env, state) ==
  LET agent == step.executor = "agent"
      over == WouldExceed(step, opts, state.running_cost)
      preview == IF opts.dry_run THEN "ok" ELSE "skipped"
  IN << <<step.depends_on \cap state.unsuccessful # {}, "skipped", "dependency">>,
        <<state.ceiling_hit, "skipped", "ceiling">>,
        <<env.context # "clean", "blocked", "guardrail">>,
        <<step.executor = "manual", preview, "manual">>,
        <<over /\ agent, "blocked", "ceiling">>,
        <<agent /\ (opts.dry_run \/ ~ opts.allow_agents), preview, "preview">>,
        <<agent /\ step.allow_write /\ ~ opts.allow_writes, "blocked", "approval">>,
        <<agent /\ ~ env.available, "failed", "unavailable">>,
        <<NeedsWorkspace(step, opts) /\ env.workspace # "ready", "blocked", "workspace">>,
        <<step.executor = "paid" /\ ~ opts.dry_run /\ ~ opts.allow_paid, "skipped", "approval">>,
        <<over, "blocked", "ceiling">>,
        <<opts.dry_run, "ok", "preview">>,
        <<~ env.available, "failed", "unavailable">> >>

\* The first gate that applies, or None: the call is scheduled.
Gate(step, opts, env, state) ==
  LET gates == Gates(step, opts, env, state)
      closed == {g \in DOMAIN gates : gates[g][1]}
  IN IF closed = {} THEN None
     ELSE gates[CHOOSE g \in closed : \A h \in closed : g <= h]

\* What a step stopped by a gate costs in the result: a preview its projection.
GateCost(step, opts, gate) ==
  IF gate[3] = "preview" /\ opts.dry_run THEN Projected[step.executor] ELSE 0

RunStatus(opts, statuses) ==
  CASE opts.dry_run -> "dry_run"
    [] ~ opts.dry_run /\ statuses \subseteq {"ok"} -> "completed"
    [] ~ opts.dry_run /\ "ok" \in statuses /\ statuses # {"ok"} -> "partial"
    [] OTHER -> "failed"
=============================================================================
