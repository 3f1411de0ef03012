---------------------------- MODULE MCExecution ----------------------------
(* AutoLoop with the template plan (analyze, implement, review), an agent
   beside a paid call, and a cycle.  A call is projected at 1 and costs 1 or 2. *)
EXTENDS AutoLoop

Costs == [executor \in Executor |-> IF executor = "manual" THEN 0 ELSE 1]

Step(id, executor, deps, write) ==
  [id |-> id, executor |-> executor, depends_on |-> deps, allow_write |-> write]

PlanSet ==
  {<<Step(1, "paid", {}, FALSE), Step(2, "agent", {1}, TRUE), Step(3, "paid", {2}, FALSE)>>,
   <<Step(1, "agent", {}, TRUE), Step(2, "paid", {}, FALSE)>>,
   <<Step(1, "agent", {2}, TRUE), Step(2, "manual", {1}, FALSE)>>}

LoopOpts ==
  [max_iterations : {2}, max_total_cost : {3}, dry_run : BOOLEAN,
   approve_paid : {TRUE}, approve_coding_agents : BOOLEAN, isolate_all : {TRUE}]

DirectOpts ==
  {[dry_run |-> FALSE, max_cost |-> None, allow_paid |-> FALSE,
    allow_agents |-> TRUE, allow_writes |-> w, isolate_all |-> FALSE] : w \in BOOLEAN}
=============================================================================
