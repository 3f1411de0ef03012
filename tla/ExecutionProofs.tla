--------------------------- MODULE ExecutionProofs ---------------------------
(***************************************************************************)
(* Theorems about AutoLoop, for any plans, options, costs and number of    *)
(* attempts, whatever fails and whoever cleans up: what a run and its loop *)
(* spend, which calls may run, what a retry and an acceptance rest on.     *)
(* First the arithmetic of sums over calls, then the gates and the waves,  *)
(* then what holds of one run, then the loop around its runs.              *)
(***************************************************************************)
EXTENDS AutoLoop, FiniteSetTheorems, WellFoundedInduction, TLAPS
-----------------------------------------------------------------------------
\* Induction over the natural numbers, as a fact about sets.

LEMMA Counting ==
  ASSUME NEW S, 0 \in S, \A n \in Nat : n \in S => n + 1 \in S
  PROVE  \A n \in Nat : n \in S
<1> DEFINE R == OpToRel(<, Nat)
           U == {n \in Nat : n \notin S}
<1>1. IsWellFoundedOn(R, Nat)
  BY NatLessThanWellFounded
<1>2. \A x, y \in Nat : <<x, y>> \in R <=> x < y
  BY DEF OpToRel
<1> HIDE DEF R
<1>3. U \in SUBSET Nat /\ \A u \in U : u \notin S
  OBVIOUS
<1>4. ASSUME U # {} PROVE FALSE
  <2>1. PICK u \in U : \A y \in U : <<y, u>> \notin R
    <3> HIDE DEF U
    <3>1. QED
      BY <1>1, <1>3, <1>4, WFMin
  <2>2. u \in Nat /\ u \notin S /\ u # 0
    BY <1>3
  <2> DEFINE v == u - 1
  <2>3. v \in Nat /\ v < u /\ u = v + 1
    BY <2>2
  <2> HIDE DEF v
  <2>4. v \in U => FALSE
    BY <1>2, <2>1, <2>2, <2>3
  <2>5. v \in S
    BY <2>3, <2>4
  <2>6. QED
    BY <2>2, <2>3, <2>5
<1>5. QED
  BY <1>4

\* The least of some indices.
LEMMA LeastIndex ==
  ASSUME NEW T \in SUBSET Nat, T # {}
  PROVE  Min(T) \in T /\ \A y \in T : Min(T) <= y
<1> DEFINE R == OpToRel(<, Nat)
<1>1. IsWellFoundedOn(R, Nat)
  BY NatLessThanWellFounded
<1>2. \A x, y \in Nat : <<x, y>> \in R <=> x < y
  BY DEF OpToRel
<1> HIDE DEF R
<1>3. PICK x \in T : \A y \in T : <<y, x>> \notin R
  BY <1>1, WFMin
<1>4. \A y \in T : x <= y
  <2> TAKE y \in T
  <2>1. x \in Nat /\ y \in Nat
    OBVIOUS
  <2>2. ~ (y < x)
    BY <1>2, <1>3, <2>1
  <2>3. QED
    BY <2>1, <2>2
<1>5. \E z \in T : \A y \in T : z <= y
  BY <1>4
<1>6. QED
  BY <1>5 DEF Min

-----------------------------------------------------------------------------
\* Sums of costs.

SumStep(cost, f, k) == IF k = 0 THEN 0 ELSE f[k - 1] + cost[k]

\* The sums of the first k costs, for every k up to n.
PartialSums(cost, n, f) ==
  /\ f \in [0 .. n -> Int]
  /\ f[0] = 0 /\ \A k \in 1 .. n : f[k] = f[k - 1] + cost[k]

LEMMA PartialSumsExist ==
  ASSUME NEW n \in Nat, NEW cost \in [1 .. n -> Int]
  PROVE  \E f : PartialSums(cost, n, f)
<1> DEFINE S == {m \in Nat : m <= n => \E f : PartialSums(cost, m, f)}
<1>1. 0 \in S
  <2> DEFINE f == [k \in 0 .. 0 |-> 0]
  <2>1. PartialSums(cost, 0, f)
    BY DEF PartialSums
  <2>2. QED
    BY <2>1
<1>2. ASSUME NEW m \in Nat, m \in S PROVE m + 1 \in S
  <2> SUFFICES ASSUME m + 1 <= n PROVE \E g : PartialSums(cost, m + 1, g)
    OBVIOUS
  <2>1. m <= n
    OBVIOUS
  <2>2. PICK f : PartialSums(cost, m, f)
    BY <1>2, <2>1
  <2> DEFINE g == [k \in 0 .. m + 1 |-> IF k = m + 1 THEN f[m] + cost[m + 1] ELSE f[k]]
  <2>3. m + 1 \in 1 .. n /\ cost[m + 1] \in Int /\ f[m] \in Int
    BY <2>2 DEF PartialSums
  <2>4. g \in [0 .. m + 1 -> Int] /\ g[0] = 0
    BY <2>2, <2>3 DEF PartialSums
  <2>5. ASSUME NEW k \in 1 .. m + 1 PROVE g[k] = g[k - 1] + cost[k]
    <3>1. k - 1 \in 0 .. m + 1 /\ k - 1 # m + 1 /\ g[k - 1] = f[k - 1]
      OBVIOUS
    <3>2. CASE k = m + 1
      BY <3>1, <3>2
    <3>3. CASE k # m + 1
      <4>1. k \in 1 .. m /\ g[k] = f[k]
        BY <3>3
      <4>2. f[k] = f[k - 1] + cost[k]
        BY <2>2, <4>1 DEF PartialSums
      <4>3. QED
        BY <3>1, <4>1, <4>2
    <3>4. QED
      BY <3>2, <3>3
  <2>6. PartialSums(cost, m + 1, g)
    BY <2>4, <2>5 DEF PartialSums
  <2>7. QED
    BY <2>6
<1>3. n \in S
  <2> HIDE DEF S
  <2>1. QED
    BY <1>1, <1>2, Counting
<1>4. QED
  BY <1>3

\* Two functions of partial sums agree.
LEMMA PartialSumsAgree ==
  ASSUME NEW n \in Nat, NEW cost \in [1 .. n -> Int], NEW f, PartialSums(cost, n, f),
         NEW s, \A k \in 0 .. n : s[k] = SumStep(cost, s, k)
  PROVE  \A k \in 0 .. n : s[k] = f[k]
<1> DEFINE S == {k \in Nat : k <= n => s[k] = f[k]}
<1>1. 0 \in S
  BY DEF PartialSums, SumStep
<1>2. ASSUME NEW k \in Nat, k \in S PROVE k + 1 \in S
  <2> SUFFICES ASSUME k + 1 <= n PROVE s[k + 1] = f[k + 1]
    OBVIOUS
  <2>1. k + 1 \in 0 .. n /\ k + 1 \in 1 .. n /\ k + 1 # 0 /\ (k + 1) - 1 = k /\ k <= n
    OBVIOUS
  <2>2. s[k + 1] = s[k] + cost[k + 1] /\ s[k] = f[k]
    BY <1>2, <2>1 DEF SumStep
  <2>3. f[k + 1] = f[k] + cost[k + 1]
    BY <2>1 DEF PartialSums
  <2>4. QED
    BY <2>2, <2>3
<1>3. \A k \in Nat : k \in S
  <2> HIDE DEF S
  <2>1. QED
    BY <1>1, <1>2, Counting
<1>4. QED
  BY <1>3

LEMMA SumIs ==
  ASSUME NEW n \in Nat, NEW cost \in [1 .. n -> Int]
  PROVE  \E f : PartialSums(cost, n, f) /\ SumTo(cost, n) = f[n]
<1> DEFINE Eq(f) == f = [k \in 0 .. n |-> IF k = 0 THEN 0 ELSE f[k - 1] + cost[k]]
           s == CHOOSE f : Eq(f)
<1>1. PICK f : PartialSums(cost, n, f)
  BY PartialSumsExist
<1>2. Eq(f)
  <2>1. f = [k \in 0 .. n |-> f[k]] /\ \A k \in 0 .. n : k # 0 => k \in 1 .. n
    BY <1>1 DEF PartialSums
  <2>2. \A k \in 0 .. n : f[k] = IF k = 0 THEN 0 ELSE f[k - 1] + cost[k]
    BY <1>1, <2>1 DEF PartialSums
  <2>3. QED
    BY <2>1, <2>2
<1>3. SumTo(cost, n) = s[n]
  BY DEF SumTo
<1>4. Eq(s)
  <2> HIDE DEF Eq
  <2>1. QED
    BY <1>2
<1>5. \A k \in 0 .. n : s[k] = SumStep(cost, s, k)
  <2>1. s = [k \in 0 .. n |-> IF k = 0 THEN 0 ELSE s[k - 1] + cost[k]]
    BY <1>4
  <2> HIDE DEF s
  <2>2. QED
    BY <2>1 DEF SumStep
<1> HIDE DEF s
<1>6. s[n] = f[n]
  BY <1>1, <1>5, PartialSumsAgree
<1>7. QED
  BY <1>1, <1>3, <1>6

LEMMA SumInt ==
  ASSUME NEW n \in Nat, NEW cost \in [1 .. n -> Int]
  PROVE  SumTo(cost, n) \in Int
BY SumIs DEF PartialSums

LEMMA SumNat ==
  ASSUME NEW n \in Nat, NEW cost \in [1 .. n -> Nat]
  PROVE  SumTo(cost, n) \in Nat
<1>1. cost \in [1 .. n -> Int]
  OBVIOUS
<1>2. PICK f : PartialSums(cost, n, f) /\ SumTo(cost, n) = f[n]
  BY <1>1, SumIs
<1> DEFINE S == {k \in Nat : k <= n => f[k] \in Nat}
<1>3. 0 \in S
  BY <1>2 DEF PartialSums
<1>4. ASSUME NEW k \in Nat, k \in S PROVE k + 1 \in S
  <2> SUFFICES ASSUME k + 1 <= n PROVE f[k + 1] \in Nat
    OBVIOUS
  <2>1. k + 1 \in 1 .. n /\ (k + 1) - 1 = k /\ k <= n
    OBVIOUS
  <2>2. f[k + 1] = f[k] + cost[k + 1] /\ f[k] \in Nat /\ cost[k + 1] \in Nat
    BY <1>2, <1>4, <2>1 DEF PartialSums
  <2>3. QED
    BY <2>2
<1>5. n \in S
  <2> HIDE DEF S
  <2>1. QED
    BY <1>3, <1>4, Counting
<1>6. QED
  BY <1>2, <1>5

\* One cost changes.
LEMMA SumUpdate ==
  ASSUME NEW n \in Nat, NEW cost \in [1 .. n -> Int], NEW other \in [1 .. n -> Int],
         NEW j \in 1 .. n, \A k \in 1 .. n : k # j => other[k] = cost[k]
  PROVE  SumTo(other, n) = SumTo(cost, n) + other[j] - cost[j]
<1>1. PICK f : PartialSums(cost, n, f) /\ SumTo(cost, n) = f[n]
  BY SumIs
<1>2. PICK g : PartialSums(other, n, g) /\ SumTo(other, n) = g[n]
  BY SumIs
<1> DEFINE more == other[j] - cost[j]
           S == {k \in Nat : k <= n => g[k] = f[k] + IF j <= k THEN more ELSE 0}
<1>3. more \in Int /\ other[j] = cost[j] + more /\ j \in Nat /\ 1 <= j
  OBVIOUS
<1>4. \A k \in 0 .. n : f[k] \in Int /\ g[k] \in Int
  BY <1>1, <1>2 DEF PartialSums
<1> HIDE DEF more
<1>5. 0 \in S
  <2>1. f[0] = 0 /\ g[0] = 0 /\ ~ (j <= 0)
    BY <1>1, <1>2, <1>3 DEF PartialSums
  <2>2. QED
    BY <2>1
<1>6. ASSUME NEW k \in Nat, k \in S PROVE k + 1 \in S
  <2> SUFFICES ASSUME k + 1 <= n
               PROVE  g[k + 1] = f[k + 1] + IF j <= k + 1 THEN more ELSE 0
    OBVIOUS
  <2>1. k + 1 \in 1 .. n /\ (k + 1) - 1 = k /\ k <= n /\ k \in 0 .. n
    OBVIOUS
  <2>2. f[k + 1] = f[k] + cost[k + 1] /\ g[k + 1] = g[k] + other[k + 1]
    BY <1>1, <1>2, <2>1 DEF PartialSums
  <2>3. g[k] = f[k] + IF j <= k THEN more ELSE 0
    BY <1>6, <2>1
  <2>4. f[k] \in Int /\ cost[k + 1] \in Int
    BY <1>4, <2>1
  <2>5. CASE j = k + 1
    <3>1. ~ (j <= k) /\ j <= k + 1 /\ other[k + 1] = cost[k + 1] + more
      BY <1>3, <2>5
    <3>2. QED
      BY <1>3, <2>2, <2>3, <2>4, <3>1
  <2>6. CASE j # k + 1
    <3>1. other[k + 1] = cost[k + 1] /\ (j <= k + 1 <=> j <= k)
      BY <1>3, <2>1, <2>6
    <3>2. CASE j <= k
      BY <1>3, <2>2, <2>3, <2>4, <3>1, <3>2
    <3>3. CASE ~ (j <= k)
      BY <2>2, <2>3, <2>4, <3>1, <3>3
    <3>4. QED
      BY <3>2, <3>3
  <2>7. QED
    BY <2>5, <2>6
<1>7. n \in S
  <2> HIDE DEF S
  <2>1. QED
    BY <1>5, <1>6, Counting
<1>8. j <= n /\ f[n] \in Int /\ cost[j] \in Int /\ other[j] \in Int
  BY <1>4
<1>9. g[n] = f[n] + more
  BY <1>7, <1>8
<1>10. QED
  BY <1>1, <1>2, <1>8, <1>9 DEF more

\* One cost is added.
LEMMA SumAppend ==
  ASSUME NEW n \in Nat, NEW cost \in [1 .. n -> Int], NEW more \in [1 .. n + 1 -> Int],
         \A k \in 1 .. n : more[k] = cost[k]
  PROVE  SumTo(more, n + 1) = SumTo(cost, n) + more[n + 1]
<1>1. PICK f : PartialSums(cost, n, f) /\ SumTo(cost, n) = f[n]
  BY SumIs
<1>2. n + 1 \in Nat
  OBVIOUS
<1>3. PICK g : PartialSums(more, n + 1, g) /\ SumTo(more, n + 1) = g[n + 1]
  BY <1>2, SumIs
<1>4. \A k \in 0 .. n : g[k] = SumStep(cost, g, k)
  <2> TAKE k \in 0 .. n
  <2>1. CASE k = 0
    BY <1>3, <2>1 DEF PartialSums, SumStep
  <2>2. CASE k # 0
    <3>1. k \in 1 .. n /\ k \in 1 .. n + 1
      BY <2>2
    <3>2. g[k] = g[k - 1] + more[k] /\ more[k] = cost[k]
      BY <1>3, <3>1 DEF PartialSums
    <3>3. QED
      BY <2>2, <3>2 DEF SumStep
  <2>3. QED
    BY <2>1, <2>2
<1>5. g[n] = f[n]
  BY <1>1, <1>4, PartialSumsAgree
<1>6. g[n + 1] = g[n] + more[n + 1]
  <2>1. n + 1 \in 1 .. n + 1 /\ (n + 1) - 1 = n
    OBVIOUS
  <2>2. QED
    BY <1>3, <2>1 DEF PartialSums
<1>7. QED
  BY <1>1, <1>3, <1>5, <1>6

LEMMA SumOfNothing ==
  ASSUME NEW n \in Nat, NEW cost \in [1 .. n -> Int], \A k \in 1 .. n : cost[k] = 0
  PROVE  SumTo(cost, n) = 0
<1>1. PICK f : PartialSums(cost, n, f) /\ SumTo(cost, n) = f[n]
  BY SumIs
<1> DEFINE S == {k \in Nat : k <= n => f[k] = 0}
<1>2. 0 \in S
  BY <1>1 DEF PartialSums
<1>3. ASSUME NEW k \in Nat, k \in S PROVE k + 1 \in S
  <2> SUFFICES ASSUME k + 1 <= n PROVE f[k + 1] = 0
    OBVIOUS
  <2>1. k + 1 \in 1 .. n /\ (k + 1) - 1 = k /\ k <= n
    OBVIOUS
  <2>2. f[k + 1] = f[k] + cost[k + 1] /\ f[k] = 0 /\ cost[k + 1] = 0
    BY <1>1, <1>3, <2>1 DEF PartialSums
  <2>3. QED
    BY <2>2
<1>4. n \in S
  <2> HIDE DEF S
  <2>1. QED
    BY <1>2, <1>3, Counting
<1>5. QED
  BY <1>1, <1>4

-----------------------------------------------------------------------------
\* The gates of the decision pass.

LEMMA IsVerdict ==
  ASSUME NEW c \in BOOLEAN, NEW status \in StepStatus, NEW why \in Why
  PROVE  <<c, status, why>> \in Verdict
BY DEF Verdict

\* What is in a list of conditions and verdicts.
LEMMA FirstGate ==
  ASSUME NEW step \in SubAgentTask, NEW opts \in RunOptions, NEW env \in StepEnvironment,
         NEW state, state.ceiling_hit \in BOOLEAN
  PROVE  LET gates == Gates(step, opts, env, state) IN
           /\ DOMAIN gates = 1 .. 13 /\ \A g \in 1 .. 13 : gates[g] \in Verdict
           /\ ~ opts.dry_run => \A g \in 1 .. 13 : gates[g][1] => gates[g][2] # "ok"
           /\ \A g \in 1 .. 13 : gates[g][3] # "call"
           /\ gates[1][1] = (step.depends_on \cap state.unsuccessful # {})
           /\ gates[11][1] = WouldExceed(step, opts, state.running_cost)
           /\ gates[12][1] = opts.dry_run
<1>1. /\ step.executor \in Executor /\ step.allow_write \in BOOLEAN
      /\ opts.dry_run \in BOOLEAN /\ opts.allow_paid \in BOOLEAN
      /\ opts.allow_agents \in BOOLEAN /\ opts.allow_writes \in BOOLEAN
      /\ opts.isolate_all \in BOOLEAN /\ env.available \in BOOLEAN
  BY DEF SubAgentTask, RunOptions, StepEnvironment
<1> DEFINE preview == IF opts.dry_run THEN "ok" ELSE "skipped"
           c1 == step.depends_on \cap state.unsuccessful # {}
           c2 == state.ceiling_hit
           c3 == env.context # "clean"
           c4 == step.executor = "manual"
           c5 == WouldExceed(step, opts, state.running_cost) /\ step.executor = "agent"
           c6 == step.executor = "agent" /\ (opts.dry_run \/ ~ opts.allow_agents)
           c7 == step.executor = "agent" /\ step.allow_write /\ ~ opts.allow_writes
           c8 == step.executor = "agent" /\ ~ env.available
           c9 == NeedsWorkspace(step, opts) /\ env.workspace # "ready"
           c10 == step.executor = "paid" /\ ~ opts.dry_run /\ ~ opts.allow_paid
           c11 == WouldExceed(step, opts, state.running_cost)
           c12 == opts.dry_run
           c13 == ~ env.available
           gates == Gates(step, opts, env, state)
<1>2. gates =
    << <<c1, "skipped", "dependency">>,
       <<c2, "skipped", "ceiling">>,
       <<c3, "blocked", "guardrail">>,
       <<c4, preview, "manual">>,
       <<c5, "blocked", "ceiling">>,
       <<c6, preview, "preview">>,
       <<c7, "blocked", "approval">>,
       <<c8, "failed", "unavailable">>,
       <<c9, "blocked", "workspace">>,
       <<c10, "skipped", "approval">>,
       <<c11, "blocked", "ceiling">>,
       <<c12, "ok", "preview">>,
       <<c13, "failed", "unavailable">> >>
  BY DEF Gates
<1>3. /\ c1 \in BOOLEAN /\ c2 \in BOOLEAN /\ c3 \in BOOLEAN /\ c4 \in BOOLEAN
      /\ c5 \in BOOLEAN /\ c6 \in BOOLEAN /\ c7 \in BOOLEAN /\ c8 \in BOOLEAN
      /\ c9 \in BOOLEAN /\ c10 \in BOOLEAN /\ c11 \in BOOLEAN /\ c12 \in BOOLEAN
      /\ c13 \in BOOLEAN
  BY <1>1 DEF WouldExceed, NeedsWorkspace
<1>4. preview \in {"ok", "skipped"} /\ (~ opts.dry_run => preview = "skipped" /\ ~ c12)
  OBVIOUS
<1>5. /\ c1 = (step.depends_on \cap state.unsuccessful # {})
      /\ c11 = WouldExceed(step, opts, state.running_cost) /\ c12 = opts.dry_run
  OBVIOUS
<1> HIDE DEF preview, gates, c1, c2, c3, c4, c5, c6, c7, c8, c9, c10, c11, c12, c13
<1>6. gates[1] = <<c1, "skipped", "dependency">> /\ gates[1] \in Verdict
  <2>1. gates[1] = <<c1, "skipped", "dependency">>
    BY <1>2
  <2>2. <<c1, "skipped", "dependency">> \in Verdict
    BY <1>3, <1>4, IsVerdict DEF StepStatus, Why
  <2>3. QED
    BY <2>1, <2>2
<1>7. gates[2] = <<c2, "skipped", "ceiling">> /\ gates[2] \in Verdict
  <2>1. gates[2] = <<c2, "skipped", "ceiling">>
    BY <1>2
  <2>2. <<c2, "skipped", "ceiling">> \in Verdict
    BY <1>3, <1>4, IsVerdict DEF StepStatus, Why
  <2>3. QED
    BY <2>1, <2>2
<1>8. gates[3] = <<c3, "blocked", "guardrail">> /\ gates[3] \in Verdict
  <2>1. gates[3] = <<c3, "blocked", "guardrail">>
    BY <1>2
  <2>2. <<c3, "blocked", "guardrail">> \in Verdict
    BY <1>3, <1>4, IsVerdict DEF StepStatus, Why
  <2>3. QED
    BY <2>1, <2>2
<1>9. gates[4] = <<c4, preview, "manual">> /\ gates[4] \in Verdict
  <2>1. gates[4] = <<c4, preview, "manual">>
    BY <1>2
  <2>2. <<c4, preview, "manual">> \in Verdict
    BY <1>3, <1>4, IsVerdict DEF StepStatus, Why
  <2>3. QED
    BY <2>1, <2>2
<1>10. gates[5] = <<c5, "blocked", "ceiling">> /\ gates[5] \in Verdict
  <2>1. gates[5] = <<c5, "blocked", "ceiling">>
    BY <1>2
  <2>2. <<c5, "blocked", "ceiling">> \in Verdict
    BY <1>3, <1>4, IsVerdict DEF StepStatus, Why
  <2>3. QED
    BY <2>1, <2>2
<1>11. gates[6] = <<c6, preview, "preview">> /\ gates[6] \in Verdict
  <2>1. gates[6] = <<c6, preview, "preview">>
    BY <1>2
  <2>2. <<c6, preview, "preview">> \in Verdict
    BY <1>3, <1>4, IsVerdict DEF StepStatus, Why
  <2>3. QED
    BY <2>1, <2>2
<1>12. gates[7] = <<c7, "blocked", "approval">> /\ gates[7] \in Verdict
  <2>1. gates[7] = <<c7, "blocked", "approval">>
    BY <1>2
  <2>2. <<c7, "blocked", "approval">> \in Verdict
    BY <1>3, <1>4, IsVerdict DEF StepStatus, Why
  <2>3. QED
    BY <2>1, <2>2
<1>13. gates[8] = <<c8, "failed", "unavailable">> /\ gates[8] \in Verdict
  <2>1. gates[8] = <<c8, "failed", "unavailable">>
    BY <1>2
  <2>2. <<c8, "failed", "unavailable">> \in Verdict
    BY <1>3, <1>4, IsVerdict DEF StepStatus, Why
  <2>3. QED
    BY <2>1, <2>2
<1>14. gates[9] = <<c9, "blocked", "workspace">> /\ gates[9] \in Verdict
  <2>1. gates[9] = <<c9, "blocked", "workspace">>
    BY <1>2
  <2>2. <<c9, "blocked", "workspace">> \in Verdict
    BY <1>3, <1>4, IsVerdict DEF StepStatus, Why
  <2>3. QED
    BY <2>1, <2>2
<1>15. gates[10] = <<c10, "skipped", "approval">> /\ gates[10] \in Verdict
  <2>1. gates[10] = <<c10, "skipped", "approval">>
    BY <1>2
  <2>2. <<c10, "skipped", "approval">> \in Verdict
    BY <1>3, <1>4, IsVerdict DEF StepStatus, Why
  <2>3. QED
    BY <2>1, <2>2
<1>16. gates[11] = <<c11, "blocked", "ceiling">> /\ gates[11] \in Verdict
  <2>1. gates[11] = <<c11, "blocked", "ceiling">>
    BY <1>2
  <2>2. <<c11, "blocked", "ceiling">> \in Verdict
    BY <1>3, <1>4, IsVerdict DEF StepStatus, Why
  <2>3. QED
    BY <2>1, <2>2
<1>17. gates[12] = <<c12, "ok", "preview">> /\ gates[12] \in Verdict
  <2>1. gates[12] = <<c12, "ok", "preview">>
    BY <1>2
  <2>2. <<c12, "ok", "preview">> \in Verdict
    BY <1>3, <1>4, IsVerdict DEF StepStatus, Why
  <2>3. QED
    BY <2>1, <2>2
<1>18. gates[13] = <<c13, "failed", "unavailable">> /\ gates[13] \in Verdict
  <2>1. gates[13] = <<c13, "failed", "unavailable">>
    BY <1>2
  <2>2. <<c13, "failed", "unavailable">> \in Verdict
    BY <1>3, <1>4, IsVerdict DEF StepStatus, Why
  <2>3. QED
    BY <2>1, <2>2
<1>19. DOMAIN gates = 1 .. 13
  BY <1>2
<1>20. \A g \in 1 .. 13 :
         \/ g = 1 \/ g = 2 \/ g = 3 \/ g = 4 \/ g = 5 \/ g = 6 \/ g = 7
         \/ g = 8 \/ g = 9 \/ g = 10 \/ g = 11 \/ g = 12 \/ g = 13
  OBVIOUS
<1>21. \A g \in 1 .. 13 : gates[g] \in Verdict
  BY <1>20, <1>6, <1>7, <1>8, <1>9, <1>10, <1>11, <1>12, <1>13, <1>14, <1>15, <1>16,
     <1>17, <1>18
<1>22. ~ opts.dry_run => \A g \in 1 .. 13 : gates[g][1] => gates[g][2] # "ok"
  BY <1>4, <1>20, <1>6, <1>7, <1>8, <1>9, <1>10, <1>11, <1>12, <1>13, <1>14, <1>15, <1>16,
     <1>17, <1>18
<1>23. \A g \in 1 .. 13 : gates[g][3] # "call"
  BY <1>20, <1>6, <1>7, <1>8, <1>9, <1>10, <1>11, <1>12, <1>13, <1>14, <1>15, <1>16,
     <1>17, <1>18
<1>24. gates[1][1] = c1 /\ gates[11][1] = c11 /\ gates[12][1] = c12
  BY <1>6, <1>16, <1>17
<1>25. QED
  BY <1>5, <1>19, <1>21, <1>22, <1>23, <1>24 DEF gates

\* The gate that stops a step, or none; without one no dependency was unsuccessful, the
\* projection is within the ceiling and the run is real.
LEMMA GateIs ==
  ASSUME NEW step \in SubAgentTask, NEW opts \in RunOptions, NEW env \in StepEnvironment,
         NEW state \in RunState
  PROVE  LET gate == Gate(step, opts, env, state) IN
           /\ gate \in Verdict \cup {None}
           /\ gate = None => /\ step.depends_on \cap state.unsuccessful = {}
                             /\ ~ WouldExceed(step, opts, state.running_cost)
                             /\ ~ opts.dry_run
           /\ gate # None /\ ~ opts.dry_run => gate[2] # "ok"
           /\ gate # None => gate[3] # "call"
<1> DEFINE gates == Gates(step, opts, env, state)
           closed == {g \in DOMAIN gates : gates[g][1]}
           gate == Gate(step, opts, env, state)
<1>1. state.ceiling_hit \in BOOLEAN
  BY DEF RunState
<1>2. /\ DOMAIN gates = 1 .. 13 /\ \A g \in 1 .. 13 : gates[g] \in Verdict
      /\ ~ opts.dry_run => \A g \in 1 .. 13 : gates[g][1] => gates[g][2] # "ok"
      /\ \A g \in 1 .. 13 : gates[g][3] # "call"
      /\ gates[1][1] = (step.depends_on \cap state.unsuccessful # {})
      /\ gates[11][1] = WouldExceed(step, opts, state.running_cost)
      /\ gates[12][1] = opts.dry_run
  BY <1>1, FirstGate
<1>3. gate = IF closed = {} THEN None
             ELSE gates[CHOOSE g \in closed : \A h \in closed : g <= h]
  BY DEF Gate
<1> HIDE DEF gates, gate
<1>4. closed \in SUBSET Nat /\ closed \subseteq 1 .. 13
  BY <1>2
<1>5. CASE closed = {}
  <2>1. 1 \notin closed /\ 11 \notin closed /\ 12 \notin closed /\ gate = None
    BY <1>3, <1>5
  <2>2. ~ gates[1][1] /\ ~ gates[11][1] /\ ~ gates[12][1]
    BY <1>2, <2>1
  <2>3. QED
    BY <1>2, <2>1, <2>2 DEF gate
<1>6. CASE closed # {}
  <2> DEFINE first == CHOOSE g \in closed : \A h \in closed : g <= h
  <2>1. first = Min(closed)
    BY DEF Min
  <2>2. first \in closed /\ gate = gates[first]
    <3> HIDE DEF closed
    <3>1. QED
      BY <1>3, <1>4, <1>6, <2>1, LeastIndex
  <2> HIDE DEF first
  <2>3. first \in 1 .. 13 /\ gates[first][1]
    BY <1>2, <2>2
  <2>4. gate \in Verdict /\ gate # None
    BY <1>2, <2>2, <2>3, NoneAssumption
  <2>5. gate[3] # "call" /\ (~ opts.dry_run => gate[2] # "ok")
    BY <1>2, <2>2, <2>3
  <2>6. QED
    BY <2>4, <2>5 DEF gate
<1>7. QED
  BY <1>5, <1>6

-----------------------------------------------------------------------------
\* What the steps of the runner do to the run, field by field.

ProjectedCost(r, i) == Projected[r.plan[i].executor]

LEMMA ProjectedIsNat ==
  ASSUME NEW plan \in Seq(SubAgentTask), NEW r, r.plan = plan, NEW i \in DOMAIN plan
  PROVE  plan[i] \in SubAgentTask /\ plan[i].id \in StepId /\ ProjectedCost(r, i) \in Nat
<1>1. plan[i] \in SubAgentTask
  OBVIOUS
<1>2. plan[i].id \in StepId /\ plan[i].executor \in Executor
  BY <1>1 DEF SubAgentTask
<1>3. QED
  BY <1>1, <1>2, ProjectedAssumption DEF ProjectedCost

\* RunState::push.
LEMMA PushIs ==
  ASSUME NEW plan, NEW r \in Running(plan), NEW result \in Result
  PROVE  LET pushed == Push(r, result) IN
         /\ pushed \in Running(plan)
         /\ /\ pushed.id = r.id /\ pushed.plan = r.plan /\ pushed.opts = r.opts
            /\ pushed.waves = r.waves /\ pushed.phase = r.phase /\ pushed.todo = r.todo
            /\ pushed.inflight = r.inflight /\ pushed.responses = r.responses
         /\ pushed.results = Append(r.results, result)
         /\ result.status = "ok" => pushed.state.unsuccessful = r.state.unsuccessful
         /\ result.status # "ok" =>
              pushed.state.unsuccessful = r.state.unsuccessful \cup {result.id}
         /\ pushed.state.running_cost = r.state.running_cost
<1> DEFINE pushed == Push(r, result)
           added == [r EXCEPT !.results = Append(r.results, result)]
           u == IF result.status = "ok" THEN r.state.unsuccessful
                ELSE r.state.unsuccessful \cup {result.id}
           s == [r.state EXCEPT !.unsuccessful = u]
<1>1. r.state \in RunState /\ result.id \in StepId /\ r.results \in Seq(Result)
  BY DEF Running, Result
<1>2. u \in SUBSET StepId
  BY <1>1 DEF RunState
<1>3. /\ s \in RunState /\ s.unsuccessful = u
      /\ s.running_cost = r.state.running_cost
  BY <1>1, <1>2 DEF RunState
<1>4. Append(r.results, result) \in Seq(Result)
  BY <1>1
<1>5. added \in Running(plan) /\ added.state = r.state
  BY <1>4 DEF Running
<1>6. pushed = [added EXCEPT !.state = s]
  BY <1>5 DEF Push, Running
<1> HIDE DEF u, s
<1>7. /\ pushed \in Running(plan) /\ pushed.state = s
      /\ pushed.results = Append(r.results, result)
  BY <1>3, <1>4, <1>6 DEF Running
<1>8. /\ pushed.id = r.id /\ pushed.plan = r.plan /\ pushed.opts = r.opts
      /\ pushed.waves = r.waves /\ pushed.phase = r.phase /\ pushed.todo = r.todo
      /\ pushed.inflight = r.inflight /\ pushed.responses = r.responses
  BY <1>6 DEF Running
<1> HIDE DEF pushed
<1>9. QED
  BY <1>3, <1>7, <1>8 DEF u, pushed

LEMMA ResultIs ==
  ASSUME NEW step \in SubAgentTask, NEW status \in StepStatus, NEW why \in Why, NEW cost \in Nat
  PROVE  LET result == SubAgentResult(step, status, why, cost) IN
         /\ result \in Result /\ result.id = step.id /\ result.status = status
         /\ result.cost = cost /\ result.why = why
<1>1. step.id \in StepId
  BY DEF SubAgentTask
<1>2. QED
  BY <1>1 DEF SubAgentResult, Result

\* The result of a step that a gate stops.
GateResult(i, gate) ==
  SubAgentResult(run.plan[i], gate[2], gate[3], GateCost(run.plan[i], run.opts, gate))

LEMMA GateResultIs ==
  ASSUME NEW plan \in Seq(SubAgentTask), run \in Running(plan), NEW i \in DOMAIN plan,
         NEW gate \in Verdict
  PROVE  /\ GateResult(i, gate) \in Result /\ GateResult(i, gate).id = run.plan[i].id
         /\ GateResult(i, gate).status = gate[2]
         /\ GateResult(i, gate).cost = GateCost(run.plan[i], run.opts, gate)
         /\ GateResult(i, gate).why = gate[3]
<1>1. run.plan = plan
  BY DEF Running
<1>2. gate[2] \in StepStatus /\ gate[3] \in Why
  BY DEF Verdict
<1>3. plan[i] \in SubAgentTask /\ Projected[plan[i].executor] \in Nat
  BY <1>1, ProjectedIsNat DEF ProjectedCost
<1>4. GateCost(plan[i], run.opts, gate) \in Nat
  BY <1>3 DEF GateCost
<1>5. QED
  BY <1>1, <1>2, <1>3, <1>4, ResultIs DEF GateResult

\* A step is decided.
LEMMA DecidedIs ==
  ASSUME NEW plan \in Seq(SubAgentTask), run \in Running(plan), run.phase = "deciding",
         NEW i \in run.todo, NEW gate \in Verdict \cup {None}
  PROVE  LET r == StepDecided(i, gate) IN
         /\ r \in Running(plan)
         /\ /\ r.id = run.id /\ r.opts = run.opts /\ r.waves = run.waves
            /\ r.responses = run.responses /\ r.todo = run.todo \ {i}
         /\ run.todo = {i} => r.phase = "executing"
         /\ run.todo # {i} => r.phase = "deciding"
         /\ Reserves(plan[i], gate) =>
              r.state.running_cost = run.state.running_cost + ProjectedCost(run, i)
         /\ ~ Reserves(plan[i], gate) => r.state.running_cost = run.state.running_cost
         /\ gate = None => /\ r.inflight = run.inflight \cup {i}
                           /\ r.results = run.results
                           /\ r.state.unsuccessful = run.state.unsuccessful
         /\ gate # None =>
              /\ r.inflight = run.inflight
              /\ r.results = Append(run.results, GateResult(i, gate))
              /\ gate[2] = "ok" => r.state.unsuccessful = run.state.unsuccessful
              /\ gate[2] # "ok" =>
                   r.state.unsuccessful = run.state.unsuccessful \cup {plan[i].id}
<1> DEFINE cost == IF Reserves(plan[i], gate)
                   THEN run.state.running_cost + ProjectedCost(run, i)
                   ELSE run.state.running_cost
           state == [run.state EXCEPT !.running_cost = cost]
           phase == IF run.todo = {i} THEN "executing" ELSE "deciding"
           decided == [run EXCEPT !.todo = run.todo \ {i}, !.phase = phase, !.state = state]
           pushed == Push(decided, GateResult(i, gate))
           r == StepDecided(i, gate)
<1>1. /\ run.plan = plan /\ run.state \in RunState /\ i \in DOMAIN plan
      /\ run.todo \in SUBSET DOMAIN plan /\ run.inflight \in SUBSET DOMAIN plan
  BY DEF Running
<1>2. cost \in Int
  <2>1. ProjectedCost(run, i) \in Nat /\ run.state.running_cost \in Int
    BY <1>1, ProjectedIsNat DEF RunState
  <2>2. QED
    BY <2>1
<1>3. /\ state \in RunState /\ state.running_cost = cost
      /\ state.unsuccessful = run.state.unsuccessful
  BY <1>1, <1>2 DEF RunState
<1> DEFINE raw == [run EXCEPT !.todo = @ \ {i},
                    !.phase = IF run.todo = {i} THEN "executing" ELSE @,
                    !.state.running_cost =
                       IF Reserves(run.plan[i], gate) THEN @ + Projected[run.plan[i].executor]
                       ELSE @]
<1>4. decided = raw
  BY <1>1 DEF Running, ProjectedCost
<1>5. r = IF gate = None THEN [decided EXCEPT !.inflight = @ \cup {i}]
          ELSE [pushed EXCEPT !.state.ceiling_hit =
                                @ \/ (gate[2] = "blocked" /\ gate[3] = "ceiling")]
  <2>1. r = IF gate = None THEN [raw EXCEPT !.inflight = @ \cup {i}]
            ELSE [Push(raw, GateResult(i, gate)) EXCEPT !.state.ceiling_hit =
                                @ \/ (gate[2] = "blocked" /\ gate[3] = "ceiling")]
    BY DEF StepDecided, GateResult
  <2> HIDE DEF raw, decided
  <2>2. QED
    BY <1>4, <2>1
<1> HIDE DEF raw
<1> HIDE DEF cost, state
<1>6. decided \in Running(plan)
  BY <1>1, <1>3 DEF Running
<1>7. /\ decided.id = run.id /\ decided.opts = run.opts /\ decided.waves = run.waves
      /\ decided.responses = run.responses /\ decided.todo = run.todo \ {i}
      /\ decided.phase = phase /\ decided.inflight = run.inflight
      /\ decided.results = run.results /\ decided.state = state
  BY DEF Running
<1> HIDE DEF decided, r, phase
<1>8. CASE gate = None
  <2>1. r = [decided EXCEPT !.inflight = run.inflight \cup {i}]
    BY <1>5, <1>7, <1>8
  <2>2. run.inflight \cup {i} \in SUBSET DOMAIN plan
    BY <1>1
  <2>3. /\ r \in Running(plan)
        /\ r.id = decided.id /\ r.opts = decided.opts /\ r.waves = decided.waves
        /\ r.responses = decided.responses /\ r.todo = decided.todo
        /\ r.phase = decided.phase /\ r.inflight = run.inflight \cup {i}
        /\ r.results = decided.results /\ r.state = decided.state
    BY <1>6, <2>1, <2>2 DEF Running
  <2>4. QED
    BY <1>3, <1>7, <1>8, <2>3 DEF phase, cost, r
<1>9. CASE gate # None
  <2>1. /\ gate \in Verdict /\ GateResult(i, gate) \in Result
        /\ GateResult(i, gate).id = plan[i].id /\ GateResult(i, gate).status = gate[2]
    BY <1>1, <1>9, GateResultIs
  <2>2. /\ pushed \in Running(plan)
        /\ pushed.id = decided.id /\ pushed.opts = decided.opts
        /\ pushed.waves = decided.waves /\ pushed.phase = decided.phase
        /\ pushed.todo = decided.todo /\ pushed.inflight = decided.inflight
        /\ pushed.responses = decided.responses
        /\ pushed.results = Append(decided.results, GateResult(i, gate))
        /\ pushed.state.unsuccessful =
             IF gate[2] = "ok" THEN decided.state.unsuccessful
             ELSE decided.state.unsuccessful \cup {plan[i].id}
        /\ pushed.state.running_cost = decided.state.running_cost
    <3> DEFINE result == GateResult(i, gate)
    <3>1. /\ pushed \in Running(plan)
          /\ pushed.id = decided.id /\ pushed.opts = decided.opts
          /\ pushed.waves = decided.waves /\ pushed.phase = decided.phase
          /\ pushed.todo = decided.todo /\ pushed.inflight = decided.inflight
          /\ pushed.responses = decided.responses
          /\ pushed.results = Append(decided.results, result)
          /\ result.status = "ok" =>
               pushed.state.unsuccessful = decided.state.unsuccessful
          /\ result.status # "ok" =>
               pushed.state.unsuccessful = decided.state.unsuccessful \cup {result.id}
          /\ pushed.state.running_cost = decided.state.running_cost
      <4>1. result \in Result /\ pushed = Push(decided, result)
        BY <2>1
      <4> HIDE DEF result, pushed
      <4>2. QED
        BY <1>6, <4>1, PushIs
    <3> HIDE DEF pushed
    <3>2. QED
      BY <2>1, <3>1
  <2> HIDE DEF pushed
  <2> DEFINE hit == pushed.state.ceiling_hit \/ (gate[2] = "blocked" /\ gate[3] = "ceiling")
             closed == [pushed.state EXCEPT !.ceiling_hit = hit]
  <2>3. /\ pushed.state \in RunState /\ hit \in BOOLEAN
        /\ closed \in RunState /\ closed.unsuccessful = pushed.state.unsuccessful
        /\ closed.running_cost = pushed.state.running_cost
    BY <2>2 DEF Running, RunState
  <2>4. r = [pushed EXCEPT !.state = closed]
    BY <1>5, <1>9, <2>2 DEF Running
  <2> HIDE DEF closed
  <2>5. /\ r \in Running(plan) /\ r.state = closed
        /\ r.id = pushed.id /\ r.opts = pushed.opts /\ r.waves = pushed.waves
        /\ r.responses = pushed.responses /\ r.todo = pushed.todo
        /\ r.phase = pushed.phase /\ r.inflight = pushed.inflight
        /\ r.results = pushed.results
    BY <2>2, <2>3, <2>4 DEF Running
  <2>6. QED
    BY <1>3, <1>7, <1>9, <2>2, <2>3, <2>5 DEF phase, cost, r
<1>10. QED
  BY <1>8, <1>9

\* The result of a call.
LEMMA CallResultIs ==
  ASSUME NEW plan \in Seq(SubAgentTask), NEW r \in Running(plan), NEW i \in r.inflight,
         r.responses[i] # None
  PROVE  /\ CallResult(r, i) \in Result /\ CallResult(r, i).id = plan[i].id
         /\ CallResult(r, i).cost = r.responses[i].cost /\ r.responses[i].cost \in Nat
         /\ CallResult(r, i).why = "call"
<1>1. /\ i \in DOMAIN plan /\ r.responses[i] \in Response /\ r.plan = plan
      /\ plan[i] \in SubAgentTask
  BY DEF Running
<1>2. r.responses[i].cost \in Nat
  <2>1. r.responses[i].cost \in Actual \cup {0}
    BY <1>1 DEF Response
  <2>2. Actual \subseteq Nat
    BY RunnerAssumption
  <2> DEFINE cost == r.responses[i].cost
  <2>3. cost \in Actual \cup {0}
    BY <2>1
  <2> HIDE DEF cost
  <2>4. cost \in Nat
    BY <2>2, <2>3
  <2>5. QED
    BY <2>4 DEF cost
<1> DEFINE response == r.responses[i]
           status == IF response.outcome = "ok" THEN "ok" ELSE "failed"
           given == SubAgentResult(plan[i], status, "call", response.cost)
           e == IF plan[i].executor = "agent" /\ response.outcome # "error"
                THEN IF response.complete THEN "complete" ELSE "unavailable"
                ELSE given.evidence
           w == NeedsWorkspace(plan[i], r.opts) /\ response.outcome # "error"
<1>3. /\ given \in Result /\ given.id = plan[i].id /\ given.cost = response.cost
      /\ given.why = "call"
  <2>1. status \in StepStatus /\ "call" \in Why
    BY DEF StepStatus, Why
  <2> HIDE DEF status
  <2>2. QED
    BY <1>1, <1>2, <2>1, ResultIs
<1>4. w \in BOOLEAN
  BY DEF NeedsWorkspace
<1>5. e \in {"unknown", "complete", "unavailable"}
  <2> HIDE DEF given
  <2>1. given.evidence \in {"unknown", "complete", "unavailable"}
    BY <1>3 DEF Result
  <2>2. QED
    BY <2>1
<1>6. CallResult(r, i) = [given EXCEPT !.evidence = e, !.workspace = w]
  BY <1>1 DEF CallResult
<1> HIDE DEF given, e, w
<1>7. QED
  BY <1>2, <1>3, <1>4, <1>5, <1>6 DEF Result

\* A call is finalized.
LEMMA FinalizedIs ==
  ASSUME NEW plan \in Seq(SubAgentTask), NEW r \in Running(plan), NEW i \in r.inflight,
         r.responses[i] # None
  PROVE  LET f == Finalized(r, i) IN
         /\ f \in Running(plan)
         /\ /\ f.id = r.id /\ f.opts = r.opts /\ f.waves = r.waves /\ f.todo = r.todo
            /\ f.phase = r.phase /\ f.inflight = r.inflight \ {i}
            /\ f.responses = [r.responses EXCEPT ![i] = None]
            /\ f.results = Append(r.results, CallResult(r, i))
         /\ CallResult(r, i).status = "ok" => f.state.unsuccessful = r.state.unsuccessful
         /\ CallResult(r, i).status # "ok" =>
              f.state.unsuccessful = r.state.unsuccessful \cup {plan[i].id}
         /\ f.state.running_cost =
              r.state.running_cost + (r.responses[i].cost - ProjectedCost(r, i))
<1> DEFINE result == CallResult(r, i)
           pushed == Push(r, result)
           more == r.responses[i].cost - ProjectedCost(r, i)
           state == [pushed.state EXCEPT !.running_cost = @ + more]
           f == Finalized(r, i)
<1>1. result \in Result /\ result.id = plan[i].id /\ r.responses[i].cost \in Nat
  BY CallResultIs
<1> HIDE DEF result
<1>2. /\ pushed \in Running(plan)
      /\ pushed.id = r.id /\ pushed.opts = r.opts
      /\ pushed.waves = r.waves /\ pushed.phase = r.phase /\ pushed.todo = r.todo
      /\ pushed.inflight = r.inflight /\ pushed.responses = r.responses
      /\ pushed.results = Append(r.results, result)
      /\ result.status = "ok" => pushed.state.unsuccessful = r.state.unsuccessful
      /\ result.status # "ok" =>
           pushed.state.unsuccessful = r.state.unsuccessful \cup {result.id}
      /\ pushed.state.running_cost = r.state.running_cost
  BY <1>1, PushIs
<1> HIDE DEF pushed
<1>3. /\ i \in DOMAIN plan /\ r.plan = plan /\ pushed.state \in RunState
      /\ r.inflight \in SUBSET DOMAIN plan
      /\ r.responses \in [DOMAIN plan -> Response \cup {None}]
  BY <1>2 DEF Running
<1>4. more \in Int
  <2>1. ProjectedCost(r, i) \in Nat
    BY <1>3, ProjectedIsNat
  <2>2. QED
    BY <1>1, <2>1
<1>5. f = [pushed EXCEPT !.inflight = @ \ {i}, !.responses[i] = None,
                         !.state.running_cost = @ + more]
  BY DEF Finalized, Reconcile, ProjectedCost, pushed, result
<1> HIDE DEF more, f
<1>6. /\ state \in RunState /\ state.unsuccessful = pushed.state.unsuccessful
      /\ state.running_cost = pushed.state.running_cost + more
  BY <1>3, <1>4 DEF RunState
<1> DEFINE responses == [r.responses EXCEPT ![i] = None]
<1>7. responses \in [DOMAIN plan -> Response \cup {None}]
  BY <1>3
<1>8. f = [pushed EXCEPT !.inflight = r.inflight \ {i}, !.responses = responses,
                         !.state = state]
  BY <1>2, <1>5 DEF Running
<1> HIDE DEF responses, state
<1>9. /\ f \in Running(plan)
      /\ f.id = pushed.id /\ f.opts = pushed.opts /\ f.waves = pushed.waves
      /\ f.todo = pushed.todo /\ f.phase = pushed.phase /\ f.inflight = r.inflight \ {i}
      /\ f.responses = responses /\ f.results = pushed.results /\ f.state = state
  <2>1. r.inflight \ {i} \in SUBSET DOMAIN plan
    BY <1>3
  <2>2. QED
    BY <1>2, <1>6, <1>7, <1>8, <2>1 DEF Running
<1>10. QED
  BY <1>1, <1>2, <1>6, <1>9 DEF more, f, responses, result

\* The loop over the waves.
LEMMA AtWavesIs ==
  ASSUME NEW plan \in Seq(SubAgentTask), NEW r \in Running(plan),
         NEW waves \in Seq(SUBSET DOMAIN plan)
  PROVE  LET at == AtWaves(r, waves) IN
         /\ at \in Running(plan)
         /\ /\ at.id = r.id /\ at.opts = r.opts /\ at.waves = waves
            /\ at.inflight = r.inflight /\ at.responses = r.responses
            /\ at.results = r.results /\ at.state = r.state
         /\ waves = <<>> => at.todo = {} /\ at.phase = "persisting"
         /\ waves # <<>> => at.todo = waves[1] /\ at.phase = "deciding"
<1> DEFINE todo == IF waves = <<>> THEN {} ELSE Head(waves)
           phase == IF waves = <<>> THEN "persisting" ELSE "deciding"
           at == AtWaves(r, waves)
<1>1. todo \in SUBSET DOMAIN plan
  <2>1. waves # <<>> => Head(waves) \in SUBSET DOMAIN plan
    OBVIOUS
  <2>2. QED
    BY <2>1
<1>2. at = [r EXCEPT !.waves = waves, !.todo = todo, !.phase = phase]
  BY DEF AtWaves
<1>3. /\ waves = <<>> => todo = {} /\ phase = "persisting"
      /\ waves # <<>> => todo = waves[1] /\ phase = "deciding"
      /\ phase \in {"persisting", "deciding"}
  OBVIOUS
<1> HIDE DEF todo, phase, at
<1>4. /\ at \in Running(plan) /\ at.todo = todo /\ at.phase = phase
      /\ at.id = r.id /\ at.opts = r.opts /\ at.waves = waves
      /\ at.inflight = r.inflight /\ at.responses = r.responses
      /\ at.results = r.results /\ at.state = r.state
  BY <1>1, <1>2, <1>3 DEF Running
<1>5. QED
  BY <1>3, <1>4 DEF at

-----------------------------------------------------------------------------
\* The waves of a plan.

ReadyAfter(plan, done) ==
  {i \in DOMAIN plan \ done : plan[i].depends_on \subseteq {plan[j].id : j \in done}}

WavesAfter(plan, f, done) ==
  IF ReadyAfter(plan, done) = {} THEN <<>>
  ELSE <<ReadyAfter(plan, done)>> \o f[done \cup ReadyAfter(plan, done)]

Left(plan, done) == Cardinality(DOMAIN plan \ done)

\* A wave leaves fewer steps for those after it.
LEMMA WaveShrinks ==
  ASSUME NEW plan \in Seq(SubAgentTask), NEW done \in SUBSET DOMAIN plan
  PROVE  /\ Left(plan, done) \in Nat
         /\ done \cup ReadyAfter(plan, done) \in SUBSET DOMAIN plan
         /\ Left(plan, done \cup ReadyAfter(plan, done)) <= Left(plan, done)
         /\ ReadyAfter(plan, done) # {} =>
              Left(plan, done \cup ReadyAfter(plan, done)) < Left(plan, done)
<1> DEFINE ready == ReadyAfter(plan, done)
           rest == DOMAIN plan \ done
           then == DOMAIN plan \ (done \cup ready)
<1>1. ready \subseteq rest
  BY DEF ReadyAfter
<1>2. IsFiniteSet(DOMAIN plan)
  <2>1. DOMAIN plan = 1 .. Len(plan) /\ Len(plan) \in Nat
    OBVIOUS
  <2>2. QED
    BY <2>1, FS_Interval
<1> HIDE DEF ready
<1>3. IsFiniteSet(rest) /\ IsFiniteSet(then)
  <2>1. rest \in SUBSET DOMAIN plan /\ then \in SUBSET DOMAIN plan
    OBVIOUS
  <2>2. QED
    BY <1>2, <2>1, FS_Subset
<1>4. then \in SUBSET rest /\ (ready # {} => then # rest)
  BY <1>1
<1>5. /\ Cardinality(then) <= Cardinality(rest)
      /\ Cardinality(rest) = Cardinality(then) => rest = then
  <2> HIDE DEF rest, then
  <2>1. QED
    BY <1>3, <1>4, FS_Subset
<1>6. Cardinality(rest) \in Nat /\ Cardinality(then) \in Nat
  <2> HIDE DEF rest, then
  <2>1. QED
    BY <1>3, FS_CardinalityType
<1>7. ready # {} => Cardinality(then) < Cardinality(rest)
  <2> HIDE DEF rest, then
  <2>1. QED
    BY <1>4, <1>5, <1>6
<1>8. done \cup ready \in SUBSET DOMAIN plan
  BY <1>1
<1>9. QED
  BY <1>5, <1>6, <1>7, <1>8 DEF Left, ready

LEMMA WavesExist ==
  ASSUME NEW plan \in Seq(SubAgentTask)
  PROVE  \E f : f = [done \in SUBSET DOMAIN plan |-> WavesAfter(plan, f, done)]
<1> DEFINE D == DOMAIN plan
           Upto(g, m) == /\ g = [done \in SUBSET D |-> g[done]]
                         /\ \A done \in SUBSET D : Left(plan, done) <= m =>
                              g[done] = WavesAfter(plan, g, done)
           S == {m \in Nat : \E g : Upto(g, m)}
<1>1. 0 \in S
  <2> DEFINE g == [done \in SUBSET D |-> <<>>]
  <2>1. ASSUME NEW done \in SUBSET D, Left(plan, done) <= 0
        PROVE  g[done] = WavesAfter(plan, g, done)
    <3>1. ReadyAfter(plan, done) = {}
      <4>1. Left(plan, done) \in Nat /\ Left(plan, done \cup ReadyAfter(plan, done)) \in Nat
        BY WaveShrinks
      <4>2. QED
        BY <2>1, <4>1, WaveShrinks
    <3>2. QED
      BY <3>1 DEF WavesAfter
  <2>2. g = [done \in SUBSET D |-> g[done]]
    OBVIOUS
  <2> HIDE DEF g
  <2>3. Upto(g, 0)
    BY <2>1, <2>2
  <2>4. QED
    BY <2>3
<1>2. ASSUME NEW m \in Nat, m \in S PROVE m + 1 \in S
  <2>1. PICK g : Upto(g, m)
    BY <1>2
  <2> DEFINE h == [done \in SUBSET D |-> IF Left(plan, done) <= m THEN g[done]
                                         ELSE WavesAfter(plan, g, done)]
  <2>2. ASSUME NEW done \in SUBSET D, Left(plan, done) <= m + 1
        PROVE  h[done] = WavesAfter(plan, h, done)
    <3> DEFINE ready == ReadyAfter(plan, done)
               next == done \cup ready
    <3>1. /\ Left(plan, done) \in Nat /\ next \in SUBSET D /\ Left(plan, next) \in Nat
          /\ ready # {} => Left(plan, next) < Left(plan, done)
      <4>1. next \in SUBSET D /\ Left(plan, done) \in Nat
            /\ (ready # {} => Left(plan, next) < Left(plan, done))
        BY WaveShrinks
      <4> HIDE DEF next
      <4>2. QED
        BY <4>1, WaveShrinks
    <3>2. h[done] = WavesAfter(plan, g, done)
      <4>1. CASE Left(plan, done) <= m
        BY <2>1, <4>1
      <4>2. CASE ~ (Left(plan, done) <= m)
        BY <4>2
      <4>3. QED
        BY <4>1, <4>2
    <3>3. ready # {} => h[next] = g[next]
      <4> SUFFICES ASSUME ready # {} PROVE h[next] = g[next]
        OBVIOUS
      <4>1. Left(plan, next) <= m
        BY <2>2, <3>1
      <4> HIDE DEF next
      <4>2. QED
        BY <3>1, <4>1
    <3> HIDE DEF h
    <3>4. QED
      BY <3>2, <3>3 DEF WavesAfter
  <2>3. h = [done \in SUBSET D |-> h[done]]
    OBVIOUS
  <2> HIDE DEF h
  <2>4. Upto(h, m + 1)
    BY <2>2, <2>3
  <2> HIDE DEF Upto
  <2>5. QED
    BY <2>4
<1>3. Left(plan, {}) \in Nat /\ \A done \in SUBSET D : Left(plan, done) <= Left(plan, {})
  <2>1. IsFiniteSet(D)
    <3>1. D = 1 .. Len(plan) /\ Len(plan) \in Nat
      OBVIOUS
    <3>2. QED
      BY <3>1, FS_Interval
  <2>2. \A done \in SUBSET D : Cardinality(D \ done) <= Cardinality(D)
    <3> TAKE done \in SUBSET D
    <3>1. D \ done \in SUBSET D
      OBVIOUS
    <3> HIDE DEF D
    <3>2. QED
      BY <2>1, <3>1, FS_Subset
  <2>3. D \ {} = D
    OBVIOUS
  <2>4. Cardinality(D) \in Nat
    BY <2>1, FS_CardinalityType
  <2> HIDE DEF D
  <2>5. QED
    BY <2>2, <2>3, <2>4 DEF Left, D
<1>4. Left(plan, {}) \in S
  <2> HIDE DEF S
  <2>1. QED
    BY <1>1, <1>2, <1>3, Counting
<1>5. PICK f : Upto(f, Left(plan, {}))
  BY <1>4
<1>6. /\ f = [done \in SUBSET D |-> f[done]]
      /\ \A done \in SUBSET D : f[done] = WavesAfter(plan, f, done)
  BY <1>3, <1>5
<1>7. f = [done \in SUBSET D |-> WavesAfter(plan, f, done)]
  BY <1>6
<1>8. QED
  BY <1>7

\* Every step of a wave depends on steps done before, or of earlier waves, and is
\* in that wave alone.
DependsOnEarlier(plan, done, waves) ==
  /\ waves \in Seq(SUBSET DOMAIN plan)
  /\ \A w \in DOMAIN waves : waves[w] # {} /\ waves[w] \cap done = {}
  /\ \A v, w \in DOMAIN waves : waves[v] \cap waves[w] # {} => v = w
  /\ \A w \in DOMAIN waves : \A i \in waves[w] : \A d \in plan[i].depends_on :
       \/ d \in {plan[j].id : j \in done}
       \/ \E v \in DOMAIN waves : v < w /\ d \in {plan[j].id : j \in waves[v]}

\* A wave before waves that keep to the order.
LEMMA EarlierWave ==
  ASSUME NEW plan \in Seq(SubAgentTask), NEW done \in SUBSET DOMAIN plan,
         NEW ready, ready = ReadyAfter(plan, done), ready # {},
         NEW waves, DependsOnEarlier(plan, done \cup ready, waves)
  PROVE  DependsOnEarlier(plan, done, <<ready>> \o waves)
<1> DEFINE all == <<ready>> \o waves
<1>1. ready \in SUBSET DOMAIN plan /\ waves \in Seq(SUBSET DOMAIN plan)
  BY DEF ReadyAfter, DependsOnEarlier
<1>2. <<ready>> \in Seq(SUBSET DOMAIN plan)
  BY <1>1
<1>3. /\ all \in Seq(SUBSET DOMAIN plan) /\ Len(all) = Len(waves) + 1 /\ all[1] = ready
      /\ Len(waves) \in Nat /\ DOMAIN all = 1 .. Len(waves) + 1
      /\ DOMAIN waves = 1 .. Len(waves)
      /\ \A w \in 1 .. Len(waves) : all[w + 1] = waves[w]
  BY <1>1, <1>2
<1> HIDE DEF all
<1>4. \A w \in DOMAIN all : w = 1 \/ (w # 1 /\ w - 1 \in DOMAIN waves /\ all[w] = waves[w - 1])
  <2> TAKE w \in DOMAIN all
  <2>1. CASE w # 1
    <3>1. w - 1 \in 1 .. Len(waves) /\ (w - 1) + 1 = w
      BY <1>3, <2>1
    <3>2. all[(w - 1) + 1] = waves[w - 1]
      BY <1>3, <3>1
    <3>3. QED
      BY <1>3, <2>1, <3>1, <3>2
  <2>2. QED
    BY <2>1
<1>5. \A w \in DOMAIN all : all[w] # {} /\ all[w] \cap done = {}
  <2> TAKE w \in DOMAIN all
  <2>1. CASE w = 1
    BY <1>3, <2>1 DEF ReadyAfter
  <2>2. CASE w # 1
    BY <1>4, <2>2 DEF DependsOnEarlier
  <2>3. QED
    BY <2>1, <2>2
<1>6. \A w \in DOMAIN all : w # 1 => all[w] \cap all[1] = {}
  BY <1>3, <1>4 DEF DependsOnEarlier
<1>7. ASSUME NEW v \in DOMAIN all, NEW w \in DOMAIN all, all[v] \cap all[w] # {}
      PROVE  v = w
  <2>1. CASE v # 1 /\ w # 1
    <3>1. /\ v - 1 \in DOMAIN waves /\ all[v] = waves[v - 1]
          /\ w - 1 \in DOMAIN waves /\ all[w] = waves[w - 1]
      BY <1>4, <2>1
    <3>2. v - 1 = w - 1
      BY <1>7, <3>1 DEF DependsOnEarlier
    <3>3. QED
      BY <1>3, <3>2
  <2>2. QED
    BY <1>6, <1>7, <2>1
<1>8. ASSUME NEW w \in DOMAIN all, NEW i \in all[w], NEW d \in plan[i].depends_on
      PROVE  \/ d \in {plan[j].id : j \in done}
             \/ \E v \in DOMAIN all : v < w /\ d \in {plan[j].id : j \in all[v]}
  <2>1. CASE w = 1
    BY <1>3, <2>1 DEF ReadyAfter
  <2>2. CASE w # 1
    <3>1. w - 1 \in DOMAIN waves /\ all[w] = waves[w - 1] /\ w \in Nat /\ 1 < w /\ 1 \in DOMAIN all
      BY <1>3, <1>4, <2>2
    <3>2. CASE d \in {plan[j].id : j \in done \cup ready}
      <4>1. d \in {plan[j].id : j \in done} \/ d \in {plan[j].id : j \in ready}
        BY <3>2
      <4>2. QED
        BY <1>3, <3>1, <4>1
    <3>3. CASE \E v \in DOMAIN waves : v < w - 1 /\ d \in {plan[j].id : j \in waves[v]}
      <4>1. PICK v \in DOMAIN waves : v < w - 1 /\ d \in {plan[j].id : j \in waves[v]}
        BY <3>3
      <4>2. v + 1 \in DOMAIN all /\ v + 1 < w /\ all[v + 1] = waves[v]
        BY <1>3, <3>1, <4>1
      <4>3. QED
        BY <4>1, <4>2
    <3>4. QED
      BY <3>1, <3>2, <3>3 DEF DependsOnEarlier
  <2>3. QED
    BY <2>1, <2>2
<1>9. QED
  BY <1>3, <1>5, <1>8, <1>7 DEF DependsOnEarlier, all

LEMMA WavesKeepTheOrder ==
  ASSUME NEW plan \in Seq(SubAgentTask)
  PROVE  DependsOnEarlier(plan, {}, WavesFrom(plan))
<1> DEFINE Is(f) == f = [done \in SUBSET DOMAIN plan |-> WavesAfter(plan, f, done)]
           f == CHOOSE f : Is(f)
           S == {m \in Nat : \A done \in SUBSET DOMAIN plan :
                   Left(plan, done) <= m => DependsOnEarlier(plan, done, f[done])}
<1>1. WavesFrom(plan) = f[{}]
  BY DEF WavesFrom, WavesAfter, ReadyAfter
<1>2. Is(f)
  <2>1. \E g : Is(g)
    BY WavesExist
  <2> HIDE DEF Is
  <2>2. QED
    BY <2>1
<1> HIDE DEF f
<1>3. \A done \in SUBSET DOMAIN plan : f[done] = WavesAfter(plan, f, done)
  BY <1>2
<1>4. ASSUME NEW done \in SUBSET DOMAIN plan, ReadyAfter(plan, done) = {}
      PROVE  DependsOnEarlier(plan, done, f[done])
  <2>1. f[done] = <<>>
    BY <1>3, <1>4 DEF WavesAfter
  <2>2. QED
    BY <2>1 DEF DependsOnEarlier
<1>5. 0 \in S
  <2>1. ASSUME NEW done \in SUBSET DOMAIN plan, Left(plan, done) <= 0
        PROVE  ReadyAfter(plan, done) = {}
    <3>1. Left(plan, done) \in Nat /\ Left(plan, done \cup ReadyAfter(plan, done)) \in Nat
      BY WaveShrinks
    <3>2. QED
      BY <2>1, <3>1, WaveShrinks
  <2>2. QED
    BY <1>4, <2>1
<1>6. ASSUME NEW m \in Nat, m \in S PROVE m + 1 \in S
  <2> SUFFICES ASSUME NEW done \in SUBSET DOMAIN plan, Left(plan, done) <= m + 1,
                      ReadyAfter(plan, done) # {}
               PROVE  DependsOnEarlier(plan, done, f[done])
    BY <1>4
  <2> DEFINE ready == ReadyAfter(plan, done)
             next == done \cup ready
  <2>1. /\ next \in SUBSET DOMAIN plan /\ Left(plan, done) \in Nat
        /\ Left(plan, next) < Left(plan, done)
    BY WaveShrinks
  <2>2. Left(plan, next) \in Nat
    <3> HIDE DEF next
    <3>1. QED
      BY <2>1, WaveShrinks
  <2>3. f[done] = <<ready>> \o f[next]
    BY <1>3 DEF WavesAfter
  <2> HIDE DEF ready
  <2>4. Left(plan, next) <= m
    BY <2>1, <2>2
  <2>5. DependsOnEarlier(plan, done \cup ready, f[next])
    BY <1>6, <2>1, <2>4
  <2>6. QED
    BY <2>3, <2>5, EarlierWave DEF ready
<1>7. \A m \in Nat : m \in S
  <2> HIDE DEF S
  <2>1. QED
    BY <1>5, <1>6, Counting
<1>8. {} \in SUBSET DOMAIN plan /\ Left(plan, {}) \in Nat
  BY WaveShrinks
<1>9. DependsOnEarlier(plan, {}, f[{}])
  BY <1>7, <1>8
<1>10. QED
  BY <1>1, <1>9

-----------------------------------------------------------------------------
\* What a run has reserved for its calls, what of it the calls may still come to, and
\* what those still running may.

Charged(r, i) == Min({r.responses[i].cost, ProjectedCost(r, i)})

ReservedCosts(r) ==
  [i \in DOMAIN r.plan |-> IF i \in r.inflight THEN ProjectedCost(r, i) ELSE 0]
OwedCosts(r) ==
  [i \in DOMAIN r.plan |->
     IF i \notin r.inflight THEN 0
     ELSE ProjectedCost(r, i) - IF r.responses[i] = None THEN 0 ELSE Charged(r, i)]
OpenCosts(r) ==
  [i \in DOMAIN r.plan |->
     IF i \in r.inflight /\ r.responses[i] = None THEN ProjectedCost(r, i) ELSE 0]

ReservedSum(r) == SumTo(ReservedCosts(r), Len(r.plan))
OwedSum(r) == SumTo(OwedCosts(r), Len(r.plan))
OpenSum(r) == SumTo(OpenCosts(r), Len(r.plan))

LEMMA LesserIs ==
  ASSUME NEW a \in Nat, NEW b \in Nat
  PROVE  Min({a, b}) \in Nat /\ Min({a, b}) <= a /\ Min({a, b}) <= b
<1>1. {a, b} \in SUBSET Nat /\ {a, b} # {}
  OBVIOUS
<1>2. Min({a, b}) \in {a, b} /\ \A y \in {a, b} : Min({a, b}) <= y
  BY <1>1, LeastIndex
<1>3. QED
  BY <1>2

LEMMA ChargedIs ==
  ASSUME NEW plan \in Seq(SubAgentTask), NEW r \in Running(plan), NEW i \in DOMAIN plan,
         r.responses[i] # None
  PROVE  /\ r.responses[i].cost \in Nat /\ Charged(r, i) \in Nat
         /\ Charged(r, i) <= ProjectedCost(r, i) /\ Charged(r, i) <= r.responses[i].cost
<1>1. r.responses[i] \in Response /\ r.plan = plan
  BY DEF Running
<1> DEFINE cost == r.responses[i].cost
<1>2. cost \in Actual \cup {0}
  BY <1>1 DEF Response
<1>3. cost \in Nat
  <2>1. Actual \subseteq Nat
    BY RunnerAssumption
  <2> HIDE DEF cost
  <2>2. QED
    BY <1>2, <2>1
<1>4. ProjectedCost(r, i) \in Nat
  BY <1>1, ProjectedIsNat
<1> HIDE DEF cost
<1>5. QED
  BY <1>3, <1>4, LesserIs DEF Charged, cost

LEMMA CostsAre ==
  ASSUME NEW plan \in Seq(SubAgentTask), NEW r \in Running(plan)
  PROVE  /\ r.plan = plan /\ DOMAIN plan = 1 .. Len(plan) /\ Len(plan) \in Nat
         /\ ReservedCosts(r) \in [1 .. Len(plan) -> Nat]
         /\ OwedCosts(r) \in [1 .. Len(plan) -> Nat]
         /\ OpenCosts(r) \in [1 .. Len(plan) -> Nat]
<1>1. r.plan = plan /\ DOMAIN plan = 1 .. Len(plan) /\ Len(plan) \in Nat
  BY DEF Running
<1>2. \A i \in DOMAIN plan : ProjectedCost(r, i) \in Nat
  BY <1>1, ProjectedIsNat
<1>3. ASSUME NEW i \in DOMAIN plan
      PROVE  /\ (IF i \in r.inflight THEN ProjectedCost(r, i) ELSE 0) \in Nat
             /\ (IF i \in r.inflight /\ r.responses[i] = None
                 THEN ProjectedCost(r, i) ELSE 0) \in Nat
  BY <1>2
<1>4. ASSUME NEW i \in DOMAIN plan
      PROVE  (IF i \notin r.inflight THEN 0
              ELSE ProjectedCost(r, i) - IF r.responses[i] = None THEN 0 ELSE Charged(r, i))
               \in Nat
  <2>1. CASE r.responses[i] = None
    BY <1>2, <2>1
  <2>2. CASE r.responses[i] # None
    <3>1. Charged(r, i) \in Nat /\ Charged(r, i) <= ProjectedCost(r, i)
      BY <2>2, ChargedIs
    <3>2. QED
      BY <1>2, <2>2, <3>1
  <2>3. QED
    BY <2>1, <2>2
<1>5. ReservedCosts(r) \in [1 .. Len(plan) -> Nat]
  BY <1>1, <1>3 DEF ReservedCosts
<1>6. OwedCosts(r) \in [1 .. Len(plan) -> Nat]
  BY <1>1, <1>4 DEF OwedCosts
<1>7. OpenCosts(r) \in [1 .. Len(plan) -> Nat]
  BY <1>1, <1>3 DEF OpenCosts
<1>8. QED
  BY <1>1, <1>5, <1>6, <1>7

LEMMA SumsAre ==
  ASSUME NEW plan \in Seq(SubAgentTask), NEW r \in Running(plan)
  PROVE  ReservedSum(r) \in Nat /\ OwedSum(r) \in Nat /\ OpenSum(r) \in Nat
<1>1. /\ r.plan = plan /\ Len(plan) \in Nat
      /\ ReservedCosts(r) \in [1 .. Len(plan) -> Nat]
      /\ OwedCosts(r) \in [1 .. Len(plan) -> Nat]
      /\ OpenCosts(r) \in [1 .. Len(plan) -> Nat]
  BY CostsAre
<1>2. QED
  BY <1>1, SumNat DEF ReservedSum, OwedSum, OpenSum

\* One call of the run changes.
LEMMA SumsChange ==
  ASSUME NEW plan \in Seq(SubAgentTask), NEW r \in Running(plan), NEW s \in Running(plan),
         NEW j \in DOMAIN plan,
         \A k \in DOMAIN plan : k # j => /\ k \in s.inflight <=> k \in r.inflight
                                         /\ s.responses[k] = r.responses[k]
  PROVE  /\ ReservedSum(s) = ReservedSum(r) + ReservedCosts(s)[j] - ReservedCosts(r)[j]
         /\ OwedSum(s) = OwedSum(r) + OwedCosts(s)[j] - OwedCosts(r)[j]
         /\ OpenSum(s) = OpenSum(r) + OpenCosts(s)[j] - OpenCosts(r)[j]
<1>1. /\ r.plan = plan /\ s.plan = plan /\ DOMAIN plan = 1 .. Len(plan) /\ Len(plan) \in Nat
      /\ ReservedCosts(r) \in [1 .. Len(plan) -> Int]
      /\ OwedCosts(r) \in [1 .. Len(plan) -> Int]
      /\ OpenCosts(r) \in [1 .. Len(plan) -> Int]
      /\ ReservedCosts(s) \in [1 .. Len(plan) -> Int]
      /\ OwedCosts(s) \in [1 .. Len(plan) -> Int]
      /\ OpenCosts(s) \in [1 .. Len(plan) -> Int]
  <2>1. Nat \subseteq Int
    OBVIOUS
  <2>2. \A f \in [1 .. Len(plan) -> Nat] : f \in [1 .. Len(plan) -> Int]
    BY <2>1
  <2>3. QED
    BY <2>2, CostsAre
<1>2. ASSUME NEW k \in DOMAIN plan, k # j
      PROVE  /\ ReservedCosts(s)[k] = ReservedCosts(r)[k]
             /\ OwedCosts(s)[k] = OwedCosts(r)[k] /\ OpenCosts(s)[k] = OpenCosts(r)[k]
  <2>1. /\ k \in s.inflight <=> k \in r.inflight
        /\ s.responses[k] = r.responses[k]
        /\ ProjectedCost(s, k) = ProjectedCost(r, k)
    BY <1>1, <1>2 DEF ProjectedCost
  <2>2. Charged(s, k) = Charged(r, k)
    BY <2>1 DEF Charged
  <2>3. ReservedCosts(s)[k] = ReservedCosts(r)[k] /\ OpenCosts(s)[k] = OpenCosts(r)[k]
    BY <1>1, <2>1 DEF ReservedCosts, OpenCosts
  <2>4. OwedCosts(s)[k] = OwedCosts(r)[k]
    BY <1>1, <2>1, <2>2 DEF OwedCosts
  <2>5. QED
    BY <2>3, <2>4
<1>3. j \in 1 .. Len(plan)
  BY <1>1
<1>4. SumTo(ReservedCosts(s), Len(plan)) =
        SumTo(ReservedCosts(r), Len(plan)) + ReservedCosts(s)[j] - ReservedCosts(r)[j]
  BY <1>1, <1>2, <1>3, SumUpdate
<1>5. SumTo(OwedCosts(s), Len(plan)) =
        SumTo(OwedCosts(r), Len(plan)) + OwedCosts(s)[j] - OwedCosts(r)[j]
  BY <1>1, <1>2, <1>3, SumUpdate
<1>6. SumTo(OpenCosts(s), Len(plan)) =
        SumTo(OpenCosts(r), Len(plan)) + OpenCosts(s)[j] - OpenCosts(r)[j]
  BY <1>1, <1>2, <1>3, SumUpdate
<1>7. QED
  BY <1>1, <1>4, <1>5, <1>6 DEF ReservedSum, OwedSum, OpenSum

\* No call of the run changes.
LEMMA SumsSame ==
  ASSUME NEW plan, NEW r \in Running(plan), NEW s \in Running(plan),
         s.inflight = r.inflight, s.responses = r.responses
  PROVE  /\ ReservedSum(s) = ReservedSum(r) /\ OwedSum(s) = OwedSum(r)
         /\ OpenSum(s) = OpenSum(r)
<1>1. r.plan = plan /\ s.plan = plan
  BY DEF Running
<1>2. /\ ReservedCosts(s) = ReservedCosts(r) /\ OwedCosts(s) = OwedCosts(r)
      /\ OpenCosts(s) = OpenCosts(r)
  BY <1>1 DEF ReservedCosts, OwedCosts, OpenCosts, ProjectedCost, Charged
<1>3. QED
  BY <1>1, <1>2 DEF ReservedSum, OwedSum, OpenSum

LEMMA SumsOfNothing ==
  ASSUME NEW plan \in Seq(SubAgentTask), NEW r \in Running(plan), r.inflight = {}
  PROVE  ReservedSum(r) = 0 /\ OwedSum(r) = 0 /\ OpenSum(r) = 0
<1>1. /\ r.plan = plan /\ DOMAIN plan = 1 .. Len(plan) /\ Len(plan) \in Nat
      /\ ReservedCosts(r) \in [1 .. Len(plan) -> Int]
      /\ OwedCosts(r) \in [1 .. Len(plan) -> Int]
      /\ OpenCosts(r) \in [1 .. Len(plan) -> Int]
  <2>1. Nat \subseteq Int
    OBVIOUS
  <2>2. \A f \in [1 .. Len(plan) -> Nat] : f \in [1 .. Len(plan) -> Int]
    BY <2>1
  <2>3. QED
    BY <2>2, CostsAre
<1>2. \A k \in 1 .. Len(plan) :
        ReservedCosts(r)[k] = 0 /\ OwedCosts(r)[k] = 0 /\ OpenCosts(r)[k] = 0
  BY <1>1 DEF ReservedCosts, OwedCosts, OpenCosts
<1>3. QED
  BY <1>1, <1>2, SumOfNothing DEF ReservedSum, OwedSum, OpenSum

\* The cost of the results.
LEMMA TotalIs ==
  ASSUME NEW plan, NEW r \in Running(plan)
  PROVE  TotalCost(r) \in Nat
<1>1. r.results \in Seq(Result)
  BY DEF Running
<1>2. \A k \in DOMAIN r.results : r.results[k] \in Result
  BY <1>1
<1>3. \A k \in DOMAIN r.results : r.results[k].cost \in Nat
  BY <1>2 DEF Result
<1>4. DOMAIN r.results = 1 .. Len(r.results) /\ Len(r.results) \in Nat
  BY <1>1
<1>5. QED
  BY <1>3, <1>4, SumNat DEF TotalCost

LEMMA TotalGrows ==
  ASSUME NEW plan, NEW r \in Running(plan), NEW result \in Result,
         NEW s, s.results = Append(r.results, result)
  PROVE  TotalCost(s) = TotalCost(r) + result.cost
<1>1. r.results \in Seq(Result) /\ result.cost \in Nat
  BY DEF Running, Result
<1>2. \A k \in DOMAIN r.results : r.results[k] \in Result
  BY <1>1
<1>3. \A k \in DOMAIN r.results : r.results[k].cost \in Int
  BY <1>2 DEF Result
<1>4. /\ DOMAIN r.results = 1 .. Len(r.results) /\ Len(r.results) \in Nat
      /\ DOMAIN s.results = 1 .. Len(r.results) + 1 /\ Len(s.results) = Len(r.results) + 1
      /\ \A k \in 1 .. Len(r.results) : s.results[k] = r.results[k]
      /\ s.results[Len(r.results) + 1] = result
  BY <1>1
<1> DEFINE n == Len(r.results)
           cost == [k \in 1 .. n |-> r.results[k].cost]
           more == [k \in 1 .. n + 1 |-> s.results[k].cost]
<1>5. /\ cost \in [1 .. n -> Int] /\ more \in [1 .. n + 1 -> Int]
      /\ \A k \in 1 .. n : more[k] = cost[k]
      /\ more[n + 1] = result.cost
  <2>1. \A k \in 1 .. n + 1 : k \in 1 .. n \/ k = n + 1
    BY <1>4
  <2>2. n + 1 \in 1 .. n + 1 /\ \A k \in 1 .. n : k \in 1 .. n + 1
    BY <1>4
  <2>3. \A k \in 1 .. n + 1 : s.results[k].cost \in Int
    BY <1>1, <1>3, <1>4, <2>1
  <2>4. QED
    BY <1>3, <1>4, <2>2, <2>3
<1>6. SumTo(more, n + 1) = SumTo(cost, n) + more[n + 1]
  <2> HIDE DEF more, cost
  <2>1. QED
    BY <1>4, <1>5, SumAppend
<1>7. QED
  BY <1>4, <1>5, <1>6 DEF TotalCost

-----------------------------------------------------------------------------
\* What holds of a run from its start to its end.

Landed(r) == {r.results[k].id : k \in DOMAIN r.results}

Placed(r) ==
  /\ r.plan \in Plans /\ r \in Running(r.plan)
  /\ \A i \in DOMAIN r.plan : r.responses[i] # None => i \in r.inflight

(* The wave at hand: its steps are to decide, in flight, or have a result. *)
Staged(r) ==
  /\ r.phase = "deciding" => r.todo # {} /\ \A i \in DOMAIN r.plan : r.responses[i] = None
  /\ r.phase # "deciding" => r.todo = {}
  /\ r.phase \in {"deciding", "executing"} =>
       /\ r.waves # <<>> /\ r.todo \cup r.inflight \subseteq r.waves[1]
       /\ \A i \in r.waves[1] : i \in r.todo \cup r.inflight \/ r.plan[i].id \in Landed(r)
  /\ r.phase \in {"persisting", "persisted", "ended"} => r.inflight = {}
  /\ r.todo \cap r.inflight = {}
  /\ r.opts.dry_run => r.inflight = {}

(* The waves to come depend on results and earlier waves alone. *)
WavesOrdered(r) ==
  /\ \A w \in DOMAIN r.waves : r.waves[w] # {}
  /\ \A w \in DOMAIN r.waves : \A i \in r.waves[w] : \A d \in r.plan[i].depends_on :
       \/ d \in Landed(r)
       \/ \E v \in DOMAIN r.waves : v < w /\ d \in {r.plan[j].id : j \in r.waves[v]}

EndedWell(r, d) ==
  \E k \in DOMAIN r.results : r.results[k].id = d /\ r.results[k].status = "ok"

(* What did not end well is known, and no call runs on it. *)
CallsOrdered(r) ==
  /\ \A k \in DOMAIN r.results :
       r.results[k].status # "ok" => r.results[k].id \in r.state.unsuccessful
  /\ \A i \in r.inflight : \A d \in r.plan[i].depends_on : EndedWell(r, d)

(* The running cost of a real run: its results, and what its calls have reserved. *)
Balanced(r) == ~ r.opts.dry_run => r.state.running_cost = TotalCost(r) + ReservedSum(r)

RunOK(r) == Placed(r) /\ Staged(r) /\ WavesOrdered(r) /\ CallsOrdered(r) /\ Balanced(r)

LEMMA PlacedIs ==
  ASSUME NEW r, Placed(r)
  PROVE  /\ r.plan \in Seq(SubAgentTask) /\ r \in Running(r.plan) /\ r # NoRun
         /\ r.todo \in SUBSET DOMAIN r.plan /\ r.inflight \in SUBSET DOMAIN r.plan
         /\ DOMAIN r.plan = 1 .. Len(r.plan) /\ Len(r.plan) \in Nat
         /\ r.results \in Seq(Result) /\ r.state \in RunState /\ r.opts \in RunOptions
         /\ r.responses \in [DOMAIN r.plan -> Response \cup {None}]
         /\ r.waves \in Seq(SUBSET DOMAIN r.plan)
         /\ r.phase \in {"deciding", "executing", "persisting", "persisted", "ended", "error"}
<1>1. r.plan \in Seq(SubAgentTask) /\ r \in Running(r.plan)
  BY AutoLoopAssumption DEF Placed
<1>2. /\ r.todo \in SUBSET DOMAIN r.plan /\ r.inflight \in SUBSET DOMAIN r.plan
      /\ r.results \in Seq(Result) /\ r.state \in RunState /\ r.opts \in RunOptions
      /\ r.responses \in [DOMAIN r.plan -> Response \cup {None}]
      /\ r.waves \in Seq(SUBSET DOMAIN r.plan)
      /\ r.phase \in {"deciding", "executing", "persisting", "persisted", "ended", "error"}
  BY <1>1 DEF Running
<1>3. r # NoRun
  BY <1>2 DEF NoRun
<1>4. QED
  BY <1>1, <1>2, <1>3

\* A result more.
LEMMA ResultAdded ==
  ASSUME NEW r, r.results \in Seq(Result), NEW result \in Result,
         NEW s, s.results = Append(r.results, result)
  PROVE  /\ \A k \in DOMAIN r.results : k \in DOMAIN s.results /\ s.results[k] = r.results[k]
         /\ \A k \in DOMAIN s.results :
              \/ k \in DOMAIN r.results /\ s.results[k] = r.results[k]
              \/ s.results[k] = result
         /\ Landed(s) = Landed(r) \cup {result.id}
         /\ \A d : EndedWell(r, d) => EndedWell(s, d)
<1>1. /\ DOMAIN r.results = 1 .. Len(r.results) /\ Len(r.results) \in Nat
      /\ DOMAIN s.results = 1 .. Len(r.results) + 1
      /\ \A k \in 1 .. Len(r.results) : s.results[k] = r.results[k]
      /\ s.results[Len(r.results) + 1] = result
  OBVIOUS
<1>2. \A k \in DOMAIN s.results : k \in DOMAIN r.results \/ k = Len(r.results) + 1
  BY <1>1
<1>3. \A k \in DOMAIN r.results : k \in DOMAIN s.results /\ s.results[k] = r.results[k]
  BY <1>1
<1>4. \A k \in DOMAIN s.results :
        \/ k \in DOMAIN r.results /\ s.results[k] = r.results[k]
        \/ s.results[k] = result
  BY <1>1, <1>2
<1>5. Landed(s) = Landed(r) \cup {result.id}
  <2>1. Len(r.results) + 1 \in DOMAIN s.results
    BY <1>1
  <2>2. QED
    BY <1>1, <1>3, <1>4, <2>1 DEF Landed
<1>6. QED
  BY <1>3, <1>4, <1>5 DEF EndedWell

-----------------------------------------------------------------------------
\* The steps of the runner keep it.

LEMMA StartIsOK ==
  ASSUME NEW id \in RunId, NEW plan \in Plans, NEW opts \in RunOptions, StartRun(id, plan, opts)
  PROVE  /\ RunOK(run') /\ run'.opts = opts /\ run'.state.running_cost = 0
         /\ run'.inflight = {} /\ run'.id = id
<1> DEFINE waves == dependency_waves(plan)
           state == [unsuccessful |-> {}, running_cost |-> 0, ceiling_hit |-> FALSE]
           start == [id |-> id, plan |-> plan, opts |-> opts, waves |-> <<>>,
                     phase |-> "deciding", todo |-> {}, inflight |-> {},
                     responses |-> [i \in DOMAIN plan |-> None], results |-> <<>>,
                     state |-> state]
<1>1. plan \in Seq(SubAgentTask) /\ waves # None /\ run' = AtWaves(start, waves)
  BY AutoLoopAssumption DEF StartRun
<1>2. waves = WavesFrom(plan)
  BY <1>1 DEF dependency_waves
<1>3. DependsOnEarlier(plan, {}, waves)
  BY <1>1, <1>2, WavesKeepTheOrder
<1> HIDE DEF waves
<1>4. waves \in Seq(SUBSET DOMAIN plan)
  BY <1>3 DEF DependsOnEarlier
<1>5. start \in Running(plan)
  <2>1. state \in RunState
    BY DEF RunState
  <2>2. <<>> \in Seq(SUBSET DOMAIN plan) /\ <<>> \in Seq(Result)
    OBVIOUS
  <2>3. [i \in DOMAIN plan |-> None] \in [DOMAIN plan -> Response \cup {None}]
    OBVIOUS
  <2> HIDE DEF state
  <2>4. QED
    BY <2>1, <2>2, <2>3 DEF Running
<1>6. /\ start.id = id /\ start.opts = opts /\ start.inflight = {}
      /\ start.responses = [i \in DOMAIN plan |-> None] /\ start.results = <<>>
      /\ start.state = state
  OBVIOUS
<1> HIDE DEF start
<1> DEFINE s == AtWaves(start, waves)
<1>7. /\ s \in Running(plan)
      /\ s.id = id /\ s.opts = opts /\ s.waves = waves /\ s.inflight = {}
      /\ s.responses = [i \in DOMAIN plan |-> None] /\ s.results = <<>> /\ s.state = state
      /\ waves = <<>> => s.todo = {} /\ s.phase = "persisting"
      /\ waves # <<>> => s.todo = waves[1] /\ s.phase = "deciding"
  BY <1>1, <1>4, <1>5, <1>6, AtWavesIs
<1>8. s.plan = plan
  BY <1>7 DEF Running
<1> HIDE DEF s
<1>9. Placed(s)
  BY <1>7, <1>8 DEF Placed
<1>10. waves # <<>> => 1 \in DOMAIN waves /\ waves[1] # {}
  <2>1. waves # <<>> => 1 \in DOMAIN waves
    BY <1>4
  <2>2. QED
    BY <1>3, <2>1 DEF DependsOnEarlier
<1>11. Staged(s)
  BY <1>7, <1>8, <1>10 DEF Staged
<1>12. WavesOrdered(s)
  BY <1>3, <1>7, <1>8 DEF WavesOrdered, DependsOnEarlier
<1>13. CallsOrdered(s)
  BY <1>7 DEF CallsOrdered
<1>14. state.running_cost = 0
  OBVIOUS
<1>15. Balanced(s)
  <2>1. ReservedSum(s) = 0
    BY <1>1, <1>7, SumsOfNothing
  <2>2. TotalCost(s) = 0
    <3> DEFINE cost == [k \in DOMAIN s.results |-> s.results[k].cost]
    <3>1. DOMAIN s.results = 1 .. 0 /\ Len(s.results) = 0
      BY <1>7
    <3>2. cost \in [1 .. 0 -> Int] /\ \A k \in 1 .. 0 : cost[k] = 0
      BY <3>1
    <3> HIDE DEF cost
    <3>3. SumTo(cost, 0) = 0
      BY <3>2, SumOfNothing
    <3>4. QED
      BY <3>1, <3>3 DEF TotalCost, cost
  <2> HIDE DEF state
  <2>3. QED
    BY <1>7, <1>14, <2>1, <2>2 DEF Balanced
<1>16. RunOK(s)
  BY <1>9, <1>11, <1>12, <1>13, <1>15 DEF RunOK
<1>17. QED
  BY <1>1, <1>7, <1>14, <1>16 DEF s

\* Steps that only move on to another phase.
LEMMA PhaseIsOK ==
  ASSUME NEW r, RunOK(r), NEW phase \in {"persisted", "ended", "error"},
         r.phase # "deciding", phase = "error" \/ r.phase \in {"persisting", "persisted"},
         NEW s, s = [r EXCEPT !.phase = phase]
  PROVE  /\ RunOK(s) /\ s.opts = r.opts /\ s.state = r.state /\ s.id = r.id
         /\ s.plan = r.plan
         /\ OwedSum(s) = OwedSum(r) /\ OpenSum(s) = OpenSum(r)
         /\ s.inflight = r.inflight
<1>1. Placed(r) /\ r \in Running(r.plan)
  BY DEF RunOK, Placed
<1>2. /\ s.id = r.id /\ s.plan = r.plan /\ s.opts = r.opts /\ s.waves = r.waves
      /\ s.todo = r.todo /\ s.inflight = r.inflight /\ s.responses = r.responses
      /\ s.results = r.results /\ s.state = r.state /\ s.phase = phase
      /\ s \in Running(r.plan)
  BY <1>1 DEF Running
<1>3. Placed(s)
  BY <1>1, <1>2 DEF Placed
<1>4. Staged(s)
  BY <1>2 DEF RunOK, Staged
<1>5. WavesOrdered(s) /\ CallsOrdered(s)
  BY <1>2 DEF RunOK, WavesOrdered, CallsOrdered, Landed, EndedWell
<1>6. /\ ReservedSum(s) = ReservedSum(r) /\ OwedSum(s) = OwedSum(r)
      /\ OpenSum(s) = OpenSum(r)
  BY <1>1, <1>2, SumsSame
<1>7. Balanced(s)
  BY <1>2, <1>6 DEF RunOK, Balanced, TotalCost
<1>8. QED
  BY <1>2, <1>3, <1>4, <1>5, <1>6, <1>7 DEF RunOK

LEMMA TailIs ==
  ASSUME NEW T, NEW q \in Seq(T), q # <<>>
  PROVE  /\ Tail(q) \in Seq(T) /\ DOMAIN q = 1 .. Len(q) /\ Len(q) \in Nat \ {0}
         /\ DOMAIN Tail(q) = 1 .. Len(q) - 1
         /\ \A w \in DOMAIN Tail(q) : w + 1 \in DOMAIN q /\ Tail(q)[w] = q[w + 1]
         /\ Tail(q) # <<>> => 1 \in DOMAIN Tail(q)
<1>1. DOMAIN q = 1 .. Len(q) /\ Len(q) \in Nat \ {0}
  OBVIOUS
<1>2. Tail(q) \in Seq(T) /\ Len(Tail(q)) = Len(q) - 1
  OBVIOUS
<1>3. DOMAIN Tail(q) = 1 .. Len(q) - 1
  BY <1>2
<1>4. \A w \in 1 .. Len(q) - 1 : w + 1 \in DOMAIN q /\ Tail(q)[w] = q[w + 1]
  BY <1>1
<1>5. Tail(q) # <<>> => 1 \in DOMAIN Tail(q)
  BY <1>2
<1>6. QED
  BY <1>1, <1>2, <1>3, <1>4, <1>5

LEMMA WaveEndsIsOK ==
  ASSUME RunOK(run), WaveEnds
  PROVE  /\ RunOK(run') /\ run'.opts = run.opts /\ run'.state = run.state
         /\ run'.id = run.id
         /\ OwedSum(run') = OwedSum(run) /\ OpenSum(run') = OpenSum(run)
<1> DEFINE r == run
           plan == r.plan
           rest == Tail(r.waves)
           s == AtWaves(r, rest)
<1>1. /\ plan \in Seq(SubAgentTask) /\ r \in Running(plan)
      /\ r.waves \in Seq(SUBSET DOMAIN plan) /\ Placed(r) /\ plan \in Plans
  BY PlacedIs DEF RunOK, Placed
<1>2. /\ r.phase = "executing" /\ r.inflight = {} /\ run' = s
      /\ r.waves # <<>> /\ r.todo = {}
      /\ \A i \in r.waves[1] : plan[i].id \in Landed(r)
  BY DEF WaveEnds, RunOK, Staged
<1>3. /\ rest \in Seq(SUBSET DOMAIN plan)
      /\ DOMAIN r.waves = 1 .. Len(r.waves) /\ Len(r.waves) \in Nat \ {0}
      /\ DOMAIN rest = 1 .. Len(r.waves) - 1
      /\ \A w \in DOMAIN rest : w + 1 \in DOMAIN r.waves /\ rest[w] = r.waves[w + 1]
      /\ rest # <<>> => 1 \in DOMAIN rest
  BY <1>1, <1>2, TailIs
<1> HIDE DEF rest, plan
<1>4. /\ s \in Running(plan)
      /\ s.id = r.id /\ s.opts = r.opts /\ s.waves = rest
      /\ s.inflight = r.inflight /\ s.responses = r.responses
      /\ s.results = r.results /\ s.state = r.state
      /\ rest = <<>> => s.todo = {} /\ s.phase = "persisting"
      /\ rest # <<>> => s.todo = rest[1] /\ s.phase = "deciding"
  BY <1>1, <1>3, AtWavesIs
<1>5. s.plan = plan /\ r.plan = plan
  BY <1>1, <1>4 DEF Running
<1> HIDE DEF s, r
<1>6. Placed(s)
  BY <1>1, <1>4, <1>5 DEF Placed
<1>7. Landed(s) = Landed(r) /\ \A d : EndedWell(r, d) => EndedWell(s, d)
  BY <1>4 DEF Landed, EndedWell
<1>8. WavesOrdered(r) /\ CallsOrdered(r) /\ Balanced(r)
  BY DEF RunOK, r
<1>9. \A w \in DOMAIN rest : rest[w] # {}
  BY <1>3, <1>8 DEF WavesOrdered
<1>10. Staged(s)
  <2>1. \A i \in DOMAIN plan : s.responses[i] = None
    BY <1>1, <1>2, <1>4, <1>5 DEF Placed
  <2>2. QED
    BY <1>2, <1>3, <1>4, <1>5, <1>9, <2>1 DEF Staged
<1>11. WavesOrdered(s)
  <2>1. ASSUME NEW w \in DOMAIN rest, NEW i \in rest[w], NEW d \in plan[i].depends_on
        PROVE  \/ d \in Landed(r)
               \/ \E v \in DOMAIN rest : v < w /\ d \in {plan[j].id : j \in rest[v]}
    <3>1. w + 1 \in DOMAIN r.waves /\ i \in r.waves[w + 1] /\ w \in Nat
      BY <1>3
    <3>2. CASE d \in Landed(r)
      BY <3>2
    <3>3. ASSUME NEW v \in DOMAIN r.waves, v < w + 1, d \in {plan[j].id : j \in r.waves[v]}
          PROVE  \/ d \in Landed(r)
                 \/ \E u \in DOMAIN rest : u < w /\ d \in {plan[j].id : j \in rest[u]}
      <4>1. CASE v = 1
        BY <1>2, <3>3, <4>1
      <4>2. CASE v # 1
        <5>1. v - 1 \in DOMAIN rest /\ v - 1 < w /\ (v - 1) + 1 = v
          BY <1>3, <3>1, <3>3, <4>2
        <5>2. rest[v - 1] = r.waves[v]
          BY <1>3, <5>1
        <5>3. QED
          BY <3>3, <5>1, <5>2
      <4>3. QED
        BY <4>1, <4>2
    <3>4. QED
      BY <1>5, <1>8, <3>1, <3>3 DEF WavesOrdered
  <2>2. QED
    BY <1>4, <1>5, <1>7, <1>9, <2>1 DEF WavesOrdered
<1>12. CallsOrdered(s)
  BY <1>2, <1>4, <1>8 DEF CallsOrdered
<1>13. /\ ReservedSum(s) = ReservedSum(r) /\ OwedSum(s) = OwedSum(r)
       /\ OpenSum(s) = OpenSum(r)
  BY <1>1, <1>4, SumsSame
<1>14. Balanced(s)
  BY <1>4, <1>8, <1>13 DEF Balanced, TotalCost
<1>15. RunOK(s)
  BY <1>6, <1>10, <1>11, <1>12, <1>14 DEF RunOK
<1>16. QED
  BY <1>2, <1>4, <1>13, <1>15 DEF r

\* A call answers: what it has cost comes out of what it owed.
LEMMA RespondIsOK ==
  ASSUME RunOK(run), NEW i, Respond(i), spent \in Nat
  PROVE  /\ RunOK(run') /\ run'.opts = run.opts /\ run'.state = run.state
         /\ run'.id = run.id
         /\ \E cost \in Nat : /\ spent' = spent + cost
                              /\ OwedSum(run') = OwedSum(run) - cost
                              /\ OpenSum(run') + cost <= OpenSum(run)
<1> DEFINE r == run
           plan == r.plan
<1>1. /\ plan \in Seq(SubAgentTask) /\ r \in Running(plan) /\ plan \in Plans /\ Placed(r)
      /\ r.inflight \in SUBSET DOMAIN plan
      /\ r.responses \in [DOMAIN plan -> Response \cup {None}]
  BY PlacedIs DEF RunOK, Placed
<1>2. r.phase = "executing" /\ i \in r.inflight /\ r.responses[i] = None
  BY DEF Respond
<1>3. i \in DOMAIN plan
  BY <1>1, <1>2
<1>4. PICK response \in Response :
        /\ run' = [run EXCEPT !.responses[i] = response]
        /\ spent' = spent + Min({response.cost, ProjectedCost(r, i)})
  <2>1. PICK outcome \in {"ok", "failed", "error"}, complete \in BOOLEAN,
             cost \in Actual \cup {0} :
          /\ run' = [run EXCEPT !.responses[i] =
                       [outcome |-> outcome, complete |-> complete, cost |-> cost]]
          /\ spent' = spent + Min({cost, Projected[run.plan[i].executor]})
    BY DEF Respond
  <2> DEFINE response == [outcome |-> outcome, complete |-> complete, cost |-> cost]
  <2>2. response \in Response /\ response.cost = cost
    BY DEF Response
  <2> HIDE DEF response
  <2>3. QED
    BY <2>1, <2>2 DEF response, ProjectedCost
<1> DEFINE s == [r EXCEPT !.responses = [r.responses EXCEPT ![i] = response]]
<1>5. run' = s
  BY <1>1, <1>4 DEF Running
<1> DEFINE responses == [r.responses EXCEPT ![i] = response]
<1>6. /\ responses \in [DOMAIN plan -> Response \cup {None}]
      /\ responses[i] = response /\ response # None
      /\ \A k \in DOMAIN plan : k # i => responses[k] = r.responses[k]
  BY <1>1, <1>3, RunnerAssumption
<1> HIDE DEF plan, responses
<1>7. /\ s \in Running(plan) /\ s.id = r.id /\ s.plan = plan /\ s.opts = r.opts
      /\ s.waves = r.waves /\ s.phase = r.phase /\ s.todo = r.todo
      /\ s.inflight = r.inflight /\ s.responses = responses /\ s.results = r.results
      /\ s.state = r.state
  <2>1. s = [r EXCEPT !.responses = responses]
    BY DEF responses
  <2> HIDE DEF s, r
  <2>2. QED
    BY <1>1, <1>6, <2>1 DEF Running
<1>8. r.plan = plan
  BY DEF plan
<1> HIDE DEF s, r
<1>9. Placed(s)
  BY <1>1, <1>2, <1>6, <1>7, <1>8 DEF Placed
<1>10. Staged(r) /\ WavesOrdered(r) /\ CallsOrdered(r) /\ Balanced(r)
  BY DEF RunOK, r
<1>11. Staged(s)
  BY <1>2, <1>7, <1>8, <1>10 DEF Staged, Landed
<1>12. WavesOrdered(s) /\ CallsOrdered(s)
  BY <1>7, <1>8, <1>10 DEF WavesOrdered, CallsOrdered, Landed, EndedWell
<1>13. /\ ReservedSum(s) = ReservedSum(r) + ReservedCosts(s)[i] - ReservedCosts(r)[i]
       /\ OwedSum(s) = OwedSum(r) + OwedCosts(s)[i] - OwedCosts(r)[i]
       /\ OpenSum(s) = OpenSum(r) + OpenCosts(s)[i] - OpenCosts(r)[i]
  BY <1>1, <1>3, <1>6, <1>7, SumsChange
<1>14. ReservedCosts(s)[i] = ReservedCosts(r)[i] /\ ReservedCosts(s)[i] \in Nat
  <2>1. ReservedCosts(s)[i] = ReservedCosts(r)[i]
    BY <1>3, <1>7, <1>8 DEF ReservedCosts, ProjectedCost
  <2>2. QED
    BY <1>1, <1>3, <1>7, <2>1, CostsAre
<1>15. ReservedSum(s) = ReservedSum(r)
  <2>1. ReservedSum(r) \in Nat
    BY <1>1, SumsAre
  <2>2. QED
    BY <1>13, <1>14, <2>1
<1>16. Balanced(s)
  BY <1>7, <1>10, <1>15 DEF Balanced, TotalCost
<1>17. RunOK(s)
  BY <1>9, <1>11, <1>12, <1>16 DEF RunOK
<1> DEFINE cost == Charged(s, i)
           p == ProjectedCost(r, i)
<1>18. /\ cost \in Nat /\ cost <= p /\ p \in Nat /\ ProjectedCost(s, i) = p
       /\ cost = Min({response.cost, p})
  <2>1. ProjectedCost(s, i) = p
    BY <1>7, <1>8 DEF ProjectedCost
  <2>2. s.responses[i] # None /\ s.responses[i] = response
    BY <1>6, <1>7
  <2>3. Charged(s, i) \in Nat /\ Charged(s, i) <= ProjectedCost(s, i)
    BY <1>1, <1>3, <1>7, <2>2, ChargedIs
  <2>4. p \in Nat
    BY <1>1, <1>3, <1>8, ProjectedIsNat
  <2>5. cost = Min({response.cost, p})
    BY <2>1, <2>2 DEF Charged
  <2>6. QED
    BY <2>1, <2>3, <2>4, <2>5
<1> HIDE DEF cost, p
<1>19. /\ OwedCosts(r)[i] = p - 0 /\ OwedCosts(s)[i] = p - cost
       /\ OpenCosts(r)[i] = p /\ OpenCosts(s)[i] = 0
  <2>1. i \in s.inflight /\ i \in DOMAIN s.plan /\ i \in DOMAIN r.plan /\ s.responses[i] # None
    BY <1>2, <1>3, <1>6, <1>7, <1>8
  <2>2. OwedCosts(r)[i] = p - 0 /\ OpenCosts(r)[i] = p
    BY <1>2, <2>1 DEF OwedCosts, OpenCosts, p
  <2>3. OwedCosts(s)[i] = ProjectedCost(s, i) - Charged(s, i) /\ OpenCosts(s)[i] = 0
    BY <2>1 DEF OwedCosts, OpenCosts
  <2>4. QED
    BY <1>18, <2>2, <2>3 DEF cost
<1>20. OwedSum(r) \in Nat /\ OpenSum(r) \in Nat
  BY <1>1, SumsAre
<1>21. /\ OwedSum(s) = OwedSum(r) - cost /\ OpenSum(s) + cost <= OpenSum(r)
  BY <1>13, <1>18, <1>19, <1>20
<1>22. spent' = spent + cost
  BY <1>4, <1>18 DEF p
<1>23. QED
  BY <1>5, <1>7, <1>17, <1>18, <1>21, <1>22 DEF r

\* A call is finalized: its reservation becomes what it has cost.
LEMMA FinalizeIsOK ==
  ASSUME RunOK(run), FinalizeCall
  PROVE  /\ RunOK(run') /\ run'.opts = run.opts /\ run'.id = run.id
         /\ OpenSum(run') = OpenSum(run)
         /\ OwedSum(run') - run'.state.running_cost <= OwedSum(run) - run.state.running_cost
<1> DEFINE r == run
           plan == r.plan
           i == Min(r.inflight)
           s == Finalized(r, i)
           result == CallResult(r, i)
<1>1. /\ plan \in Seq(SubAgentTask) /\ r \in Running(plan) /\ plan \in Plans /\ Placed(r)
      /\ r.inflight \in SUBSET DOMAIN plan /\ r.results \in Seq(Result)
      /\ r.responses \in [DOMAIN plan -> Response \cup {None}] /\ r.state \in RunState
      /\ DOMAIN plan = 1 .. Len(plan)
  BY PlacedIs DEF RunOK, Placed
<1>2. /\ r.phase = "executing" /\ r.inflight # {} /\ run' = s
      /\ \A k \in r.inflight : r.responses[k] # None
  BY DEF FinalizeCall
<1>3. i \in r.inflight /\ i \in DOMAIN plan /\ r.responses[i] # None
  <2>1. r.inflight \in SUBSET Nat
    BY <1>1
  <2>2. i \in r.inflight
    BY <1>2, <2>1, LeastIndex
  <2>3. QED
    BY <1>1, <1>2, <2>2
<1>4. r.plan = plan
  OBVIOUS
<1>5. Staged(r) /\ WavesOrdered(r) /\ CallsOrdered(r) /\ Balanced(r)
  BY DEF RunOK
<1> HIDE DEF r, plan, i
<1>6. /\ result \in Result /\ result.id = plan[i].id /\ result.cost = r.responses[i].cost
      /\ result.cost \in Nat
  BY <1>1, <1>3, CallResultIs
<1>7. /\ s \in Running(plan)
      /\ s.id = r.id /\ s.opts = r.opts /\ s.waves = r.waves /\ s.todo = r.todo
      /\ s.phase = r.phase /\ s.inflight = r.inflight \ {i}
      /\ s.responses = [r.responses EXCEPT ![i] = None]
      /\ s.results = Append(r.results, result)
      /\ result.status = "ok" => s.state.unsuccessful = r.state.unsuccessful
      /\ result.status # "ok" =>
           s.state.unsuccessful = r.state.unsuccessful \cup {plan[i].id}
      /\ s.state.running_cost =
           r.state.running_cost + (r.responses[i].cost - ProjectedCost(r, i))
  BY <1>1, <1>3, FinalizedIs
<1>8. s.plan = plan
  BY <1>7 DEF Running
<1> HIDE DEF s, result
<1>9. /\ \A k \in DOMAIN r.results : k \in DOMAIN s.results /\ s.results[k] = r.results[k]
      /\ \A k \in DOMAIN s.results :
           \/ k \in DOMAIN r.results /\ s.results[k] = r.results[k]
           \/ s.results[k] = result
      /\ Landed(s) = Landed(r) \cup {plan[i].id}
      /\ \A d : EndedWell(r, d) => EndedWell(s, d)
  BY <1>1, <1>6, <1>7, ResultAdded
<1>10. /\ s.responses[i] = None
       /\ \A k \in DOMAIN plan : k # i => /\ s.responses[k] = r.responses[k]
                                          /\ k \in s.inflight <=> k \in r.inflight
  BY <1>1, <1>3, <1>7
<1>11. Placed(s)
  BY <1>1, <1>4, <1>7, <1>8, <1>10 DEF Placed
<1>12. Staged(s)
  BY <1>2, <1>4, <1>5, <1>7, <1>8, <1>9 DEF Staged
<1>13. WavesOrdered(s)
  BY <1>4, <1>5, <1>7, <1>8, <1>9 DEF WavesOrdered
<1>14. CallsOrdered(s)
  <2>1. \A k \in DOMAIN s.results :
          s.results[k].status # "ok" => s.results[k].id \in s.state.unsuccessful
    <3> TAKE k \in DOMAIN s.results
    <3>1. CASE k \in DOMAIN r.results /\ s.results[k] = r.results[k]
      BY <1>5, <1>7, <3>1 DEF CallsOrdered
    <3>2. CASE s.results[k] = result
      BY <1>6, <1>7, <3>2
    <3>3. QED
      BY <1>9, <3>1, <3>2
  <2>2. \A k \in s.inflight : \A d \in s.plan[k].depends_on : EndedWell(s, d)
    BY <1>4, <1>5, <1>7, <1>8, <1>9 DEF CallsOrdered
  <2>3. QED
    BY <2>1, <2>2 DEF CallsOrdered
<1> DEFINE p == ProjectedCost(r, i)
           cost == r.responses[i].cost
           charged == Charged(r, i)
<1>15. /\ p \in Nat /\ cost \in Nat /\ charged \in Nat /\ charged <= p /\ charged <= cost
  <2>1. p \in Nat
    BY <1>1, <1>3, <1>4, ProjectedIsNat
  <2>2. QED
    BY <1>1, <1>3, <2>1, ChargedIs
<1>16. /\ ReservedCosts(r)[i] = p /\ ReservedCosts(s)[i] = 0
       /\ OwedCosts(r)[i] = p - charged /\ OwedCosts(s)[i] = 0
       /\ OpenCosts(r)[i] = 0 /\ OpenCosts(s)[i] = 0
  <2>1. i \in DOMAIN r.plan /\ i \in DOMAIN s.plan /\ i \notin s.inflight
    BY <1>3, <1>4, <1>7, <1>8
  <2>2. ReservedCosts(s)[i] = 0 /\ OwedCosts(s)[i] = 0 /\ OpenCosts(s)[i] = 0
    BY <2>1 DEF ReservedCosts, OwedCosts, OpenCosts
  <2>3. ReservedCosts(r)[i] = p /\ OpenCosts(r)[i] = 0
    BY <1>3, <2>1 DEF ReservedCosts, OpenCosts
  <2>4. OwedCosts(r)[i] = p - charged
    BY <1>3, <2>1 DEF OwedCosts
  <2>5. QED
    BY <2>2, <2>3, <2>4
<1> HIDE DEF p, cost, charged
<1>17. /\ ReservedSum(s) = ReservedSum(r) + ReservedCosts(s)[i] - ReservedCosts(r)[i]
       /\ OwedSum(s) = OwedSum(r) + OwedCosts(s)[i] - OwedCosts(r)[i]
       /\ OpenSum(s) = OpenSum(r) + OpenCosts(s)[i] - OpenCosts(r)[i]
  <2>1. /\ plan \in Seq(SubAgentTask) /\ r \in Running(plan) /\ s \in Running(plan)
        /\ i \in DOMAIN plan
    BY <1>1, <1>3, <1>7
  <2>2. \A k \in DOMAIN plan : k # i => /\ k \in s.inflight <=> k \in r.inflight
                                        /\ s.responses[k] = r.responses[k]
    BY <1>10
  <2>3. QED
    BY <2>1, <2>2, SumsChange
<1>18. /\ ReservedSum(r) \in Nat /\ OwedSum(r) \in Nat /\ OpenSum(r) \in Nat
       /\ TotalCost(r) \in Nat /\ r.state.running_cost \in Int
  BY <1>1, SumsAre, TotalIs DEF RunState
<1>19. TotalCost(s) = TotalCost(r) + cost
  BY <1>1, <1>6, <1>7, TotalGrows DEF cost
<1>20. s.state.running_cost = r.state.running_cost + (cost - p)
  BY <1>7 DEF cost, p
<1>21. Balanced(s)
  <2> SUFFICES ASSUME ~ s.opts.dry_run
               PROVE  s.state.running_cost = TotalCost(s) + ReservedSum(s)
    BY DEF Balanced
  <2>1. r.state.running_cost = TotalCost(r) + ReservedSum(r)
    BY <1>5, <1>7 DEF Balanced
  <2>2. QED
    BY <1>15, <1>16, <1>17, <1>18, <1>19, <1>20, <2>1
<1>22. OpenSum(s) = OpenSum(r)
  BY <1>16, <1>17, <1>18
<1>23. OwedSum(s) - s.state.running_cost <= OwedSum(r) - r.state.running_cost
  BY <1>15, <1>16, <1>17, <1>18, <1>20
<1>24. RunOK(s)
  BY <1>11, <1>12, <1>13, <1>14, <1>21 DEF RunOK
<1>25. QED
  BY <1>2, <1>7, <1>22, <1>23, <1>24 DEF r

\* A step is decided: a call is scheduled only within the ceiling.
LEMMA DecideIsOK ==
  ASSUME RunOK(run), DecideStep
  PROVE  /\ RunOK(run') /\ run'.opts = run.opts /\ run'.id = run.id
         /\ OwedSum(run) = OpenSum(run)
         /\ ~ run.opts.dry_run =>
              \/ /\ OwedSum(run') = OwedSum(run) /\ OpenSum(run') = OpenSum(run)
                 /\ run'.state.running_cost = run.state.running_cost
              \/ \E p \in Nat :
                   /\ OwedSum(run') = OwedSum(run) + p /\ OpenSum(run') = OpenSum(run) + p
                   /\ run'.state.running_cost = run.state.running_cost + p
                   /\ run.opts.max_cost # None =>
                        run.state.running_cost + p <= run.opts.max_cost
<1> DEFINE r == run
           plan == r.plan
           i == Min(r.todo)
<1>1. /\ plan \in Seq(SubAgentTask) /\ r \in Running(plan) /\ plan \in Plans /\ Placed(r)
      /\ r.inflight \in SUBSET DOMAIN plan /\ r.results \in Seq(Result)
      /\ r.todo \in SUBSET DOMAIN plan /\ r.opts \in RunOptions /\ r.state \in RunState
      /\ r.responses \in [DOMAIN plan -> Response \cup {None}]
      /\ DOMAIN plan = 1 .. Len(plan)
      /\ r.waves \in Seq(SUBSET DOMAIN plan)
  BY PlacedIs DEF RunOK, Placed
<1>2. r.phase = "deciding" /\ Staged(r) /\ WavesOrdered(r) /\ CallsOrdered(r) /\ Balanced(r)
  BY DEF DecideStep, RunOK
<1>3. r.todo # {} /\ (\A k \in DOMAIN plan : r.responses[k] = None)
  BY <1>2 DEF Staged
<1>4. i \in r.todo /\ i \in DOMAIN plan
  <2>1. r.todo \in SUBSET Nat
    BY <1>1
  <2>2. i \in r.todo
    BY <1>3, <2>1, LeastIndex
  <2>3. QED
    BY <1>1, <2>2
<1>5. PICK env \in StepEnvironment :
        run' = StepDecided(i, Gate(plan[i], r.opts, env, r.state))
  <2> DEFINE Created(g, env) ==
               /\ NeedsWorkspace(plan[i], r.opts)
               /\ g = None \/ g[3] = "workspace"
               /\ env.workspace # "refused"
             Outcome(env) == LET g == Gate(plan[i], r.opts, env, r.state)
                             IN <<g, Created(g, env)>>
  <2>1. PICK outcome \in {Outcome(env) : env \in StepEnvironment} :
          run' = StepDecided(i, outcome[1])
    BY DEF DecideStep
  <2>2. PICK env \in StepEnvironment : outcome = Outcome(env)
    BY <2>1
  <2>3. outcome[1] = Gate(plan[i], r.opts, env, r.state)
    BY <2>2
  <2>4. QED
    BY <2>1, <2>3
<1> DEFINE gate == Gate(plan[i], r.opts, env, r.state)
           result == GateResult(i, gate)
           s == StepDecided(i, gate)
<1>6. plan[i] \in SubAgentTask
  BY <1>1, <1>4
<1>7. /\ gate \in Verdict \cup {None}
      /\ gate = None => /\ plan[i].depends_on \cap r.state.unsuccessful = {}
                        /\ ~ WouldExceed(plan[i], r.opts, r.state.running_cost)
                        /\ ~ r.opts.dry_run
      /\ gate # None /\ ~ r.opts.dry_run => gate[2] # "ok"
  <2> HIDE DEF plan, i
  <2>1. QED
    BY <1>1, <1>6, GateIs
<1> HIDE DEF gate
<1>8. /\ s \in Running(plan)
      /\ s.id = r.id /\ s.opts = r.opts /\ s.waves = r.waves
      /\ s.responses = r.responses /\ s.todo = r.todo \ {i}
      /\ r.todo = {i} => s.phase = "executing"
      /\ r.todo # {i} => s.phase = "deciding"
      /\ Reserves(plan[i], gate) =>
           s.state.running_cost = r.state.running_cost + ProjectedCost(r, i)
      /\ ~ Reserves(plan[i], gate) => s.state.running_cost = r.state.running_cost
      /\ gate = None => /\ s.inflight = r.inflight \cup {i}
                        /\ s.results = r.results
                        /\ s.state.unsuccessful = r.state.unsuccessful
      /\ gate # None =>
           /\ s.inflight = r.inflight
           /\ s.results = Append(r.results, result)
           /\ gate[2] = "ok" => s.state.unsuccessful = r.state.unsuccessful
           /\ gate[2] # "ok" =>
                s.state.unsuccessful = r.state.unsuccessful \cup {plan[i].id}
  <2> HIDE DEF plan, i
  <2>1. QED
    BY <1>1, <1>2, <1>4, <1>7, DecidedIs DEF r
<1>9. s.plan = plan /\ r.plan = plan
  BY <1>8 DEF Running
<1>10. gate # None =>
         /\ result \in Result /\ result.id = plan[i].id /\ result.status = gate[2]
         /\ result.cost = GateCost(plan[i], r.opts, gate)
  <2> SUFFICES ASSUME gate # None
               PROVE  /\ result \in Result /\ result.id = plan[i].id
                      /\ result.status = gate[2]
                      /\ result.cost = GateCost(plan[i], r.opts, gate)
    OBVIOUS
  <2>1. gate \in Verdict
    BY <1>7
  <2> HIDE DEF plan, i
  <2>2. QED
    BY <1>1, <1>4, <1>9, <2>1, GateResultIs DEF r
<1>11. run' = s
  BY <1>5 DEF gate
<1> HIDE DEF r, plan, i, s, result
<1>12. /\ Landed(s) = IF gate = None THEN Landed(r) ELSE Landed(r) \cup {plan[i].id}
       /\ \A d : EndedWell(r, d) => EndedWell(s, d)
       /\ \A k \in DOMAIN s.results :
            \/ k \in DOMAIN r.results /\ s.results[k] = r.results[k]
            \/ gate # None /\ s.results[k] = result
  <2>1. CASE gate = None
    BY <1>8, <2>1 DEF Landed, EndedWell
  <2>2. CASE gate # None
    <3>1. /\ r.results \in Seq(Result) /\ result \in Result /\ result.id = plan[i].id
          /\ s.results = Append(r.results, result)
      BY <1>1, <1>8, <1>10, <2>2
    <3>2. /\ \A k \in DOMAIN s.results :
               \/ k \in DOMAIN r.results /\ s.results[k] = r.results[k]
               \/ s.results[k] = result
          /\ Landed(s) = Landed(r) \cup {result.id}
          /\ \A d : EndedWell(r, d) => EndedWell(s, d)
      BY <3>1, ResultAdded
    <3>3. QED
      BY <2>2, <3>1, <3>2
  <2>3. QED
    BY <2>1, <2>2
<1>13. Placed(s)
  BY <1>1, <1>3, <1>8, <1>9 DEF Placed
<1>14. Landed(r) \subseteq Landed(s)
  BY <1>12
<1>15. i \notin r.inflight /\ r.waves # <<>> /\ r.todo \cup r.inflight \subseteq r.waves[1]
  BY <1>2, <1>4 DEF Staged
<1>16. Staged(s)
  <2>1. r.todo = {i} => s.todo = {} /\ s.phase = "executing"
    BY <1>8
  <2>2. r.todo # {i} => s.todo # {} /\ s.phase = "deciding"
    BY <1>4, <1>8
  <2>3. \A k \in r.waves[1] : k \in s.todo \cup s.inflight \/ plan[k].id \in Landed(s)
    <3> TAKE k \in r.waves[1]
    <3>1. k \in r.todo \cup r.inflight \/ plan[k].id \in Landed(r)
      BY <1>2, <1>9 DEF Staged
    <3>2. CASE k = i
      <4>1. CASE gate = None
        BY <1>8, <3>2, <4>1
      <4>2. CASE gate # None
        BY <1>12, <3>2, <4>2
      <4>3. QED
        BY <4>1, <4>2
    <3>3. CASE k # i
      BY <1>8, <1>14, <3>1, <3>3
    <3>4. QED
      BY <3>2, <3>3
  <2>4. s.todo \cup s.inflight \subseteq r.waves[1] /\ s.todo \cap s.inflight = {}
    <3>1. CASE gate = None
      BY <1>2, <1>4, <1>8, <1>15, <3>1 DEF Staged
    <3>2. CASE gate # None
      BY <1>2, <1>8, <1>15, <3>2 DEF Staged
    <3>3. QED
      BY <3>1, <3>2
  <2>5. s.opts.dry_run => s.inflight = {}
    BY <1>2, <1>7, <1>8 DEF Staged
  <2>6. /\ s.phase = "deciding" => s.todo # {} /\ \A k \in DOMAIN plan : s.responses[k] = None
        /\ s.phase # "deciding" => s.todo = {}
        /\ s.phase \notin {"persisting", "persisted", "ended"}
    BY <1>3, <1>8, <2>1, <2>2
  <2>7. QED
    BY <1>8, <1>9, <1>15, <2>3, <2>4, <2>5, <2>6 DEF Staged
<1>17. WavesOrdered(s)
  BY <1>2, <1>8, <1>9, <1>14 DEF WavesOrdered
<1>18. \A k \in DOMAIN s.results :
         s.results[k].status # "ok" => s.results[k].id \in s.state.unsuccessful
  <2> TAKE k \in DOMAIN s.results
  <2>1. r.state.unsuccessful \subseteq s.state.unsuccessful
    <3>1. CASE gate = None
      BY <1>8, <3>1
    <3>2. CASE gate # None
      BY <1>8, <3>2
    <3>3. QED
      BY <3>1, <3>2
  <2>2. CASE k \in DOMAIN r.results /\ s.results[k] = r.results[k]
    BY <1>2, <2>1, <2>2 DEF CallsOrdered
  <2>3. CASE gate # None /\ s.results[k] = result
    BY <1>8, <1>10, <2>3
  <2>4. QED
    BY <1>12, <2>2, <2>3
<1>19. CallsOrdered(s)
  <2>1. ASSUME gate = None, NEW d \in plan[i].depends_on PROVE EndedWell(r, d)
    <3>1. 1 \in DOMAIN r.waves /\ i \in r.waves[1]
      BY <1>1, <1>4, <1>15
    <3>2. \/ d \in Landed(r)
          \/ \E v \in DOMAIN r.waves : v < 1 /\ d \in {r.plan[j].id : j \in r.waves[v]}
      BY <1>2, <1>9, <2>1, <3>1 DEF WavesOrdered
    <3>3. \A v \in DOMAIN r.waves : ~ (v < 1)
      BY <1>1
    <3>4. PICK k \in DOMAIN r.results : r.results[k].id = d
      BY <3>2, <3>3 DEF Landed
    <3>5. d \notin r.state.unsuccessful
      BY <1>7, <2>1
    <3>6. r.results[k].status = "ok"
      BY <1>2, <3>4, <3>5 DEF CallsOrdered
    <3>7. QED
      BY <3>4, <3>6 DEF EndedWell
  <2>2. \A k \in r.inflight : \A d \in plan[k].depends_on : EndedWell(r, d)
    BY <1>2, <1>9 DEF CallsOrdered
  <2>3. \A k \in s.inflight : k \in r.inflight \/ (gate = None /\ k = i)
    BY <1>8
  <2>4. \A k \in s.inflight : \A d \in plan[k].depends_on : EndedWell(s, d)
    BY <1>12, <2>1, <2>2, <2>3
  <2>5. QED
    BY <1>9, <1>18, <2>4 DEF CallsOrdered
<1>20. OwedSum(r) = OpenSum(r)
  <2>1. OwedCosts(r) = OpenCosts(r)
    <3>1. \A k \in DOMAIN plan : /\ ProjectedCost(r, k) \in Nat
                                 /\ ProjectedCost(r, k) - 0 = ProjectedCost(r, k)
      BY <1>1, <1>9, ProjectedIsNat
    <3>2. QED
      BY <1>3, <1>9, <3>1 DEF OwedCosts, OpenCosts
  <2>2. QED
    BY <2>1 DEF OwedSum, OpenSum
<1> DEFINE p == ProjectedCost(r, i)
<1>21. /\ p \in Nat /\ r.state.running_cost \in Int
       /\ ReservedSum(r) \in Nat /\ OwedSum(r) \in Nat /\ OpenSum(r) \in Nat
       /\ TotalCost(r) \in Nat
  BY <1>1, <1>4, <1>9, ProjectedIsNat, SumsAre, TotalIs DEF RunState
<1>22. CASE r.opts.dry_run
  <2>1. Balanced(s)
    BY <1>8, <1>22 DEF Balanced
  <2>2. RunOK(s)
    BY <1>13, <1>16, <1>17, <1>19, <2>1 DEF RunOK
  <2>3. QED
    BY <1>8, <1>11, <1>20, <1>22, <2>2 DEF r
<1>23. CASE ~ r.opts.dry_run /\ gate # None
  <2>1. gate[2] # "ok" /\ ~ Reserves(plan[i], gate)
    BY <1>7, <1>23 DEF Reserves
  <2>2. /\ s.state.running_cost = r.state.running_cost /\ s.inflight = r.inflight
        /\ s.results = Append(r.results, result) /\ result \in Result /\ result.cost = 0
    BY <1>8, <1>10, <1>23, <2>1 DEF GateCost
  <2>3. /\ ReservedSum(s) = ReservedSum(r) /\ OwedSum(s) = OwedSum(r)
        /\ OpenSum(s) = OpenSum(r)
    BY <1>1, <1>8, <2>2, SumsSame
  <2>4. TotalCost(s) = TotalCost(r)
    BY <1>1, <1>21, <2>2, TotalGrows
  <2>5. Balanced(s)
    BY <1>2, <1>8, <2>2, <2>3, <2>4 DEF Balanced
  <2>6. RunOK(s)
    BY <1>13, <1>16, <1>17, <1>19, <2>5 DEF RunOK
  <2>7. QED
    BY <1>8, <1>11, <1>20, <2>2, <2>3, <2>6 DEF r
<1>24. CASE ~ r.opts.dry_run /\ gate = None
  <2>1. /\ s.state.running_cost = r.state.running_cost + p /\ s.inflight = r.inflight \cup {i}
        /\ s.results = r.results
    BY <1>8, <1>24 DEF Reserves
  <2>2. \A k \in DOMAIN plan : k # i => /\ k \in s.inflight <=> k \in r.inflight
                                        /\ s.responses[k] = r.responses[k]
    BY <1>8, <2>1
  <2>3. /\ ReservedSum(s) = ReservedSum(r) + ReservedCosts(s)[i] - ReservedCosts(r)[i]
        /\ OwedSum(s) = OwedSum(r) + OwedCosts(s)[i] - OwedCosts(r)[i]
        /\ OpenSum(s) = OpenSum(r) + OpenCosts(s)[i] - OpenCosts(r)[i]
    <3>1. s \in Running(plan)
      BY <1>8
    <3>2. QED
      BY <1>1, <1>4, <2>2, <3>1, SumsChange
  <2>4. /\ ReservedCosts(r)[i] = 0 /\ OwedCosts(r)[i] = 0 /\ OpenCosts(r)[i] = 0
    BY <1>4, <1>9, <1>15 DEF ReservedCosts, OwedCosts, OpenCosts
  <2>5. /\ ReservedCosts(s)[i] = p /\ OwedCosts(s)[i] = p - 0 /\ OpenCosts(s)[i] = p
    <3>1. i \in s.inflight /\ i \in DOMAIN s.plan /\ s.responses[i] = None
      BY <1>3, <1>4, <1>8, <1>9, <2>1
    <3>2. ProjectedCost(s, i) = p
      BY <1>9 DEF ProjectedCost
    <3>3. QED
      BY <3>1, <3>2 DEF ReservedCosts, OwedCosts, OpenCosts
  <2> HIDE DEF p
  <2>6. /\ ReservedSum(s) = ReservedSum(r) + p /\ OwedSum(s) = OwedSum(r) + p
        /\ OpenSum(s) = OpenSum(r) + p
    BY <1>21, <2>3, <2>4, <2>5
  <2>7. Balanced(s)
    <3>1. TotalCost(s) = TotalCost(r)
      BY <2>1 DEF TotalCost
    <3>2. r.state.running_cost = TotalCost(r) + ReservedSum(r)
      BY <1>2, <1>24 DEF Balanced
    <3>3. s.state.running_cost = TotalCost(s) + ReservedSum(s)
      BY <1>21, <2>1, <2>6, <3>1, <3>2
    <3>4. QED
      BY <3>3 DEF Balanced
  <2>8. RunOK(s)
    BY <1>13, <1>16, <1>17, <1>19, <2>7 DEF RunOK
  <2>9. r.opts.max_cost # None => r.state.running_cost + p <= r.opts.max_cost
    <3>1. r.opts.max_cost # None => r.opts.max_cost \in Nat
      BY <1>1 DEF RunOptions
    <3>2. r.opts.max_cost # None => ~ (r.state.running_cost + p > r.opts.max_cost)
      BY <1>7, <1>9, <1>24 DEF WouldExceed, ProjectedCost, p
    <3>3. QED
      BY <1>21, <3>1, <3>2
  <2>10. QED
    BY <1>8, <1>11, <1>20, <1>21, <2>1, <2>6, <2>8, <2>9 DEF r
<1>25. QED
  BY <1>22, <1>23, <1>24

-----------------------------------------------------------------------------
\* The loop around its runs.

Shape ==
  /\ run # NoRun => RunOK(run) /\ run.id = loop.index /\ run.id \in RunId \ {OtherRun}
  /\ loop \in LoopState /\ loop.index < OtherRun
  /\ loop.status = "running" => loop.opts \in LoopOptions
  /\ loop.status = "direct" => loop.opts \in DirectOptions
  /\ DOMAIN runs = RunId /\ DOMAIN recovery = RunId
  /\ tracked \subseteq RunId \X StepId /\ spent \in Nat
  /\ saved \subseteq RunId /\ reviewed \subseteq RunId

(* The file of receipts, and the records to recover one from, tell whose they are. *)
EvidenceInv ==
  /\ receipt # None => receipt.run_id \in saved
  /\ \A r \in RunId : recovery[r] # None => recovery[r].run_id = r

(* A run's file is written once: a run that has not got there has none, and
   neither has a run to come. *)
WrittenOnce ==
  /\ run.phase \in {"deciding", "executing", "persisting"} => runs[run.id] = None
  /\ \A r \in RunId : loop.index < r /\ r < OtherRun => runs[r] = None

(* Between two attempts the receipt of the last one has been in the file. *)
AttemptProven ==
  loop.status = "running" /\ loop.index > 0 /\ run = NoRun => loop.index \in saved

(* What a run of the loop may spend: what is left of the total ceiling. *)
Ceiling ==
  LET left == loop.opts.max_total_cost - loop.total_cost
  IN IF loop.opts.max_total_cost = None THEN None ELSE IF left < 0 THEN 0 ELSE left

(* What has been spent, and what the calls of the run may still come to, is covered by
   the costs the loop has counted, and stays within the ceiling. *)
Spending ==
  loop.opts \in LoopOptions =>
    /\ run # NoRun => /\ loop.status = "running"
                      /\ run.opts.dry_run = loop.opts.dry_run /\ run.opts.max_cost = Ceiling
    /\ loop.opts.dry_run => spent = 0
    /\ ~ loop.opts.dry_run /\ loop.opts.max_total_cost # None =>
         /\ spent <= loop.opts.max_total_cost
         /\ run = NoRun /\ loop.status = "running" => spent <= loop.total_cost
         /\ run # NoRun =>
              /\ spent + OwedSum(run) <= loop.total_cost + run.state.running_cost
              /\ spent + OpenSum(run) <= loop.opts.max_total_cost

Inv == Shape /\ EvidenceInv /\ WrittenOnce /\ AttemptProven /\ Spending /\ AcceptedIsProven

LoopFields == {"opts", "index", "total_cost", "status"}

LEMMA LoopIs ==
  ASSUME Shape
  PROVE  /\ DOMAIN loop = LoopFields /\ loop.index \in Nat /\ loop.total_cost \in Nat
         /\ loop.status \in LoopStatus \cup {"direct"} /\ OtherRun \in Nat
         /\ loop.opts \in LoopOptions =>
              /\ loop.opts.max_total_cost \in Nat \cup {None} /\ loop.opts.dry_run \in BOOLEAN
              /\ loop.opts.max_iterations \in 0 .. OtherRun - 1
<1>1. loop \in LoopState
  BY DEF Shape
<1>2. /\ DOMAIN loop = LoopFields /\ loop.index \in Nat /\ loop.total_cost \in Nat
      /\ loop.status \in LoopStatus \cup {"direct"}
  BY <1>1 DEF LoopState, LoopFields
<1>3. OtherRun \in Nat /\ LoopOptions \subseteq LoopOption
  BY AutoLoopAssumption
<1>4. loop.opts \in LoopOptions =>
        /\ loop.opts.max_total_cost \in Nat \cup {None} /\ loop.opts.dry_run \in BOOLEAN
        /\ loop.opts.max_iterations \in 0 .. OtherRun - 1
  BY <1>3 DEF LoopOption
<1>5. QED
  BY <1>2, <1>3, <1>4

LEMMA OptionsDiffer == LoopOptions \cap DirectOptions = {}
<1>1. LoopOptions \subseteq LoopOption /\ DirectOptions \subseteq RunOptions
  BY AutoLoopAssumption
<1>2. ASSUME NEW o \in LoopOption, o \in RunOptions PROVE FALSE
  <2>1. "max_cost" \notin DOMAIN o
    BY DEF LoopOption
  <2>2. "max_cost" \in DOMAIN o
    BY <1>2 DEF RunOptions
  <2>3. QED
    BY <2>1, <2>2
<1>3. QED
  BY <1>1, <1>2

\* A step of the run, while the loop waits: what the run keeps, ...
RunGoesOn ==
  /\ run # NoRun /\ run' # NoRun /\ RunOK(run') /\ run'.id = run.id /\ run'.opts = run.opts
  /\ run'.phase \in {"deciding", "executing", "persisting"} =>
       run.phase \in {"deciding", "executing"}
  /\ tracked' \subseteq RunId \X StepId

\* ... and what it spends, or reserves within its ceiling.
SpendingGoesOn ==
  /\ spent' \in Nat /\ (run.opts.dry_run => spent' = spent)
  /\ ~ run.opts.dry_run =>
       /\ spent' + OwedSum(run') - run'.state.running_cost
            <= spent + OwedSum(run) - run.state.running_cost
       /\ \/ spent' + OpenSum(run') <= spent + OpenSum(run)
          \/ /\ spent' = spent /\ OwedSum(run) = OpenSum(run)
             /\ \E p \in Nat :
                  /\ OpenSum(run') = OpenSum(run) + p
                  /\ run.opts.max_cost # None =>
                       run.state.running_cost + p <= run.opts.max_cost

LEMMA RunIs ==
  ASSUME RunOK(run)
  PROVE  /\ run \in Running(run.plan) /\ run.plan \in Seq(SubAgentTask) /\ run.id \in RunId
         /\ run.opts.dry_run \in BOOLEAN /\ run.opts.max_cost \in Nat \cup {None}
         /\ run.state.running_cost \in Int
         /\ OwedSum(run) \in Nat /\ OpenSum(run) \in Nat /\ ReservedSum(run) \in Nat
         /\ TotalCost(run) \in Nat
<1>1. /\ run \in Running(run.plan) /\ run.plan \in Seq(SubAgentTask)
      /\ run.opts \in RunOptions /\ run.state \in RunState
  BY PlacedIs DEF RunOK
<1>2. run.opts.dry_run \in BOOLEAN /\ run.opts.max_cost \in Nat \cup {None}
  BY <1>1 DEF RunOptions
<1>3. run.state.running_cost \in Int /\ run.id \in RunId
  BY <1>1 DEF RunState, Running
<1>4. QED
  BY <1>1, <1>2, <1>3, SumsAre, TotalIs

LEMMA NextRunIs ==
  ASSUME RunOK(run')
  PROVE  /\ run' # NoRun /\ run'.state.running_cost \in Int
         /\ OwedSum(run') \in Nat /\ OpenSum(run') \in Nat
<1>1. /\ run' \in Running(run'.plan) /\ run'.plan \in Seq(SubAgentTask) /\ run' # NoRun
      /\ run'.state \in RunState
  BY PlacedIs DEF RunOK
<1>2. run'.state.running_cost \in Int
  BY <1>1 DEF RunState
<1>3. QED
  BY <1>1, <1>2, SumsAre

\* The phases a step of the run starts from are those of a run.
LEMMA RunIsThere ==
  ASSUME Shape, run.phase # "none"
  PROVE  run # NoRun /\ RunOK(run) /\ run.id \in RunId \ {OtherRun}
BY DEF Shape, NoRun

LEMMA DecideGoesOn ==
  ASSUME Shape, DecideStep
  PROVE  RunGoesOn /\ SpendingGoesOn /\ runs' = runs /\ run.phase = "deciding"
<1>1. run.phase = "deciding" /\ runs' = runs /\ spent' = spent
  BY DEF DecideStep
<1>2. run # NoRun /\ RunOK(run) /\ spent \in Nat
  BY <1>1, RunIsThere DEF Shape
<1>3. /\ RunOK(run') /\ run'.opts = run.opts /\ run'.id = run.id
      /\ OwedSum(run) = OpenSum(run)
      /\ ~ run.opts.dry_run =>
           \/ /\ OwedSum(run') = OwedSum(run) /\ OpenSum(run') = OpenSum(run)
              /\ run'.state.running_cost = run.state.running_cost
           \/ \E p \in Nat :
                /\ OwedSum(run') = OwedSum(run) + p /\ OpenSum(run') = OpenSum(run) + p
                /\ run'.state.running_cost = run.state.running_cost + p
                /\ run.opts.max_cost # None =>
                     run.state.running_cost + p <= run.opts.max_cost
  BY <1>2, DecideIsOK
<1>4. /\ run.state.running_cost \in Int /\ OwedSum(run) \in Nat /\ OpenSum(run) \in Nat
      /\ run'.state.running_cost \in Int /\ OwedSum(run') \in Nat /\ OpenSum(run') \in Nat
      /\ run' # NoRun
  BY <1>2, <1>3, RunIs, NextRunIs
<1>5. tracked' \subseteq RunId \X StepId
  <2>1. tracked' = tracked \/ tracked' = tracked \cup {Workspace(run, Min(run.todo))}
    BY DEF DecideStep
  <2>2. run.todo \in SUBSET Nat /\ run.todo \in SUBSET DOMAIN run.plan /\ run.todo # {}
    <3>1. run.todo \in SUBSET DOMAIN run.plan /\ DOMAIN run.plan = 1 .. Len(run.plan)
      BY <1>2, PlacedIs DEF RunOK
    <3>2. run.todo # {}
      BY <1>1, <1>2 DEF RunOK, Staged
    <3>3. QED
      BY <3>1, <3>2
  <2> DEFINE i == Min(run.todo)
  <2>3. i \in DOMAIN run.plan
    BY <2>2, LeastIndex
  <2>4. run.plan[i].id \in StepId /\ run.id \in RunId
    <3> HIDE DEF i
    <3>1. QED
      BY <1>2, <2>3, RunIs, ProjectedIsNat
  <2>5. QED
    BY <2>1, <2>4 DEF Shape, Workspace
<1>6. RunGoesOn
  BY <1>1, <1>2, <1>3, <1>4, <1>5 DEF RunGoesOn
<1>7. ASSUME ~ run.opts.dry_run
      PROVE  /\ spent' + OwedSum(run') - run'.state.running_cost
                  <= spent + OwedSum(run) - run.state.running_cost
             /\ \/ spent' + OpenSum(run') <= spent + OpenSum(run)
                \/ /\ spent' = spent /\ OwedSum(run) = OpenSum(run)
                   /\ \E p \in Nat :
                        /\ OpenSum(run') = OpenSum(run) + p
                        /\ run.opts.max_cost # None =>
                             run.state.running_cost + p <= run.opts.max_cost
  <2>1. CASE /\ OwedSum(run') = OwedSum(run) /\ OpenSum(run') = OpenSum(run)
             /\ run'.state.running_cost = run.state.running_cost
    BY <1>1, <1>2, <1>4, <2>1
  <2>2. ASSUME NEW p \in Nat,
               OwedSum(run') = OwedSum(run) + p, OpenSum(run') = OpenSum(run) + p,
               run'.state.running_cost = run.state.running_cost + p,
               run.opts.max_cost # None => run.state.running_cost + p <= run.opts.max_cost
        PROVE  /\ spent' + OwedSum(run') - run'.state.running_cost
                    <= spent + OwedSum(run) - run.state.running_cost
               /\ \E q \in Nat :
                    /\ OpenSum(run') = OpenSum(run) + q
                    /\ run.opts.max_cost # None =>
                         run.state.running_cost + q <= run.opts.max_cost
    BY <1>1, <1>2, <1>4, <2>2
  <2>3. QED
    BY <1>1, <1>3, <1>7, <2>1, <2>2
<1>8. SpendingGoesOn
  BY <1>1, <1>2, <1>7 DEF SpendingGoesOn
<1>9. QED
  BY <1>1, <1>6, <1>8

LEMMA RespondGoesOn ==
  ASSUME Shape, NEW i, Respond(i)
  PROVE  RunGoesOn /\ SpendingGoesOn /\ runs' = runs
<1>1. /\ run.phase = "executing" /\ i \in run.inflight /\ runs' = runs /\ tracked' = tracked
  BY DEF Respond
<1>2. run # NoRun /\ RunOK(run) /\ spent \in Nat
  BY <1>1, RunIsThere DEF Shape
<1>3. /\ RunOK(run') /\ run'.opts = run.opts /\ run'.state = run.state /\ run'.id = run.id
      /\ \E cost \in Nat : /\ spent' = spent + cost
                           /\ OwedSum(run') = OwedSum(run) - cost
                           /\ OpenSum(run') + cost <= OpenSum(run)
  BY <1>2, RespondIsOK
<1>4. /\ run.state.running_cost \in Int /\ OwedSum(run) \in Nat /\ OpenSum(run) \in Nat
      /\ OwedSum(run') \in Nat /\ OpenSum(run') \in Nat /\ run' # NoRun
  BY <1>2, <1>3, RunIs, NextRunIs
<1>5. ~ run.opts.dry_run
  BY <1>1, <1>2 DEF RunOK, Staged
<1>6. RunGoesOn
  BY <1>1, <1>2, <1>3, <1>4 DEF RunGoesOn, Shape
<1>7. SpendingGoesOn
  <2>1. PICK cost \in Nat : /\ spent' = spent + cost
                            /\ OwedSum(run') = OwedSum(run) - cost
                            /\ OpenSum(run') + cost <= OpenSum(run)
    BY <1>3
  <2>2. /\ spent' \in Nat /\ spent' + OpenSum(run') <= spent + OpenSum(run)
        /\ spent' + OwedSum(run') - run'.state.running_cost
             <= spent + OwedSum(run) - run.state.running_cost
    BY <1>2, <1>3, <1>4, <2>1
  <2>3. QED
    BY <1>5, <2>2 DEF SpendingGoesOn
<1>8. QED
  BY <1>1, <1>6, <1>7

LEMMA FinalizeGoesOn ==
  ASSUME Shape, FinalizeCall \/ WaveEnds
  PROVE  RunGoesOn /\ SpendingGoesOn /\ runs' = runs
<1>1. /\ run.phase = "executing" /\ runs' = runs /\ tracked' = tracked /\ spent' = spent
  BY DEF FinalizeCall, WaveEnds
<1>2. run # NoRun /\ RunOK(run) /\ spent \in Nat
  BY <1>1, RunIsThere DEF Shape
<1>3. /\ RunOK(run') /\ run'.opts = run.opts /\ run'.id = run.id
      /\ OpenSum(run') = OpenSum(run)
  BY <1>2, FinalizeIsOK, WaveEndsIsOK
<1>4. /\ run.state.running_cost \in Int /\ OwedSum(run) \in Nat /\ OpenSum(run) \in Nat
      /\ run'.state.running_cost \in Int /\ OwedSum(run') \in Nat /\ OpenSum(run') \in Nat
      /\ run' # NoRun
  BY <1>2, <1>3, RunIs, NextRunIs
<1>5. OwedSum(run') - run'.state.running_cost <= OwedSum(run) - run.state.running_cost
  <2>1. CASE FinalizeCall
    BY <1>2, <2>1, FinalizeIsOK
  <2>2. CASE WaveEnds
    <3>1. OwedSum(run') = OwedSum(run) /\ run'.state = run.state
      BY <1>2, <2>2, WaveEndsIsOK
    <3>2. QED
      BY <1>4, <3>1
  <2>3. QED
    BY <2>1, <2>2
<1>6. RunGoesOn
  BY <1>1, <1>2, <1>3, <1>4 DEF RunGoesOn, Shape
<1>7. /\ spent' + OpenSum(run') <= spent + OpenSum(run)
      /\ spent' + OwedSum(run') - run'.state.running_cost
           <= spent + OwedSum(run) - run.state.running_cost
  BY <1>1, <1>2, <1>3, <1>4, <1>5
<1>8. SpendingGoesOn
  BY <1>1, <1>2, <1>7 DEF SpendingGoesOn
<1>9. QED
  BY <1>1, <1>6, <1>8

LEMMA PhaseGoesOn ==
  ASSUME Shape, PersistRun \/ RunErrs \/ FinalizeEvidence
  PROVE  /\ RunGoesOn /\ SpendingGoesOn /\ run'.phase \in {"persisted", "ended", "error"}
         /\ ~ PersistRun => runs' = runs
<1>1. /\ tracked' = tracked /\ spent' = spent /\ (~ PersistRun => runs' = runs)
      /\ run.phase \in {"executing", "persisting", "persisted"}
      /\ \E phase \in {"persisted", "ended", "error"} :
           /\ run' = [run EXCEPT !.phase = phase]
           /\ phase = "error" \/ run.phase \in {"persisting", "persisted"}
  <2>1. CASE PersistRun
    BY <2>1 DEF PersistRun
  <2>2. CASE RunErrs
    BY <2>2 DEF RunErrs
  <2>3. CASE FinalizeEvidence
    BY <2>3 DEF FinalizeEvidence
  <2>4. QED
    BY <2>1, <2>2, <2>3
<1>2. run # NoRun /\ RunOK(run) /\ spent \in Nat
  BY <1>1, RunIsThere DEF Shape
<1>3. PICK phase \in {"persisted", "ended", "error"} :
        /\ run' = [run EXCEPT !.phase = phase]
        /\ phase = "error" \/ run.phase \in {"persisting", "persisted"}
  BY <1>1
<1>4. /\ RunOK(run') /\ run'.opts = run.opts /\ run'.state = run.state /\ run'.id = run.id
      /\ OwedSum(run') = OwedSum(run) /\ OpenSum(run') = OpenSum(run)
  BY <1>1, <1>2, <1>3, PhaseIsOK
<1>5. run'.phase = phase
  <2>1. run \in Running(run.plan)
    BY <1>2, RunIs
  <2>2. QED
    BY <1>3, <2>1 DEF Running
<1>6. /\ run.state.running_cost \in Int /\ OwedSum(run) \in Nat /\ OpenSum(run) \in Nat
      /\ run' # NoRun
  BY <1>2, <1>4, RunIs, NextRunIs
<1>7. RunGoesOn
  BY <1>1, <1>2, <1>4, <1>5, <1>6 DEF RunGoesOn, Shape
<1>8. /\ spent' + OpenSum(run') <= spent + OpenSum(run)
      /\ spent' + OwedSum(run') - run'.state.running_cost
           <= spent + OwedSum(run) - run.state.running_cost
  BY <1>1, <1>2, <1>4, <1>6
<1>9. SpendingGoesOn
  BY <1>1, <1>2, <1>8 DEF SpendingGoesOn
<1>10. QED
  BY <1>1, <1>5, <1>7, <1>9

\* Spending goes on through the steps of the run.
LEMMA SpendingKeeps ==
  ASSUME Shape, Spending, RunGoesOn, SpendingGoesOn, loop' = loop
  PROVE  Spending'
<1>1. /\ run # NoRun /\ run' # NoRun /\ RunOK(run) /\ RunOK(run') /\ run'.opts = run.opts
      /\ spent \in Nat /\ spent' \in Nat
  BY DEF Shape, RunGoesOn, SpendingGoesOn
<1>2. /\ run.state.running_cost \in Int /\ OwedSum(run) \in Nat /\ OpenSum(run) \in Nat
      /\ run'.state.running_cost \in Int /\ OwedSum(run') \in Nat /\ OpenSum(run') \in Nat
      /\ ReservedSum(run) \in Nat /\ TotalCost(run) \in Nat
  BY <1>1, RunIs, NextRunIs
<1>3. Ceiling' = Ceiling
  BY DEF Ceiling
<1> SUFFICES ASSUME loop.opts \in LoopOptions
             PROVE  /\ run'.opts.max_cost = Ceiling /\ loop.status = "running"
                    /\ run'.opts.dry_run = loop.opts.dry_run
                    /\ loop.opts.dry_run => spent' = 0
                    /\ ~ loop.opts.dry_run /\ loop.opts.max_total_cost # None =>
                         /\ spent' <= loop.opts.max_total_cost
                         /\ spent' + OwedSum(run')
                              <= loop.total_cost + run'.state.running_cost
                         /\ spent' + OpenSum(run') <= loop.opts.max_total_cost
  BY <1>1, <1>3 DEF Spending
<1>4. /\ loop.status = "running" /\ run.opts.max_cost = Ceiling
      /\ run.opts.dry_run = loop.opts.dry_run
      /\ loop.opts.dry_run => spent = 0
  BY <1>1 DEF Spending
<1>5. loop.opts.dry_run => spent' = 0
  BY <1>4 DEF SpendingGoesOn
<1>6. ASSUME ~ loop.opts.dry_run, loop.opts.max_total_cost # None
      PROVE  /\ spent' <= loop.opts.max_total_cost
             /\ spent' + OwedSum(run') <= loop.total_cost + run'.state.running_cost
             /\ spent' + OpenSum(run') <= loop.opts.max_total_cost
  <2> DEFINE max == loop.opts.max_total_cost
             total == loop.total_cost
             cost == run.state.running_cost
  <2>1. max \in Nat /\ total \in Nat
    BY <1>6, LoopIs
  <2>2. spent + OwedSum(run) <= total + cost /\ spent + OpenSum(run) <= max
    BY <1>1, <1>6 DEF Spending
  <2>3. ~ run.opts.dry_run
    BY <1>4, <1>6
  <2>4. spent' + OwedSum(run') - run'.state.running_cost <= spent + OwedSum(run) - cost
    BY <2>3 DEF SpendingGoesOn
  <2> DEFINE next == run'.state.running_cost
  <2>5. spent' + OwedSum(run') <= total + next
    <3> HIDE DEF cost, next, total
    <3>1. QED
      BY <1>1, <1>2, <2>1, <2>2, <2>4 DEF cost, next
  <2>6. spent' + OpenSum(run') <= max
    <3>1. CASE spent' + OpenSum(run') <= spent + OpenSum(run)
      <4> HIDE DEF max
      <4>1. QED
        BY <1>1, <1>2, <2>1, <2>2, <3>1
    <3>2. ASSUME spent' = spent, OwedSum(run) = OpenSum(run), NEW p \in Nat,
                 OpenSum(run') = OpenSum(run) + p,
                 run.opts.max_cost # None => cost + p <= run.opts.max_cost
          PROVE  spent' + OpenSum(run') <= max
      <4>1. cost >= 0 /\ cost \in Int
        <5>1. cost = TotalCost(run) + ReservedSum(run)
          BY <1>1, <2>3 DEF RunOK, Balanced
        <5>2. QED
          BY <1>2, <5>1
      <4>2. run.opts.max_cost = IF max - total < 0 THEN 0 ELSE max - total
        BY <1>4, <1>6 DEF Ceiling
      <4>3. run.opts.max_cost # None
        <5>1. run.opts.max_cost \in Nat
          <6> HIDE DEF max, total, cost
          <6>1. QED
            BY <2>1, <4>2
        <5>2. QED
          BY <5>1, NoneAssumption
      <4>4. cost + p <= IF max - total < 0 THEN 0 ELSE max - total
        BY <3>2, <4>2, <4>3
      <4> HIDE DEF max, total, cost
      <4>5. spent + OpenSum(run) + p <= max
        <5>1. CASE max - total < 0
          BY <1>1, <1>2, <2>1, <2>2, <4>1, <4>4, <5>1
        <5>2. CASE max - total >= 0
          <6>1. cost + p <= max - total /\ spent + OpenSum(run) <= total + cost
            BY <2>1, <2>2, <3>2, <4>4, <5>2
          <6>2. QED
            BY <1>1, <1>2, <2>1, <4>1, <6>1
        <5>3. QED
          BY <2>1, <5>1, <5>2
      <4>6. QED
        BY <1>1, <1>2, <2>1, <3>2, <4>5
    <3>3. QED
      BY <2>3, <3>1, <3>2 DEF SpendingGoesOn
  <2>7. QED
    BY <1>1, <1>2, <2>1, <2>5, <2>6
<1>7. QED
  BY <1>1, <1>4, <1>5, <1>6

-----------------------------------------------------------------------------
\* Inv is inductive.

LEMMA InitInv == Init => Inv
<1> SUFFICES ASSUME Init PROVE Inv
  OBVIOUS
<1>1. /\ run = NoRun /\ run.phase = "none" /\ receipt = None /\ saved = {} /\ reviewed = {}
      /\ tracked = {} /\ spent = 0
  BY DEF Init, InitRunner, NoRun
<1>2. /\ DOMAIN runs = RunId /\ \A r \in RunId : runs[r] = None
      /\ DOMAIN recovery = RunId /\ \A r \in RunId : recovery[r] = None
  BY DEF Init, InitRunner
<1>3. /\ loop \in LoopState /\ loop.index = 0 /\ loop.total_cost = 0
      /\ loop.status = "running" => loop.opts \in LoopOptions
      /\ loop.status = "direct" => loop.opts \in DirectOptions
  BY DEF Init, LoopState, LoopStatus
<1>4. OtherRun \in Nat /\ OtherRun > 1
  BY AutoLoopAssumption
<1>5. Shape
  BY <1>1, <1>2, <1>3, <1>4 DEF Shape
<1>6. Spending
  <2>1. ASSUME loop.opts \in LoopOptions, loop.opts.max_total_cost # None
        PROVE  loop.opts.max_total_cost \in Nat
    BY <1>5, <2>1, LoopIs
  <2>2. QED
    BY <1>1, <1>3, <2>1 DEF Spending
<1>7. QED
  BY <1>1, <1>2, <1>3, <1>5, <1>6
     DEF Inv, EvidenceInv, WrittenOnce, AttemptProven, AcceptedIsProven

\* Steps of the run, while the loop waits.
LEMMA RunKeeps ==
  ASSUME Inv, RunGoesOn, SpendingGoesOn, runs' = runs,
         UNCHANGED <<loop, evidenceVars, reviewed>>
  PROVE  Inv'
<1>1. run # NoRun /\ run' # NoRun /\ spent' \in Nat
  BY DEF RunGoesOn, SpendingGoesOn
<1>2. Spending'
  BY SpendingKeeps DEF Inv
<1>3. Shape'
  BY <1>1 DEF RunGoesOn, evidenceVars, Inv, Shape
<1>4. WrittenOnce' /\ EvidenceInv' /\ AttemptProven' /\ AcceptedIsProven'
  BY <1>1 DEF RunGoesOn, evidenceVars, Inv, EvidenceInv, WrittenOnce, AttemptProven,
              AcceptedIsProven
<1>5. QED
  BY <1>2, <1>3, <1>4 DEF Inv

LEMMA PersistKeeps ==
  ASSUME Inv, PersistRun, UNCHANGED <<loop, evidenceVars, reviewed>>
  PROVE  Inv'
<1>1. /\ run.phase = "persisting" /\ runs' = [runs EXCEPT ![run.id] = OrchestrationRun(run)]
  BY DEF PersistRun
<1>2. RunGoesOn /\ SpendingGoesOn /\ run'.phase \in {"persisted", "ended", "error"}
  BY PhaseGoesOn DEF Inv
<1>3. /\ run # NoRun /\ run' # NoRun /\ run'.id = run.id /\ spent' \in Nat /\ RunOK(run')
      /\ tracked' \subseteq RunId \X StepId
  BY <1>2 DEF RunGoesOn, SpendingGoesOn
<1>4. run.id \in RunId /\ runs[run.id] = None
  BY <1>1, <1>3 DEF Inv, Shape, WrittenOnce
<1>5. /\ DOMAIN runs' = RunId /\ run.id \notin reviewed
      /\ \A r \in RunId \ {run.id} : runs'[r] = runs[r]
  BY <1>1, <1>4 DEF Inv, Shape, AcceptedIsProven
<1>6. Shape'
  BY <1>3, <1>5 DEF evidenceVars, Inv, Shape
<1>7. Spending'
  BY <1>2, SpendingKeeps DEF Inv
<1>8. EvidenceInv' /\ AttemptProven'
  BY <1>3 DEF evidenceVars, Inv, EvidenceInv, AttemptProven
<1>9. WrittenOnce'
  <2>1. \A r \in RunId : loop.index < r => r # run.id
    <3>1. run.id = loop.index
      BY <1>3 DEF Inv, Shape
    <3>2. loop.index \in Nat
      BY LoopIs DEF Inv
    <3>3. QED
      BY <3>1, <3>2
  <2>2. QED
    BY <1>2, <1>5, <2>1 DEF Inv, WrittenOnce
<1>10. AcceptedIsProven'
  BY <1>5 DEF evidenceVars, Inv, Shape, AcceptedIsProven
<1>11. QED
  BY <1>6, <1>7, <1>8, <1>9, <1>10 DEF Inv

\* The run's evidence is saved, or kept to recover it from, or lost.
LEMMA FinalizeKeeps ==
  ASSUME Inv, FinalizeEvidence
  PROVE  Inv'
<1> DEFINE rc == ReceiptOf(run.id, runs[run.id])
<1>1. UNCHANGED <<tracked, runs, spent, loop, reviewed>>
  BY DEF FinalizeEvidence
<1>2. RunGoesOn /\ SpendingGoesOn /\ run'.phase \in {"persisted", "ended", "error"}
  BY PhaseGoesOn DEF Inv
<1>3. /\ run # NoRun /\ run' # NoRun /\ run'.id = run.id /\ RunOK(run') /\ run.id \in RunId
  BY <1>2 DEF RunGoesOn, Inv, Shape
<1>4. rc.run_id = run.id
  BY DEF ReceiptOf
<1> HIDE DEF rc
<1>5. \/ UNCHANGED evidenceVars
      \/ \E replaced, recorded \in BOOLEAN :
           /\ receipt' = IF replaced THEN rc ELSE receipt
           /\ saved' = IF replaced THEN saved \cup {run.id} ELSE saved
           /\ recovery' = [recovery EXCEPT ![run.id] = IF recorded THEN rc ELSE None]
  BY DEF FinalizeEvidence, rc
<1>6. /\ saved \subseteq saved' /\ (receipt' # None => receipt'.run_id \in saved')
      /\ saved' \subseteq RunId
  BY <1>3, <1>4, <1>5 DEF evidenceVars, Inv, Shape, EvidenceInv
<1>7. DOMAIN recovery' = RunId /\ \A r \in RunId : recovery'[r] # None => recovery'[r].run_id = r
  BY <1>3, <1>4, <1>5 DEF evidenceVars, Inv, Shape, EvidenceInv
<1>8. Shape' /\ EvidenceInv'
  BY <1>1, <1>3, <1>6, <1>7 DEF Inv, Shape, EvidenceInv
<1>9. WrittenOnce' /\ AttemptProven'
  BY <1>1, <1>2, <1>3 DEF Inv, WrittenOnce, AttemptProven
<1>10. AcceptedIsProven'
  BY <1>1, <1>6 DEF Inv, AcceptedIsProven
<1>11. Spending'
  BY <1>1, <1>2, SpendingKeeps DEF Inv
<1>12. QED
  BY <1>8, <1>9, <1>10, <1>11 DEF Inv

\* Spending does not look at the evidence.
LEMMA SpendingSame ==
  ASSUME Spending, UNCHANGED <<run, spent, loop>>
  PROVE  Spending'
<1>1. OwedSum(run)' = OwedSum(run) /\ OpenSum(run)' = OpenSum(run) /\ Ceiling' = Ceiling
  BY DEF OwedSum, OpenSum, OwedCosts, OpenCosts, Charged, ProjectedCost, SumTo, Ceiling
<1>2. QED
  BY <1>1 DEF Spending

LEMMA RepairKeeps ==
  ASSUME Inv, NEW id \in RunId, repair_execution_evidence(id)
  PROVE  Inv'
<1>1. /\ recovery[id] # None /\ recovery' = [recovery EXCEPT ![id] = None]
      /\ receipt' = receipt \/ receipt' = recovery[id]
      /\ saved' = saved \cup {id}
      /\ UNCHANGED <<run, runs, tracked, spent, loop, reviewed>>
  BY DEF repair_execution_evidence, runnerVars
<1>2. recovery[id].run_id = id
  BY <1>1 DEF Inv, EvidenceInv
<1>3. Shape' /\ EvidenceInv'
  BY <1>1, <1>2 DEF Inv, Shape, EvidenceInv
<1>4. WrittenOnce' /\ AttemptProven' /\ AcceptedIsProven'
  BY <1>1 DEF Inv, WrittenOnce, AttemptProven, AcceptedIsProven
<1>5. Spending'
  BY <1>1, SpendingSame DEF Inv
<1>6. QED
  BY <1>3, <1>4, <1>5 DEF Inv

LEMMA AcceptKeeps ==
  ASSUME Inv, NEW id \in RunId, AcceptRun(id)
  PROVE  Inv'
<1>1. /\ runs[id] # None /\ evidence_state_for_run(id) = "ready"
      /\ reviewed' = reviewed \cup {id}
      /\ UNCHANGED <<run, runs, tracked, spent, loop, receipt, recovery, saved>>
  BY DEF AcceptRun, runnerVars, evidenceVars
<1>2. ~ runs[id].dry_run /\ execution_receipt_matches_run(receipt, id)
  BY <1>1 DEF evidence_state_for_run
<1>3. receipt # None /\ receipt.run_id = id /\ receipt.steps = runs[id].results
  BY <1>2 DEF execution_receipt_matches_run
<1>4. id \in saved
  BY <1>3 DEF Inv, EvidenceInv
<1>5. \A k \in DOMAIN runs[id].results : runs[id].results[k].evidence = "complete"
  BY <1>1, <1>2, <1>3 DEF evidence_state_for_run, matching_receipt_status
<1>6. AcceptedIsProven'
  BY <1>1, <1>2, <1>4, <1>5 DEF Inv, AcceptedIsProven
<1>7. Shape' /\ EvidenceInv' /\ WrittenOnce' /\ AttemptProven'
  BY <1>1 DEF Inv, Shape, EvidenceInv, WrittenOnce, AttemptProven
<1>8. Spending'
  BY <1>1, SpendingSame DEF Inv
<1>9. QED
  BY <1>6, <1>7, <1>8 DEF Inv

\* An attempt, or a run outside a loop, starts under an id that is new, and with what
\* is left of the ceiling.
LEMMA StartKeeps ==
  ASSUME Inv, NEW plan \in Plans, NEW opts \in RunOptions, StartRun(NextRunId, plan, opts),
         NextRunId < OtherRun, loop' \in LoopState, loop'.index = NextRunId,
         loop'.status = loop.status, loop'.opts = loop.opts,
         loop'.total_cost = loop.total_cost, UNCHANGED <<evidenceVars, reviewed>>,
         loop.opts \in LoopOptions =>
           /\ loop.status = "running"
           /\ opts.dry_run = loop.opts.dry_run /\ opts.max_cost = Ceiling
  PROVE  Inv'
<1>1. NextRunId = loop.index + 1 /\ NextRunId \in Nat /\ loop.index < NextRunId
  BY LoopIs DEF NextRunId, Inv
<1>2. NextRunId \in RunId \ {OtherRun}
  <2>1. OtherRun \in Nat
    BY AutoLoopAssumption
  <2>2. NextRunId \in 1 .. OtherRun /\ NextRunId # OtherRun
    <3>1. loop.index \in Nat
      BY LoopIs DEF Inv
    <3>2. QED
      BY <1>1, <2>1, <3>1
  <2>3. QED
    BY <2>2, AutoLoopAssumption
<1>3. UNCHANGED <<tracked, runs, spent>> /\ run = NoRun
  BY DEF StartRun
<1>4. /\ RunOK(run') /\ run'.opts = opts /\ run'.state.running_cost = 0
      /\ run'.inflight = {} /\ run'.id = NextRunId
  BY <1>2, StartIsOK
<1>5. run' # NoRun
  BY <1>4, NextRunIs
<1>6. runs[NextRunId] = None
  BY <1>1, <1>2 DEF Inv, WrittenOnce
<1>7. Shape'
  BY <1>1, <1>2, <1>3, <1>4 DEF evidenceVars, Inv, Shape
<1>8. WrittenOnce'
  <2>1. \A r \in RunId : NextRunId < r => loop.index < r
    <3>1. RunId \subseteq Nat
      BY AutoLoopAssumption
    <3>2. loop.index \in Nat
      BY LoopIs DEF Inv
    <3>3. TAKE r \in RunId
    <3>4. r \in Nat
      BY <3>1
    <3>5. QED
      BY <1>1, <3>2, <3>4
  <2>2. QED
    BY <1>3, <1>4, <1>6, <2>1 DEF Inv, WrittenOnce
<1>9. EvidenceInv' /\ AttemptProven' /\ AcceptedIsProven'
  BY <1>3, <1>5 DEF evidenceVars, Inv, EvidenceInv, AttemptProven, AcceptedIsProven
<1>10. Spending'
  <2>1. OwedSum(run') = 0 /\ OpenSum(run') = 0
    <3>1. run'.plan \in Seq(SubAgentTask) /\ run' \in Running(run'.plan)
      BY <1>4, PlacedIs DEF RunOK
    <3>2. QED
      BY <1>4, <3>1, SumsOfNothing
  <2>2. Ceiling' = Ceiling
    BY DEF Ceiling
  <2>3. spent \in Nat /\ loop.total_cost \in Nat
    BY LoopIs DEF Inv, Shape
  <2> SUFFICES ASSUME loop.opts \in LoopOptions
               PROVE  /\ loop'.status = "running" /\ run'.opts.dry_run = loop.opts.dry_run
                      /\ run'.opts.max_cost = Ceiling
                      /\ loop.opts.dry_run => spent = 0
                      /\ ~ loop.opts.dry_run /\ loop.opts.max_total_cost # None =>
                           /\ spent <= loop.opts.max_total_cost
                           /\ spent + OwedSum(run')
                                <= loop.total_cost + run'.state.running_cost
                           /\ spent + OpenSum(run') <= loop.opts.max_total_cost
    BY <1>3, <1>5, <2>2 DEF Spending
  <2>4. /\ loop.opts.dry_run => spent = 0
        /\ ~ loop.opts.dry_run /\ loop.opts.max_total_cost # None =>
             spent <= loop.opts.max_total_cost /\ spent <= loop.total_cost
    BY <1>3 DEF Inv, Spending
  <2>5. /\ loop'.status = "running" /\ run'.opts.dry_run = loop.opts.dry_run
        /\ run'.opts.max_cost = Ceiling
    BY <1>4
  <2>6. spent + OwedSum(run') = spent /\ spent + OpenSum(run') = spent
        /\ loop.total_cost + run'.state.running_cost = loop.total_cost
    BY <1>4, <2>1, <2>3
  <2>7. QED
    BY <2>4, <2>5, <2>6
<1>11. QED
  BY <1>7, <1>8, <1>9, <1>10 DEF Inv

\* The loop's own steps.
LEMMA LoopKeeps ==
  ASSUME Inv, LoopAttempt \/ DirectRun
  PROVE  Inv'
<1>1. /\ NextRunId = loop.index + 1 /\ loop \in LoopState /\ loop.index \in Nat
      /\ loop.total_cost \in Nat /\ OtherRun \in Nat
  BY LoopIs DEF NextRunId, Inv, Shape
<1>2. CASE LoopAttempt
  <2>1. /\ loop.status = "running" /\ run = NoRun /\ loop.index < loop.opts.max_iterations
        /\ UNCHANGED <<evidenceVars, reviewed>>
    BY <1>2 DEF LoopAttempt
  <2>2. loop.opts \in LoopOptions
    BY <2>1 DEF Inv, Shape
  <2>3. NextRunId < OtherRun
    <3>1. loop.opts.max_iterations \in 0 .. OtherRun - 1
      BY <2>2, LoopIs DEF Inv
    <3>2. QED
      BY <1>1, <2>1, <3>1
  <2>4. ASSUME NEW status \in {"needs_approval", "error"},
               loop' = [loop EXCEPT !.status = status], UNCHANGED runnerVars
        PROVE  Inv'
    <3>1. /\ loop' \in LoopState /\ loop'.index = loop.index /\ loop'.opts = loop.opts
          /\ loop'.total_cost = loop.total_cost /\ loop'.status = status
      BY <1>1, <2>4 DEF LoopState, LoopStatus
    <3>2. UNCHANGED <<run, runs, tracked, spent, receipt, recovery, saved, reviewed>>
      BY <2>1, <2>4 DEF runnerVars, evidenceVars
    <3>3. Shape' /\ EvidenceInv' /\ WrittenOnce' /\ AttemptProven' /\ AcceptedIsProven'
      BY <2>1, <3>1, <3>2
         DEF Inv, Shape, EvidenceInv, WrittenOnce, AttemptProven, AcceptedIsProven
    <3>4. Spending'
      BY <2>1, <3>1, <3>2 DEF Inv, Spending
    <3>5. QED
      BY <3>3, <3>4 DEF Inv
  <2>5. ASSUME NEW plan \in Plans, NEW opts \in RunOptions, StartRun(NextRunId, plan, opts),
               opts.dry_run = loop.opts.dry_run, opts.max_cost = Ceiling,
               loop' = [loop EXCEPT !.index = @ + 1]
        PROVE  Inv'
    <3>1. /\ loop' \in LoopState /\ loop'.index = NextRunId
          /\ loop'.status = loop.status /\ loop'.opts = loop.opts
          /\ loop'.total_cost = loop.total_cost
      BY <1>1, <2>5 DEF LoopState
    <3>2. QED
      BY <2>1, <2>3, <2>5, <3>1, StartKeeps
  <2> DEFINE opts == [dry_run |-> loop.opts.dry_run, max_cost |-> Ceiling,
                      allow_paid |-> loop.opts.approve_paid,
                      allow_agents |-> loop.opts.approve_coding_agents,
                      allow_writes |-> loop.opts.approve_coding_agents,
                      isolate_all |-> loop.opts.isolate_all]
  <2>6. opts \in RunOptions /\ opts.dry_run = loop.opts.dry_run /\ opts.max_cost = Ceiling
    <3>1. loop.opts \in LoopOption
      BY <2>2, AutoLoopAssumption
    <3>2. Ceiling \in Nat \cup {None}
      <4>1. loop.opts.max_total_cost \in Nat \cup {None}
        BY <3>1 DEF LoopOption
      <4>2. CASE loop.opts.max_total_cost = None
        BY <4>2 DEF Ceiling
      <4>3. CASE loop.opts.max_total_cost # None
        BY <1>1, <4>1, <4>3 DEF Ceiling
      <4>4. QED
        BY <4>2, <4>3
    <3>3. QED
      BY <3>1, <3>2 DEF LoopOption, RunOptions
  <2>7. \/ \E status \in {"needs_approval", "error"} :
             loop' = [loop EXCEPT !.status = status] /\ UNCHANGED runnerVars
        \/ \E plan \in Plans : /\ StartRun(NextRunId, plan, opts)
                               /\ loop' = [loop EXCEPT !.index = @ + 1]
    BY <1>2 DEF LoopAttempt, Ceiling
  <2> HIDE DEF opts
  <2>8. QED
    BY <2>4, <2>5, <2>6, <2>7
<1>3. CASE DirectRun
  <2>1. PICK plan \in Plans : StartRun(NextRunId, plan, loop.opts)
    BY <1>3 DEF DirectRun
  <2>2. /\ loop.status = "direct" /\ loop.index = 0 /\ loop' = [loop EXCEPT !.index = 1]
        /\ UNCHANGED <<evidenceVars, reviewed>>
    BY <1>3 DEF DirectRun
  <2>3. /\ loop' \in LoopState /\ loop'.index = NextRunId
        /\ loop'.status = loop.status /\ loop'.opts = loop.opts
        /\ loop'.total_cost = loop.total_cost
    BY <1>1, <2>2 DEF LoopState
  <2>4. NextRunId < OtherRun
    BY <1>1, <2>2, AutoLoopAssumption
  <2>5. loop.opts \in RunOptions /\ loop.opts \notin LoopOptions
    <3>1. loop.opts \in DirectOptions
      BY <2>2 DEF Inv, Shape
    <3>2. QED
      BY <3>1, OptionsDiffer, AutoLoopAssumption
  <2>6. QED
    BY <2>1, <2>2, <2>3, <2>4, <2>5, StartKeeps
<1>4. QED
  BY <1>2, <1>3

\* A run ends: what it has spent, the loop has counted.
LEMMA TurnCounts ==
  ASSUME Inv, LoopTurnEnds
  PROVE  /\ loop' \in LoopState /\ loop'.index = loop.index /\ loop'.opts = loop.opts
         /\ loop'.total_cost = loop.total_cost + TotalCost(run)
         /\ loop'.status # "direct"
         /\ loop'.status = "running" => loop.index \in saved
         /\ loop.opts \in LoopOptions /\ ~ loop.opts.dry_run
              /\ loop.opts.max_total_cost # None => spent <= loop'.total_cost
<1>1. /\ loop.status = "running" /\ run.phase = "ended" /\ loop \in LoopState
  BY DEF LoopTurnEnds, Inv, Shape
<1>2. /\ run # NoRun /\ RunOK(run) /\ run.id = loop.index /\ spent \in Nat
  BY <1>1 DEF NoRun, Inv, Shape
<1>3. /\ run \in Running(run.plan) /\ run.plan \in Seq(SubAgentTask)
      /\ run.state.running_cost \in Int /\ TotalCost(run) \in Nat
      /\ loop.total_cost \in Nat
  BY <1>2, RunIs, LoopIs DEF Inv
<1> DEFINE verdict == classify(run.id)
           over == /\ verdict = "running"
                   /\ \/ loop.opts.max_total_cost # None
                         /\ loop.total_cost + TotalCost(run) >= loop.opts.max_total_cost
                      \/ loop.index = loop.opts.max_iterations
<1>4. loop' = [loop EXCEPT !.total_cost = loop.total_cost + TotalCost(run),
                           !.status = IF over THEN "exhausted" ELSE verdict]
  BY DEF LoopTurnEnds
<1>5. verdict \in LoopStatus
  BY DEF classify, LoopStatus
<1>6. verdict = "running" => run.id \in saved
  <2> SUFFICES ASSUME verdict = "running" PROVE run.id \in saved
    OBVIOUS
  <2>1. ~ runs[run.id].dry_run /\ evidence_state_for_run(run.id) # "recovery_required"
    BY DEF classify
  <2>2. receipt # None /\ receipt.run_id = run.id
    BY <2>1 DEF evidence_state_for_run, execution_receipt_matches_run
  <2>3. QED
    BY <2>2 DEF Inv, EvidenceInv
<1> HIDE DEF verdict, over
<1> DEFINE total == loop.total_cost + TotalCost(run)
           status == IF over THEN "exhausted" ELSE verdict
<1>7. total \in Nat /\ status \in LoopStatus /\ (status = "running" => verdict = "running")
      /\ status # "direct"
  <2>1. total \in Nat
    BY <1>3
  <2>2. status \in LoopStatus /\ (status = "running" => verdict = "running")
    BY <1>5 DEF LoopStatus
  <2>3. status # "direct"
    BY <1>5 DEF LoopStatus
  <2>4. QED
    BY <2>1, <2>2, <2>3
<1> HIDE DEF total, status
<1>8. loop' = [loop EXCEPT !.total_cost = total, !.status = status]
  BY <1>4 DEF total, status
<1>9. /\ loop' \in LoopState /\ loop'.index = loop.index /\ loop'.opts = loop.opts
      /\ loop'.total_cost = total /\ loop'.status = status
  BY <1>1, <1>7, <1>8 DEF LoopState
<1>10. ASSUME loop.opts \in LoopOptions, ~ loop.opts.dry_run,
              loop.opts.max_total_cost # None
       PROVE  spent <= total
  <2>1. /\ run.opts.dry_run = loop.opts.dry_run
        /\ spent + OwedSum(run) <= loop.total_cost + run.state.running_cost
    BY <1>2, <1>10 DEF Inv, Spending
  <2>2. run.inflight = {}
    BY <1>1, <1>2 DEF RunOK, Staged
  <2>3. ReservedSum(run) = 0 /\ OwedSum(run) = 0
    BY <1>3, <2>2, SumsOfNothing
  <2>4. run.state.running_cost = TotalCost(run) + ReservedSum(run)
    BY <1>2, <1>10, <2>1 DEF RunOK, Balanced
  <2>5. QED
    BY <1>2, <1>3, <2>1, <2>3, <2>4 DEF total
<1>11. QED
  BY <1>2, <1>6, <1>7, <1>9, <1>10 DEF total

LEMMA EndKeeps ==
  ASSUME Inv, LoopTurnEnds \/ LoopErrs \/ DirectRunEnds \/ Crash
  PROVE  Inv'
<1>1. /\ run # NoRun /\ run' = NoRun /\ loop \in LoopState
      /\ UNCHANGED <<runs, tracked, spent, receipt, recovery, saved, reviewed>>
  BY DEF LoopTurnEnds, LoopErrs, DirectRunEnds, Crash, evidenceVars, NoRun, Inv, Shape
<1>2. run'.phase = "none"
  BY <1>1 DEF NoRun
<1>3. /\ loop' \in LoopState /\ loop'.index = loop.index /\ loop'.opts = loop.opts
      /\ loop'.status = "running" => loop.status = "running" /\ loop.index \in saved
      /\ loop'.status = "direct" => loop.status = "direct"
      /\ loop'.status = "running" /\ loop.opts \in LoopOptions /\ ~ loop.opts.dry_run
           /\ loop.opts.max_total_cost # None => spent <= loop'.total_cost
  <2>1. CASE LoopTurnEnds
    <3>1. loop.status = "running"
      BY <2>1 DEF LoopTurnEnds
    <3>2. QED
      BY <2>1, <3>1, TurnCounts
  <2>2. CASE LoopErrs \/ Crash
    <3>1. PICK status \in {"error", "crashed"} : loop' = [loop EXCEPT !.status = status]
      BY <2>2 DEF LoopErrs, Crash
    <3>2. QED
      BY <1>1, <3>1 DEF LoopState, LoopStatus
  <2>3. CASE DirectRunEnds
    <3>1. loop.status = "direct" /\ loop' = loop
      BY <2>3 DEF DirectRunEnds
    <3>2. QED
      BY <1>1, <3>1
  <2>4. QED
    BY <2>1, <2>2, <2>3
<1>4. Shape' /\ EvidenceInv' /\ WrittenOnce' /\ AttemptProven' /\ AcceptedIsProven'
  BY <1>1, <1>2, <1>3
     DEF Inv, Shape, EvidenceInv, WrittenOnce, AttemptProven, AcceptedIsProven
<1>5. Spending'
  <2>1. loop.opts \in LoopOptions =>
          /\ loop.opts.dry_run => spent = 0
          /\ ~ loop.opts.dry_run /\ loop.opts.max_total_cost # None =>
               spent <= loop.opts.max_total_cost
    BY DEF Inv, Spending
  <2>2. QED
    BY <1>1, <1>3, <2>1 DEF Spending
<1>6. QED
  BY <1>4, <1>5 DEF Inv

LEMMA OtherRunKeeps ==
  ASSUME Inv, OtherRunEnds
  PROVE  Inv'
<1> DEFINE other == [dry_run |-> FALSE, results |-> <<>>, status |-> "completed"]
<1>1. /\ runs[OtherRun] = None /\ runs' = [runs EXCEPT ![OtherRun] = other]
      /\ receipt'.run_id = OtherRun /\ saved' = saved \cup {OtherRun}
      /\ UNCHANGED <<run, tracked, spent, loop, recovery, reviewed>>
  BY DEF OtherRunEnds, ReceiptOf
<1> HIDE DEF other
<1>2. OtherRun \in RunId /\ OtherRun \notin reviewed
  BY <1>1, AutoLoopAssumption DEF Inv, AcceptedIsProven
<1>3. DOMAIN runs' = RunId /\ \A r \in RunId \ {OtherRun} : runs'[r] = runs[r]
  BY <1>1 DEF Inv, Shape
<1>4. Shape' /\ EvidenceInv' /\ AttemptProven'
  BY <1>1, <1>2, <1>3 DEF Inv, Shape, EvidenceInv, AttemptProven
<1>5. WrittenOnce'
  <2>1. run'.phase \in {"deciding", "executing", "persisting"} => run # NoRun
    BY <1>1 DEF NoRun
  <2>2. OtherRun \in Nat
    BY AutoLoopAssumption
  <2>3. QED
    BY <1>1, <1>3, <2>1, <2>2 DEF Inv, Shape, WrittenOnce
<1>6. AcceptedIsProven'
  BY <1>1, <1>2, <1>3 DEF Inv, Shape, AcceptedIsProven
<1>7. Spending'
  BY <1>1, SpendingSame DEF Inv
<1>8. QED
  BY <1>4, <1>5, <1>6, <1>7 DEF Inv

LEMMA NextKeeps == Inv /\ [Next]_vars => Inv'
<1> SUFFICES ASSUME Inv, [Next]_vars PROVE Inv'
  OBVIOUS
<1>1. CASE UNCHANGED vars \/ Cleanup
  <2>1. /\ UNCHANGED <<run, runs, spent, loop, receipt, recovery, saved, reviewed>>
        /\ tracked' \subseteq tracked
    BY <1>1 DEF vars, runnerVars, evidenceVars, Cleanup, cleanup_run_worktree
  <2>2. Shape' /\ EvidenceInv' /\ WrittenOnce' /\ AttemptProven' /\ AcceptedIsProven'
    BY <2>1 DEF Inv, Shape, EvidenceInv, WrittenOnce, AttemptProven, AcceptedIsProven
  <2>3. Spending'
    BY <2>1, SpendingSame DEF Inv
  <2>4. QED
    BY <2>2, <2>3 DEF Inv
<1>2. CASE RunStep
  <2>1. UNCHANGED <<loop, evidenceVars, reviewed>>
    BY <1>2 DEF RunStep
  <2>2. \/ DecideStep \/ (\E i : Respond(i)) \/ FinalizeCall \/ WaveEnds \/ RunErrs
        \/ PersistRun
    BY <1>2 DEF RunStep
  <2>3. CASE PersistRun
    BY <2>1, <2>3, PersistKeeps
  <2>4. CASE \/ DecideStep \/ (\E i : Respond(i)) \/ FinalizeCall \/ WaveEnds
             \/ RunErrs /\ ~ PersistRun
    <3>1. RunGoesOn /\ SpendingGoesOn /\ runs' = runs
      BY <2>4, DecideGoesOn, RespondGoesOn, FinalizeGoesOn, PhaseGoesOn DEF Inv
    <3>2. QED
      BY <2>1, <3>1, RunKeeps
  <2>5. QED
    BY <2>2, <2>3, <2>4
<1>3. CASE FinalizeEvidence
  BY <1>3, FinalizeKeeps
<1>4. CASE LoopAttempt \/ DirectRun
  BY <1>4, LoopKeeps
<1>5. CASE LoopTurnEnds \/ LoopErrs \/ DirectRunEnds \/ Crash
  BY <1>5, EndKeeps
<1>6. CASE \E id \in RunId : repair_execution_evidence(id) \/ AcceptRun(id)
  BY <1>6, RepairKeeps, AcceptKeeps
<1>7. CASE OtherRunEnds
  BY <1>7, OtherRunKeeps
<1>8. QED
  BY <1>1, <1>2, <1>3, <1>4, <1>5, <1>6, <1>7 DEF Next, Attempt

-----------------------------------------------------------------------------
(* Whatever is accepted was a real run with a receipt and complete change
   evidence, also after failed saves, repairs from a record, crashes, other
   runs and worktrees cleaned up (execution_evidence.rs, review.rs). *)
THEOREM AcceptedRunsAreProven == Spec => []AcceptedIsProven
<1>1. Inv => AcceptedIsProven
  BY DEF Inv
<1>2. QED
  BY <1>1, InitInv, NextKeeps, PTL DEF Spec

(* A loop goes on to another attempt only when the receipt of the one before it
   has been in the file (auto_loop.rs, classify). *)
THEOREM LoopNeedsEvidence == Spec => UnprovenRunIsNotRepeated
<1> DEFINE A == loop.status = "running" /\ loop.index > 0 /\ loop'.index > loop.index
                  => loop.index \in saved
<1>1. Inv /\ [Next]_vars => [A]_vars
  <2> SUFFICES ASSUME Inv, Next, loop.status = "running", loop.index > 0,
                      loop'.index > loop.index
               PROVE  loop.index \in saved
    OBVIOUS
  <2>1. loop \in LoopState /\ loop.index \in Nat
    BY LoopIs DEF Inv, Shape
  <2>2. CASE LoopAttempt
    BY <2>2 DEF LoopAttempt, Inv, AttemptProven
  <2>3. CASE DirectRun
    BY <2>3 DEF DirectRun
  <2>4. ASSUME loop'.index = loop.index PROVE FALSE
    BY <2>1, <2>4
  <2>5. CASE LoopTurnEnds \/ LoopErrs \/ DirectRunEnds \/ Crash
    <3>1. loop'.index = loop.index
      BY <2>1, <2>5, TurnCounts DEF LoopErrs, DirectRunEnds, Crash, LoopState
    <3>2. QED
      BY <2>4, <3>1
  <2>6. CASE \/ RunStep \/ FinalizeEvidence \/ OtherRunEnds \/ Cleanup
             \/ \E id \in RunId : repair_execution_evidence(id) \/ AcceptRun(id)
    <3>1. loop' = loop
      BY <2>6 DEF RunStep, FinalizeEvidence, OtherRunEnds, Cleanup,
                  repair_execution_evidence, AcceptRun
    <3>2. QED
      BY <2>4, <3>1
  <2>7. QED
    BY <2>2, <2>3, <2>5, <2>6 DEF Next, Attempt
<1>2. QED
  BY <1>1, InitInv, NextKeeps, PTL DEF Spec, UnprovenRunIsNotRepeated

(* A run's steps to decide, calls, answers and results are always of its plan,
   and an answer is kept only for a call in flight (runner.rs). *)
THEOREM ExecutionTypeCorrect == Spec => []TypeOK
<1>1. Inv => TypeOK
  BY DEF Inv, Shape, TypeOK, RunOK, Placed
<1>2. QED
  BY <1>1, InitInv, NextKeeps, PTL DEF Spec

(* A loop never spends more than its total ceiling, each call counted up to what
   was projected for it, over any number of attempts, plans and concurrent
   calls, and whenever a run fails or the process dies (runner.rs, auto_loop.rs). *)
THEOREM SpendingStaysWithinCeiling == Spec => []SpendWithinCeiling
<1>1. Inv => SpendWithinCeiling
  <2> SUFFICES ASSUME Inv, loop.opts \in LoopOptions, loop.opts.max_total_cost # None
               PROVE  spent <= loop.opts.max_total_cost
    BY DEF SpendWithinCeiling
  <2>1. loop.opts.max_total_cost \in Nat
    BY LoopIs DEF Inv
  <2>2. \/ loop.opts.dry_run /\ spent = 0
        \/ spent <= loop.opts.max_total_cost
    BY DEF Inv, Spending
  <2>3. QED
    BY <2>1, <2>2
<1>2. QED
  BY <1>1, InitInv, NextKeeps, PTL DEF Spec

(* A call in flight has, for every step it depends on, a result of this run that
   ended well, through any number of waves (runner.rs run_plan_with_id). *)
THEOREM CallsWaitForDependencies == Spec => []CallsFollowDependencies
<1>1. Inv => CallsFollowDependencies
  BY DEF Inv, Shape, CallsFollowDependencies, RunOK, CallsOrdered, EndedWell
<1>2. QED
  BY <1>1, InitInv, NextKeeps, PTL DEF Spec

-----------------------------------------------------------------------------
\* Each step of a plan comes to one result.

(* Nothing of the plan is left out: a step has its result, or its wave is to come.
   Nothing is done twice: what is open has none, and the results are of
   different steps. *)
Once(r) ==
  r.phase # "error" =>
    /\ \A i, j \in DOMAIN r.plan : r.plan[i].id = r.plan[j].id => i = j
    /\ \A v, w \in DOMAIN r.waves : r.waves[v] \cap r.waves[w] # {} => v = w
    /\ \A i \in DOMAIN r.plan :
         r.plan[i].id \in Landed(r) \/ \E w \in DOMAIN r.waves : i \in r.waves[w]
    /\ \A i \in r.todo \cup r.inflight : r.plan[i].id \notin Landed(r)
    /\ \A w \in DOMAIN r.waves : w # 1 => \A i \in r.waves[w] : r.plan[i].id \notin Landed(r)
    /\ r.phase \in {"persisting", "persisted", "ended"} => r.waves = <<>>
    /\ \A k, l \in DOMAIN r.results : r.results[k].id = r.results[l].id => k = l
    /\ Landed(r) \subseteq StepIds(r.plan)

(* As many ids as steps: no two steps share one. *)
LEMMA IdsDiffer ==
  ASSUME NEW plan \in Seq(SubAgentTask), Cardinality(StepIds(plan)) = Len(plan)
  PROVE  \A i, j \in DOMAIN plan : plan[i].id = plan[j].id => i = j
<1> DEFINE f == [i \in DOMAIN plan |-> plan[i].id]
<1>1. f \in Surjection(DOMAIN plan, StepIds(plan))
  BY DEF StepIds, Surjection
<1>2. DOMAIN plan = 1 .. Len(plan) /\ Len(plan) \in Nat
  OBVIOUS
<1>3. IsFiniteSet(DOMAIN plan) /\ Cardinality(DOMAIN plan) = Len(plan)
  <2>1. IsFiniteSet(1 .. Len(plan))
    BY <1>2, FS_Interval
  <2>2. Cardinality(1 .. Len(plan)) = IF 1 > Len(plan) THEN 0 ELSE Len(plan) - 1 + 1
    <3>1. 1 \in Int /\ Len(plan) \in Int
      BY <1>2
    <3>2. QED
      BY <3>1, FS_Interval
  <2>3. QED
    BY <1>2, <2>1, <2>2
<1> HIDE DEF f
<1>4. f \in Injection(DOMAIN plan, StepIds(plan))
  BY <1>1, <1>3, FS_Surjection
<1>5. \A i, j \in DOMAIN plan : f[i] = f[j] => i = j
  BY <1>4 DEF Injection, IsInjective
<1>6. QED
  BY <1>5 DEF f

(* A run starts with every step in one wave. *)
LEMMA StartOnce ==
  ASSUME NEW id, NEW plan \in Plans, NEW opts, StartRun(id, plan, opts)
  PROVE  Once(run')
<1> DEFINE waves == dependency_waves(plan)
           start == [id |-> id, plan |-> plan, opts |-> opts, waves |-> <<>>,
                     phase |-> "deciding", todo |-> {}, inflight |-> {},
                     responses |-> [i \in DOMAIN plan |-> None], results |-> <<>>,
                     state |-> [unsuccessful |-> {}, running_cost |-> 0, ceiling_hit |-> FALSE]]
<1>1. plan \in Seq(SubAgentTask) /\ waves # None /\ run' = AtWaves(start, waves)
  BY AutoLoopAssumption DEF StartRun
<1>2. /\ waves = WavesFrom(plan) /\ Cardinality(StepIds(plan)) = Len(plan)
      /\ UNION {waves[w] : w \in DOMAIN waves} = DOMAIN plan
  BY <1>1 DEF dependency_waves
<1>3. DependsOnEarlier(plan, {}, waves)
  BY <1>1, <1>2, WavesKeepTheOrder
<1> HIDE DEF waves
<1>4. /\ run'.plan = plan /\ run'.waves = waves /\ run'.results = <<>>
      /\ run'.phase = IF waves = <<>> THEN "persisting" ELSE "deciding"
  BY <1>1 DEF AtWaves
<1>5. Landed(run') = {}
  BY <1>4 DEF Landed
<1>6. \A i, j \in DOMAIN plan : plan[i].id = plan[j].id => i = j
  BY <1>1, <1>2, IdsDiffer
<1>7. \A i \in DOMAIN plan : \E w \in DOMAIN waves : i \in waves[w]
  BY <1>2
<1>8. \A v, w \in DOMAIN waves : waves[v] \cap waves[w] # {} => v = w
  BY <1>3 DEF DependsOnEarlier
<1>9. \A k, l \in DOMAIN run'.results : k = l
  BY <1>4
<1>10. QED
  BY <1>4, <1>5, <1>6, <1>7, <1>8, <1>9 DEF Once

(* A step that brings no result. *)
LEMMA SameOnce ==
  ASSUME NEW r, Once(r), r.phase # "error",
         NEW s, s.plan = r.plan, s.waves = r.waves, s.results = r.results,
         s.todo \cup s.inflight \subseteq r.todo \cup r.inflight,
         \/ s.phase \in {"deciding", "executing", "error"}
         \/ r.phase \in {"persisting", "persisted", "ended"}
  PROVE  Once(s)
<1>1. Landed(s) = Landed(r)
  BY DEF Landed
<1>2. QED
  BY <1>1 DEF Once

(* An open step gets its result, and is open no more. *)
LEMMA ResultOnce ==
  ASSUME NEW r, RunOK(r), Once(r), r.phase \in {"deciding", "executing"},
         NEW i \in r.todo \cup r.inflight, NEW result \in Result, result.id = r.plan[i].id,
         NEW s, s.plan = r.plan, s.waves = r.waves, s.results = Append(r.results, result),
         s.todo \cup s.inflight \subseteq (r.todo \cup r.inflight) \ {i},
         s.phase \in {"deciding", "executing"}
  PROVE  Once(s)
<1>1. /\ r.results \in Seq(Result) /\ r.plan \in Seq(SubAgentTask)
      /\ r.todo \cup r.inflight \subseteq DOMAIN r.plan /\ r.waves \in Seq(SUBSET DOMAIN r.plan)
  BY PlacedIs DEF RunOK
<1>2. /\ DOMAIN r.results = 1 .. Len(r.results) /\ Len(r.results) \in Nat
      /\ DOMAIN s.results = 1 .. Len(r.results) + 1
      /\ \A k \in DOMAIN r.results : s.results[k] = r.results[k]
      /\ s.results[Len(r.results) + 1] = result
  BY <1>1
<1>3. Landed(s) = Landed(r) \cup {r.plan[i].id}
  BY <1>1, ResultAdded
<1>4. /\ \A a, b \in DOMAIN r.plan : r.plan[a].id = r.plan[b].id => a = b
      /\ \A v, w \in DOMAIN r.waves : r.waves[v] \cap r.waves[w] # {} => v = w
      /\ r.plan[i].id \notin Landed(r) /\ i \in DOMAIN r.plan
  BY <1>1 DEF Once
<1>5. i \in r.waves[1] /\ 1 \in DOMAIN r.waves
  BY <1>1 DEF RunOK, Staged
<1>6. ASSUME NEW k \in DOMAIN s.results, NEW l \in DOMAIN s.results,
             s.results[k].id = s.results[l].id
      PROVE  k = l
  <2>1. \A m \in DOMAIN r.results : s.results[m].id \in Landed(r)
    BY <1>2 DEF Landed
  <2>2. \A m \in DOMAIN s.results : m \in DOMAIN r.results \/ m = Len(r.results) + 1
    BY <1>2
  <2>3. s.results[Len(r.results) + 1].id \notin Landed(r)
    BY <1>2, <1>4
  <2>4. \A a, b \in DOMAIN r.results : s.results[a].id = s.results[b].id => a = b
    BY <1>2 DEF Once
  <2>5. QED
    BY <1>6, <2>1, <2>2, <2>3, <2>4
<1>7. \A a \in s.todo \cup s.inflight : r.plan[a].id \notin Landed(s)
  BY <1>1, <1>3, <1>4 DEF Once
<1>8. ASSUME NEW w \in DOMAIN r.waves, w # 1, NEW a \in r.waves[w]
      PROVE  r.plan[a].id \notin Landed(s)
  <2>1. a # i /\ a \in DOMAIN r.plan
    BY <1>1, <1>4, <1>5, <1>8
  <2>2. r.plan[a].id \notin Landed(r)
    BY <1>8 DEF Once
  <2>3. QED
    BY <1>3, <1>4, <2>1, <2>2
<1>9. Landed(s) \subseteq StepIds(r.plan)
  BY <1>3, <1>4 DEF Once, StepIds
<1>10. \A a \in DOMAIN r.plan :
         r.plan[a].id \in Landed(s) \/ \E w \in DOMAIN r.waves : a \in r.waves[w]
  BY <1>3 DEF Once
<1>11. QED
  BY <1>4, <1>6, <1>7, <1>8, <1>9, <1>10 DEF Once

(* A step of the wave is decided. *)
LEMMA DecideOnce ==
  ASSUME RunOK(run), Once(run), DecideStep
  PROVE  Once(run')
<1> DEFINE r == run
           plan == r.plan
           i == Min(r.todo)
<1>1. /\ plan \in Seq(SubAgentTask) /\ r \in Running(plan)
      /\ r.todo \in SUBSET DOMAIN plan /\ r.opts \in RunOptions /\ r.state \in RunState
      /\ DOMAIN plan = 1 .. Len(plan)
  BY PlacedIs DEF RunOK
<1>2. r.phase = "deciding" /\ r.todo # {} /\ r.todo \cap r.inflight = {}
  BY DEF DecideStep, RunOK, Staged
<1>3. i \in r.todo /\ i \in DOMAIN plan /\ plan[i] \in SubAgentTask
  <2>1. r.todo \in SUBSET Nat
    BY <1>1
  <2>2. i \in r.todo
    BY <1>2, <2>1, LeastIndex
  <2>3. QED
    BY <1>1, <2>2
<1>4. PICK env \in StepEnvironment :
        run' = StepDecided(i, Gate(plan[i], r.opts, env, r.state))
  <2> DEFINE Created(g, env) ==
               /\ NeedsWorkspace(plan[i], r.opts)
               /\ g = None \/ g[3] = "workspace"
               /\ env.workspace # "refused"
             Outcome(env) == LET g == Gate(plan[i], r.opts, env, r.state)
                             IN <<g, Created(g, env)>>
  <2>1. PICK outcome \in {Outcome(env) : env \in StepEnvironment} :
          run' = StepDecided(i, outcome[1])
    BY DEF DecideStep
  <2>2. PICK env \in StepEnvironment : outcome = Outcome(env)
    BY <2>1
  <2>3. outcome[1] = Gate(plan[i], r.opts, env, r.state)
    BY <2>2
  <2>4. QED
    BY <2>1, <2>3
<1> DEFINE gate == Gate(plan[i], r.opts, env, r.state)
           s == StepDecided(i, gate)
<1>5. run' = s
  BY <1>4
<1>6. gate \in Verdict \cup {None}
  <2> HIDE DEF plan, i
  <2>1. QED
    BY <1>1, <1>3, GateIs
<1> HIDE DEF gate, i
<1>7. /\ s.waves = r.waves /\ s.todo = r.todo \ {i} /\ s \in Running(plan)
      /\ s.phase \in {"deciding", "executing"}
      /\ gate = None => s.inflight = r.inflight \cup {i} /\ s.results = r.results
      /\ gate # None => s.inflight = r.inflight
                        /\ s.results = Append(r.results, GateResult(i, gate))
  <2> HIDE DEF plan
  <2>1. QED
    BY <1>1, <1>2, <1>3, <1>6, DecidedIs
<1>8. s.plan = plan
  BY <1>7 DEF Running
<1>9. CASE gate = None
  <2> HIDE DEF s
  <2>1. s.todo \cup s.inflight \subseteq r.todo \cup r.inflight
    BY <1>3, <1>7, <1>9
  <2>2. QED
    BY <1>2, <1>5, <1>7, <1>8, <1>9, <2>1, SameOnce
<1>10. CASE gate # None
  <2>1. gate \in Verdict
    BY <1>6, <1>10
  <2>2. GateResult(i, gate) \in Result /\ GateResult(i, gate).id = plan[i].id
    BY <1>1, <1>3, <2>1, GateResultIs
  <2> DEFINE result == GateResult(i, gate)
  <2> HIDE DEF s, result
  <2>3. s.todo \cup s.inflight \subseteq (r.todo \cup r.inflight) \ {i}
    BY <1>2, <1>3, <1>7, <1>10
  <2>4. s.results = Append(r.results, result) /\ result \in Result /\ result.id = r.plan[i].id
    BY <1>7, <1>10, <2>2 DEF result
  <2>5. QED
    BY <1>2, <1>3, <1>5, <1>7, <1>8, <2>3, <2>4, ResultOnce
<1>11. QED
  BY <1>9, <1>10

(* A call that has answered is finalized. *)
LEMMA FinalizeOnce ==
  ASSUME RunOK(run), Once(run), FinalizeCall
  PROVE  Once(run')
<1> DEFINE r == run
           plan == r.plan
           i == Min(r.inflight)
           s == Finalized(r, i)
           result == CallResult(r, i)
<1>1. /\ plan \in Seq(SubAgentTask) /\ r \in Running(plan)
      /\ r.inflight \in SUBSET DOMAIN plan /\ r.results \in Seq(Result)
      /\ r.responses \in [DOMAIN plan -> Response \cup {None}] /\ r.state \in RunState
      /\ DOMAIN plan = 1 .. Len(plan)
  BY PlacedIs DEF RunOK
<1>2. /\ r.phase = "executing" /\ r.inflight # {} /\ run' = s /\ r.todo = {}
      /\ \A k \in r.inflight : r.responses[k] # None
  BY DEF FinalizeCall, RunOK, Staged
<1>3. i \in r.inflight /\ r.responses[i] # None
  <2>1. r.inflight \in SUBSET Nat
    BY <1>1
  <2>2. i \in r.inflight
    BY <1>2, <2>1, LeastIndex
  <2>3. QED
    BY <1>2, <2>2
<1>4. r.plan = plan /\ Once(r) /\ RunOK(r)
  OBVIOUS
<1> HIDE DEF r, plan, i
<1>5. result \in Result /\ result.id = plan[i].id
  BY <1>1, <1>3, CallResultIs
<1>6. /\ s \in Running(plan)
      /\ s.id = r.id /\ s.opts = r.opts /\ s.waves = r.waves /\ s.todo = r.todo
      /\ s.phase = r.phase /\ s.inflight = r.inflight \ {i}
      /\ s.responses = [r.responses EXCEPT ![i] = None]
      /\ s.results = Append(r.results, result)
      /\ result.status = "ok" => s.state.unsuccessful = r.state.unsuccessful
      /\ result.status # "ok" =>
           s.state.unsuccessful = r.state.unsuccessful \cup {plan[i].id}
      /\ s.state.running_cost =
           r.state.running_cost + (r.responses[i].cost - ProjectedCost(r, i))
  BY <1>1, <1>3, FinalizedIs
<1>7. s.plan = plan
  BY <1>6 DEF Running
<1> HIDE DEF s, result
<1>8. s.todo \cup s.inflight \subseteq (r.todo \cup r.inflight) \ {i}
  BY <1>2, <1>6
<1>9. QED
  BY <1>2, <1>3, <1>4, <1>5, <1>6, <1>7, <1>8, ResultOnce

(* The next wave, or the end: nothing of the last one is left. *)
LEMMA WaveEndsOnce ==
  ASSUME RunOK(run), Once(run), WaveEnds
  PROVE  Once(run')
<1> DEFINE r == run
           plan == r.plan
           rest == Tail(r.waves)
           s == AtWaves(r, rest)
<1>1. /\ plan \in Seq(SubAgentTask) /\ r \in Running(plan)
      /\ r.waves \in Seq(SUBSET DOMAIN plan)
  BY PlacedIs DEF RunOK
<1>2. /\ r.phase = "executing" /\ r.inflight = {} /\ run' = s
      /\ r.waves # <<>> /\ r.todo = {}
      /\ \A i \in r.waves[1] : plan[i].id \in Landed(r)
  BY DEF WaveEnds, RunOK, Staged
<1>3. /\ rest \in Seq(SUBSET DOMAIN plan)
      /\ DOMAIN r.waves = 1 .. Len(r.waves) /\ Len(r.waves) \in Nat \ {0}
      /\ DOMAIN rest = 1 .. Len(r.waves) - 1
      /\ \A w \in DOMAIN rest : w + 1 \in DOMAIN r.waves /\ rest[w] = r.waves[w + 1]
      /\ rest # <<>> => 1 \in DOMAIN rest
  BY <1>1, <1>2, TailIs
<1> HIDE DEF rest, plan
<1>4. /\ s \in Running(plan) /\ s.waves = rest
      /\ s.inflight = r.inflight /\ s.results = r.results
      /\ rest = <<>> => s.todo = {} /\ s.phase = "persisting"
      /\ rest # <<>> => s.todo = rest[1] /\ s.phase = "deciding"
  BY <1>1, <1>3, AtWavesIs
<1>5. s.plan = plan /\ r.plan = plan
  BY <1>1, <1>4 DEF Running
<1> HIDE DEF s, r
<1>6. Landed(s) = Landed(r)
  BY <1>4 DEF Landed
<1>7. Once(r) /\ r.phase # "error"
  BY <1>2 DEF r
<1>8. \A w \in DOMAIN rest : w + 1 # 1 /\ w \in Nat
  BY <1>3
<1>9. \A w \in DOMAIN rest : \A i \in rest[w] : plan[i].id \notin Landed(r)
  BY <1>3, <1>5, <1>7, <1>8 DEF Once
<1>10. ASSUME NEW v \in DOMAIN rest, NEW w \in DOMAIN rest, rest[v] \cap rest[w] # {}
       PROVE  v = w
  <2>1. v + 1 = w + 1
    BY <1>3, <1>7, <1>10 DEF Once
  <2>2. QED
    BY <1>8, <2>1
<1>11. ASSUME NEW i \in DOMAIN plan, plan[i].id \notin Landed(r)
       PROVE  \E w \in DOMAIN rest : i \in rest[w]
  <2>1. PICK w \in DOMAIN r.waves : i \in r.waves[w]
    BY <1>5, <1>7, <1>11 DEF Once
  <2>2. w # 1
    BY <1>2, <1>11, <2>1
  <2>3. w - 1 \in DOMAIN rest /\ (w - 1) + 1 = w
    BY <1>3, <2>1, <2>2
  <2>4. rest[w - 1] = r.waves[w]
    BY <1>3, <2>3
  <2>5. QED
    BY <2>1, <2>3, <2>4
<1>12. \A i \in s.todo \cup s.inflight : plan[i].id \notin Landed(r)
  BY <1>2, <1>3, <1>4, <1>9
<1>13. Once(s)
  BY <1>4, <1>5, <1>6, <1>7, <1>9, <1>10, <1>11, <1>12 DEF Once
<1>14. QED
  BY <1>2, <1>13

(* An answer, and a phase, bring no result. *)
LEMMA RespondOnce ==
  ASSUME RunOK(run), Once(run), NEW i, Respond(i)
  PROVE  Once(run')
<1>1. run \in Running(run.plan) /\ run.phase = "executing"
  BY PlacedIs DEF RunOK, Respond
<1>2. /\ run'.plan = run.plan /\ run'.waves = run.waves /\ run'.results = run.results
      /\ run'.todo = run.todo /\ run'.inflight = run.inflight /\ run'.phase = run.phase
  BY <1>1 DEF Respond, Running
<1>3. QED
  BY <1>1, <1>2, SameOnce

LEMMA PhaseOnce ==
  ASSUME RunOK(run), Once(run), PersistRun \/ RunErrs \/ FinalizeEvidence
  PROVE  Once(run')
<1>1. run \in Running(run.plan)
  BY PlacedIs DEF RunOK
<1>2. PICK phase \in {"persisted", "ended", "error"} :
        /\ run' = [run EXCEPT !.phase = phase]
        /\ run.phase \in {"executing", "persisting", "persisted"}
        /\ phase = "error" \/ run.phase \in {"persisting", "persisted"}
  <2>1. CASE PersistRun
    BY <2>1 DEF PersistRun
  <2>2. CASE RunErrs
    BY <2>2 DEF RunErrs
  <2>3. CASE FinalizeEvidence
    BY <2>3 DEF FinalizeEvidence
  <2>4. QED
    BY <2>1, <2>2, <2>3
<1>3. /\ run'.plan = run.plan /\ run'.waves = run.waves /\ run'.results = run.results
      /\ run'.todo = run.todo /\ run'.inflight = run.inflight /\ run'.phase = phase
  BY <1>1, <1>2 DEF Running
<1>4. QED
  BY <1>2, <1>3, SameOnce

OnceInv == run # NoRun => Once(run)

LEMMA NextOnce == Inv /\ OnceInv /\ [Next]_vars => OnceInv'
<1> SUFFICES ASSUME Inv, OnceInv, [Next]_vars, run' # NoRun PROVE Once(run')
  BY DEF OnceInv
<1>1. ASSUME run.phase # "none" PROVE RunOK(run) /\ Once(run)
  BY <1>1, RunIsThere DEF Inv, OnceInv
<1>2. CASE RunStep \/ FinalizeEvidence
  <2>1. run.phase # "none"
    BY <1>2 DEF RunStep, FinalizeEvidence, DecideStep, Respond, FinalizeCall, WaveEnds,
                PersistRun, RunErrs
  <2>2. QED
    BY <1>1, <1>2, <2>1, DecideOnce, RespondOnce, FinalizeOnce, WaveEndsOnce, PhaseOnce
       DEF RunStep
<1>3. CASE LoopAttempt \/ DirectRun
  <2>1. UNCHANGED run \/ \E plan \in Plans : \E opts : StartRun(NextRunId, plan, opts)
    <3>1. CASE DirectRun
      BY <3>1 DEF DirectRun
    <3>2. CASE LoopAttempt
      BY <3>2, Zenon DEF LoopAttempt, runnerVars
    <3>3. QED
      BY <1>3, <3>1, <3>2
  <2>2. QED
    BY <2>1, StartOnce DEF OnceInv
<1>4. CASE LoopTurnEnds \/ LoopErrs \/ DirectRunEnds \/ Crash
  BY <1>4 DEF LoopTurnEnds, LoopErrs, DirectRunEnds, Crash
<1>5. CASE \/ UNCHANGED vars \/ OtherRunEnds \/ Cleanup
           \/ \E id \in RunId : repair_execution_evidence(id) \/ AcceptRun(id)
  <2>1. run' = run
    BY <1>5 DEF vars, runnerVars, OtherRunEnds, Cleanup, cleanup_run_worktree,
                repair_execution_evidence, AcceptRun
  <2>2. QED
    BY <2>1 DEF OnceInv
<1>6. QED
  BY <1>2, <1>3, <1>4, <1>5 DEF Next, Attempt

(* A run that is persisted has exactly one result for each step of its plan,
   through any number of waves, gates and calls (runner.rs run_plan_with_id). *)
THEOREM EveryStepIsDoneOnce == Spec => []EveryStepHasOneResult
<1>1. Inv /\ OnceInv => EveryStepHasOneResult
  <2> SUFFICES ASSUME Once(run), run.phase \in {"persisting", "persisted", "ended"}
               PROVE  /\ \A i \in DOMAIN run.plan : \E k \in DOMAIN run.results :
                           \A l \in DOMAIN run.results :
                             run.results[l].id = run.plan[i].id <=> l = k
                      /\ \A l \in DOMAIN run.results : run.results[l].id \in StepIds(run.plan)
    BY DEF EveryStepHasOneResult, OnceInv
  <2>1. \A i \in DOMAIN run.plan : run.plan[i].id \in Landed(run)
    BY DEF Once
  <2>2. \A k, l \in DOMAIN run.results : run.results[k].id = run.results[l].id => k = l
    BY DEF Once
  <2>3. \A l \in DOMAIN run.results : run.results[l].id \in StepIds(run.plan)
    BY DEF Once, Landed
  <2>4. QED
    BY <2>1, <2>2, <2>3 DEF Landed
<1>2. Init => OnceInv
  BY DEF Init, InitRunner, OnceInv
<1>3. QED
  BY <1>1, <1>2, InitInv, NextKeeps, NextOnce, PTL DEF Spec
-----------------------------------------------------------------------------
\* The results stand in the order of the plan.

(* What the results of two steps say of where these are. *)
InOrder(r) ==
  LET waves == dependency_waves(r.plan)
      Called(k) == r.results[k].why = "call"
  IN \A k, l \in DOMAIN r.results, v, w \in DOMAIN waves : \A i \in waves[v], j \in waves[w] :
       k < l /\ r.results[k].id = r.plan[i].id /\ r.results[l].id = r.plan[j].id =>
         \/ v < w
         \/ v = w /\ (Called(k) => Called(l)) /\ ((Called(k) <=> Called(l)) => i < j)

(* How many of the plan's waves have ended. *)
Ended(r) == Len(dependency_waves(r.plan)) - Len(r.waves)

(* The waves to come are the last of the plan's. *)
WavesLeft(r) ==
  LET waves == dependency_waves(r.plan)
  IN /\ waves \in Seq(SUBSET DOMAIN r.plan) /\ Ended(r) \in Nat
     /\ \A w \in DOMAIN r.waves : r.waves[w] = waves[Ended(r) + w]
     /\ \A v, w \in DOMAIN waves : waves[v] \cap waves[w] # {} => v = w

(* A result is of a wave that has ended, or of the one at hand: while that one is
   decided no gate's result is behind a step to decide, and no call's is in; then no
   call's is behind a call in flight. *)
AtHand(r) ==
  LET waves == dependency_waves(r.plan)
  IN \A k \in DOMAIN r.results, w \in DOMAIN waves : \A i \in waves[w] :
       r.results[k].id = r.plan[i].id =>
         /\ w <= Ended(r) + 1
         /\ w = Ended(r) + 1 =>
              /\ r.phase = "deciding" => r.results[k].why # "call"
              /\ \A j \in r.todo : i < j
              /\ r.results[k].why = "call" => \A j \in r.inflight : i < j

Lined(r) == InOrder(r) /\ WavesLeft(r) /\ (r.phase # "error" => AtHand(r))

LEMMA StartLined ==
  ASSUME NEW id, NEW plan \in Plans, NEW opts, StartRun(id, plan, opts)
  PROVE  Lined(run')
<1> DEFINE waves == dependency_waves(plan)
           start == [id |-> id, plan |-> plan, opts |-> opts, waves |-> <<>>,
                     phase |-> "deciding", todo |-> {}, inflight |-> {},
                     responses |-> [i \in DOMAIN plan |-> None], results |-> <<>>,
                     state |-> [unsuccessful |-> {}, running_cost |-> 0, ceiling_hit |-> FALSE]]
<1>1. plan \in Seq(SubAgentTask) /\ waves # None /\ run' = AtWaves(start, waves)
  BY AutoLoopAssumption DEF StartRun
<1>2. waves = WavesFrom(plan)
  BY <1>1 DEF dependency_waves
<1>3. DependsOnEarlier(plan, {}, waves)
  BY <1>1, <1>2, WavesKeepTheOrder
<1> HIDE DEF waves
<1>4. run'.plan = plan /\ run'.waves = waves /\ run'.results = <<>>
  BY <1>1 DEF AtWaves
<1>5. /\ waves \in Seq(SUBSET DOMAIN plan) /\ dependency_waves(run'.plan) = waves
      /\ \A v, w \in DOMAIN waves : waves[v] \cap waves[w] # {} => v = w
  BY <1>3, <1>4 DEF DependsOnEarlier, waves
<1>6. Ended(run') = 0
  BY <1>4, <1>5 DEF Ended
<1>7. WavesLeft(run')
  BY <1>4, <1>5, <1>6 DEF WavesLeft
<1>8. DOMAIN run'.results = {}
  BY <1>4
<1>9. InOrder(run') /\ AtHand(run')
  BY <1>8 DEF InOrder, AtHand
<1>10. QED
  BY <1>7, <1>9 DEF Lined

(* A step that brings no result, and schedules a call only before any is recorded. *)
LEMMA SameLined ==
  ASSUME NEW r, Lined(r), r.phase # "error",
         NEW s, s.plan = r.plan, s.waves = r.waves, s.results = r.results,
         s.todo \subseteq r.todo, s.inflight \subseteq r.inflight \/ r.phase = "deciding",
         s.phase = "deciding" => r.phase = "deciding"
  PROVE  Lined(s)
<1>1. Ended(s) = Ended(r)
  BY DEF Ended
<1>2. InOrder(s)
  BY DEF Lined, InOrder
<1>3. WavesLeft(s)
  BY <1>1 DEF Lined, WavesLeft
<1>4. AtHand(s)
  <2> SUFFICES ASSUME NEW k \in DOMAIN r.results, NEW w \in DOMAIN dependency_waves(r.plan),
                      NEW i \in dependency_waves(r.plan)[w], r.results[k].id = r.plan[i].id
               PROVE  /\ w <= Ended(r) + 1
                      /\ w = Ended(r) + 1 =>
                           /\ s.phase = "deciding" => r.results[k].why # "call"
                           /\ \A j \in s.todo : i < j
                           /\ r.results[k].why = "call" => \A j \in s.inflight : i < j
    BY <1>1 DEF AtHand
  <2>1. /\ w <= Ended(r) + 1
        /\ w = Ended(r) + 1 =>
             /\ r.phase = "deciding" => r.results[k].why # "call"
             /\ \A j \in r.todo : i < j
             /\ r.results[k].why = "call" => \A j \in r.inflight : i < j
    BY DEF Lined, AtHand
  <2>2. QED
    BY <2>1
<1>5. QED
  BY <1>2, <1>3, <1>4 DEF Lined

(* The least of the steps to decide is stopped by a gate, or the least of the calls
   in flight is recorded. *)
LEMMA ResultLined ==
  ASSUME NEW r, RunOK(r), Once(r), Lined(r), NEW i, NEW result \in Result,
         result.id = r.plan[i].id,
         \/ r.phase = "deciding" /\ i \in r.todo /\ result.why # "call"
         \/ r.phase = "executing" /\ i \in r.inflight /\ result.why = "call",
         NEW s, s.plan = r.plan, s.waves = r.waves, s.results = Append(r.results, result),
         s.todo \subseteq r.todo, s.inflight \subseteq r.inflight,
         s.phase = "deciding" => r.phase = "deciding",
         \A j \in s.todo : i < j, result.why = "call" => \A j \in s.inflight : i < j
  PROVE  Lined(s)
<1> DEFINE waves == dependency_waves(r.plan)
           n == Ended(r) + 1
<1>1. /\ r.results \in Seq(Result) /\ r.plan \in Seq(SubAgentTask)
      /\ r.todo \cup r.inflight \subseteq DOMAIN r.plan /\ r.waves \in Seq(SUBSET DOMAIN r.plan)
  BY PlacedIs DEF RunOK
<1>2. /\ DOMAIN r.results = 1 .. Len(r.results) /\ Len(r.results) \in Nat
      /\ DOMAIN s.results = 1 .. Len(r.results) + 1
      /\ \A k \in DOMAIN r.results : s.results[k] = r.results[k]
      /\ s.results[Len(r.results) + 1] = result
  BY <1>1
<1>3. /\ i \in DOMAIN r.plan /\ i \in r.waves[1] /\ 1 \in DOMAIN r.waves
      /\ \A a, b \in DOMAIN r.plan : r.plan[a].id = r.plan[b].id => a = b
  BY <1>1 DEF RunOK, Staged, Once
<1>4. /\ waves \in Seq(SUBSET DOMAIN r.plan) /\ Ended(r) \in Nat
      /\ r.waves[1] = waves[n]
      /\ \A v, w \in DOMAIN waves : waves[v] \cap waves[w] # {} => v = w
  BY <1>3 DEF Lined, WavesLeft
<1>5. n \in DOMAIN waves
  <2>1. Len(waves) \in Nat /\ DOMAIN waves = 1 .. Len(waves)
    BY <1>4
  <2>2. Len(r.waves) \in Nat /\ Len(r.waves) >= 1
    BY <1>1, <1>3
  <2>3. n = Len(waves) - Len(r.waves) + 1 /\ n \in Nat /\ n >= 1
    BY <1>4 DEF Ended
  <2> HIDE DEF waves, n
  <2>4. QED
    BY <2>1, <2>2, <2>3
<1>6. /\ dependency_waves(s.plan) = waves /\ Ended(s) = Ended(r)
      /\ s.phase # "error" => AtHand(r)
  BY DEF Ended, Lined
<1> HIDE DEF waves, n
<1>7. ASSUME NEW w \in DOMAIN waves, NEW j \in waves[w], result.id = r.plan[j].id
      PROVE  w = n /\ j = i
  <2>1. j \in DOMAIN r.plan
    BY <1>4
  <2>2. j = i
    BY <1>3, <1>7, <2>1
  <2>3. QED
    BY <1>3, <1>4, <1>5, <2>2
<1>8. AtHand(r)
  BY DEF Lined
<1>9. ASSUME NEW k \in DOMAIN r.results, NEW w \in DOMAIN waves, NEW a \in waves[w],
             r.results[k].id = r.plan[a].id
      PROVE  /\ w <= n
             /\ w = n => /\ r.phase = "deciding" => r.results[k].why # "call"
                         /\ \A j \in r.todo : a < j
                         /\ r.results[k].why = "call" => \A j \in r.inflight : a < j
  BY <1>8, <1>9 DEF AtHand, waves, n
<1>10. \A k \in DOMAIN s.results :
         \/ k \in DOMAIN r.results /\ s.results[k] = r.results[k]
         \/ k = Len(r.results) + 1 /\ s.results[k] = result
  BY <1>2
<1>11. InOrder(s)
  <2> SUFFICES ASSUME NEW k \in DOMAIN s.results, NEW l \in DOMAIN s.results,
                      NEW v \in DOMAIN waves, NEW w \in DOMAIN waves,
                      NEW a \in waves[v], NEW b \in waves[w], k < l,
                      s.results[k].id = r.plan[a].id, s.results[l].id = r.plan[b].id
               PROVE  \/ v < w
                      \/ /\ v = w
                         /\ s.results[k].why = "call" => s.results[l].why = "call"
                         /\ (s.results[k].why = "call" <=> s.results[l].why = "call") => a < b
    BY <1>6 DEF InOrder
  <2>1. k \in DOMAIN r.results /\ s.results[k] = r.results[k]
    BY <1>2, <1>10
  <2>2. CASE l \in DOMAIN r.results
    <3>1. s.results[l] = r.results[l] /\ InOrder(r)
      BY <1>2, <2>2 DEF Lined
    <3>2. QED
      BY <2>1, <2>2, <3>1 DEF InOrder, waves
  <2>3. CASE l = Len(r.results) + 1
    <3>1. w = n /\ b = i /\ s.results[l] = result
      BY <1>2, <1>7, <2>3
    <3>2. CASE v # n
      <4>1. v <= n /\ v \in Nat /\ n \in Nat
        BY <1>4, <1>5, <1>9, <2>1
      <4>2. QED
        BY <3>1, <3>2, <4>1
    <3>3. CASE v = n
      BY <1>9, <2>1, <3>1, <3>3
    <3>4. QED
      BY <3>2, <3>3
  <2>4. QED
    BY <1>10, <2>2, <2>3
<1>12. WavesLeft(s)
  BY <1>6 DEF Lined, WavesLeft
<1>13. AtHand(s)
  <2> SUFFICES ASSUME NEW k \in DOMAIN s.results, NEW w \in DOMAIN waves, NEW a \in waves[w],
                      s.results[k].id = r.plan[a].id
               PROVE  /\ w <= n
                      /\ w = n => /\ s.phase = "deciding" => s.results[k].why # "call"
                                  /\ \A j \in s.todo : a < j
                                  /\ s.results[k].why = "call" => \A j \in s.inflight : a < j
    BY <1>6 DEF AtHand, n
  <2>1. CASE k \in DOMAIN r.results /\ s.results[k] = r.results[k]
    BY <1>9, <2>1
  <2>2. CASE k = Len(r.results) + 1 /\ s.results[k] = result
    <3>1. w = n /\ a = i
      BY <1>7, <2>2
    <3>2. n <= n
      BY <1>4 DEF n
    <3>3. QED
      BY <2>2, <3>1, <3>2
  <2>3. QED
    BY <1>10, <2>1, <2>2
<1>14. QED
  BY <1>11, <1>12, <1>13 DEF Lined

(* A step of the wave is decided, the least left first. *)
LEMMA DecideLined ==
  ASSUME RunOK(run), Once(run), Lined(run), DecideStep
  PROVE  Lined(run')
<1> DEFINE r == run
           plan == r.plan
           i == Min(r.todo)
<1>1. /\ plan \in Seq(SubAgentTask) /\ r \in Running(plan)
      /\ r.todo \in SUBSET DOMAIN plan /\ r.opts \in RunOptions /\ r.state \in RunState
      /\ DOMAIN plan = 1 .. Len(plan)
  BY PlacedIs DEF RunOK
<1>2. r.phase = "deciding" /\ r.todo # {}
  BY DEF DecideStep, RunOK, Staged
<1>3. /\ i \in r.todo /\ i \in DOMAIN plan /\ plan[i] \in SubAgentTask
      /\ \A j \in r.todo \ {i} : i < j
  <2>1. r.todo \in SUBSET Nat
    BY <1>1
  <2>2. i \in r.todo /\ \A j \in r.todo : i <= j
    BY <1>2, <2>1, LeastIndex
  <2> HIDE DEF i
  <2>3. QED
    BY <1>1, <2>1, <2>2
<1>4. PICK env \in StepEnvironment :
        run' = StepDecided(i, Gate(plan[i], r.opts, env, r.state))
  <2> DEFINE Created(g, env) ==
               /\ NeedsWorkspace(plan[i], r.opts)
               /\ g = None \/ g[3] = "workspace"
               /\ env.workspace # "refused"
             Outcome(env) == LET g == Gate(plan[i], r.opts, env, r.state)
                             IN <<g, Created(g, env)>>
  <2>1. PICK outcome \in {Outcome(env) : env \in StepEnvironment} :
          run' = StepDecided(i, outcome[1])
    BY DEF DecideStep
  <2>2. PICK env \in StepEnvironment : outcome = Outcome(env)
    BY <2>1
  <2>3. outcome[1] = Gate(plan[i], r.opts, env, r.state)
    BY <2>2
  <2>4. QED
    BY <2>1, <2>3
<1> DEFINE gate == Gate(plan[i], r.opts, env, r.state)
           s == StepDecided(i, gate)
<1>5. run' = s
  BY <1>4
<1>6. gate \in Verdict \cup {None} /\ (gate # None => gate[3] # "call")
  <2> HIDE DEF plan, i
  <2>1. QED
    BY <1>1, <1>3, GateIs
<1> HIDE DEF gate, i
<1>7. /\ s.waves = r.waves /\ s.todo = r.todo \ {i} /\ s \in Running(plan)
      /\ gate = None => s.results = r.results
      /\ gate # None => s.inflight = r.inflight
                        /\ s.results = Append(r.results, GateResult(i, gate))
  <2> HIDE DEF plan
  <2>1. QED
    BY <1>1, <1>2, <1>3, <1>6, DecidedIs
<1>8. s.plan = plan
  BY <1>7 DEF Running
<1>9. CASE gate = None
  <2> HIDE DEF s
  <2>1. QED
    BY <1>2, <1>5, <1>7, <1>8, <1>9, SameLined
<1>10. CASE gate # None
  <2>1. gate \in Verdict
    BY <1>6, <1>10
  <2> DEFINE result == GateResult(i, gate)
  <2>2. result \in Result /\ result.id = plan[i].id /\ result.why # "call"
    BY <1>1, <1>3, <1>6, <1>10, <2>1, GateResultIs
  <2> HIDE DEF s, result
  <2>3. s.results = Append(r.results, result)
    BY <1>7, <1>10 DEF result
  <2>4. QED
    BY <1>2, <1>3, <1>5, <1>7, <1>8, <1>10, <2>2, <2>3, ResultLined
<1>11. QED
  BY <1>9, <1>10

(* A call is finalized, the least in flight first. *)
LEMMA FinalizeLined ==
  ASSUME RunOK(run), Once(run), Lined(run), FinalizeCall
  PROVE  Lined(run')
<1> DEFINE r == run
           plan == r.plan
           i == Min(r.inflight)
           s == Finalized(r, i)
           result == CallResult(r, i)
<1>1. /\ plan \in Seq(SubAgentTask) /\ r \in Running(plan)
      /\ r.inflight \in SUBSET DOMAIN plan /\ r.results \in Seq(Result)
      /\ r.responses \in [DOMAIN plan -> Response \cup {None}] /\ r.state \in RunState
      /\ DOMAIN plan = 1 .. Len(plan)
  BY PlacedIs DEF RunOK
<1>2. /\ r.phase = "executing" /\ r.inflight # {} /\ run' = s /\ r.todo = {}
      /\ \A k \in r.inflight : r.responses[k] # None
  BY DEF FinalizeCall, RunOK, Staged
<1>3. i \in r.inflight /\ \A j \in r.inflight \ {i} : i < j
  <2>1. r.inflight \in SUBSET Nat
    BY <1>1
  <2>2. i \in r.inflight /\ \A j \in r.inflight : i <= j
    BY <1>2, <2>1, LeastIndex
  <2> HIDE DEF i
  <2>3. QED
    BY <2>1, <2>2
<1>4. r.plan = plan /\ Once(r) /\ RunOK(r) /\ Lined(r)
  OBVIOUS
<1> HIDE DEF r, plan, i
<1>5. i \in r.inflight /\ r.responses[i] # None
  BY <1>2, <1>3
<1>6. result \in Result /\ result.id = plan[i].id /\ result.why = "call"
  BY <1>1, <1>5, CallResultIs
<1>7. /\ s \in Running(plan)
      /\ s.id = r.id /\ s.opts = r.opts /\ s.waves = r.waves /\ s.todo = r.todo
      /\ s.phase = r.phase /\ s.inflight = r.inflight \ {i}
      /\ s.responses = [r.responses EXCEPT ![i] = None]
      /\ s.results = Append(r.results, result)
      /\ result.status = "ok" => s.state.unsuccessful = r.state.unsuccessful
      /\ result.status # "ok" =>
           s.state.unsuccessful = r.state.unsuccessful \cup {plan[i].id}
      /\ s.state.running_cost =
           r.state.running_cost + (r.responses[i].cost - ProjectedCost(r, i))
  BY <1>1, <1>5, FinalizedIs
<1>8. s.plan = plan
  BY <1>7 DEF Running
<1> HIDE DEF s, result
<1>9. s.todo \subseteq r.todo /\ s.inflight \subseteq r.inflight
  BY <1>7
<1>10. \A j \in s.todo : i < j
  BY <1>2, <1>7
<1>11. \A j \in s.inflight : i < j
  BY <1>3, <1>7
<1>12. /\ s.plan = r.plan /\ s.waves = r.waves /\ s.results = Append(r.results, result)
       /\ result.id = r.plan[i].id /\ s.phase = "executing" /\ r.phase = "executing"
  BY <1>2, <1>4, <1>6, <1>7, <1>8
<1>13. Lined(s)
  BY <1>4, <1>5, <1>6, <1>9, <1>10, <1>11, <1>12, ResultLined
<1>14. QED
  BY <1>2, <1>13 DEF s

(* The wave at hand becomes one that has ended. *)
LEMMA WaveEndsLined ==
  ASSUME RunOK(run), Lined(run), WaveEnds
  PROVE  Lined(run')
<1> DEFINE r == run
           plan == r.plan
           rest == Tail(r.waves)
           s == AtWaves(r, rest)
           waves == dependency_waves(plan)
<1>1. /\ plan \in Seq(SubAgentTask) /\ r \in Running(plan)
      /\ r.waves \in Seq(SUBSET DOMAIN plan)
  BY PlacedIs DEF RunOK
<1>2. r.phase = "executing" /\ run' = s /\ r.waves # <<>>
  BY DEF WaveEnds, RunOK, Staged
<1>3. /\ rest \in Seq(SUBSET DOMAIN plan)
      /\ DOMAIN r.waves = 1 .. Len(r.waves) /\ Len(r.waves) \in Nat \ {0}
      /\ DOMAIN rest = 1 .. Len(r.waves) - 1
      /\ \A w \in DOMAIN rest : w + 1 \in DOMAIN r.waves /\ rest[w] = r.waves[w + 1]
  BY <1>1, <1>2, TailIs
<1>4. Len(rest) = Len(r.waves) - 1
  BY <1>3
<1> HIDE DEF rest, plan
<1>5. s \in Running(plan) /\ s.waves = rest /\ s.results = r.results
  BY <1>1, <1>3, AtWavesIs
<1>6. s.plan = plan /\ r.plan = plan /\ Lined(r)
  BY <1>1, <1>5 DEF Running
<1> HIDE DEF s, r, waves
<1>7. /\ dependency_waves(r.plan) = waves /\ dependency_waves(s.plan) = waves
      /\ waves \in Seq(SUBSET DOMAIN plan) /\ Ended(r) \in Nat
      /\ \A w \in DOMAIN r.waves : r.waves[w] = waves[Ended(r) + w]
      /\ \A v, w \in DOMAIN waves : waves[v] \cap waves[w] # {} => v = w
  BY <1>6 DEF Lined, WavesLeft, waves
<1>8. Ended(s) = Ended(r) + 1
  <2>1. Len(waves) \in Nat
    BY <1>7
  <2>2. Ended(r) = Len(waves) - Len(r.waves) /\ Ended(s) = Len(waves) - Len(rest)
    BY <1>5, <1>7 DEF Ended
  <2>3. QED
    BY <1>3, <1>4, <2>1, <2>2
<1>9. ASSUME NEW w \in DOMAIN rest PROVE rest[w] = waves[Ended(s) + w]
  <2>1. w \in Nat /\ w + 1 \in DOMAIN r.waves /\ rest[w] = r.waves[w + 1]
    BY <1>3
  <2>2. r.waves[w + 1] = waves[Ended(r) + (w + 1)]
    BY <1>7, <2>1
  <2>3. Ended(r) + (w + 1) = Ended(s) + w
    BY <1>7, <1>8, <2>1
  <2>4. QED
    BY <2>1, <2>2, <2>3
<1>10. WavesLeft(s)
  BY <1>5, <1>6, <1>7, <1>8, <1>9 DEF WavesLeft
<1>11. InOrder(s)
  BY <1>5, <1>6 DEF Lined, InOrder
<1>12. AtHand(s)
  <2> SUFFICES ASSUME NEW k \in DOMAIN r.results, NEW w \in DOMAIN waves, NEW i \in waves[w],
                      r.results[k].id = plan[i].id
               PROVE  w <= Ended(s) + 1 /\ w # Ended(s) + 1
    BY <1>5, <1>6, <1>7 DEF AtHand
  <2>1. w <= Ended(r) + 1
    BY <1>2, <1>6, <1>7 DEF Lined, AtHand, r
  <2>2. w \in Nat
    BY <1>7
  <2>3. QED
    BY <1>7, <1>8, <2>1, <2>2
<1>13. QED
  BY <1>2, <1>10, <1>11, <1>12 DEF Lined, s

LEMMA RespondLined ==
  ASSUME RunOK(run), Lined(run), NEW i, Respond(i)
  PROVE  Lined(run')
<1>1. run \in Running(run.plan) /\ run.phase = "executing"
  BY PlacedIs DEF RunOK, Respond
<1>2. /\ run'.plan = run.plan /\ run'.waves = run.waves /\ run'.results = run.results
      /\ run'.todo = run.todo /\ run'.inflight = run.inflight /\ run'.phase = run.phase
  BY <1>1 DEF Respond, Running
<1>3. QED
  BY <1>1, <1>2, SameLined

LEMMA PhaseLined ==
  ASSUME RunOK(run), Lined(run), PersistRun \/ RunErrs \/ FinalizeEvidence
  PROVE  Lined(run')
<1>1. run \in Running(run.plan)
  BY PlacedIs DEF RunOK
<1>2. PICK phase \in {"persisted", "ended", "error"} :
        /\ run' = [run EXCEPT !.phase = phase]
        /\ run.phase \in {"executing", "persisting", "persisted"}
  <2>1. CASE PersistRun
    BY <2>1 DEF PersistRun
  <2>2. CASE RunErrs
    BY <2>2 DEF RunErrs
  <2>3. CASE FinalizeEvidence
    BY <2>3 DEF FinalizeEvidence
  <2>4. QED
    BY <2>1, <2>2, <2>3
<1>3. /\ run'.plan = run.plan /\ run'.waves = run.waves /\ run'.results = run.results
      /\ run'.todo = run.todo /\ run'.inflight = run.inflight /\ run'.phase = phase
  BY <1>1, <1>2 DEF Running
<1>4. QED
  BY <1>2, <1>3, SameLined

LinedInv == run # NoRun => Lined(run)

LEMMA NextLined == Inv /\ OnceInv /\ LinedInv /\ [Next]_vars => LinedInv'
<1> SUFFICES ASSUME Inv, OnceInv, LinedInv, [Next]_vars, run' # NoRun PROVE Lined(run')
  BY DEF LinedInv
<1>1. ASSUME run.phase # "none" PROVE RunOK(run) /\ Once(run) /\ Lined(run)
  BY <1>1, RunIsThere DEF Inv, OnceInv, LinedInv
<1>2. CASE RunStep \/ FinalizeEvidence
  <2>1. run.phase # "none"
    BY <1>2 DEF RunStep, FinalizeEvidence, DecideStep, Respond, FinalizeCall, WaveEnds,
                PersistRun, RunErrs
  <2>2. QED
    BY <1>1, <1>2, <2>1, DecideLined, RespondLined, FinalizeLined, WaveEndsLined, PhaseLined
       DEF RunStep
<1>3. CASE LoopAttempt \/ DirectRun
  <2>1. UNCHANGED run \/ \E plan \in Plans : \E opts : StartRun(NextRunId, plan, opts)
    <3>1. CASE DirectRun
      BY <3>1 DEF DirectRun
    <3>2. CASE LoopAttempt
      BY <3>2, Zenon DEF LoopAttempt, runnerVars
    <3>3. QED
      BY <1>3, <3>1, <3>2
  <2>2. QED
    BY <2>1, StartLined DEF LinedInv
<1>4. CASE LoopTurnEnds \/ LoopErrs \/ DirectRunEnds \/ Crash
  BY <1>4 DEF LoopTurnEnds, LoopErrs, DirectRunEnds, Crash
<1>5. CASE \/ UNCHANGED vars \/ OtherRunEnds \/ Cleanup
           \/ \E id \in RunId : repair_execution_evidence(id) \/ AcceptRun(id)
  <2>1. run' = run
    BY <1>5 DEF vars, runnerVars, OtherRunEnds, Cleanup, cleanup_run_worktree,
                repair_execution_evidence, AcceptRun
  <2>2. QED
    BY <2>1 DEF LinedInv
<1>6. QED
  BY <1>2, <1>3, <1>4, <1>5 DEF Next, Attempt

(* Whatever the order in which the calls of a wave answer, a run records its results
   in the order of its plan: wave after wave, the gates' before the calls', either by
   index (runner.rs run_plan_with_id). *)
THEOREM ResultsFollowPlan == Spec => []ResultsInPlanOrder
<1>1. LinedInv => ResultsInPlanOrder
  BY DEF LinedInv, Lined, InOrder, ResultsInPlanOrder
<1>2. Init => OnceInv /\ LinedInv
  BY DEF Init, InitRunner, OnceInv, LinedInv
<1>3. QED
  BY <1>1, <1>2, InitInv, NextKeeps, NextOnce, NextLined, PTL DEF Spec

=============================================================================
