-------------------------- MODULE CheckoutProofs --------------------------
(***************************************************************************)
(* What is done in the checkout: one run of a check, one review of a run   *)
(* and one session of a language server, for any processes, paths,         *)
(* contents, edits, faults, threads and documents.                         *)
(***************************************************************************)
EXTENDS MCCheckout, FiniteSetTheorems, ReceiptProofs

----------------------------------------------------------------------------
\* A check.  Nobody writes to a pipe whose reader has ended, and the exit of the
\* leader is final.

PipesInv ==
    /\ at = "start" => Alive = {} /\ exit = "none"
    /\ exit # "none" => ~ procs[Leader].alive
    /\ \A p \in Pipes : capture[p] \in {"taken"} \cup Sent => Holders(p) = {}

\* What the thread knows of the output it reports.
OutputInv ==
    /\ at = "stderr" => capture["stdout"] = "taken" /\ result.out["stdout"] # "none"
    /\ result.status = "passed" =>
        /\ at = "done" /\ exit = "ok"
        /\ \A p \in Pipes : capture[p] = "taken" /\ result.out[p] # "none"

\* After a termination that reported no error the group is empty.
GroupInv ==
    /\ cause # "none" => at \in {"terminate", "late stdout", "late stderr", "done"}
    /\ cause # "none" /\ at # "terminate" /\ ~ term_error => Group = {}

CheckInv == CheckTypeOK /\ PipesInv /\ OutputInv /\ GroupInv

LEMMA CheckInitial == CheckInit => CheckInv
<1> SUFFICES ASSUME CheckInit PROVE CheckInv
  OBVIOUS
<1>1. CheckTypeOK
  BY DEF CheckInit, CheckTypeOK, Gone, NoResult
<1>2. Alive = {}
  BY DEF CheckInit, Alive, Gone
<1>3. QED
  BY <1>1, <1>2 DEF CheckInit, CheckInv, PipesInv, OutputInv, GroupInv, Sent, NoResult

\* What a process does to the others: who holds a pipe, or is in the group, has it
\* from one that did, and the leader ends once.
LetsGo ==
    /\ procs' \in [Processes -> [alive : BOOLEAN, group : BOOLEAN, holds : SUBSET Pipes]]
    /\ \A p \in Pipes : Holders(p) = {} => Holders(p)' = {}
    /\ Group = {} => Group' = {}
    /\ \/ exit' \in {"ok", "bad"} /\ ~ procs[Leader].alive'
       \/ exit' = exit
    /\ ~ procs[Leader].alive => exit' = exit /\ ~ procs[Leader].alive'
    /\ at # "start"
    /\ UNCHANGED <<at, cause, reaped, capture, term_error, result>>

LEMMA ProcessesLetGo ==
  ASSUME CheckInv,
         NEW q \in Processes,
         \/ \E d \in Descendants : Forks(q, d)
         \/ \E p \in Pipes : ClosesPipe(q, p)
         \/ LeavesGroup(q)
         \/ Ends(q)
  PROVE  LetsGo
<1> USE LeaderAssumption
<1> DEFINE State == [alive : BOOLEAN, group : BOOLEAN, holds : SUBSET Pipes]
<1>1. procs \in [Processes -> State] /\ exit \in {"none", "ok", "bad"}
  BY DEF CheckInv, CheckTypeOK
<1>2. Leader \in Processes /\ Descendants \subseteq Processes
  BY DEF Processes
<1>3. at # "start"
  <2>1. q \in Alive
    BY <1>1, <1>2 DEF Forks, ClosesPipe, LeavesGroup, Ends, Holders, Group
  <2>2. QED
    BY <2>1 DEF CheckInv, PipesInv
<1>4. ASSUME NEW d \in Descendants, Forks(q, d) PROVE LetsGo
  <2>1. procs' = [procs EXCEPT ![d] = procs[q]] /\ q \in Alive /\ d # Leader
    BY <1>4 DEF Forks
  <2>2. procs' \in [Processes -> State] /\ procs[Leader]' = procs[Leader]
    BY <1>1, <1>2, <2>1
  <2>3. \A p \in Pipes : Holders(p) = {} => Holders(p)' = {}
    BY <1>1, <1>2, <2>1 DEF Holders, Alive
  <2>4. Group = {} => Group' = {}
    BY <1>1, <1>2, <2>1 DEF Group, Alive
  <2>5. QED
    BY <1>3, <1>4, <2>2, <2>3, <2>4 DEF Forks, LetsGo
<1>5. ASSUME NEW p \in Pipes, ClosesPipe(q, p) PROVE LetsGo
  <2>1. procs' = [procs EXCEPT ![q].holds = procs[q].holds \ {p}]
    BY <1>5 DEF ClosesPipe
  <2>2. procs' \in [Processes -> State]
    BY <1>1, <2>1
  <2>3. \A x \in Processes : /\ procs'[x].alive = procs[x].alive
                             /\ procs'[x].group = procs[x].group
                             /\ procs'[x].holds \subseteq procs[x].holds
    BY <1>1, <2>1
  <2>4. (\A r \in Pipes : Holders(r) = {} => Holders(r)' = {}) /\ (Group = {} => Group' = {})
    BY <2>3 DEF Holders, Group, Alive
  <2>5. QED
    BY <1>2, <1>3, <1>5, <2>2, <2>3, <2>4 DEF ClosesPipe, LetsGo
<1>6. CASE LeavesGroup(q)
  <2>1. procs' = [procs EXCEPT ![q].group = FALSE] /\ q # Leader
    BY <1>6 DEF LeavesGroup
  <2>2. procs' \in [Processes -> State]
    BY <1>1, <2>1
  <2>3. \A x \in Processes : /\ procs'[x].alive = procs[x].alive
                             /\ procs'[x].group => procs[x].group
                             /\ procs'[x].holds = procs[x].holds
    BY <1>1, <2>1
  <2>4. (\A r \in Pipes : Holders(r) = {} => Holders(r)' = {}) /\ (Group = {} => Group' = {})
    BY <2>3 DEF Holders, Group, Alive
  <2>5. QED
    BY <1>2, <1>3, <1>6, <2>2, <2>3, <2>4 DEF LeavesGroup, LetsGo
<1>7. CASE Ends(q)
  <2>1. procs' = [procs EXCEPT ![q] = Gone] /\ procs[q].alive
    BY <1>7 DEF Ends, Alive
  <2>2. procs' \in [Processes -> State]
    BY <1>1, <2>1 DEF Gone
  <2>3. \A x \in Processes : procs'[x] = IF x = q THEN Gone ELSE procs[x]
    BY <1>1, <2>1
  <2>4. (\A r \in Pipes : Holders(r) = {} => Holders(r)' = {}) /\ (Group = {} => Group' = {})
    BY <2>3 DEF Holders, Group, Alive, Gone
  <2>5. QED
    BY <1>2, <1>3, <1>7, <2>1, <2>2, <2>3, <2>4 DEF Ends, Gone, LetsGo
<1>8. QED
  BY <1>4, <1>5, <1>6, <1>7

LEMMA ProcessInv == CheckInv /\ ProcessStep => CheckInv'
<1> SUFFICES ASSUME CheckInv, ProcessStep PROVE CheckInv'
  OBVIOUS
<1>1. ASSUME NEW p \in Pipes, ReaderEnds(p) PROVE CheckInv'
  <2>1. CheckTypeOK'
    BY <1>1 DEF ReaderEnds, CheckInv, CheckTypeOK, Sent
  <2>2. Alive' = Alive /\ Group' = Group /\ \A r \in Pipes : Holders(r)' = Holders(r)
    BY <1>1 DEF ReaderEnds, Alive, Group, Holders
  <2>3. PipesInv' /\ OutputInv' /\ GroupInv'
    BY <1>1, <2>2 DEF ReaderEnds, CheckInv, CheckTypeOK, PipesInv, OutputInv, GroupInv, Sent, Pipes
  <2>4. QED
    BY <2>1, <2>3 DEF CheckInv
<1>2. ASSUME LetsGo PROVE CheckInv'
  <2>1. CheckTypeOK'
    BY <1>2 DEF LetsGo, CheckInv, CheckTypeOK
  <2>2. PipesInv'
    BY <1>2 DEF LetsGo, CheckInv, CheckTypeOK, PipesInv
  <2>3. OutputInv'
    BY <1>2 DEF LetsGo, CheckInv, OutputInv, PipesInv
  <2>4. GroupInv'
    BY <1>2 DEF LetsGo, CheckInv, GroupInv
  <2>5. QED
    BY <2>1, <2>2, <2>3, <2>4 DEF CheckInv
<1>3. QED
  BY <1>1, <1>2, ProcessesLetGo DEF ProcessStep

\* The steps of the thread that leave the processes alone.
LEMMA WaitInv ==
  ASSUME CheckInv, UNCHANGED procs,
         /\ at' = "start" => at = "start"
         /\ exit' = exit
         /\ cause' # "none" => at' \in {"terminate", "late stdout", "late stderr", "done"}
         /\ cause' # "none" /\ at' # "terminate" /\ ~ term_error' => cause # "none" /\ at # "terminate" /\ ~ term_error,
         CheckTypeOK', OutputInv',
         \A p \in Pipes : capture'[p] \in {"taken"} \cup Sent => capture[p] \in {"taken"} \cup Sent
  PROVE  CheckInv'
<1>1. Alive' = Alive /\ Group' = Group /\ \A r \in Pipes : Holders(r)' = Holders(r)
  BY DEF Alive, Group, Holders
<1>2. PipesInv' /\ GroupInv'
  BY <1>1 DEF CheckInv, PipesInv, GroupInv
<1>3. QED
  BY <1>2 DEF CheckInv

\* What the two waits for the readers and the termination leave behind.
LEMMA RunnerInv == CheckInv /\ RunnerStep => CheckInv'
<1> SUFFICES ASSUME CheckInv, RunnerStep PROVE CheckInv'
  OBVIOUS
<1> USE DEF CheckInv, CheckTypeOK, Pipes, Sent
<1>1. CASE FailsWithoutSpawn
  <2>1. CheckTypeOK' /\ OutputInv'
    BY <1>1 DEF FailsWithoutSpawn, NoResult, OutputInv
  <2>2. QED
    BY <1>1, <2>1, WaitInv DEF FailsWithoutSpawn, GroupInv
<1>2. CASE WaitReturns
  <2>1. CheckTypeOK' /\ OutputInv'
    BY <1>2 DEF WaitReturns, OutputInv
  <2>2. QED
    BY <1>2, <2>1, WaitInv DEF WaitReturns, GroupInv
<1>3. CASE WaitFails
  <2>1. CheckTypeOK' /\ OutputInv'
    BY <1>3 DEF WaitFails, OutputInv
  <2>2. QED
    BY <1>3, <2>1, WaitInv DEF WaitFails
<1>4. ASSUME NEW p \in Pipes, DrainTimesOut(p) PROVE CheckInv'
  <2>1. CheckTypeOK' /\ OutputInv'
    BY <1>4 DEF DrainTimesOut, OutputInv
  <2>2. QED
    BY <1>4, <2>1, WaitInv DEF DrainTimesOut
<1>5. ASSUME NEW p \in Pipes, Drain(p) PROVE CheckInv'
  <2>1. CheckTypeOK'
    BY <1>5 DEF Drain
  <2>2. /\ capture'[p] = "taken" /\ result'.out[p] # "none"
        /\ p = "stderr" => capture'["stdout"] = "taken" /\ result'.out["stdout"] # "none"
    BY <1>5 DEF Drain, OutputInv
  <2>3. /\ at' = "stderr" => p = "stdout"
        /\ result'.status = "passed" => p = "stderr" /\ exit = "ok" /\ exit' = exit /\ at' = "done"
    BY <1>5 DEF Drain
  <2>4. OutputInv'
    <3>1. at' = "stderr" => capture'["stdout"] = "taken" /\ result'.out["stdout"] # "none"
      BY <2>2, <2>3
    <3>2. ASSUME result'.status = "passed", NEW r \in {"stdout", "stderr"}
          PROVE  capture'[r] = "taken" /\ result'.out[r] # "none"
      <4>1. p = "stderr"
        BY <2>3, <3>2
      <4>2. QED
        BY <2>2, <3>2, <4>1
    <3>3. QED
      BY <2>3, <3>1, <3>2 DEF OutputInv
  <2>5. QED
    BY <1>5, <2>1, <2>4, WaitInv DEF Drain, GroupInv
<1>6. ASSUME NEW p \in Pipes, LateDrain(p) PROVE CheckInv'
  <2>1. CheckTypeOK'
    BY <1>6 DEF LateDrain, Late
  <2>2. OutputInv'
    <3>1. result'.status # "passed" /\ at' # "stderr"
      BY <1>6 DEF LateDrain, Late
    <3>2. QED
      BY <3>1 DEF OutputInv
  <2>3. QED
    BY <1>6, <2>1, <2>2, WaitInv DEF LateDrain, Late, GroupInv
<1>7. ASSUME AfterTermination, at = "terminate"
      PROVE  /\ at' \in {"late stdout", "done"}
             /\ result' \in [status : {"none", "passed", "failed", "timeout"},
                             out : [Pipes -> {"none"} \cup Sent]]
             /\ capture' \in [Pipes -> {"none", "reading", "taken"} \cup Sent]
             /\ result'.status # "passed"
             /\ \A p \in Pipes : capture'[p] \in {"taken"} \cup Sent => capture[p] \in {"taken"} \cup Sent
  <2>1. result.status # "passed"
    BY <1>7 DEF OutputInv
  <2>2. CASE cause \in {"stdout", "stderr"}
    BY <1>7, <2>1, <2>2 DEF AfterTermination, Late
  <2>3. CASE cause \notin {"stdout", "stderr"}
    BY <1>7, <2>1, <2>3 DEF AfterTermination
  <2>4. QED
    BY <2>2, <2>3
<1>8. CASE KillNotInvoked
  <2>1. CheckTypeOK' /\ OutputInv'
    BY <1>7, <1>8 DEF KillNotInvoked, OutputInv
  <2>2. QED
    BY <1>7, <1>8, <2>1, WaitInv DEF KillNotInvoked
<1>9. CASE Spawn
  <2>1. CheckTypeOK'
    BY <1>9, LeaderAssumption DEF Spawn, Processes
  <2>2. PipesInv' /\ OutputInv' /\ GroupInv'
    BY <1>9 DEF Spawn, PipesInv, OutputInv, GroupInv
  <2>3. QED
    BY <2>1, <2>2
<1>10. CASE KillGroup
  <2>1. /\ procs' \in [Processes -> [alive : BOOLEAN, group : BOOLEAN, holds : SUBSET Pipes]]
        /\ \A q \in Processes : procs'[q] = procs[q] \/ procs'[q] = Gone
        /\ \A q \in Group \cup {Leader} : procs'[q] = Gone
    BY <1>10 DEF KillGroup, Group, Alive, Processes, Gone
  <2>2. Group' = {} /\ \A r \in Pipes : Holders(r) = {} => Holders(r)' = {}
    <3>1. Gone.alive = FALSE
      BY DEF Gone
    <3>2. \A q \in Processes : procs'[q].alive => procs'[q] = procs[q] /\ q \notin Group
      BY <2>1, <3>1, Zenon
    <3>3. QED
      BY <3>2 DEF Group, Holders, Alive
  <2>3. CheckTypeOK'
    BY <1>7, <1>10, <2>1 DEF KillGroup
  <2>4. PipesInv'
    BY <1>7, <1>10, <2>1, <2>2 DEF KillGroup, PipesInv, Gone, Processes
  <2>5. OutputInv' /\ GroupInv'
    BY <1>7, <1>10, <2>2 DEF KillGroup, OutputInv, GroupInv
  <2>6. QED
    BY <2>3, <2>4, <2>5
<1>11. QED
  BY <1>1, <1>2, <1>3, <1>4, <1>5, <1>6, <1>8, <1>9, <1>10 DEF RunnerStep

LEMMA CheckSafety == CheckInit /\ [][CheckNext]_checkVars => []CheckInv
<1>1. CheckInv /\ [CheckNext]_checkVars => CheckInv'
  <2>1. ASSUME CheckInv, UNCHANGED checkVars PROVE CheckInv'
    <3>1. Alive' = Alive /\ Group' = Group /\ \A r \in Pipes : Holders(r)' = Holders(r)
      BY <2>1 DEF checkVars, Holders, Group, Alive
    <3>2. CheckTypeOK' /\ OutputInv'
      BY <2>1 DEF checkVars, CheckInv, CheckTypeOK, OutputInv
    <3>3. PipesInv' /\ GroupInv'
      BY <2>1, <3>1 DEF checkVars, CheckInv, PipesInv, GroupInv
    <3>4. QED
      BY <3>2, <3>3 DEF CheckInv
  <2>2. QED
    BY <2>1, RunnerInv, ProcessInv DEF CheckNext
<1>2. QED
  BY <1>1, CheckInitial, PTL

LEMMA CheckInvariant == CheckSpec => []CheckInv
BY CheckSafety, PTL DEF CheckSpec

(* A check that is reported as passed is over: its leader ended well and no process
   it started holds a write end of its outputs any more, although processes fork and
   redirect while the thread waits (finish_completed_check). *)
THEOREM PassedChecksAreOver == CheckSpec => []PassedIsOver
<1>1. CheckInv => PassedIsOver
  BY DEF CheckInv, PipesInv, OutputInv, PassedIsOver
<1>2. QED
  BY <1>1, CheckInvariant, PTL

(* After a termination without an error nobody is left in the process group, and
   nobody comes back into it (terminate_process_tree). *)
THEOREM TerminatedGroupIsGone == CheckSpec => []StoppedGroupIsGone
<1>1. CheckInv => StoppedGroupIsGone
  BY DEF CheckInv, GroupInv, StoppedGroupIsGone
<1>2. QED
  BY <1>1, CheckInvariant, PTL

-----------------------------------------------------------------------------
(* A review.  During an Accept only the paths of the run move, and the snapshot  *)
(* is of the checkout it began with.                                            *)

Snapshots == [index : Tree, tracked : SUBSET Path, existed : SUBSET Path, worktree : Tree]

ReviewTypeInv ==
  /\ TypeOK
  /\ produced \in [Changed -> Content]

\* The decision of a call is the durable one, and what it records is complete.
CallInv ==
  /\ pc \in {"idle", "begin"} => ~ patched /\ copying = None
  /\ patched \/ copying # None => action = "accept"
  /\ pc # "idle" => intent = action
  /\ pc \in {"rollback", "rollback_worktree"} => action = "accept"
  /\ pc = "persist" => left = {} /\ skipped = {}

Accepting == action = "accept" /\ pc \notin {"idle", "begin"}

SnapshotInv ==
  Accepting =>
    /\ snapshot \in Snapshots
    /\ snapshot.tracked = {p \in Changed : snapshot.index[p] # Absent}
    /\ snapshot.existed = {p \in Changed : snapshot.worktree[p] # Absent}
    /\ \A p \in Path \ isolated : worktree[p] = snapshot.worktree[p]
    /\ pc = "rollback_worktree" => index = snapshot.index

\* What is staged: the run's bytes at its processed paths, nothing else new.
StagedInv ==
  action = "accept" /\ pc \in {"apply", "persist"} =>
    /\ \A p \in Path \ Changed : index[p] = snapshot.index[p]
    /\ \A p \in InPlace \ (left \cup skipped) : index[p] = worktree[p]
    /\ \A p \in isolated \ (left \cup skipped) : index[p] = produced[p]
    /\ copying # None => copying \in isolated /\ worktree[copying] = produced[copying]

ReviewInv == ReviewTypeInv /\ CallInv /\ SnapshotInv /\ StagedInv

LEMMA ReviewInitial == Init => ReviewInv
<1> SUFFICES ASSUME Init PROVE ReviewInv
  OBVIOUS
<1>1. PICK changed \in (SUBSET Path) \ {{}} :
        /\ isolated \in SUBSET changed
        /\ produced \in [changed -> {Absent, AgentContent}]
        /\ receipt = FreshReceipt(ThisRun, changed)
  BY DEF Init
<1>2. Changed = changed
  BY <1>1 DEF Changed
<1>3. receipt \in TaskRunReceipt
  BY <1>1, AcceptAssumption DEF FreshReceipt, TaskRunReceipt, Digest
<1>4. base \in Tree /\ worktree \in Tree
  BY <1>1, <1>2, AcceptAssumption DEF Init, Tree, InPlace
<1>5. ReviewTypeInv
  <2>1. snapshot.tracked = {} /\ snapshot.existed = {}
    BY DEF Init, NoSnapshot
  <2>2. produced \in [Changed -> Content] /\ isolated \subseteq Changed /\ Changed \subseteq Path
    BY <1>1, <1>2, AcceptAssumption
  <2>3. edits \in 0 .. MaxEdits /\ faults \in 0 .. MaxFaults
    BY AcceptAssumption DEF Init
  <2>4. QED
    BY <1>3, <1>4, <2>1, <2>2, <2>3 DEF Init, ReviewTypeInv, TypeOK
<1>6. QED
  BY <1>5 DEF Init, ReviewInv, CallInv, SnapshotInv, StagedInv, Accepting

\* The end of a call leaves nothing of it.
LEMMA CallEnds ==
  ASSUME ReviewInv, EndCall, index' \in Tree, worktree' \in Tree, receipt' \in TaskRunReceipt,
         intent' \in {None, "accept", "reject"}, UNCHANGED <<run, head, edits>>,
         faults' \in 0 .. MaxFaults
  PROVE  ReviewInv'
<1>1. ReviewTypeInv'
  BY DEF ReviewInv, ReviewTypeInv, TypeOK, EndCall, NoSnapshot, run, Changed
<1>2. QED
  BY <1>1 DEF EndCall, ReviewInv, CallInv, SnapshotInv, StagedInv, Accepting

LEMMA FaultBound == ASSUME ReviewInv, Fault PROVE faults' \in 0 .. MaxFaults
BY AcceptAssumption DEF Fault, ReviewInv, ReviewTypeInv, TypeOK

\* Between two calls.
LEMMA OutsideInv ==
  ASSUME ReviewInv, User \/ PollReceipt \/ \E decision \in {"accept", "reject"} : ReviewRun(decision)
  PROVE  ReviewInv'
<1>1. load_receipt(receipt, index) \in TaskRunReceipt
  BY LoadEffect DEF ReviewInv, ReviewTypeInv, TypeOK
<1>2. CASE PollReceipt
  <2>1. ReviewTypeInv'
    BY <1>1, <1>2 DEF PollReceipt, ReviewInv, ReviewTypeInv, TypeOK, run, checkout, call, Changed
  <2>2. QED
    BY <1>2, <2>1 DEF PollReceipt, ReviewInv, CallInv, SnapshotInv, StagedInv, Accepting, run,
                      checkout, call, Changed, InPlace
<1>3. ASSUME NEW decision \in {"accept", "reject"}, ReviewRun(decision) PROVE ReviewInv'
  <2>1. ReviewTypeInv'
    BY <1>1, <1>3 DEF ReviewRun, Step, ReviewInv, ReviewTypeInv, TypeOK, run, checkout, Changed
  <2>2. QED
    BY <1>3, <2>1 DEF ReviewRun, Step, ReviewInv, CallInv, SnapshotInv, StagedInv, Accepting
<1>4. CASE User
  <2>1. /\ pc = "idle" /\ edits' \in 0 .. MaxEdits
        /\ UNCHANGED <<run, receipt, intent, call, faults>>
    BY <1>4, AcceptAssumption DEF User, UserEdits, Idle, ReviewInv, ReviewTypeInv, TypeOK
  <2>2. head' \in Tree /\ index' \in Tree /\ worktree' \in Tree
    BY <1>4, AcceptAssumption DEF User, UserEdits, EditFile, StageFile, CommitStaged, Tree,
                                  ReviewInv, ReviewTypeInv, TypeOK
  <2>3. ReviewTypeInv'
    BY <2>1, <2>2 DEF ReviewInv, ReviewTypeInv, TypeOK, run, call, Changed
  <2>4. QED
    BY <2>1, <2>3 DEF ReviewInv, CallInv, SnapshotInv, StagedInv, Accepting, call
<1>5. QED
  BY <1>2, <1>3, <1>4

\* The path by path part of a call.
LEMMA BeginInv == ReviewInv /\ Begin => ReviewInv'
<1> SUFFICES ASSUME ReviewInv, Begin PROVE ReviewInv'
  OBVIOUS
<1>1. action = "accept" =>
        /\ snapshot' \in Snapshots
        /\ snapshot'.tracked = {p \in Changed : index[p] # Absent}
        /\ snapshot'.existed = {p \in Changed : worktree[p] # Absent}
        /\ snapshot'.index = index /\ snapshot'.worktree = worktree
  BY DEF Begin, Snapshots, ReviewInv, ReviewTypeInv, TypeOK
<1>2. snapshot'.tracked \subseteq Changed /\ snapshot'.existed \subseteq Changed
  BY DEF Begin, NoSnapshot
<1>3. ReviewTypeInv'
  BY <1>2 DEF Begin, Step, ReviewInv, ReviewTypeInv, TypeOK, run, checkout, Changed
<1>4. CallInv'
  BY DEF Begin, Step, ReviewInv, CallInv
<1>5. Changed' = Changed /\ InPlace' = InPlace /\ UNCHANGED <<isolated, index, worktree, action>>
  BY DEF Begin, run, checkout, Changed, InPlace
<1>6. SnapshotInv'
  BY <1>1, <1>5 DEF Begin, Step, SnapshotInv, Accepting
<1>7. StagedInv'
  <2>1. copying' = None /\ left' = Changed
    BY DEF Begin, Step, ReviewInv, CallInv
  <2>2. isolated \subseteq Changed /\ InPlace \subseteq Changed
    BY DEF ReviewInv, ReviewTypeInv, TypeOK, InPlace
  <2>3. QED
    BY <1>1, <1>5, <2>1, <2>2 DEF StagedInv
<1>8. QED
  BY <1>3, <1>4, <1>6, <1>7 DEF ReviewInv

LEMMA ProcessPathInv == ReviewInv /\ ProcessPath => ReviewInv'
<1> SUFFICES ASSUME ReviewInv, ProcessPath PROVE ReviewInv'
  OBVIOUS
<1>1. PICK p \in left :
        /\ left' = left \ {p}
        /\ \/ /\ StagePath(p) \/ DiscardPath(p) \/ LeaveIsolated(p)
              /\ UNCHANGED <<skipped, faults>>
           \/ /\ p \in InPlace
              /\ \/ action = "accept" /\ Unknown(p) /\ UNCHANGED faults
                 \/ Fault
              /\ skipped' = skipped \cup {p}
              /\ UNCHANGED <<index, worktree>>
  BY DEF ProcessPath
<1>2. /\ pc = "apply" /\ p \in Changed /\ p \in Path
      /\ index \in Tree /\ worktree \in Tree /\ head \in Tree
      /\ UNCHANGED <<run, head, receipt, intent, pc, action, patched, copying, snapshot, edits>>
  BY <1>1 DEF ProcessPath, ReviewInv, ReviewTypeInv, TypeOK
<1>3. index' \in Tree /\ worktree' \in Tree
  BY <1>1, <1>2, AcceptAssumption DEF StagePath, DiscardPath, LeaveIsolated, Tree
<1>4. faults' \in 0 .. MaxFaults
  BY <1>1, FaultBound DEF ReviewInv, ReviewTypeInv, TypeOK
<1>5. ReviewTypeInv'
  BY <1>1, <1>2, <1>3, <1>4 DEF ReviewInv, ReviewTypeInv, TypeOK, run, Changed
<1>6. CallInv'
  BY <1>2 DEF ReviewInv, CallInv
<1>7. ASSUME action = "accept"
      PROVE  /\ worktree' = worktree
             /\ \/ p \in InPlace /\ index' = [index EXCEPT ![p] = worktree[p]] /\ skipped' = skipped
                \/ p \in InPlace /\ index' = index /\ skipped' = skipped \cup {p}
  BY <1>1, <1>7 DEF StagePath, DiscardPath, LeaveIsolated
<1>8. SnapshotInv'
  BY <1>2, <1>7 DEF ReviewInv, SnapshotInv, Accepting, run, Changed
<1>9. StagedInv'
  <2> SUFFICES ASSUME action = "accept" PROVE StagedInv'
    BY <1>2 DEF StagedInv
  <2>1. \A q \in Path : index'[q] = IF q = p /\ skipped' = skipped /\ index' # index THEN worktree[p] ELSE index[q]
    BY <1>2, <1>7 DEF Tree
  <2>2. p \in InPlace /\ p \notin isolated /\ p \in Changed
    BY <1>7 DEF InPlace
  <2>3. p \notin left' \cup skipped' => index'[p] = worktree[p]
    BY <1>2, <1>7 DEF Tree
  <2>4. QED
    BY <1>1, <1>2, <1>7, <2>1, <2>2, <2>3 DEF ReviewInv, ReviewTypeInv, TypeOK, StagedInv, run, Changed, InPlace
<1>10. QED
  BY <1>5, <1>6, <1>8, <1>9 DEF ReviewInv

LEMMA ApplyPatchInv == ReviewInv /\ ApplyIsolatedPatch => ReviewInv'
<1> SUFFICES ASSUME ReviewInv, ApplyIsolatedPatch PROVE ReviewInv'
  OBVIOUS
<1> DEFINE tracked == isolated \ UntrackedThere
           Patched(tree) == [p \in Path |-> IF p \in tracked THEN produced[p] ELSE tree[p]]
<1>1. /\ pc = "apply" /\ action = "accept"
      /\ isolated \subseteq Changed /\ Changed \subseteq Path
      /\ index \in Tree /\ worktree \in Tree /\ produced \in [Changed -> Content]
      /\ UNCHANGED <<run, head, receipt, intent, action, copying, skipped, snapshot, edits, faults>>
  BY DEF ApplyIsolatedPatch, ReviewInv, ReviewTypeInv, TypeOK
<1>2. CASE UNCHANGED <<index, worktree, left, patched>> /\ pc' = "rollback"
  <2>1. ReviewTypeInv' /\ CallInv'
    BY <1>1, <1>2 DEF ReviewInv, ReviewTypeInv, TypeOK, CallInv, run, Changed
  <2>2. SnapshotInv' /\ StagedInv'
    BY <1>1, <1>2 DEF ReviewInv, SnapshotInv, StagedInv, Accepting, run, Changed
  <2>3. QED
    BY <2>1, <2>2 DEF ReviewInv
<1>3. CASE /\ index' = Patched(index) /\ worktree' = Patched(worktree)
           /\ left' = left \ tracked /\ patched' = TRUE /\ pc' = pc
  <2>1. index' \in Tree /\ worktree' \in Tree
    BY <1>1, <1>3 DEF Tree
  <2>2. ReviewTypeInv' /\ CallInv'
    BY <1>1, <1>3, <2>1 DEF ReviewInv, ReviewTypeInv, TypeOK, CallInv, run, Changed
  <2>3. \A p \in Path : /\ p \notin isolated => index'[p] = index[p] /\ worktree'[p] = worktree[p]
                        /\ p \in tracked => index'[p] = produced[p]
                        /\ p \notin tracked => index'[p] = index[p] /\ worktree'[p] = worktree[p]
                        /\ worktree[p] = produced[p] => worktree'[p] = produced[p]
    BY <1>3
  <2>4. SnapshotInv'
    BY <1>1, <1>3, <2>3 DEF ReviewInv, SnapshotInv, Accepting, run, Changed
  <2>5. StagedInv'
    <3>1. tracked \subseteq isolated
      OBVIOUS
    <3> HIDE DEF tracked, Patched
    <3>2. QED
      BY <1>1, <1>3, <2>3, <3>1 DEF ReviewInv, StagedInv, run, Changed, InPlace
  <2>6. QED
    BY <2>2, <2>4, <2>5 DEF ReviewInv
<1>4. QED
  BY <1>2, <1>3 DEF ApplyIsolatedPatch

LEMMA CopyInv == ReviewInv /\ (CopyUntracked \/ AddCopied) => ReviewInv'
<1> SUFFICES ASSUME ReviewInv, CopyUntracked \/ AddCopied PROVE ReviewInv'
  OBVIOUS
<1>1. /\ pc = "apply"
      /\ isolated \subseteq Changed /\ Changed \subseteq Path
      /\ index \in Tree /\ worktree \in Tree /\ produced \in [Changed -> Content]
      /\ UNCHANGED <<run, head, receipt, intent, action, patched, snapshot, edits>>
  BY DEF CopyUntracked, AddCopied, ReviewInv, ReviewTypeInv, TypeOK
<1>2. faults' \in 0 .. MaxFaults
  BY FaultBound DEF CopyUntracked, AddCopied, ReviewInv, ReviewTypeInv, TypeOK
<1>3. CASE CopyUntracked
  <2>1. PICK p \in left \cap UntrackedThere :
          \/ /\ worktree' = [worktree EXCEPT ![p] = produced[p]]
             /\ copying' = p /\ pc' = pc
          \/ pc' = "rollback" /\ UNCHANGED <<worktree, copying>>
    BY <1>3 DEF CopyUntracked
  <2>2. p \in isolated /\ UNCHANGED <<index, left, skipped>>
    BY <1>3 DEF UntrackedThere, CopyUntracked
  <2>3. worktree' \in Tree /\ \A q \in Path : q # p => worktree'[q] = worktree[q]
    BY <1>1, <2>1, <2>2 DEF Tree
  <2>4. pc' # "rollback" => worktree'[p] = produced[p]
    BY <1>1, <2>1, <2>2 DEF Tree
  <2>5. ReviewTypeInv'
    BY <1>1, <1>2, <2>1, <2>2, <2>3 DEF ReviewInv, ReviewTypeInv, TypeOK, run, Changed
  <2>6. action = "accept"
    BY <1>3 DEF CopyUntracked, ReviewInv, CallInv
  <2>7. CallInv' /\ SnapshotInv' /\ StagedInv'
    BY <1>1, <2>1, <2>2, <2>3, <2>4, <2>6 DEF ReviewInv, CallInv, SnapshotInv, StagedInv, Accepting,
                                              run, Changed, InPlace
  <2>8. QED
    BY <2>5, <2>7 DEF ReviewInv
<1>4. CASE AddCopied
  <2>1. /\ copying # None /\ copying \in Changed /\ action = "accept"
        /\ copying' = None /\ left' = left \ {copying} /\ UNCHANGED <<worktree, pc>>
    BY <1>4 DEF AddCopied, ReviewInv, ReviewTypeInv, TypeOK, CallInv
  <2>2. \/ index' = [index EXCEPT ![copying] = worktree[copying]] /\ skipped' = skipped
        \/ index' = index /\ skipped' = skipped \cup {copying}
    BY <1>4 DEF AddCopied
  <2>3. index' \in Tree
    BY <1>1, <2>1, <2>2 DEF Tree
  <2>4. ReviewTypeInv'
    BY <1>1, <1>2, <2>1, <2>2, <2>3 DEF ReviewInv, ReviewTypeInv, TypeOK, run, Changed
  <2>5. CallInv' /\ SnapshotInv'
    BY <1>1, <2>1 DEF ReviewInv, CallInv, SnapshotInv, Accepting, run, Changed
  <2>6. copying \in isolated /\ worktree[copying] = produced[copying]
    BY <1>1, <2>1 DEF ReviewInv, StagedInv
  <2>7. \A q \in Path : q # copying => index'[q] = index[q]
    BY <1>1, <2>1, <2>2 DEF Tree
  <2>8. copying \notin left' \cup skipped' => index'[copying] = worktree[copying]
    BY <1>1, <2>1, <2>2 DEF Tree
  <2>9. StagedInv'
    BY <1>1, <2>1, <2>2, <2>6, <2>7, <2>8 DEF ReviewInv, StagedInv, run, Changed, InPlace
  <2>10. QED
    BY <2>4, <2>5, <2>9 DEF ReviewInv
<1>5. QED
  BY <1>3, <1>4

\* What record_review saves is a receipt with the decision, and of the index.
LEMMA RecordedReview ==
  ASSUME ReviewInv, pc = "persist"
  PROVE  /\ NewReview \in TaskRunReceipt
         /\ NewReview.review # None
         /\ action = "accept" => NewReview.review.decision = "accepted"
                                 /\ NewReview.review.index_tree_after_accept = index
         /\ action # "accept" => NewReview.review.decision = "rejected"
<1>1. load_receipt(receipt, index) \in TaskRunReceipt /\ index \in Tree /\ Changed \in SUBSET Path
  BY LoadEffect DEF ReviewInv, ReviewTypeInv, TypeOK
<1>2. QED
  BY <1>1, ReviewType DEF NewReview

LEMMA EndInv ==
  ASSUME ReviewInv,
         \/ AllProcessed \/ RejectIncomplete \/ PersistReview \/ PersistReviewFails
         \/ RemoveIntent \/ RestoreIndex \/ RestoreWorktree \/ Crash
  PROVE  ReviewInv'
<1> USE DEF ReviewInv
<1>1. CASE AllProcessed
  <2>1. ReviewTypeInv' /\ CallInv'
    BY <1>1 DEF AllProcessed, ReviewTypeInv, TypeOK, CallInv, run, checkout, Changed
  <2>2. SnapshotInv' /\ StagedInv'
    BY <1>1 DEF AllProcessed, SnapshotInv, StagedInv, Accepting, run, checkout, Changed, InPlace
  <2>3. QED
    BY <2>1, <2>2
<1>2. CASE RejectIncomplete
  BY <1>2, CallEnds DEF RejectIncomplete, ReviewTypeInv, TypeOK, checkout
<1>3. CASE PersistReview
  <2>1. ReviewTypeInv' /\ CallInv'
    BY <1>3, RecordedReview DEF PersistReview, Step, ReviewTypeInv, TypeOK, CallInv, run, checkout,
                                Changed
  <2>2. SnapshotInv' /\ StagedInv'
    BY <1>3 DEF PersistReview, Step, SnapshotInv, StagedInv, Accepting, run, checkout, Changed
  <2>3. QED
    BY <2>1, <2>2
<1>4. CASE PersistReviewFails
  <2>1. receipt' \in TaskRunReceipt /\ faults' \in 0 .. MaxFaults
    BY <1>4, RecordedReview, FaultBound DEF PersistReviewFails, ReviewTypeInv, TypeOK
  <2>2. CASE EndCall
    BY <1>4, <2>1, <2>2, CallEnds DEF PersistReviewFails, ReviewTypeInv, TypeOK, checkout
  <2>3. CASE /\ action = "accept" /\ pc' = "rollback"
             /\ UNCHANGED <<action, left, patched, copying, skipped, snapshot>>
    <3>1. ReviewTypeInv' /\ CallInv'
      BY <1>4, <2>1, <2>3 DEF PersistReviewFails, ReviewTypeInv, TypeOK, CallInv, run, checkout,
                              Changed
    <3>2. SnapshotInv' /\ StagedInv'
      BY <1>4, <2>3 DEF PersistReviewFails, SnapshotInv, StagedInv, Accepting, run, checkout, Changed
    <3>3. QED
      BY <3>1, <3>2
  <2>4. QED
    BY <1>4, <2>2, <2>3 DEF PersistReviewFails
<1>5. CASE RemoveIntent
  <2>1. faults' \in 0 .. MaxFaults
    BY <1>5, FaultBound DEF RemoveIntent, ReviewTypeInv, TypeOK
  <2>2. QED
    BY <1>5, <2>1, CallEnds DEF RemoveIntent, ReviewTypeInv, TypeOK, checkout
<1>6. CASE RestoreIndex
  <2>1. snapshot.index \in Tree
    BY <1>6 DEF RestoreIndex, CallInv, SnapshotInv, Accepting, Snapshots
  <2>2. CASE EndCall
    BY <1>6, <2>1, <2>2, CallEnds DEF RestoreIndex, ReviewTypeInv, TypeOK
  <2>3. CASE /\ pc' = "rollback_worktree"
             /\ UNCHANGED <<action, left, patched, copying, skipped, snapshot>>
    <3>1. ReviewTypeInv' /\ CallInv'
      BY <1>6, <2>1, <2>3 DEF RestoreIndex, ReviewTypeInv, TypeOK, CallInv, run, Changed
    <3>2. SnapshotInv' /\ StagedInv'
      BY <1>6, <2>3 DEF RestoreIndex, SnapshotInv, StagedInv, Accepting, run, Changed
    <3>3. QED
      BY <3>1, <3>2
  <2>4. QED
    BY <1>6, <2>2, <2>3 DEF RestoreIndex
<1>7. CASE RestoreWorktree
  <2>1. worktree' \in Tree
    BY <1>7, AcceptAssumption DEF RestoreWorktree, ReviewTypeInv, TypeOK, Tree
  <2>2. QED
    BY <1>7, <2>1, CallEnds DEF RestoreWorktree, ReviewTypeInv, TypeOK
<1>8. CASE Crash
  BY <1>8, CallEnds, FaultBound DEF Crash, ReviewTypeInv, TypeOK, checkout
<1>9. QED
  BY <1>1, <1>2, <1>3, <1>4, <1>5, <1>6, <1>7, <1>8

LEMMA ReviewInvariant == Spec => []ReviewInv
<1>1. ReviewInv /\ Next => ReviewInv'
  BY OutsideInv, BeginInv, ProcessPathInv, ApplyPatchInv, CopyInv, EndInv DEF Next, ReviewStep
<1>2. ReviewInv /\ UNCHANGED vars => ReviewInv'
  <2> SUFFICES ASSUME ReviewInv, UNCHANGED vars PROVE ReviewInv'
    OBVIOUS
  <2>1. UNCHANGED <<base, isolated, produced, head, index, worktree, receipt, intent, pc, action, left,
                    patched, copying, skipped, snapshot, edits, faults>>
    BY DEF vars, run, checkout, call
  <2>2. QED
    BY <2>1 DEF ReviewInv, ReviewTypeInv, TypeOK, CallInv, SnapshotInv, StagedInv, Accepting, Changed,
                InPlace
<1>3. QED
  BY <1>1, <1>2, ReviewInitial, PTL DEF Spec

----------------------------------------------------------------------------
\* What follows for the steps of a review

\* Every variable of the review keeps its type (orchestrator/review.rs), through every
\* edit, fault and crash.
THEOREM ReviewTypeCorrect == Spec => []TypeOK
<1>1. ReviewInv => TypeOK
  BY DEF ReviewInv, ReviewTypeInv
<1>2. QED
  BY <1>1, ReviewInvariant, PTL

\* A review is only ever recorded by the two outcomes of its write.
LEMMA ReviewsAreRecorded ==
  ASSUME ReviewInv, [Next]_vars, receipt'.review # None, receipt' # receipt
  PROVE  /\ pc = "persist" /\ receipt' = NewReview
         /\ PersistReview \/ PersistReviewFails
<1>1. receipt \in TaskRunReceipt
  BY DEF ReviewInv, ReviewTypeInv, TypeOK
<1>2. receipt' # load_receipt(receipt, index)
  BY <1>1, LoadEffect
<1>3. ~ PollReceipt /\ ~ UNCHANGED vars /\ ~ User
  BY <1>2 DEF PollReceipt, vars, User, UserEdits
<1>4. \A decision \in {"accept", "reject"} : ~ ReviewRun(decision)
  BY <1>2 DEF ReviewRun
<1>5. /\ ~ Begin /\ ~ ProcessPath /\ ~ ApplyIsolatedPatch /\ ~ CopyUntracked /\ ~ AddCopied
      /\ ~ AllProcessed /\ ~ RejectIncomplete /\ ~ RemoveIntent /\ ~ RestoreIndex
      /\ ~ RestoreWorktree /\ ~ Crash
  BY <1>2 DEF Begin, ProcessPath, ApplyIsolatedPatch, CopyUntracked, AddCopied, AllProcessed,
              RejectIncomplete, RemoveIntent, RestoreIndex, RestoreWorktree, Crash
<1>6. PersistReview \/ PersistReviewFails
  BY <1>3, <1>4, <1>5 DEF Next, ReviewStep
<1>7. QED
  BY <1>2, <1>6 DEF PersistReview, PersistReviewFails, Step

\* An Accepted review is never partial and never wider than its run: its tree has
\* the run's bytes at every path of the run, and at every other path what was staged
\* before (orchestrator/review.rs, review_transaction.rs), for every run, checkout
\* and user, through every fault.
THEOREM AcceptedReviewIsComplete == Spec => AcceptedIsComplete
<1> DEFINE Complete ==
      RecordsAccept =>
        LET tree == receipt'.review.index_tree_after_accept IN
        \A p \in Path :
          tree[p] = CASE p \in InPlace -> snapshot.worktree[p]
                      [] p \in isolated -> produced[p]
                      [] OTHER -> snapshot.index[p]
<1>1. ReviewInv /\ [Next]_vars => Complete
  <2> SUFFICES ASSUME ReviewInv, [Next]_vars, RecordsAccept PROVE Complete
    OBVIOUS
  <2>1. receipt' = NewReview
    BY ReviewsAreRecorded DEF RecordsAccept, AcceptedReview
  <2>2. pc = "persist" /\ action = "accept" /\ left = {} /\ skipped = {}
    BY DEF RecordsAccept, ReviewInv, CallInv
  <2>3. receipt'.review.index_tree_after_accept = index
    BY <2>1, <2>2, RecordedReview
  <2>4. /\ \A p \in Path \ Changed : index[p] = snapshot.index[p]
        /\ \A p \in InPlace : index[p] = worktree[p]
        /\ \A p \in isolated : index[p] = produced[p]
    BY <2>2 DEF ReviewInv, StagedInv
  <2>5. \A p \in InPlace : worktree[p] = snapshot.worktree[p] /\ p \notin isolated
    BY <2>2 DEF ReviewInv, ReviewTypeInv, TypeOK, SnapshotInv, Accepting, InPlace
  <2>6. QED
    BY <2>3, <2>4, <2>5 DEF InPlace
<1>2. QED
  BY <1>1, ReviewInvariant, PTL DEF Spec, AcceptedIsComplete

\* A decision made durable is the one recorded (review_evidence_gate.rs:
\* ensure_review_intent), whichever calls are interrupted, retried or refused.
THEOREM DecisionStands == Spec => PendingDecisionStands
<1> DEFINE Stands ==
      receipt'.review # None /\ receipt'.review # receipt.review =>
        receipt'.review.decision = (IF intent = "accept" THEN "accepted" ELSE "rejected")
<1>1. ReviewInv /\ [Next]_vars => Stands
  <2> SUFFICES ASSUME ReviewInv, [Next]_vars,
                      receipt'.review # None, receipt'.review # receipt.review
               PROVE  Stands
    OBVIOUS
  <2>1. pc = "persist" /\ receipt' = NewReview
    BY ReviewsAreRecorded
  <2>2. intent = action
    BY <2>1 DEF ReviewInv, CallInv
  <2>3. QED
    BY <2>1, <2>2, RecordedReview
<1>2. QED
  BY <1>1, ReviewInvariant, PTL DEF Spec, PendingDecisionStands

\* A refused Accept leaves the index as it found it, and every file that was
\* committed and clean when it began (review_transaction.rs: rollback).
THEOREM RefusedAcceptIsClean == Spec => RefusedAcceptKeepsCleanPaths
<1> DEFINE Kept ==
      AcceptRefused =>
        /\ index' = snapshot.index
        /\ \A p \in Path :
             snapshot.worktree[p] = snapshot.index[p] => worktree'[p] = snapshot.worktree[p]
<1>1. ReviewInv /\ [Next]_vars => Kept
  <2> SUFFICES ASSUME ReviewInv, [Next]_vars, AcceptRefused PROVE Kept
    OBVIOUS
  <2>1. /\ pc \in {"rollback", "rollback_worktree"} /\ pc' # pc /\ pc' = "idle"
        /\ faults' = faults
    BY DEF AcceptRefused
  <2>2. ~ Crash
    BY <2>1 DEF Crash, Fault, ReviewInv, ReviewTypeInv, TypeOK
  <2>3. RestoreIndex \/ RestoreWorktree
    BY <2>1, <2>2 DEF Next, ReviewStep, PollReceipt, vars, call, User, UserEdits, Idle, ReviewRun,
                      Begin, Step, ProcessPath, ApplyIsolatedPatch, CopyUntracked, AddCopied,
                      AllProcessed, RejectIncomplete, RemoveIntent, PersistReview,
                      PersistReviewFails
  <2>4. /\ snapshot \in Snapshots
        /\ snapshot.tracked = {p \in Changed : snapshot.index[p] # Absent}
        /\ snapshot.existed = {p \in Changed : snapshot.worktree[p] # Absent}
        /\ \A p \in Path \ isolated : worktree[p] = snapshot.worktree[p]
        /\ pc = "rollback_worktree" => index = snapshot.index
        /\ isolated \subseteq Changed
    BY <2>1 DEF ReviewInv, ReviewTypeInv, TypeOK, CallInv, SnapshotInv, Accepting
  <2>5. CASE RestoreIndex
    <3>1. isolated = {} /\ index' = snapshot.index /\ worktree' = worktree
      BY <2>1, <2>5 DEF RestoreIndex, restore_worktree
    <3>2. QED
      BY <2>4, <3>1
  <2>6. CASE RestoreWorktree
    <3>1. index' = snapshot.index /\ index = snapshot.index
      BY <2>4, <2>6 DEF RestoreWorktree
    <3>2. ASSUME NEW p \in Path, snapshot.worktree[p] = snapshot.index[p]
          PROVE  worktree'[p] = snapshot.worktree[p]
      <4>1. worktree'[p] = CASE p \in snapshot.tracked -> index[p]
                             [] p \in Changed \ (snapshot.tracked \cup snapshot.existed) -> Absent
                             [] OTHER -> worktree[p]
        BY <2>6 DEF RestoreWorktree
      <4>2. CASE p \in snapshot.tracked
        BY <3>1, <3>2, <4>1, <4>2
      <4>3. CASE p \in Changed /\ p \notin snapshot.tracked
        BY <2>4, <3>2, <4>1, <4>3
      <4>4. CASE p \notin Changed
        BY <2>4, <4>1, <4>4
      <4>5. QED
        BY <2>4, <4>2, <4>3, <4>4
    <3>3. QED
      BY <3>1, <3>2
  <2>7. QED
    BY <2>3, <2>5, <2>6
<1>2. QED
  BY <1>1, ReviewInvariant, PTL DEF Spec, RefusedAcceptKeepsCleanPaths

----------------------------------------------------------------------------
(* Accept as one step.  While an Accept may still be undone, the checkout that     *)
(* counts is the one it began with: the invariants say what the real one may hold  *)
(* at each path in the meantime, and that the recorded review is of it at the end. *)

\* A review in the receipt is of the run and of its paths.
RunReceiptInv ==
  /\ receipt.changeset_digest = Changed
  /\ receipt.review # None =>
       /\ receipt.review.run_id = receipt.run_id
       /\ receipt.review.changeset_digest = receipt.changeset_digest

\* Before the intent is removed its decision is recorded, an Accept of the index.
RecordedInv ==
  /\ pc # "idle" => action # None
  /\ pc = "cleanup" =>
       /\ receipt.review # None
       /\ receipt.review.decision = (IF action = "accept" THEN "accepted" ELSE "rejected")
       /\ action = "accept" => receipt.review.index_tree_after_accept = index

\* The paths of an Accept in progress: as they were or as they will be, and an
\* isolated one is only touched where nobody has changed anything.
HalfInv ==
  Undecided =>
    /\ copying # None => patched
    /\ pc = "rollback_worktree" => isolated # {}
    /\ patched => \A p \in isolated : snapshot.index[p] = head[p] /\ snapshot.worktree[p] = head[p]
    /\ ~ patched => \A p \in isolated : index[p] = snapshot.index[p] /\ worktree[p] = snapshot.worktree[p]
    /\ \A p \in isolated : /\ index[p] \in {snapshot.index[p], produced[p]}
                           /\ worktree[p] \in {snapshot.worktree[p], produced[p]}
    /\ \A p \in InPlace : index[p] \in {snapshot.index[p], snapshot.worktree[p]}
    /\ \A p \in Path \ Changed : index[p] = snapshot.index[p]

\* No isolated path is passed over.
WholeInv ==
  action = "accept" /\ pc \in {"apply", "persist"} =>
    /\ ~ patched => isolated \subseteq left
    /\ \A p \in isolated \ (left \cup skipped) : worktree[p] = produced[p]

\* Nothing of the run is left at the paths a Reject has processed.
Cleared(p) == worktree[p] = index[p] /\ index[p] \in {Absent, head[p]}

ClearedInv ==
  action = "reject" /\ pc \in {"apply", "persist"} =>
    \A p \in InPlace \ (left \cup skipped) : Cleared(p)

KeptInv == RunReceiptInv /\ RecordedInv /\ HalfInv /\ WholeInv /\ ClearedInv

LEMMA KeptInitial == Init => KeptInv
<1> SUFFICES ASSUME Init PROVE KeptInv
  OBVIOUS
<1>1. PICK changed \in (SUBSET Path) \ {{}} :
        /\ produced \in [changed -> {Absent, AgentContent}]
        /\ receipt = FreshReceipt(ThisRun, changed)
  BY DEF Init
<1>2. receipt.changeset_digest = Changed /\ receipt.review = None
  BY <1>1 DEF Changed, FreshReceipt
<1>3. QED
  BY <1>2 DEF Init, KeptInv, RunReceiptInv, RecordedInv, HalfInv, WholeInv, ClearedInv, Undecided

\* Every step keeps the run, and moves the receipt in one of three ways.
LEMMA ReceiptMoves ==
  ASSUME [Next]_vars
  PROVE  /\ UNCHANGED <<produced, isolated>>
         /\ \/ receipt' = receipt
            \/ receipt' = load_receipt(receipt, index)
            \/ receipt' = NewReview /\ pc = "persist"
BY DEF Next, ReviewStep, vars, run, User, UserEdits, PollReceipt, ReviewRun, Begin, ProcessPath,
       ApplyIsolatedPatch, CopyUntracked, AddCopied, AllProcessed, RejectIncomplete, PersistReview,
       PersistReviewFails, RemoveIntent, RestoreIndex, RestoreWorktree, Crash, Step

\* A load withdraws a review only if it is an approval of other bytes than the index.
LEMMA LoadWithdraws ==
  ASSUME ReviewInv, RunReceiptInv
  PROVE  LET loaded == load_receipt(receipt, index) IN
         \/ loaded = receipt
         \/ /\ loaded.review = None /\ receipt.review # None
            /\ receipt.review.decision = "accepted"
            /\ receipt.review.index_tree_after_accept # index
<1>1. receipt \in TaskRunReceipt
  BY DEF ReviewInv, ReviewTypeInv, TypeOK
<1>2. load_receipt(receipt, index) = invalidate_stale_review_tree(receipt, index)
  BY <1>1, NoneAssumption DEF load_receipt
<1>3. CASE StaleReview(receipt, index)
  <2>1. load_receipt(receipt, index).review = None
    BY <1>1, <1>2, <1>3 DEF invalidate_stale_review_tree, TaskRunReceipt
  <2>2. AcceptedReview(receipt)
    BY <1>3 DEF StaleReview
  <2>3. BoundReview(receipt)
    BY <2>2 DEF BoundReview, RunReceiptInv, AcceptedReview
  <2>4. QED
    BY <1>3, <2>1, <2>2, <2>3 DEF StaleReview, AcceptedReview
<1>4. CASE ~ StaleReview(receipt, index)
  BY <1>2, <1>4 DEF invalidate_stale_review_tree
<1>5. QED
  BY <1>3, <1>4

LEMMA RunReceiptKept == ReviewInv /\ RunReceiptInv /\ [Next]_vars => RunReceiptInv'
<1> SUFFICES ASSUME ReviewInv, RunReceiptInv, [Next]_vars PROVE RunReceiptInv'
  OBVIOUS
<1>1. receipt \in TaskRunReceipt /\ index \in Tree /\ Changed \subseteq Path
  BY DEF ReviewInv, ReviewTypeInv, TypeOK
<1>2. Changed' = Changed /\ Changed # None
  BY <1>1, ReceiptMoves, NoneAssumption DEF Changed, Digest
<1>3. LET loaded == load_receipt(receipt, index) IN
      /\ loaded \in TaskRunReceipt
      /\ loaded.run_id = receipt.run_id /\ loaded.changeset_digest = Changed
      /\ loaded = receipt \/ loaded.review = None
  BY <1>1, LoadEffect DEF RunReceiptInv
<1>4. /\ NewReview.changeset_digest = Changed
      /\ NewReview.review.run_id = NewReview.run_id
      /\ NewReview.review.changeset_digest = Changed
  BY <1>1, <1>2, <1>3, ReviewType DEF NewReview
<1>5. CASE receipt' = receipt
  BY <1>2, <1>5 DEF RunReceiptInv
<1>6. CASE receipt' = load_receipt(receipt, index)
  BY <1>2, <1>3, <1>6 DEF RunReceiptInv
<1>7. CASE receipt' = NewReview
  BY <1>2, <1>4, <1>7 DEF RunReceiptInv
<1>8. QED
  BY <1>5, <1>6, <1>7, ReceiptMoves

\* Between two calls nothing else has to be known.
LEMMA IdleIsKept == RunReceiptInv' /\ pc' = "idle" => KeptInv'
BY DEF KeptInv, RecordedInv, HalfInv, WholeInv, ClearedInv, Undecided

\* The types of the checkout that counts.
LEMMA StandingType ==
  ASSUME ReviewInv
  PROVE  /\ StandingIndex \in Tree /\ StandingFiles \in Tree
         /\ index \in Tree /\ worktree \in Tree /\ head \in Tree
         /\ isolated \subseteq Changed /\ Changed \subseteq Path /\ InPlace = Changed \ isolated
         /\ Undecided => /\ snapshot.index \in Tree /\ snapshot.worktree \in Tree
                         /\ intent = "accept" /\ action = "accept" /\ pc # "idle"
                         /\ \A p \in Path \ isolated : worktree[p] = snapshot.worktree[p]
<1>1. Undecided => Accepting /\ snapshot \in Snapshots /\ intent = "accept"
  BY DEF Undecided, Accepting, ReviewInv, CallInv, SnapshotInv
<1>2. QED
  BY <1>1 DEF StandingIndex, StandingFiles, ReviewInv, ReviewTypeInv, TypeOK, Snapshots, Undecided,
              SnapshotInv, InPlace

Stutters == UNCHANGED Contract!contractVars

\* Nothing that the contract sees has changed.
LEMMA NothingSeen ==
  ASSUME StandingIndex' = StandingIndex, StandingFiles' = StandingFiles,
         UNCHANGED <<produced, isolated, head, intent, receipt, edits, faults>>
  PROVE  Stutters
BY DEF Stutters, Contract!contractVars, Contract!given, Contract!active

LEMMA OnlyFault ==
  ASSUME StandingIndex' = StandingIndex, StandingFiles' = StandingFiles, Fault,
         UNCHANGED <<produced, isolated, head, intent, receipt, edits>>
  PROVE  Contract!Fail
BY DEF Contract!Fail, Contract!given, Contract!active, Fault

----------------------------------------------------------------------------
\* Between two calls, and the start of one

LEMMA UserKeeps ==
  ASSUME ReviewInv, RunReceiptInv', User
  PROVE  KeptInv' /\ Contract!User
<1>1. /\ pc' = "idle" /\ edits' = edits + 1
      /\ UNCHANGED <<produced, isolated, intent, receipt, faults>>
  BY DEF User, UserEdits, Idle, call, run
<1>2. QED
  BY <1>1, IdleIsKept DEF Contract!User, Contract!given

LEMMA PollKeeps ==
  ASSUME ReviewInv, KeptInv, RunReceiptInv', PollReceipt
  PROVE  KeptInv' /\ (Contract!Withdraw \/ Stutters)
<1>1. /\ receipt' = load_receipt(receipt, index)
      /\ UNCHANGED <<base, isolated, produced, head, index, worktree, intent, pc, action, left, patched,
                     copying, skipped, snapshot, edits, faults>>
  BY DEF PollReceipt, run, checkout, call
<1>2. UNCHANGED <<Changed, InPlace, Undecided, StandingIndex, StandingFiles>>
  BY <1>1 DEF Changed, InPlace, Undecided, StandingIndex, StandingFiles
<1>3. /\ receipt' # receipt
      /\ receipt'.review = None /\ receipt.review # None
      /\ receipt.review.decision = "accepted"
      /\ receipt.review.index_tree_after_accept # index
  BY <1>1, LoadWithdraws DEF KeptInv, PollReceipt
<1>4. HalfInv' /\ WholeInv' /\ ClearedInv'
  BY <1>1, <1>2 DEF KeptInv, HalfInv, WholeInv, ClearedInv, Cleared
<1>5. RecordedInv'
  <2>1. pc # "cleanup"
    BY <1>3 DEF KeptInv, RecordedInv
  <2>2. QED
    BY <1>1, <2>1 DEF KeptInv, RecordedInv
<1>6. Contract!Withdraw
  <2>1. Contract!Outdated \/ (intent = "accept" /\ Contract!Recorded("accept"))
    <3>1. CASE Undecided
      BY <1>3, <3>1, StandingType DEF Contract!Recorded
    <3>2. CASE ~ Undecided
      BY <1>3, <3>2 DEF Contract!Outdated, StandingIndex
    <3>3. QED
      BY <3>1, <3>2
  <2>2. QED
    BY <1>1, <1>2, <1>3, <2>1 DEF Contract!Withdraw, Contract!given, Contract!active
<1>7. QED
  BY <1>4, <1>5, <1>6 DEF KeptInv

LEMMA ReviewRunKeeps ==
  ASSUME ReviewInv, KeptInv, RunReceiptInv', NEW decision \in {"accept", "reject"}, ReviewRun(decision)
  PROVE  KeptInv' /\ Contract!Decide(decision)
<1>1. /\ pc = "idle" /\ pc' = "begin" /\ action' = decision /\ intent' = decision
      /\ receipt' = load_receipt(receipt, index)
      /\ intent \in {None, decision} \/ Finalized(receipt')
      /\ UNCHANGED <<isolated, produced, head, index, worktree, edits, faults>>
  BY DEF ReviewRun, Step, run, checkout
<1>2. ~ Undecided /\ ~ Undecided' /\ StandingIndex' = StandingIndex /\ StandingFiles' = StandingFiles
  BY <1>1 DEF Undecided, StandingIndex, StandingFiles
<1>3. \/ receipt' = receipt
      \/ receipt'.review = None /\ Contract!Outdated
  BY <1>1, <1>2, LoadWithdraws DEF KeptInv, Contract!Outdated, StandingIndex
<1>4. intent \in {None, decision} \/ (Contract!Recorded(intent) /\ receipt'.review = receipt.review)
  BY <1>1, <1>3 DEF Finalized, Contract!Recorded
<1>5. Contract!Decide(decision)
  BY <1>1, <1>2, <1>3, <1>4 DEF Contract!Decide, Contract!given, Contract!active
<1>6. decision # None
  BY AcceptAssumption
<1>7. QED
  BY <1>1, <1>2, <1>5, <1>6 DEF KeptInv, RecordedInv, HalfInv, WholeInv, ClearedInv

LEMMA BeginKeeps ==
  ASSUME ReviewInv, KeptInv, RunReceiptInv', Begin
  PROVE  KeptInv' /\ Stutters
<1>1. /\ pc = "begin" /\ pc' = "apply" /\ left' = Changed /\ ~ patched /\ copying = None
      /\ UNCHANGED <<isolated, produced, head, index, worktree, receipt, intent, action, patched,
                     copying, skipped, edits, faults>>
  BY DEF Begin, Step, run, checkout, ReviewInv, CallInv
<1>2. action = "accept" => snapshot'.index = index /\ snapshot'.worktree = worktree
  BY DEF Begin
<1>3. /\ ~ Undecided /\ (Undecided' <=> action = "accept")
      /\ Changed' = Changed /\ InPlace' = InPlace
  BY <1>1 DEF Undecided, Changed, InPlace
<1>4. isolated \subseteq Changed /\ InPlace \subseteq Changed
  BY StandingType
<1>5. HalfInv'
  BY <1>1, <1>2, <1>3 DEF HalfInv
<1>6. WholeInv' /\ ClearedInv' /\ RecordedInv'
  BY <1>1, <1>3, <1>4 DEF WholeInv, ClearedInv, KeptInv, RecordedInv
<1>7. StandingIndex' = StandingIndex /\ StandingFiles' = StandingFiles
  BY <1>1, <1>2, <1>3 DEF StandingIndex, StandingFiles
<1>8. QED
  BY <1>1, <1>5, <1>6, <1>7, NothingSeen DEF KeptInv

----------------------------------------------------------------------------
\* The paths

LEMMA ProcessPathKeeps ==
  ASSUME ReviewInv, KeptInv, RunReceiptInv', ProcessPath
  PROVE  /\ KeptInv'
         /\ Stutters \/ Contract!Fail \/ \E p \in Path : Contract!Discard(p)
<1>1. PICK p \in left :
        /\ left' = left \ {p}
        /\ \/ /\ StagePath(p) \/ DiscardPath(p) \/ LeaveIsolated(p)
              /\ UNCHANGED <<skipped, faults>>
           \/ /\ p \in InPlace
              /\ \/ action = "accept" /\ Unknown(p) /\ UNCHANGED faults
                 \/ Fault
              /\ skipped' = skipped \cup {p}
              /\ UNCHANGED <<index, worktree>>
  BY DEF ProcessPath
<1>2. /\ pc = "apply" /\ p \in Changed /\ p \in Path
      /\ index \in Tree /\ worktree \in Tree
      /\ UNCHANGED <<produced, isolated, head, receipt, intent, pc, action, patched, copying, snapshot,
                     edits>>
      /\ UNCHANGED <<Changed, InPlace>>
  BY <1>1, StandingType DEF ProcessPath, ReviewInv, ReviewTypeInv, TypeOK, run, Changed, InPlace
<1>3. RecordedInv' /\ (Undecided' <=> Undecided)
  BY <1>2 DEF KeptInv, RecordedInv, Undecided
<1>4. CASE action = "accept"
  <2>1. /\ worktree' = worktree /\ p \in InPlace /\ p \notin isolated /\ Undecided
        /\ index' = [index EXCEPT ![p] = worktree[p]] \/ index' = index
    BY <1>1, <1>2, <1>4 DEF StagePath, DiscardPath, LeaveIsolated, Undecided, InPlace
  <2>2. worktree[p] = snapshot.worktree[p]
    BY <1>2, <2>1, StandingType
  <2>3. \A q \in Path : index'[q] = index[q] \/ (q = p /\ index'[q] = worktree[p])
    BY <1>2, <2>1 DEF Tree
  <2>4. HalfInv'
    BY <1>2, <1>3, <2>1, <2>2, <2>3, StandingType DEF KeptInv, HalfInv
  <2>5. WholeInv' /\ ClearedInv'
    BY <1>1, <1>2, <1>4, <2>1 DEF KeptInv, WholeInv, ClearedInv
  <2>6. StandingIndex' = StandingIndex /\ StandingFiles' = StandingFiles
    BY <1>2, <1>3, <2>1 DEF StandingIndex, StandingFiles
  <2>7. UNCHANGED faults \/ Fault
    BY <1>1
  <2>8. QED
    BY <1>2, <1>3, <2>4, <2>5, <2>6, <2>7, NothingSeen, OnlyFault DEF KeptInv
<1>5. CASE action = "reject"
  <2>1. ~ Undecided /\ StandingIndex = index /\ StandingFiles = worktree
        /\ StandingIndex' = index' /\ StandingFiles' = worktree' /\ intent = "reject"
    BY <1>2, <1>3, <1>5 DEF Undecided, StandingIndex, StandingFiles, ReviewInv, CallInv
  <2>2. HalfInv' /\ WholeInv'
    BY <1>2, <1>3, <1>5, <2>1 DEF HalfInv, WholeInv
  <2>3. CASE UNCHANGED <<index, worktree>> /\ (p \in isolated \/ p \in skipped')
    <3>1. ClearedInv'
      BY <1>1, <1>2, <1>5, <2>3 DEF KeptInv, ClearedInv, Cleared, InPlace
    <3>2. UNCHANGED faults \/ Fault
      BY <1>1
    <3>3. QED
      BY <1>2, <1>3, <2>1, <2>2, <2>3, <3>1, <3>2, NothingSeen, OnlyFault DEF KeptInv
  <2>4. CASE DiscardPath(p) /\ UNCHANGED <<skipped, faults>>
    <3> DEFINE content == IF index[p] = Absent THEN Absent ELSE head[p]
    <3>1. /\ p \in InPlace /\ p \notin isolated
          /\ index' = [index EXCEPT ![p] = content] /\ worktree' = [worktree EXCEPT ![p] = content]
      BY <2>4 DEF DiscardPath, InPlace
    <3>2. /\ index'[p] = content /\ worktree'[p] = content /\ content \in {Absent, head[p]}
          /\ \A q \in Path \ {p} : index'[q] = index[q] /\ worktree'[q] = worktree[q]
      BY <1>2, <3>1 DEF Tree
    <3> HIDE DEF content
    <3>3. ClearedInv'
      BY <1>1, <1>2, <1>5, <2>4, <3>2, StandingType DEF KeptInv, ClearedInv, Cleared
    <3>4. Contract!Discard(p)
      BY <1>2, <2>1, <2>4, <3>1, <3>2 DEF Contract!Discard, Contract!Place, Contract!given, Changed
    <3>5. QED
      BY <1>2, <1>3, <2>2, <3>3, <3>4 DEF KeptInv
  <2>5. QED
    BY <1>1, <1>5, <2>3, <2>4 DEF StagePath, LeaveIsolated
<1>6. QED
  BY <1>2, <1>4, <1>5 DEF KeptInv, RecordedInv, ReviewInv, ReviewTypeInv, TypeOK

LEMMA ApplyPatchKeeps ==
  ASSUME ReviewInv, KeptInv, RunReceiptInv', ApplyIsolatedPatch
  PROVE  KeptInv' /\ Stutters
<1> DEFINE tracked == isolated \ UntrackedThere
           Patched(tree) == [p \in Path |-> IF p \in tracked THEN produced[p] ELSE tree[p]]
<1>1. /\ pc = "apply" /\ action = "accept" /\ ~ patched /\ Undecided
      /\ UNCHANGED <<produced, isolated, head, receipt, intent, action, copying, skipped, snapshot,
                     edits, faults>>
      /\ UNCHANGED <<Changed, InPlace>>
  BY DEF ApplyIsolatedPatch, Undecided, run, Changed, InPlace
<1>2. pc' \in {"apply", "rollback"} /\ Undecided'
  BY <1>1 DEF ApplyIsolatedPatch, Undecided
<1>3. Stutters
  <2>1. StandingIndex' = StandingIndex /\ StandingFiles' = StandingFiles
    BY <1>1, <1>2 DEF StandingIndex, StandingFiles
  <2>2. QED
    BY <1>1, <2>1, NothingSeen
<1>4. RecordedInv' /\ ClearedInv'
  BY <1>1, <1>2 DEF KeptInv, RecordedInv, ClearedInv
<1>5. CASE UNCHANGED <<index, worktree, left, patched>> /\ pc' = "rollback"
  <2>1. HalfInv' /\ WholeInv'
    BY <1>1, <1>2, <1>5 DEF KeptInv, HalfInv, WholeInv
  <2>2. QED
    BY <1>3, <1>4, <2>1 DEF KeptInv
<1>6. CASE /\ IsolatedApplies /\ index' = Patched(index) /\ worktree' = Patched(worktree)
           /\ left' = left \ tracked /\ patched' = TRUE
  <2>1. \A p \in isolated : index[p] = snapshot.index[p] /\ worktree[p] = snapshot.worktree[p]
    BY <1>1 DEF KeptInv, HalfInv
  <2>2. \A p \in isolated : index[p] = head[p] /\ worktree[p] = head[p]
    BY <1>6 DEF IsolatedApplies, Clean
  <2>3. \A p \in Path : /\ p \in tracked => index'[p] = produced[p] /\ worktree'[p] = produced[p]
                        /\ p \notin tracked => index'[p] = index[p] /\ worktree'[p] = worktree[p]
    BY <1>6
  <2>4. tracked \subseteq isolated /\ isolated \subseteq left
    BY <1>1 DEF KeptInv, WholeInv
  <2> HIDE DEF tracked, Patched
  <2>5. HalfInv'
    BY <1>1, <1>2, <1>6, <2>1, <2>2, <2>3, <2>4, StandingType DEF KeptInv, HalfInv
  <2>6. WholeInv'
    BY <1>1, <1>6, <2>3, <2>4, StandingType DEF KeptInv, WholeInv
  <2>7. QED
    BY <1>3, <1>4, <2>5, <2>6 DEF KeptInv
<1>7. QED
  BY <1>5, <1>6 DEF ApplyIsolatedPatch

LEMMA CopyKeeps ==
  ASSUME ReviewInv, KeptInv, RunReceiptInv', CopyUntracked \/ AddCopied
  PROVE  KeptInv' /\ (Stutters \/ Contract!Fail)
<1>1. /\ pc = "apply" /\ action = "accept" /\ Undecided
      /\ UNCHANGED <<produced, isolated, head, receipt, intent, action, patched, snapshot, edits>>
      /\ UNCHANGED <<Changed, InPlace>>
  BY DEF CopyUntracked, AddCopied, ReviewInv, CallInv, Undecided, run, Changed, InPlace
<1>2. pc' \in {"apply", "rollback"} /\ Undecided' /\ patched
  BY <1>1 DEF CopyUntracked, AddCopied, Undecided, KeptInv, HalfInv
<1>3. StandingIndex' = StandingIndex /\ StandingFiles' = StandingFiles
  BY <1>1, <1>2 DEF StandingIndex, StandingFiles
<1>4. Stutters \/ Contract!Fail
  <2>1. UNCHANGED faults \/ Fault
    BY DEF CopyUntracked, AddCopied
  <2>2. QED
    BY <1>1, <1>3, <2>1, NothingSeen, OnlyFault
<1>5. RecordedInv' /\ ClearedInv'
  BY <1>1, <1>2 DEF KeptInv, RecordedInv, ClearedInv
<1>6. index \in Tree /\ worktree \in Tree /\ isolated \subseteq Path
  BY StandingType
<1>7. CASE CopyUntracked
  <2>1. PICK p \in left \cap UntrackedThere :
          \/ worktree' = [worktree EXCEPT ![p] = produced[p]] /\ pc' = pc
          \/ worktree' = worktree /\ copying' = copying
    BY <1>7 DEF CopyUntracked
  <2>2. p \in isolated /\ UNCHANGED <<index, left, skipped>>
    BY <1>7 DEF UntrackedThere, CopyUntracked
  <2>3. /\ worktree'[p] \in {worktree[p], produced[p]}
        /\ \A q \in Path \ {p} : worktree'[q] = worktree[q]
    BY <1>6, <2>1, <2>2 DEF Tree
  <2>4. HalfInv'
    BY <1>1, <1>2, <2>2, <2>3, StandingType DEF KeptInv, HalfInv
  <2>5. WholeInv'
    BY <1>1, <1>2, <1>6, <2>2, <2>3 DEF KeptInv, WholeInv
  <2>6. QED
    BY <1>4, <1>5, <2>4, <2>5 DEF KeptInv
<1>8. CASE AddCopied
  <2>1. /\ copying # None /\ copying' = None /\ left' = left \ {copying} /\ UNCHANGED worktree
        /\ \/ index' = [index EXCEPT ![copying] = worktree[copying]] /\ skipped' = skipped
           \/ index' = index /\ skipped' = skipped \cup {copying}
    BY <1>8 DEF AddCopied
  <2>2. copying \in isolated /\ worktree[copying] = produced[copying]
    BY <1>1, <2>1 DEF ReviewInv, StagedInv
  <2>3. /\ index'[copying] \in {index[copying], produced[copying]}
        /\ \A q \in Path \ {copying} : index'[q] = index[q]
    BY <1>6, <2>1, <2>2 DEF Tree
  <2>4. HalfInv'
    BY <1>1, <1>2, <2>1, <2>2, <2>3, StandingType DEF KeptInv, HalfInv
  <2>5. WholeInv'
    BY <1>1, <1>2, <1>6, <2>1, <2>2 DEF KeptInv, WholeInv
  <2>6. QED
    BY <1>4, <1>5, <2>4, <2>5 DEF KeptInv
<1>9. QED
  BY <1>7, <1>8
----------------------------------------------------------------------------
\* The end of a call

\* What an Accept has staged and copied when it is about to be recorded: all of it.
LEMMA WholeResult ==
  ASSUME ReviewInv, KeptInv, pc = "persist", action = "accept"
  PROVE  /\ Contract!Free
         /\ index = Contract!Staged(DOMAIN produced)
         /\ worktree = Contract!Copied(DOMAIN produced)
<1>1. /\ Undecided /\ left = {} /\ skipped = {} /\ StandingIndex = snapshot.index
      /\ StandingFiles = snapshot.worktree /\ DOMAIN produced = Changed
  BY DEF Undecided, ReviewInv, CallInv, StandingIndex, StandingFiles, Changed
<1>2. /\ \A p \in Path \ Changed : index[p] = snapshot.index[p]
      /\ \A p \in InPlace : index[p] = worktree[p]
      /\ \A p \in isolated : index[p] = produced[p] /\ worktree[p] = produced[p]
  BY <1>1 DEF ReviewInv, StagedInv, KeptInv, WholeInv
<1>3. /\ \A p \in Path \ isolated : worktree[p] = snapshot.worktree[p]
      /\ index \in Tree /\ worktree \in Tree
      /\ isolated \subseteq Changed /\ Changed \subseteq Path /\ InPlace = Changed \ isolated
  BY <1>1, StandingType
<1>4. Contract!Free
  BY <1>1 DEF Contract!Free, KeptInv, HalfInv, WholeInv
<1>5. \A p \in Path :
        index[p] = CASE p \in Changed \cap isolated -> produced[p]
                     [] p \in Changed \ isolated -> snapshot.worktree[p]
                     [] OTHER -> snapshot.index[p]
  BY <1>2, <1>3
<1>6. \A p \in Path : worktree[p] = IF p \in Changed \cap isolated THEN produced[p] ELSE snapshot.worktree[p]
  BY <1>2, <1>3
<1>7. index = Contract!Staged(DOMAIN produced) /\ worktree = Contract!Copied(DOMAIN produced)
  BY <1>1, <1>3, <1>5, <1>6 DEF Tree, Contract!Staged, Contract!Copied
<1>8. QED
  BY <1>4, <1>7

\* The review of an Accept is of all of its result, that of a Reject of none of it.
LEMMA RecordsWhole ==
  ASSUME ReviewInv, KeptInv, pc = "persist", receipt' = NewReview
  PROVE  /\ action = "accept" => Contract!Approves
         /\ action = "reject" => /\ intent = "reject" /\ \A p \in Contract!Place : Contract!Discarded(p)
                                /\ receipt'.review # None /\ receipt'.review.decision = "rejected"
<1>1. ASSUME action = "accept" PROVE Contract!Approves
  BY <1>1, RecordedReview, WholeResult DEF Contract!Approves, ReviewInv, CallInv
<1>2. ASSUME action = "reject"
      PROVE  /\ intent = "reject" /\ \A p \in Contract!Place : Contract!Discarded(p)
             /\ receipt'.review # None /\ receipt'.review.decision = "rejected"
  <2>1. intent = "reject" /\ left = {} /\ skipped = {} /\ ~ Undecided
    BY <1>2 DEF ReviewInv, CallInv, Undecided
  <2>2. \A p \in InPlace : Cleared(p)
    BY <1>2, <2>1 DEF KeptInv, ClearedInv
  <2>3. \A p \in Contract!Place : Contract!Discarded(p)
    BY <2>1, <2>2 DEF Contract!Place, Contract!Discarded, InPlace, Changed, Cleared, StandingIndex,
                      StandingFiles
  <2>4. action # "accept"
    BY <1>2
  <2>5. QED
    BY <2>1, <2>3, <2>4, RecordedReview
<1>3. QED
  BY <1>1, <1>2

LEMMA PersistKeeps ==
  ASSUME ReviewInv, KeptInv, RunReceiptInv', PersistReview
  PROVE  KeptInv' /\ (Contract!Accept \/ Contract!Reject)
<1>1. /\ pc = "persist" /\ pc' = "cleanup" /\ receipt' = NewReview
      /\ UNCHANGED <<isolated, produced, head, index, worktree, intent, action, edits, faults>>
      /\ action \in {"accept", "reject"}
  BY DEF PersistReview, Step, run, checkout, KeptInv, RecordedInv, ReviewInv, ReviewTypeInv, TypeOK
<1>2. ~ Undecided' /\ StandingIndex' = index /\ StandingFiles' = worktree
  BY <1>1 DEF Undecided, StandingIndex, StandingFiles
<1>3. KeptInv'
  <2>1. RecordedInv'
    BY <1>1, RecordedReview DEF RecordedInv, KeptInv
  <2>2. QED
    BY <1>1, <1>2, <2>1 DEF KeptInv, HalfInv, WholeInv, ClearedInv
<1>4. CASE action = "accept"
  BY <1>1, <1>2, <1>3, <1>4, WholeResult, RecordsWhole DEF Contract!Accept, Contract!given
<1>5. CASE action = "reject"
  <2>1. StandingIndex = index /\ StandingFiles = worktree
    BY <1>5 DEF Undecided, StandingIndex, StandingFiles
  <2>2. QED
    BY <1>1, <1>2, <1>3, <1>5, <2>1, RecordsWhole DEF Contract!Reject, Contract!given, Contract!active
<1>6. QED
  BY <1>1, <1>4, <1>5

LEMMA PersistFailsKeeps ==
  ASSUME ReviewInv, KeptInv, RunReceiptInv', PersistReviewFails
  PROVE  KeptInv' /\ (Contract!AcceptUndone \/ Contract!Reject \/ Contract!Fail)
<1>1. /\ pc = "persist" /\ Fault /\ receipt' \in {receipt, NewReview}
      /\ UNCHANGED <<isolated, produced, head, index, worktree, intent, edits>>
      /\ UNCHANGED <<Changed, InPlace>>
      /\ faults' = faults + 1
  BY DEF PersistReviewFails, run, checkout, Fault, Changed, InPlace
<1>2. CASE /\ action = "accept" /\ pc' = "rollback"
           /\ UNCHANGED <<action, left, patched, copying, skipped, snapshot>>
  <2>1. Undecided /\ Undecided'
    BY <1>1, <1>2 DEF Undecided
  <2>2. StandingIndex' = StandingIndex /\ StandingFiles' = StandingFiles
    BY <1>2, <2>1 DEF StandingIndex, StandingFiles
  <2>3. KeptInv'
    BY <1>1, <1>2, <2>1 DEF KeptInv, RecordedInv, HalfInv, WholeInv, ClearedInv
  <2>4. CASE receipt' = receipt
    BY <1>1, <2>2, <2>3, <2>4, OnlyFault
  <2>5. CASE receipt' = NewReview
    BY <1>1, <1>2, <2>2, <2>3, <2>5, RecordsWhole DEF Contract!AcceptUndone, Contract!given,
                                                     Contract!active
  <2>6. QED
    BY <1>1, <2>4, <2>5
<1>3. CASE action = "reject" /\ EndCall
  <2>1. ~ Undecided /\ ~ Undecided' /\ pc' = "idle"
    BY <1>3 DEF Undecided, EndCall
  <2>2. StandingIndex' = StandingIndex /\ StandingFiles' = StandingFiles
    BY <1>1, <2>1 DEF StandingIndex, StandingFiles
  <2>3. KeptInv'
    BY <2>1, IdleIsKept
  <2>4. CASE receipt' = receipt
    BY <1>1, <2>2, <2>3, <2>4, OnlyFault
  <2>5. CASE receipt' = NewReview
    BY <1>1, <1>3, <2>2, <2>3, <2>5, RecordsWhole DEF Contract!Reject, Contract!given, Contract!active
  <2>6. QED
    BY <1>1, <2>4, <2>5
<1>4. QED
  BY <1>2, <1>3 DEF PersistReviewFails

LEMMA EndOfCallKeeps ==
  ASSUME ReviewInv, KeptInv, RunReceiptInv', AllProcessed \/ RejectIncomplete \/ RemoveIntent
  PROVE  KeptInv' /\ (Stutters \/ Contract!Close \/ Contract!Fail)
<1>1. CASE AllProcessed
  <2>1. /\ pc = "apply" /\ left = {} /\ pc' \in {"persist", "rollback"}
        /\ pc' = "rollback" => action = "accept"
        /\ UNCHANGED <<isolated, produced, head, index, worktree, receipt, intent, action, left, patched,
                       copying, skipped, snapshot, edits, faults>>
        /\ UNCHANGED <<Changed, InPlace>>
    BY <1>1 DEF AllProcessed, run, checkout, Changed, InPlace
  <2>2. Undecided' <=> Undecided
    BY <2>1 DEF Undecided
  <2>3. KeptInv'
    BY <2>1, <2>2 DEF KeptInv, RecordedInv, HalfInv, WholeInv, ClearedInv, Cleared
  <2>4. StandingIndex' = StandingIndex /\ StandingFiles' = StandingFiles
    BY <2>1, <2>2 DEF StandingIndex, StandingFiles
  <2>5. QED
    BY <2>1, <2>3, <2>4, NothingSeen
<1>2. CASE RejectIncomplete
  <2>1. /\ pc' = "idle" /\ action = "reject"
        /\ UNCHANGED <<isolated, produced, head, index, worktree, receipt, intent, edits, faults>>
    BY <1>2 DEF RejectIncomplete, EndCall, run, checkout
  <2>2. StandingIndex' = StandingIndex /\ StandingFiles' = StandingFiles
    BY <2>1 DEF StandingIndex, StandingFiles, Undecided
  <2>3. QED
    BY <2>1, <2>2, IdleIsKept, NothingSeen
<1>3. CASE RemoveIntent
  <2>1. /\ pc = "cleanup" /\ pc' = "idle"
        /\ UNCHANGED <<isolated, produced, head, index, worktree, receipt, edits>>
        /\ \/ intent' = None /\ UNCHANGED faults
           \/ UNCHANGED intent /\ Fault
    BY <1>3 DEF RemoveIntent, EndCall, run, checkout
  <2>2. StandingIndex' = StandingIndex /\ StandingFiles' = StandingFiles
    BY <2>1 DEF StandingIndex, StandingFiles, Undecided
  <2>3. intent # None /\ Contract!Recorded(intent)
    BY <2>1 DEF KeptInv, RecordedInv, ReviewInv, CallInv, Contract!Recorded
  <2>4. CASE intent' = None /\ UNCHANGED faults
    BY <2>1, <2>2, <2>3, <2>4, IdleIsKept DEF Contract!Close, Contract!given, Contract!active
  <2>5. CASE UNCHANGED intent /\ Fault
    BY <2>1, <2>2, <2>5, IdleIsKept, OnlyFault
  <2>6. QED
    BY <2>1, <2>4, <2>5
<1>4. QED
  BY <1>1, <1>2, <1>3

LEMMA RestoreIndexKeeps ==
  ASSUME ReviewInv, KeptInv, RunReceiptInv', RestoreIndex
  PROVE  KeptInv' /\ Stutters
<1>1. /\ pc = "rollback" /\ index' = snapshot.index /\ Undecided
      /\ UNCHANGED <<isolated, produced, head, worktree, receipt, intent, edits, faults>>
      /\ UNCHANGED <<Changed, InPlace>>
  BY DEF RestoreIndex, Undecided, ReviewInv, CallInv, run, Changed, InPlace
<1>2. StandingIndex = snapshot.index /\ StandingFiles = snapshot.worktree
  BY <1>1 DEF StandingIndex, StandingFiles
<1>3. CASE /\ restore_worktree /\ pc' = "rollback_worktree"
           /\ UNCHANGED <<action, left, patched, copying, skipped, snapshot>>
  <2>1. Undecided' /\ StandingIndex' = StandingIndex /\ StandingFiles' = StandingFiles
    BY <1>1, <1>3 DEF Undecided, StandingIndex, StandingFiles
  <2>2. KeptInv'
    BY <1>1, <1>3, <2>1 DEF restore_worktree, KeptInv, RecordedInv, HalfInv, WholeInv, ClearedInv
  <2>3. QED
    BY <1>1, <2>1, <2>2, NothingSeen
<1>4. CASE ~ restore_worktree /\ EndCall
  <2>1. isolated = {} /\ pc' = "idle" /\ ~ Undecided'
    BY <1>4 DEF restore_worktree, EndCall, Undecided
  <2>2. worktree = snapshot.worktree
    BY <1>1, <2>1, StandingType DEF Tree
  <2>3. StandingIndex' = StandingIndex /\ StandingFiles' = StandingFiles
    BY <1>1, <1>2, <2>1, <2>2 DEF StandingIndex, StandingFiles
  <2>4. QED
    BY <1>1, <2>1, <2>3, IdleIsKept, NothingSeen
<1>5. QED
  BY <1>3, <1>4 DEF RestoreIndex

LEMMA RestoreWorktreeKeeps ==
  ASSUME ReviewInv, KeptInv, RunReceiptInv', RestoreWorktree
  PROVE  KeptInv' /\ Contract!Refuse
<1>1. /\ pc = "rollback_worktree" /\ pc' = "idle" /\ Undecided /\ ~ Undecided' /\ Accepting
      /\ intent = "accept" /\ index = snapshot.index
      /\ UNCHANGED <<isolated, produced, head, index, receipt, intent, edits, faults>>
  BY DEF RestoreWorktree, EndCall, Undecided, Accepting, ReviewInv, CallInv, SnapshotInv, run
<1>2. /\ StandingIndex = index /\ StandingFiles = snapshot.worktree
      /\ StandingIndex' = index /\ StandingFiles' = worktree'
  BY <1>1 DEF StandingIndex, StandingFiles
<1>3. \A p \in isolated : snapshot.index[p] = Absent /\ snapshot.worktree[p] # Absent
        => worktree[p] = snapshot.worktree[p]
  BY <1>1 DEF KeptInv, HalfInv
<1>4. /\ snapshot.tracked = {p \in Changed : index[p] # Absent}
      /\ snapshot.existed = {p \in Changed : snapshot.worktree[p] # Absent}
  BY <1>1 DEF ReviewInv, SnapshotInv
<1>5. worktree' = [p \in Path |-> IF p \in Changed /\ index[p] # Absent THEN index[p]
                                   ELSE snapshot.worktree[p]]
  <2>1. worktree' = [p \in Path |->
          CASE p \in snapshot.tracked -> index[p]
            [] p \in Changed \ (snapshot.tracked \cup snapshot.existed) -> Absent
            [] OTHER -> worktree[p]]
    BY DEF RestoreWorktree
  <2>2. \A p \in Path \ isolated : worktree[p] = snapshot.worktree[p]
    BY <1>1, StandingType
  <2>3. \A p \in Path :
          (CASE p \in snapshot.tracked -> index[p]
             [] p \in Changed \ (snapshot.tracked \cup snapshot.existed) -> Absent
             [] OTHER -> worktree[p])
          = IF p \in Changed /\ index[p] # Absent THEN index[p] ELSE snapshot.worktree[p]
    BY <1>1, <1>3, <1>4, <2>2, StandingType
  <2>4. QED
    BY <2>1, <2>3
<1>6. Contract!Refuse
  BY <1>1, <1>2, <1>5 DEF KeptInv, HalfInv, Contract!Refuse, Contract!given, Changed
<1>7. QED
  BY <1>1, <1>6, IdleIsKept

LEMMA CrashKeeps ==
  ASSUME ReviewInv, KeptInv, RunReceiptInv', Crash
  PROVE  KeptInv' /\ (Contract!Interrupt \/ Contract!Fail)
<1>1. /\ pc' = "idle" /\ Fault /\ faults' = faults + 1
      /\ UNCHANGED <<isolated, produced, head, index, worktree, receipt, intent, edits>>
  BY DEF Crash, EndCall, Fault, run, checkout
<1>2. ~ Undecided' /\ StandingIndex' = index /\ StandingFiles' = worktree
  BY <1>1 DEF Undecided, StandingIndex, StandingFiles
<1>3. CASE ~ Undecided
  <2>1. StandingIndex' = StandingIndex /\ StandingFiles' = StandingFiles
    BY <1>2, <1>3 DEF StandingIndex, StandingFiles
  <2>2. QED
    BY <1>1, <2>1, IdleIsKept, OnlyFault
<1>4. CASE Undecided
  <2> DEFINE staged == {p \in Changed : index[p] # snapshot.index[p]}
             copied == {p \in Changed : worktree[p] # snapshot.worktree[p]}
  <2>1. /\ StandingIndex = snapshot.index /\ StandingFiles = snapshot.worktree
        /\ intent = "accept" /\ DOMAIN produced = Changed
        /\ index \in Tree /\ worktree \in Tree
    BY <1>4, StandingType DEF StandingIndex, StandingFiles, Changed
  <2>2. (staged \cup copied) \cap isolated = {} \/ Contract!Free
    BY <1>4, <2>1 DEF KeptInv, HalfInv, Contract!Free
  <2>3. \A p \in Path :
          index[p] = CASE p \in staged \cap isolated -> produced[p]
                       [] p \in staged \ isolated -> snapshot.worktree[p]
                       [] OTHER -> snapshot.index[p]
    <3>1. /\ \A p \in isolated : index[p] \in {snapshot.index[p], produced[p]}
          /\ \A p \in Changed \ isolated : index[p] \in {snapshot.index[p], snapshot.worktree[p]}
          /\ \A p \in Path \ Changed : index[p] = snapshot.index[p]
      BY <1>4, StandingType DEF KeptInv, HalfInv
    <3>2. QED
      BY <3>1
  <2>4. \A p \in Path : worktree[p] = IF p \in copied \cap isolated THEN produced[p]
                                      ELSE snapshot.worktree[p]
    <3>1. /\ \A p \in isolated : worktree[p] \in {snapshot.worktree[p], produced[p]}
          /\ \A p \in Path \ isolated : worktree[p] = snapshot.worktree[p]
          /\ isolated \subseteq Changed
      BY <1>4, StandingType DEF KeptInv, HalfInv
    <3>2. QED
      BY <3>1
  <2>5. staged \in SUBSET DOMAIN produced /\ copied \in SUBSET DOMAIN produced
    BY <2>1
  <2> HIDE DEF staged, copied
  <2>6. index = Contract!Staged(staged) /\ worktree = Contract!Copied(copied)
    BY <2>1, <2>3, <2>4 DEF Tree, Contract!Staged, Contract!Copied
  <2>7. Contract!Interrupt
    BY <1>1, <1>2, <2>1, <2>2, <2>5, <2>6 DEF Contract!Interrupt, Contract!given
  <2>8. QED
    BY <1>1, <2>7, IdleIsKept
<1>5. QED
  BY <1>3, <1>4

LEMMA ReviewStepKeeps ==
  ASSUME ReviewInv, KeptInv, [Next]_vars
  PROVE  KeptInv' /\ [Contract!ContractNext]_(Contract!contractVars)
<1> USE DEF Contract!ContractNext, Stutters
<1>1. RunReceiptInv'
  BY RunReceiptKept DEF KeptInv
<1>2. CASE UNCHANGED vars
  <2>1. UNCHANGED <<base, isolated, produced, head, index, worktree, receipt, intent, pc, action, left,
                    patched, copying, skipped, snapshot, edits, faults>>
    BY <1>2 DEF vars, run, checkout, call
  <2>2. UNCHANGED <<Changed, InPlace, Undecided, StandingIndex, StandingFiles>>
    BY <2>1 DEF Changed, InPlace, Undecided, StandingIndex, StandingFiles
  <2>3. KeptInv'
    BY <2>1, <2>2 DEF KeptInv, RunReceiptInv, RecordedInv, HalfInv, WholeInv, ClearedInv, Cleared
  <2>4. QED
    BY <2>1, <2>2, <2>3, NothingSeen
<1>3. CASE User
  BY <1>1, <1>3, UserKeeps
<1>4. CASE PollReceipt
  BY <1>1, <1>4, PollKeeps
<1>5. CASE \E decision \in {"accept", "reject"} : ReviewRun(decision)
  BY <1>1, <1>5, ReviewRunKeeps
<1>6. CASE Begin
  BY <1>1, <1>6, BeginKeeps
<1>7. CASE ProcessPath
  BY <1>1, <1>7, ProcessPathKeeps
<1>8. CASE ApplyIsolatedPatch
  BY <1>1, <1>8, ApplyPatchKeeps
<1>9. CASE CopyUntracked \/ AddCopied
  BY <1>1, <1>9, CopyKeeps
<1>10. CASE AllProcessed \/ RejectIncomplete \/ RemoveIntent
  BY <1>1, <1>10, EndOfCallKeeps
<1>11. CASE PersistReview
  BY <1>1, <1>11, PersistKeeps
<1>12. CASE PersistReviewFails
  BY <1>1, <1>12, PersistFailsKeeps
<1>13. CASE RestoreIndex
  BY <1>1, <1>13, RestoreIndexKeeps
<1>14. CASE RestoreWorktree
  BY <1>1, <1>14, RestoreWorktreeKeeps
<1>15. CASE Crash
  BY <1>1, <1>15, CrashKeeps
<1>16. QED
  BY <1>2, <1>3, <1>4, <1>5, <1>6, <1>7, <1>8, <1>9, <1>10, <1>11, <1>12, <1>13, <1>14, <1>15
     DEF Next, ReviewStep

\* A review implements its contract, for every run, checkout and user, and through every
\* fault: to whoever looks between two calls, Accept was all of the run's result or
\* nothing, onto paths nobody had changed, and no decision was forgotten before it was
\* recorded (review_transaction.rs, review_evidence_gate.rs).
THEOREM ReviewImplementsContract == Spec => ReviewKeepsContract
<1>1. Init => Contract!ContractInit
  <2> SUFFICES ASSUME Init PROVE Contract!ContractInit
    OBVIOUS
  <2>1. /\ ~ Undecided /\ StandingIndex = index /\ StandingFiles = worktree
        /\ DOMAIN produced \subseteq Path /\ isolated \subseteq DOMAIN produced
        /\ receipt.review = None
    BY DEF Init, Undecided, StandingIndex, StandingFiles, FreshReceipt
  <2>2. StandingFiles = [p \in Path |-> IF p \in Contract!Place THEN produced[p] ELSE StandingIndex[p]]
    BY <2>1 DEF Init, Contract!Place, InPlace, Changed
  <2>3. QED
    BY <2>1, <2>2 DEF Init, Contract!ContractInit
<1>2. QED
  BY <1>1, ReviewInvariant, KeptInitial, ReviewStepKeeps, PTL
     DEF Spec, ReviewKeepsContract, Contract!ContractSpec

\* The contract is worth keeping: until a fault or the user intervenes, the isolated
\* result is there in full, staged and on disk, or not at all, through any number of
\* decisions, retries and refusals (review_transaction.rs, "all-or-nothing").
THEOREM ContractIsAllOrNothing == Contract!ContractSpec => []Contract!AllOrNothing
<1> DEFINE Full == \A p \in isolated : StandingIndex[p] = produced[p] /\ StandingFiles[p] = produced[p]
           Alone == edits = 0 /\ faults = 0
           Types == /\ edits \in Nat /\ faults \in Nat
                    /\ DOMAIN produced \subseteq Path /\ isolated \subseteq DOMAIN produced
           Whole == Types /\ Contract!AllOrNothing
<1> USE DEF Contract!AllOrNothing, Contract!Free, Contract!given, Contract!active
<1>1. Contract!ContractInit => Whole
  BY DEF Contract!ContractInit, Contract!Place
<1>2. ASSUME Whole, [Contract!ContractNext]_(Contract!contractVars) PROVE Whole'
  <2>1. CASE UNCHANGED <<produced, isolated, head, StandingIndex, StandingFiles, edits, faults>>
    BY <1>2, <2>1
  <2>2. CASE /\ UNCHANGED <<produced, isolated>>
             /\ \/ edits' = edits /\ faults' = faults + 1
                \/ edits' = edits + 1 /\ faults' = faults
    <3>1. Types'
      BY <1>2, <2>2
    <3>2. ~ Alone'
      BY <1>2, <2>2
    <3>3. QED
      BY <3>1, <3>2
  <2>3. CASE Contract!Accept
    <3>1. \A p \in isolated : StandingIndex'[p] = produced[p] /\ StandingFiles'[p] = produced[p]
      BY <1>2, <2>3 DEF Contract!Accept, Contract!Staged, Contract!Copied
    <3>2. QED
      BY <1>2, <2>3, <3>1 DEF Contract!Accept
  <2>4. CASE Contract!Refuse
    <3>1. \A p \in isolated : StandingFiles'[p] = IF StandingIndex[p] # Absent THEN StandingIndex[p]
                                                ELSE StandingFiles[p]
      BY <1>2, <2>4 DEF Contract!Refuse
    <3>2. UNCHANGED <<produced, isolated, head, StandingIndex, edits, faults>>
      BY <2>4 DEF Contract!Refuse
    <3>3. QED
      BY <1>2, <3>1, <3>2
  <2>5. ASSUME NEW p \in Path, Contract!Discard(p) PROVE Whole'
    <3>1. p \notin isolated /\ UNCHANGED <<produced, isolated, head, edits, faults>>
      BY <2>5 DEF Contract!Discard, Contract!Place
    <3>2. \A q \in isolated : StandingIndex'[q] = StandingIndex[q] /\ StandingFiles'[q] = StandingFiles[q]
      BY <2>5, <3>1 DEF Contract!Discard
    <3>3. QED
      BY <1>2, <3>1, <3>2
  <2>6. QED
    BY <1>2, <2>1, <2>2, <2>3, <2>4, <2>5 DEF Contract!ContractNext, Contract!contractVars,
       Contract!Decide, Contract!Withdraw, Contract!AcceptUndone, Contract!Interrupt, Contract!Reject,
       Contract!Close, Contract!User, Contract!Fail
<1>3. QED
  BY <1>1, <1>2, PTL DEF Contract!ContractSpec

\* So is a review itself (review_transaction.rs, "Accept is all-or-nothing from the active
\* checkout's point of view"), as far as no fault and no edit interfere.
THEOREM AcceptIsAllOrNothing == Spec => []Contract!AllOrNothing
BY ReviewImplementsContract, ContractIsAllOrNothing, PTL DEF ReviewKeepsContract


----------------------------------------------------------------------------
\* A session.  What the server is to be told, and has not been yet, goes through
\* stdin in order.

Message ==
    Notification \cup [kind : {"request"}, id : RequestId]
        \cup [kind : {"$/cancelRequest", "response"}]
Reply == [kind : {"answer"}, id : RequestId] \cup [kind : {"ask", "malformed"}]

CommandsOK ==
    \A c \in Caller :
        /\ ~ At(c, "idle") => command[c].id \in RequestId
        /\ At(c, "notify") => command[c].message \in Notification

\* The commands that are about to give a document its next version.
Updating == {c \in Caller : At(c, "document")}

SessionTypeInv ==
    /\ SessionTypeOK
    /\ stdin \in Seq(Message) /\ stdout \in Seq(Reply)
    /\ CommandsOK
    /\ IsFiniteSet(Updating)
    /\ \A d \in Document : documents[d] + Cardinality(Updating) <= calls

\* The lock of `documents` is held through the write of a notification.
LockInv == \A b, c \in Caller : At(b, "notify") /\ At(c, "notify") => b = c

\* May m be sent after the version v of its document?
Follows(m, v) ==
    CASE m.kind = "didOpen" -> v = 0
      [] m.kind = "didChange" -> v > 0 /\ m.version = v + 1
      [] m.kind = "didClose" -> v > 0

Tells(i, d) == Told(stdin[i]) /\ stdin[i].of = d

\* v is the version of d that the server knows of when it comes to the k-th message.
Before(k, d, v) ==
    \/ v = view[d] /\ \A i \in 1 .. k - 1 : ~ Tells(i, d)
    \/ \E i \in 1 .. k - 1 :
        /\ Tells(i, d) /\ v = stdin[i].version
        /\ \A j \in i + 1 .. k - 1 : ~ Tells(j, d)

StreamInv ==
    \A k \in 1 .. Len(stdin), d \in Document, v \in Version :
        Tells(k, d) /\ Before(k, d, v) => Follows(stdin[k], v)

\* At its end is the version in `documents`, but for a notification not written yet.
Notifying(c, d) == At(c, "notify") /\ command[c].message.of = d

NewsInv ==
    server = "up" =>
    \A d \in Document :
        /\ \A c \in Caller : Notifying(c, d) => command[c].message.version = documents[d]
        /\ \A v \in Version : Before(Len(stdin) + 1, d, v) =>
            /\ (\A c \in Caller : ~ Notifying(c, d)) => v = documents[d]
            /\ \A c \in Caller : Notifying(c, d) => Follows(command[c].message, v)

SessionInv == SessionTypeInv /\ LockInv /\ StreamInv /\ NewsInv

LEMMA SessionBounds ==
    /\ MaxCalls \in Nat /\ Room \in Nat /\ Room > 0 /\ MaxAsks \in Nat
    /\ \A n \in Version : n \in Nat
    /\ \A id \in RequestId : id \in Version
BY SessionAssumption DEF Version, RequestId

LEMMA SessionStarts == SessionInit => SessionInv
<1> SUFFICES ASSUME SessionInit PROVE SessionInv
  OBVIOUS
<1>1. /\ stdin = <<>> /\ stdout = <<>> /\ calls \in Nat /\ 0 \in Version
      /\ documents = [d \in Document |-> 0] /\ view = [d \in Document |-> 0]
      /\ command = [c \in Caller |-> NoCommand]
  BY SessionBounds DEF SessionInit, Version
<1>2. NoCommand \in Command /\ NoCommand.at = "idle"
  BY <1>1 DEF NoCommand, Command
<1>3. \A c \in Caller : At(c, "idle") /\ ~ At(c, "notify") /\ ~ At(c, "document")
  BY <1>1, <1>2 DEF At
<1>4. SessionTypeOK
  <2>1. command \in [Caller -> Command] /\ Len(stdin) <= Room /\ Len(stdout) <= Room
    BY <1>1, <1>2, SessionBounds
  <2>2. documents \in [Document -> Version] /\ view \in [Document -> Version]
    BY <1>1
  <2>3. QED
    BY <2>1, <2>2 DEF SessionInit, SessionTypeOK
<1>5. Updating = {}
  BY <1>3 DEF Updating
<1>6. SessionTypeInv
  <2>1. IsFiniteSet(Updating) /\ Cardinality(Updating) = 0
    BY <1>5, FS_EmptySet
  <2>2. \A d \in Document : documents[d] + Cardinality(Updating) <= calls
    BY <1>1, <2>1
  <2>3. QED
    BY <1>1, <1>3, <1>4, <2>1, <2>2 DEF SessionTypeInv, CommandsOK
<1>7. LockInv /\ StreamInv
  BY <1>1, <1>3 DEF LockInv, StreamInv
<1>8. NewsInv
  BY <1>1, <1>3 DEF NewsInv, Before, Notifying
<1>9. QED
  BY <1>6, <1>7, <1>8 DEF SessionInv

----------------------------------------------------------------------------
\* The types.

\* The command of c goes to one of places, with its request, or is over.
Proceeds(c, places) ==
    \E new \in Command :
        /\ command' = [command EXCEPT ![c] = new]
        /\ new.at \in places
        /\ new.at # "idle" => new.id \in RequestId

Calm == {"idle", "request", "write", "wait", "cancel", "exit", "kill"}

LEMMA CommandMoves ==
  ASSUME SessionTypeInv, NEW c \in Caller, NEW new \in Command,
         command' = [command EXCEPT ![c] = new],
         new.at # "idle" => new.id \in RequestId,
         new.at = "notify" => new.message \in Notification
  PROVE  /\ command' \in [Caller -> Command] /\ CommandsOK'
         /\ Updating' = IF new.at = "document" THEN Updating \cup {c} ELSE Updating \ {c}
<1>1. command \in [Caller -> Command]
  BY DEF SessionTypeInv, SessionTypeOK
<1>2. command'[c] = new /\ \A b \in Caller \ {c} : command'[b] = command[b]
  BY <1>1
<1>3. CommandsOK'
  BY <1>2 DEF SessionTypeInv, CommandsOK, At
<1>4. Updating' = IF new.at = "document" THEN Updating \cup {c} ELSE Updating \ {c}
  BY <1>2 DEF Updating, At
<1>5. QED
  BY <1>1, <1>3, <1>4

LEMMA Proceeding ==
  ASSUME SessionTypeInv, NEW c \in Caller, ~ At(c, "idle")
  PROVE  /\ Returns(c) => Proceeds(c, {"idle"})
         /\ \A place \in Calm \cup {"document"} : GoesTo(c, place) => Proceeds(c, {place})
         /\ RequestEnds(c) => Proceeds(c, {"idle", "exit"})
<1>1. command[c] \in Command /\ command[c].id \in RequestId
  BY DEF SessionTypeInv, SessionTypeOK, CommandsOK
<1>2. NoCommand \in Command /\ NoCommand.at = "idle"
  BY SessionBounds DEF NoCommand, Command, Version
<1>3. Returns(c) => Proceeds(c, {"idle"})
  BY <1>2 DEF Returns, Proceeds
<1>4. ASSUME NEW place \in Calm \cup {"document"}, GoesTo(c, place) PROVE Proceeds(c, {place})
  <2>1. /\ [command[c] EXCEPT !.at = place] \in Command
        /\ [command[c] EXCEPT !.at = place].at = place
        /\ [command[c] EXCEPT !.at = place].id = command[c].id
    BY <1>1 DEF Command, Calm
  <2>2. QED
    BY <1>1, <1>4, <2>1 DEF GoesTo, Proceeds
<1>5. RequestEnds(c) => Proceeds(c, {"idle", "exit"})
  <2>1. RequestEnds(c) => Returns(c) \/ GoesTo(c, "exit")
    BY DEF RequestEnds
  <2>2. Proceeds(c, {"idle"}) \/ Proceeds(c, {"exit"}) => Proceeds(c, {"idle", "exit"})
    BY DEF Proceeds
  <2>3. QED
    BY <1>3, <1>4, <2>1, <2>2 DEF Calm
<1>6. QED
  BY <1>3, <1>4, <1>5

\* Fewer threads are about to update a document.
LEMMA StillCounted ==
  ASSUME SessionTypeInv, Updating' \subseteq Updating, UNCHANGED <<documents, calls>>
  PROVE  /\ IsFiniteSet(Updating')
         /\ \A d \in Document : documents'[d] + Cardinality(Updating') <= calls'
<1>1. /\ IsFiniteSet(Updating) /\ IsFiniteSet(Updating')
      /\ Cardinality(Updating') <= Cardinality(Updating)
      /\ Cardinality(Updating) \in Nat /\ Cardinality(Updating') \in Nat
  BY FS_Subset, FS_CardinalityType DEF SessionTypeInv
<1>2. \A d \in Document : documents[d] \in Nat /\ documents[d] + Cardinality(Updating) <= calls
  BY SessionBounds DEF SessionTypeInv, SessionTypeOK
<1>3. calls \in Nat
  BY SessionBounds DEF SessionTypeInv, SessionTypeOK
<1>4. QED
  BY <1>1, <1>2, <1>3

\* What is written to the server.
LEMMA WrittenType ==
  ASSUME SessionTypeInv, NEW m \in Message, Writes(m) \/ WriteFails
  PROVE  stdin' \in Seq(Message) /\ Len(stdin') <= Room
<1>1. stdin \in Seq(Message) /\ Len(stdin) <= Room /\ Room \in Nat
  BY SessionBounds DEF SessionTypeInv, SessionTypeOK
<1>2. CASE Writes(m)
  BY <1>1, <1>2 DEF Writes
<1>3. CASE WriteFails
  BY <1>1, <1>3 DEF WriteFails
<1>4. QED
  BY <1>2, <1>3

\* A step of a command that neither finds the session nor updates a document.
LEMMA CalmType ==
  ASSUME SessionTypeInv, NEW c \in Caller, Proceeds(c, Calm),
         registered' \in BOOLEAN, stopping' \in BOOLEAN, state' = state,
         pending' \subseteq RequestId, server' \in {"up", "gone"},
         stdin' \in Seq(Message), Len(stdin') <= Room,
         UNCHANGED <<documents, calls, reader, stdout, view, asked, asks>>
  PROVE  SessionTypeInv'
<1>1. PICK new \in Command :
        /\ command' = [command EXCEPT ![c] = new] /\ new.at \in Calm
        /\ new.at # "idle" => new.id \in RequestId
  BY DEF Proceeds
<1>2. new.at \notin {"notify", "document"}
  BY <1>1 DEF Calm
<1>3. /\ command' \in [Caller -> Command] /\ CommandsOK' /\ Updating' \subseteq Updating
  BY <1>1, <1>2, CommandMoves
<1>4. SessionTypeOK'
  BY <1>3 DEF SessionTypeInv, SessionTypeOK
<1>5. QED
  BY <1>3, <1>4, StillCounted DEF SessionTypeInv

LEMMA CommandType ==
  ASSUME SessionTypeInv, NEW c \in Caller,
         \/ notify(c) \/ RequestRefused(c) \/ RegisterRequest(c) \/ WriteRequest(c)
         \/ Receives(c) \/ TimesOut(c) \/ CancelRequest(c) \/ shutdown(c) \/ Kill(c)
  PROVE  SessionTypeInv' /\ Proceeds(c, Calm)
<1>1. /\ ~ At(c, "idle")
      /\ \/ Returns(c) \/ RequestEnds(c)
         \/ \E place \in Calm : GoesTo(c, place)
  BY DEF At, Calm, notify, RequestRefused, RegisterRequest, WriteRequest, Receives, TimesOut,
         CancelRequest, shutdown, Kill
<1>2. Proceeds(c, Calm)
  <2>1. \A places \in SUBSET Calm : Proceeds(c, places) => Proceeds(c, Calm)
    BY DEF Proceeds
  <2>2. {"idle", "exit"} \subseteq Calm /\ {"idle"} \subseteq Calm
    BY DEF Calm
  <2>3. QED
    BY <1>1, <2>1, <2>2, Proceeding
<1>3. /\ stopping' \in BOOLEAN /\ server' \in {"up", "gone"}
      /\ UNCHANGED <<registered, state, documents, calls, reader, stdout, view, asked, asks>>
  BY DEF notify, RequestRefused, RegisterRequest, WriteRequest, Receives, TimesOut,
         CancelRequest, shutdown, Kill, session, process, SessionTypeInv, SessionTypeOK
<1>4. command[c].id \in RequestId /\ (At(c, "notify") => command[c].message \in Notification)
  BY <1>1 DEF SessionTypeInv, CommandsOK
<1>5. pending' \subseteq RequestId
  BY <1>4 DEF notify, RequestRefused, RegisterRequest, WriteRequest, Receives, TimesOut,
         CancelRequest, shutdown, Kill, session, SessionTypeInv, SessionTypeOK
<1>6. stdin' \in Seq(Message) /\ Len(stdin') <= Room
  <2>1. \/ UNCHANGED stdin
        \/ \E m \in Message : Writes(m) \/ WriteFails
    <3>1. /\ [kind |-> "request", id |-> command[c].id] \in Message
          /\ [kind |-> "$/cancelRequest"] \in Message
          /\ At(c, "notify") => command[c].message \in Message
      BY <1>4 DEF Message
    <3>2. QED
      BY <3>1 DEF notify, RequestRefused, RegisterRequest, WriteRequest, Receives, TimesOut,
                  CancelRequest, shutdown, Kill
  <2>2. UNCHANGED stdin => stdin' \in Seq(Message) /\ Len(stdin') <= Room
    BY DEF SessionTypeInv, SessionTypeOK
  <2>3. QED
    BY <2>1, <2>2, WrittenType
<1>7. QED
  BY <1>2, <1>3, <1>5, <1>6, CalmType DEF SessionTypeInv, SessionTypeOK

LEMMA CalledType ==
  ASSUME SessionTypeInv, NEW c \in Caller, NEW what \in {"sync", "query", "close", "shutdown"},
         Called(c, what)
  PROVE  SessionTypeInv'
<1>1. /\ At(c, "idle") /\ calls < MaxCalls /\ calls' = calls + 1 /\ registered' \in BOOLEAN
      /\ UNCHANGED <<state, stopping, documents, pending, reader, stdin, stdout, process>>
  BY DEF Called
<1>2. calls \in Nat /\ calls' \in RequestId /\ calls' \in 0 .. MaxCalls
  BY <1>1, SessionBounds DEF SessionTypeInv, SessionTypeOK, RequestId
<1>3. PICK new \in Command :
        /\ command' = [command EXCEPT ![c] = new]
        /\ new.at \in {"stop", "document"} /\ new.id \in RequestId
  <2> DEFINE new == [NoCommand EXCEPT !.for = what, !.id = calls',
                       !.at = IF what = "shutdown" THEN "stop" ELSE "document"]
  <2>1. new \in Command /\ new.at \in {"stop", "document"} /\ new.id = calls'
    BY <1>2, SessionBounds DEF NoCommand, Command
  <2>2. command' = [command EXCEPT ![c] = new]
    BY DEF Called
  <2>3. QED
    BY <1>2, <2>1, <2>2
<1>4. /\ command' \in [Caller -> Command] /\ CommandsOK'
      /\ Updating' \subseteq Updating \cup {c}
  BY <1>3, CommandMoves
<1>5. /\ IsFiniteSet(Updating') /\ Cardinality(Updating') \in Nat
      /\ Cardinality(Updating') <= Cardinality(Updating) + 1
  <2>1. IsFiniteSet(Updating) /\ Cardinality(Updating) \in Nat
    BY FS_CardinalityType DEF SessionTypeInv
  <2>2. /\ IsFiniteSet(Updating \cup {c})
        /\ Cardinality(Updating \cup {c}) <= Cardinality(Updating) + 1
        /\ Cardinality(Updating \cup {c}) \in Nat
    BY <2>1, FS_AddElement, FS_CardinalityType
  <2>3. /\ IsFiniteSet(Updating') /\ Cardinality(Updating') \in Nat
        /\ Cardinality(Updating') <= Cardinality(Updating \cup {c})
    BY <1>4, <2>2, FS_Subset, FS_CardinalityType
  <2>4. QED
    BY <2>1, <2>2, <2>3
<1>6. \A d \in Document : documents'[d] + Cardinality(Updating') <= calls'
  <2>1. \A d \in Document : documents[d] \in Nat /\ documents[d] + Cardinality(Updating) <= calls
    BY SessionBounds DEF SessionTypeInv, SessionTypeOK
  <2>2. Cardinality(Updating) \in Nat
    BY FS_CardinalityType DEF SessionTypeInv
  <2>3. QED
    BY <1>1, <1>2, <1>5, <2>1, <2>2
<1>7. SessionTypeOK'
  BY <1>1, <1>2, <1>4 DEF SessionTypeInv, SessionTypeOK, process
<1>8. QED
  BY <1>1, <1>4, <1>5, <1>6, <1>7 DEF SessionTypeInv

LEMMA UpdateType ==
  ASSUME SessionTypeInv, NEW c \in Caller, UpdateDocument(c)
  PROVE  SessionTypeInv'
<1>1. /\ At(c, "document") /\ c \in Updating /\ command[c] \in Command /\ command[c].id \in RequestId
      /\ UNCHANGED <<registered, state, stopping, pending, calls, reader, stdin, stdout, process>>
  BY DEF UpdateDocument, Updating, At, SessionTypeInv, SessionTypeOK, CommandsOK
<1>2. /\ IsFiniteSet(Updating \ {c}) /\ Cardinality(Updating \ {c}) = Cardinality(Updating) - 1
      /\ Cardinality(Updating) \in Nat
  BY <1>1, FS_RemoveElement, FS_CardinalityType DEF SessionTypeInv
<1>3. /\ calls \in Nat /\ calls <= MaxCalls
      /\ \A d \in Document : documents[d] \in Nat /\ documents[d] + Cardinality(Updating) <= calls
  BY SessionBounds DEF SessionTypeInv, SessionTypeOK
<1>4. CASE Returns(c) /\ UNCHANGED documents
  <2>1. NoCommand \in Command /\ NoCommand.at = "idle"
    BY SessionBounds DEF NoCommand, Command, Version
  <2>2. /\ command' \in [Caller -> Command] /\ CommandsOK' /\ Updating' \subseteq Updating
    BY <1>4, <2>1, CommandMoves DEF Returns
  <2>3. SessionTypeOK'
    BY <1>1, <1>4, <2>2 DEF SessionTypeInv, SessionTypeOK, process
  <2>4. QED
    BY <1>1, <1>4, <2>2, <2>3, StillCounted DEF SessionTypeInv
<1>5. ASSUME NEW d \in Document,
             documents' = [documents EXCEPT ![d] = News(c, d).version],
             command' = [command EXCEPT ![c].message = News(c, d), ![c].at = "notify"]
      PROVE  SessionTypeInv'
  <2>1. /\ documents[d] + 1 <= calls
        /\ documents[d] + 1 \in Version /\ 0 \in Version /\ 1 \in Version
    <3>1. Cardinality(Updating) >= 1
      BY <1>1, <1>2, FS_CardinalityType
    <3>2. documents[d] + 1 <= calls /\ documents[d] \in Nat
      BY <1>2, <1>3, <3>1
    <3>3. QED
      BY <1>3, <3>2, SessionBounds DEF Version
  <2>2. /\ News(c, d) \in Notification
        /\ News(c, d).version \in Version /\ News(c, d).version <= documents[d] + 1
    <3>1. documents[d] \in Nat
      BY <1>3
    <3>2. CASE command[c].for = "close"
      BY <2>1, <3>1, <3>2 DEF News, Notice, Notification
    <3>3. CASE command[c].for # "close" /\ documents[d] > 0
      BY <2>1, <3>1, <3>3 DEF News, Notice, Notification
    <3>4. CASE command[c].for # "close" /\ documents[d] = 0
      BY <2>1, <3>1, <3>4 DEF News, Notice, Notification
    <3>5. QED
      BY <3>1, <3>2, <3>3, <3>4
  <2>3. PICK new \in Command :
          /\ command' = [command EXCEPT ![c] = new]
          /\ new.at = "notify" /\ new.message = News(c, d) /\ new.id = command[c].id
    <3> DEFINE new == [command[c] EXCEPT !.message = News(c, d), !.at = "notify"]
    <3>1. new \in Command /\ new.at = "notify" /\ new.message = News(c, d) /\ new.id = command[c].id
      BY <1>1, <2>2 DEF Command
    <3>2. command' = [command EXCEPT ![c] = new]
      BY <1>5
    <3>3. QED
      BY <3>1, <3>2
  <2>4. /\ command' \in [Caller -> Command] /\ CommandsOK' /\ Updating' = Updating \ {c}
    BY <1>1, <2>2, <2>3, CommandMoves
  <2>5. /\ documents' \in [Document -> Version]
        /\ documents'[d] <= documents[d] + 1 /\ documents'[d] \in Nat
        /\ \A e \in Document \ {d} : documents'[e] = documents[e]
    BY <1>5, <2>2, SessionBounds DEF SessionTypeInv, SessionTypeOK
  <2>6. \A e \in Document : documents'[e] + Cardinality(Updating') <= calls'
    <3>1. \A e \in Document : documents'[e] <= documents[e] + 1 /\ documents'[e] \in Nat
      BY <1>3, <2>5
    <3>2. QED
      BY <1>1, <1>2, <1>3, <2>4, <3>1
  <2>7. SessionTypeOK'
    BY <1>1, <2>4, <2>5 DEF SessionTypeInv, SessionTypeOK, process
  <2>8. QED
    BY <1>1, <1>2, <2>4, <2>6, <2>7 DEF SessionTypeInv
<1>6. QED
  BY <1>4, <1>5 DEF UpdateDocument

\* An answer, or none, for some of the commands.
LEMMA AnsweredKeeps ==
  ASSUME SessionTypeInv, NEW ids, NEW with \in {"ok", "error"}, Answered(ids, with)
  PROVE  /\ command' \in [Caller -> Command] /\ CommandsOK' /\ Updating' = Updating
         /\ \A c \in Caller :
              command'[c].at = command[c].at /\ command'[c].message = command[c].message
<1>1. ASSUME NEW c \in Caller
      PROVE  /\ command'[c] \in Command /\ command'[c].id = command[c].id
             /\ command'[c].at = command[c].at /\ command'[c].message = command[c].message
  <2>1. command[c] \in Command
    BY DEF SessionTypeInv, SessionTypeOK
  <2>2. command'[c] = command[c] \/ command'[c] = [command[c] EXCEPT !.answer = with]
    BY DEF Answered
  <2>3. QED
    BY <2>1, <2>2 DEF Command
<1>2. command' \in [Caller -> Command]
  BY <1>1 DEF Answered
<1>3. CommandsOK' /\ Updating' = Updating
  BY <1>1 DEF SessionTypeInv, CommandsOK, Updating, At
<1>4. QED
  BY <1>1, <1>2, <1>3

LEMMA ReaderType ==
  ASSUME SessionTypeInv, ReaderStep
  PROVE  SessionTypeInv'
<1>1. ASSUME UNCHANGED command
      PROVE  command' \in [Caller -> Command] /\ CommandsOK' /\ Updating' = Updating
  BY <1>1 DEF SessionTypeInv, SessionTypeOK, CommandsOK, Updating, At
<1>2. /\ command' \in [Caller -> Command] /\ CommandsOK' /\ Updating' = Updating
  <2>1. CASE TakesAnswer
    <3>1. Answered({Head(stdout).id}, "ok")
      BY <2>1 DEF TakesAnswer
    <3>2. QED
      BY <3>1, AnsweredKeeps
  <2>2. CASE fail_pending
    <3>1. Answered(pending, "error")
      BY <2>2 DEF fail_pending
    <3>2. QED
      BY <3>1, AnsweredKeeps
  <2>3. CASE TakesRequest \/ respond \/ StreamEnds
    BY <1>1, <2>3 DEF TakesRequest, respond, StreamEnds, commandVars
  <2>4. QED
    BY <2>1, <2>2, <2>3 DEF ReaderStep
<1>3. UNCHANGED <<registered, stopping, documents, calls, server, view, asked, asks>>
  BY DEF ReaderStep, TakesAnswer, TakesRequest, respond, StreamEnds, fail_pending,
         session, commandVars, process
<1>4. /\ pending' \subseteq RequestId /\ state' \in {"Ready", "Error"}
      /\ reader' \in {"reading", "responding", "failing", "done"}
  BY DEF ReaderStep, TakesAnswer, TakesRequest, respond, StreamEnds, fail_pending, Frame,
         session, SessionTypeInv, SessionTypeOK
<1>5. stdin' \in Seq(Message) /\ Len(stdin') <= Room
  <2>1. [kind |-> "response"] \in Message
    BY DEF Message
  <2>2. UNCHANGED stdin \/ Writes([kind |-> "response"]) \/ WriteFails
    BY DEF ReaderStep, TakesAnswer, TakesRequest, respond, StreamEnds, fail_pending
  <2>3. UNCHANGED stdin => stdin' \in Seq(Message) /\ Len(stdin') <= Room
    BY DEF SessionTypeInv, SessionTypeOK
  <2>4. QED
    BY <2>1, <2>2, <2>3, WrittenType
<1>6. stdout' \in Seq(Reply) /\ Len(stdout') <= Room
  <2>1. UNCHANGED stdout \/ (stdout # <<>> /\ stdout' = Tail(stdout))
    BY DEF ReaderStep, TakesAnswer, TakesRequest, respond, StreamEnds, fail_pending, Frame
  <2>2. stdout \in Seq(Reply) /\ Len(stdout) <= Room /\ Room \in Nat
    BY SessionBounds DEF SessionTypeInv, SessionTypeOK
  <2>3. QED
    BY <2>1, <2>2
<1>7. SessionTypeOK'
  BY <1>2, <1>3, <1>4, <1>5, <1>6 DEF SessionTypeInv, SessionTypeOK
<1>8. QED
  BY <1>2, <1>3, <1>5, <1>6, <1>7, StillCounted DEF SessionTypeInv

LEMMA Messages ==
  ASSUME NEW m \in Message
  PROVE  /\ Told(m) => m \in Notification
         /\ m.kind = "request" => m.id \in RequestId
<1>1. CASE m \in Notification
  <2>1. m.kind # "request"
    BY <1>1 DEF Notification
  <2>2. QED
    BY <1>1, <2>1
<1>2. CASE m \in [kind : {"request"}, id : RequestId]
  <2>1. m.kind = "request" /\ m.id \in RequestId
    BY <1>2
  <2>2. QED
    BY <2>1 DEF Told
<1>3. CASE m \in [kind : {"$/cancelRequest", "response"}]
  <2>1. m.kind \in {"$/cancelRequest", "response"}
    BY <1>3
  <2>2. QED
    BY <2>1 DEF Told
<1>4. QED
  BY <1>1, <1>2, <1>3 DEF Message

LEMMA ServerType ==
  ASSUME SessionTypeInv, ServerReads \/ ServerAnswers \/ ServerAsks \/ ServerEnds
  PROVE  SessionTypeInv'
<1>1. UNCHANGED <<session, commandVars, reader>>
  BY DEF ServerReads, ServerAnswers, ServerAsks, ServerEnds
<1>2. CommandsOK' /\ Updating' = Updating
  BY <1>1 DEF commandVars, SessionTypeInv, CommandsOK, Updating, At
<1>3. /\ stdin \in Seq(Message) /\ stdout \in Seq(Reply) /\ Room \in Nat
      /\ Len(stdin) <= Room /\ Len(stdout) <= Room
  BY SessionBounds DEF SessionTypeInv, SessionTypeOK
<1>4. stdin' \in Seq(Message) /\ Len(stdin') <= Room
  <2>1. UNCHANGED stdin \/ (stdin # <<>> /\ stdin' = Tail(stdin))
    BY DEF ServerReads, ServerAnswers, ServerAsks, ServerEnds
  <2>2. QED
    BY <1>3, <2>1
<1>5. stdout' \in Seq(Reply) /\ Len(stdout') <= Room
  <2>1. UNCHANGED stdout \/ \E m \in Reply : ServerWrites(m)
    BY DEF ServerReads, ServerAnswers, ServerAsks, ServerEnds, Reply, SessionTypeInv, SessionTypeOK
  <2>2. QED
    BY <1>3, <2>1 DEF ServerWrites
<1>6. view' \in [Document -> Version] /\ asked' \subseteq RequestId
  <2>1. CASE ServerReads
    <3>1. Head(stdin) \in Message
      BY <1>3, <2>1 DEF ServerReads
    <3>2. /\ Told(Head(stdin)) => Head(stdin) \in Notification
          /\ Head(stdin).kind = "request" => Head(stdin).id \in RequestId
      BY <3>1, Messages
    <3>3. QED
      BY <2>1, <3>2 DEF ServerReads, Notification, SessionTypeInv, SessionTypeOK
  <2>2. CASE ServerAnswers \/ ServerAsks \/ ServerEnds
    BY <2>2 DEF ServerAnswers, ServerAsks, ServerEnds, SessionTypeInv, SessionTypeOK
  <2>3. QED
    BY <2>1, <2>2
<1>7. server' \in {"up", "gone"} /\ asks' \in 0 .. MaxAsks
  BY SessionBounds DEF ServerReads, ServerAnswers, ServerAsks, ServerEnds, SessionTypeInv, SessionTypeOK
<1>8. SessionTypeOK'
  BY <1>1, <1>4, <1>5, <1>6, <1>7 DEF SessionTypeInv, SessionTypeOK, session, commandVars
<1>9. QED
  BY <1>1, <1>2, <1>4, <1>5, <1>8, StillCounted DEF SessionTypeInv, session, commandVars

LEMMA SessionTypeKept ==
  ASSUME SessionTypeInv, [SessionNext]_sessionVars
  PROVE  SessionTypeInv'
<1>1. CASE UNCHANGED sessionVars \/ Replaced \/ Dropped
  <2>1. /\ UNCHANGED <<state, documents, pending, commandVars, reader, stdin, stdout, view, asked, asks>>
        /\ registered' \in BOOLEAN /\ stopping' \in BOOLEAN /\ server' \in {"up", "gone"}
    BY <1>1 DEF sessionVars, session, commandVars, process, Replaced, Dropped,
                SessionTypeInv, SessionTypeOK
  <2>2. CommandsOK' /\ Updating' = Updating
    BY <2>1 DEF commandVars, SessionTypeInv, CommandsOK, Updating, At
  <2>3. SessionTypeOK'
    BY <2>1 DEF commandVars, SessionTypeInv, SessionTypeOK
  <2>4. QED
    BY <2>1, <2>2, <2>3, StillCounted DEF SessionTypeInv, commandVars
<1>2. QED
  BY <1>1, CalledType, UpdateType, CommandType, ReaderType, ServerType DEF SessionNext, CommandStep

----------------------------------------------------------------------------
\* The notifications.

\* Nothing is written or read, and nobody is about to notify who was not before.
LEMMA Quiet ==
  ASSUME SessionInv, UNCHANGED <<stdin, view, documents>>,
         server' = "up" => server = "up",
         \A c \in Caller : At(c, "notify")' => At(c, "notify"),
         server' = "up" =>
           \A c \in Caller : At(c, "notify") =>
             At(c, "notify")' /\ command'[c].message = command[c].message
  PROVE  LockInv' /\ StreamInv' /\ NewsInv'
<1>1. \A k, d, v : Before(k, d, v)' <=> Before(k, d, v)
  BY DEF Before, Tells
<1>2. LockInv'
  BY DEF SessionInv, LockInv
<1>3. StreamInv'
  BY <1>1 DEF SessionInv, StreamInv, Tells
<1>4. ASSUME server' = "up" PROVE \A c \in Caller : \A d : Notifying(c, d)' <=> Notifying(c, d)
  BY <1>4 DEF Notifying
<1>5. NewsInv'
  BY <1>1, <1>4 DEF SessionInv, NewsInv, Notifying
<1>6. QED
  BY <1>2, <1>3, <1>5

\* A message is written behind the others.
LEMMA BeforeWritten ==
  ASSUME stdin \in Seq(Message), NEW m \in Message, stdin' = Append(stdin, m), UNCHANGED view,
         NEW k \in 1 .. Len(stdin) + 1, NEW d, NEW v
  PROVE  Before(k, d, v)' <=> Before(k, d, v)
<1>1. \A i \in 1 .. Len(stdin) : stdin'[i] = stdin[i]
  OBVIOUS
<1>2. Len(stdin) \in Nat
  OBVIOUS
<1>3. \A i \in 1 .. k - 1 : i \in 1 .. Len(stdin) /\ \A j \in i + 1 .. k - 1 : j \in 1 .. Len(stdin)
  BY <1>2
<1>4. \A i \in 1 .. k - 1 : Tells(i, d)' <=> Tells(i, d)
  BY <1>1, <1>3 DEF Tells
<1>5. \A i \in 1 .. k - 1 : \A j \in i + 1 .. k - 1 : Tells(j, d)' <=> Tells(j, d)
  BY <1>1, <1>3 DEF Tells
<1>6. QED
  BY <1>1, <1>3, <1>4, <1>5 DEF Before

LEMMA NewsWritten ==
  ASSUME SessionTypeInv, NEW m \in Message, stdin' = Append(stdin, m), UNCHANGED view,
         NEW n \in Nat, n = Len(stdin), NEW d, NEW v, Before(n + 2, d, v)'
  PROVE  IF Told(m) /\ m.of = d THEN v = m.version ELSE Before(n + 1, d, v)
<1>1. /\ Len(stdin') = n + 1 /\ stdin'[n + 1] = m /\ n + 1 \in 1 .. n + 1
      /\ n + 2 - 1 = n + 1 /\ n + 1 - 1 = n
      /\ \A i \in 1 .. n : stdin'[i] = stdin[i]
      /\ \A i \in 1 .. n + 1 : i \in 1 .. n \/ i = n + 1
  BY DEF SessionTypeInv
<1>2. Tells(n + 1, d)' <=> Told(m) /\ m.of = d
  BY <1>1 DEF Tells, Told
<1>3. \A i \in 1 .. n : Tells(i, d)' <=> Tells(i, d)
  BY <1>1 DEF Tells
<1>4. \/ v = view[d] /\ \A i \in 1 .. n + 1 : ~ Tells(i, d)'
      \/ \E i \in 1 .. n + 1 :
          /\ Tells(i, d)' /\ v = stdin'[i].version
          /\ \A j \in i + 1 .. n + 1 : ~ Tells(j, d)'
  BY <1>1 DEF Before
<1>5. CASE Told(m) /\ m.of = d
  <2>1. Tells(n + 1, d)'
    BY <1>2, <1>5
  <2>2. PICK i \in 1 .. n + 1 :
          /\ Tells(i, d)' /\ v = stdin'[i].version
          /\ \A j \in i + 1 .. n + 1 : ~ Tells(j, d)'
    BY <1>1, <1>4, <2>1
  <2>3. i = n + 1
    <3>1. i \in 1 .. n => n + 1 \in i + 1 .. n + 1
      OBVIOUS
    <3>2. QED
      BY <1>1, <2>1, <2>2, <3>1
  <2>4. QED
    BY <1>1, <1>5, <2>2, <2>3
<1>6. CASE ~ (Told(m) /\ m.of = d)
  <2>1. ~ Tells(n + 1, d)'
    BY <1>2, <1>6
  <2>2. CASE v = view[d] /\ \A i \in 1 .. n + 1 : ~ Tells(i, d)'
    <3>1. \A i \in 1 .. n : i \in 1 .. n + 1
      OBVIOUS
    <3>2. \A i \in 1 .. n : ~ Tells(i, d)
      BY <1>3, <2>2, <3>1
    <3>3. Before(n + 1, d, v)
      BY <1>1, <2>2, <3>2 DEF Before
    <3>4. QED
      BY <1>6, <3>3
  <2>3. ASSUME NEW i \in 1 .. n + 1,
               Tells(i, d)', v = stdin'[i].version,
               \A j \in i + 1 .. n + 1 : ~ Tells(j, d)'
        PROVE  Before(n + 1, d, v)
    <3>1. i \in 1 .. n
      BY <1>1, <2>1, <2>3
    <3>2. Tells(i, d) /\ v = stdin[i].version
      BY <1>1, <1>3, <2>3, <3>1
    <3>3. \A j \in i + 1 .. n : j \in 1 .. n /\ j \in i + 1 .. n + 1
      BY <3>1
    <3>4. \A j \in i + 1 .. n : ~ Tells(j, d)
      BY <1>3, <2>3, <3>3
    <3>5. QED
      BY <1>1, <3>1, <3>2, <3>4 DEF Before
  <2>4. QED
    BY <1>4, <1>6, <2>2, <2>3
<1>7. QED
  BY <1>5, <1>6

\* A message that tells of no document.
LEMMA OtherWritten ==
  ASSUME SessionInv, NEW m \in Message, ~ Told(m), Writes(m), UNCHANGED <<view, documents, server>>,
         \A c \in Caller :
           /\ At(c, "notify")' <=> At(c, "notify")
           /\ At(c, "notify") => command'[c].message = command[c].message
  PROVE  LockInv' /\ StreamInv' /\ NewsInv'
<1>1. /\ stdin \in Seq(Message) /\ Len(stdin) \in Nat /\ stdin' = Append(stdin, m)
      /\ server = "up" /\ SessionTypeInv
  BY DEF Writes, SessionInv, SessionTypeInv
<1>2. LockInv'
  BY DEF SessionInv, LockInv
<1>3. StreamInv'
  <2> SUFFICES ASSUME NEW k \in 1 .. Len(stdin'), NEW d \in Document, NEW v \in Version,
                      Tells(k, d)', Before(k, d, v)'
               PROVE  Follows(stdin'[k], v)
    BY DEF StreamInv
  <2>1. k \in 1 .. Len(stdin) + 1
    BY <1>1
  <2>2. k # Len(stdin) + 1
    BY <1>1 DEF Tells
  <2>3. k \in 1 .. Len(stdin) /\ stdin'[k] = stdin[k]
    BY <1>1, <2>1, <2>2
  <2>4. Tells(k, d) /\ Before(k, d, v)
    BY <1>1, <2>1, <2>3, BeforeWritten DEF Tells
  <2>5. QED
    BY <2>3, <2>4 DEF SessionInv, StreamInv
<1>4. \A c \in Caller : \A d : Notifying(c, d)' <=> Notifying(c, d)
  BY DEF Notifying
<1>5. NewsInv'
  <2>1. \A d \in Document, c \in Caller :
          Notifying(c, d)' => command'[c].message.version = documents'[d]
    BY <1>1, <1>4 DEF SessionInv, NewsInv, Notifying
  <2> SUFFICES ASSUME NEW d \in Document, NEW v \in Version, Before(Len(stdin) + 1, d, v)'
               PROVE  /\ (\A c \in Caller : ~ Notifying(c, d)') => v = documents'[d]
                      /\ \A c \in Caller : Notifying(c, d)' => Follows(command'[c].message, v)
    BY <2>1 DEF NewsInv
  <2>2. PICK n \in Nat : n = Len(stdin) /\ Len(stdin') + 1 = n + 2
    BY <1>1
  <2>3. Before(n + 1, d, v)
    BY <1>1, <2>2, NewsWritten
  <2>4. QED
    BY <1>1, <1>4, <2>2, <2>3 DEF SessionInv, NewsInv, Notifying
<1>6. QED
  BY <1>2, <1>3, <1>5

\* The notification is written, while its writer alone is about to notify.
LEMMA NotifyWrites ==
  ASSUME SessionInv, NEW c \in Caller, At(c, "notify"), Writes(command[c].message),
         UNCHANGED <<view, documents, server>>, Proceeds(c, Calm)
  PROVE  LockInv' /\ StreamInv' /\ NewsInv'
<1> DEFINE m == command[c].message
<1>1. /\ stdin \in Seq(Message) /\ stdin' = Append(stdin, m) /\ server = "up"
      /\ SessionTypeInv /\ m \in Message /\ m \in Notification
  BY DEF Writes, SessionInv, SessionTypeInv, CommandsOK, Message
<1>2. \A b \in Caller : ~ At(b, "notify")'
  <2>1. PICK new \in Command : command' = [command EXCEPT ![c] = new] /\ new.at \in Calm
    BY DEF Proceeds
  <2>2. command'[c].at # "notify" /\ \A b \in Caller \ {c} : command'[b] = command[b]
    BY <1>1, <2>1 DEF Calm, SessionTypeInv, SessionTypeOK
  <2>3. \A b \in Caller \ {c} : ~ At(b, "notify")
    BY DEF SessionInv, LockInv
  <2>4. QED
    BY <2>2, <2>3 DEF At
<1>3. LockInv'
  BY <1>2 DEF LockInv
<1>4. PICK n \in Nat : n = Len(stdin) /\ Len(stdin') = n + 1 /\ Len(stdin') + 1 = n + 2
  BY <1>1
<1>5. Told(m) /\ m.of \in Document
  BY <1>1 DEF Notification, Told
<1>6. /\ m.version = documents[m.of]
      /\ \A v \in Version : Before(n + 1, m.of, v) => Follows(m, v)
  BY <1>1, <1>4, <1>5 DEF SessionInv, NewsInv, Notifying
<1>7. ASSUME NEW k \in 1 .. Len(stdin'), NEW d \in Document, NEW v \in Version,
             Tells(k, d)', Before(k, d, v)'
      PROVE  Follows(stdin'[k], v)
  <2>1. k \in 1 .. Len(stdin) + 1
    BY <1>4, <1>7
  <2>2. Before(k, d, v)
    BY <1>1, <1>7, <2>1, BeforeWritten
  <2>3. CASE k = n + 1
    <3>1. stdin'[k] = m
      BY <1>1, <1>4, <2>3
    <3>2. d = m.of
      BY <1>7, <3>1 DEF Tells
    <3>3. QED
      BY <1>6, <2>2, <2>3, <3>1, <3>2
  <2>4. CASE k \in 1 .. n
    <3>1. stdin'[k] = stdin[k]
      BY <1>1, <1>4, <2>4
    <3>2. QED
      BY <1>4, <1>7, <2>2, <2>4, <3>1 DEF SessionInv, StreamInv, Tells
  <2>5. QED
    BY <1>4, <2>1, <2>3, <2>4
<1>8. StreamInv'
  BY <1>7 DEF StreamInv
<1>9. ASSUME NEW d \in Document, NEW v \in Version, Before(n + 2, d, v)'
      PROVE  v = documents'[d]
  <2>1. IF Told(m) /\ m.of = d THEN v = m.version ELSE Before(n + 1, d, v)
    BY <1>1, <1>4, <1>9, NewsWritten
  <2>2. CASE m.of = d
    BY <1>5, <1>6, <2>1, <2>2
  <2>3. CASE m.of # d
    <3>1. \A b \in Caller : ~ Notifying(b, d)
      BY <2>3 DEF Notifying, SessionInv, LockInv
    <3>2. QED
      BY <1>1, <1>4, <2>1, <2>3, <3>1 DEF SessionInv, NewsInv
  <2>4. QED
    BY <2>2, <2>3
<1>10. NewsInv'
  <2> SUFFICES ASSUME NEW d \in Document, NEW v \in Version, Before(Len(stdin) + 1, d, v)'
               PROVE  v = documents'[d]
    BY <1>2 DEF NewsInv, Notifying
  <2>1. QED
    BY <1>4, <1>9
<1>11. QED
  BY <1>3, <1>8, <1>10

\* The server reads the first message.
LEMMA BeforeRead ==
  ASSUME SessionTypeInv, ServerReads, NEW n \in Nat, n = Len(stdin), NEW k \in 1 .. n,
         NEW d \in Document, NEW v, Before(k, d, v)'
  PROVE  Before(k + 1, d, v)
<1>1. /\ stdin \in Seq(Message) /\ stdin # <<>> /\ stdin' = Tail(stdin) /\ Head(stdin) = stdin[1]
      /\ k \in Nat /\ k + 1 - 1 = k /\ 1 \in 1 .. k /\ 1 + 1 = 2
  BY DEF SessionTypeInv, ServerReads
<1>2. \A i \in 1 .. n - 1 : stdin'[i] = stdin[i + 1]
  BY <1>1
<1>3. \A i \in 1 .. k - 1 : i + 1 \in 1 .. k /\ (Tells(i, d)' <=> Tells(i + 1, d))
  BY <1>1, <1>2 DEF Tells
<1>4. \A j \in 2 .. k : j - 1 \in 1 .. k - 1 /\ j - 1 + 1 = j /\ (Tells(j - 1, d)' <=> Tells(j, d))
  <2>1. \A j \in 2 .. k : j - 1 \in 1 .. k - 1 /\ j - 1 + 1 = j
    BY <1>1
  <2>2. QED
    BY <1>3, <2>1
<1>5. view'[d] = IF Tells(1, d) THEN stdin[1].version ELSE view[d]
  <2>1. view \in [Document -> Version]
    BY DEF SessionTypeInv, SessionTypeOK
  <2>2. view' = IF Told(stdin[1]) THEN [view EXCEPT ![stdin[1].of] = stdin[1].version] ELSE view
    BY <1>1 DEF ServerReads
  <2>3. QED
    BY <2>1, <2>2 DEF Tells
<1>6. CASE v = view'[d] /\ \A i \in 1 .. k - 1 : ~ Tells(i, d)'
  <2>1. \A j \in 2 .. k : ~ Tells(j, d)
    BY <1>4, <1>6
  <2>2. CASE Tells(1, d)
    BY <1>1, <1>5, <1>6, <2>1, <2>2 DEF Before
  <2>3. CASE ~ Tells(1, d)
    <3>1. \A j \in 1 .. k : j = 1 \/ j \in 2 .. k
      BY <1>1
    <3>2. \A j \in 1 .. k : ~ Tells(j, d)
      BY <2>1, <2>3, <3>1
    <3>3. QED
      BY <1>1, <1>5, <1>6, <2>3, <3>2 DEF Before
  <2>4. QED
    BY <2>2, <2>3
<1>7. ASSUME NEW i \in 1 .. k - 1, Tells(i, d)', v = stdin'[i].version,
             \A j \in i + 1 .. k - 1 : ~ Tells(j, d)'
      PROVE  Before(k + 1, d, v)
  <2>1. i + 1 \in 1 .. k /\ Tells(i + 1, d)
    BY <1>3, <1>7
  <2>2. v = stdin[i + 1].version
    <3>1. i \in 1 .. n - 1
      BY <1>1, <1>7
    <3>2. QED
      BY <1>2, <1>7, <3>1
  <2>3. \A j \in (i + 1) + 1 .. k : j \in 2 .. k /\ j - 1 \in i + 1 .. k - 1
    BY <1>1
  <2>4. \A j \in (i + 1) + 1 .. k : ~ Tells(j, d)
    BY <1>4, <1>7, <2>3
  <2>5. QED
    BY <1>1, <2>1, <2>2, <2>4 DEF Before
<1>8. QED
  BY <1>6, <1>7 DEF Before

LEMMA ReadKeeps ==
  ASSUME SessionInv, ServerReads
  PROVE  LockInv' /\ StreamInv' /\ NewsInv'
<1>1. /\ UNCHANGED <<documents, command, server>> /\ stdin' = Tail(stdin)
      /\ stdin # <<>> /\ SessionTypeInv /\ stdin \in Seq(Message)
  BY DEF ServerReads, session, commandVars, SessionInv, SessionTypeInv
<1>2. PICK n \in Nat : n = Len(stdin) /\ Len(stdin') = n - 1 /\ n \in 1 .. n /\ Len(stdin') + 1 = n
  BY <1>1
<1>3. LockInv'
  BY <1>1 DEF SessionInv, LockInv, At
<1>4. ASSUME NEW k \in 1 .. n - 1, NEW d \in Document, NEW v \in Version,
             Tells(k, d)', Before(k, d, v)'
      PROVE  Follows(stdin'[k], v)
  <2>1. k \in 1 .. n /\ k + 1 \in 1 .. n
    BY <1>2
  <2>2. stdin'[k] = stdin[k + 1]
    BY <1>1, <1>2
  <2>3. Before(k + 1, d, v)
    BY <1>1, <1>2, <1>4, <2>1, BeforeRead
  <2>4. Tells(k + 1, d)
    BY <1>4, <2>2 DEF Tells
  <2>5. QED
    BY <1>2, <2>1, <2>2, <2>3, <2>4 DEF SessionInv, StreamInv
<1>5. StreamInv'
  <2> SUFFICES ASSUME NEW k \in 1 .. Len(stdin'), NEW d \in Document, NEW v \in Version,
                      Tells(k, d)', Before(k, d, v)'
               PROVE  Follows(stdin'[k], v)
    BY DEF StreamInv
  <2>1. QED
    BY <1>2, <1>4
<1>6. \A c \in Caller : \A d : Notifying(c, d)' <=> Notifying(c, d)
  BY <1>1 DEF Notifying, At
<1>7. ASSUME NEW d \in Document, NEW v \in Version, Before(n, d, v)'
      PROVE  Before(n + 1, d, v)
  BY <1>1, <1>2, <1>7, BeforeRead
<1>8. NewsInv'
  <2>1. \A d \in Document, c \in Caller : server' = "up" /\ Notifying(c, d)' =>
          command'[c].message.version = documents'[d]
    BY <1>1, <1>6 DEF SessionInv, NewsInv
  <2> SUFFICES ASSUME server' = "up",
                      NEW d \in Document, NEW v \in Version, Before(Len(stdin) + 1, d, v)'
               PROVE  /\ (\A c \in Caller : ~ Notifying(c, d)') => v = documents'[d]
                      /\ \A c \in Caller : Notifying(c, d)' => Follows(command'[c].message, v)
    BY <2>1 DEF NewsInv
  <2>2. Before(n + 1, d, v)
    BY <1>2, <1>7
  <2>3. QED
    BY <1>1, <1>2, <1>6, <2>2 DEF SessionInv, NewsInv
<1>9. QED
  BY <1>3, <1>5, <1>8

\* A document gets its next version, while nobody is about to notify.
LEMMA UpdateKeeps ==
  ASSUME SessionInv, NEW c \in Caller, UpdateDocument(c)
  PROVE  LockInv' /\ StreamInv' /\ NewsInv'
<1>1. /\ At(c, "document") /\ UNCHANGED <<stdin, view, server>>
      /\ \A b \in Caller : ~ At(b, "notify")
  BY DEF UpdateDocument, process, Locked
<1>2. /\ SessionTypeInv /\ command \in [Caller -> Command]
      /\ documents \in [Document -> Version] /\ \A d \in Document : documents[d] \in Nat
  BY SessionBounds DEF SessionInv, SessionTypeInv, SessionTypeOK
<1>3. CASE Returns(c) /\ UNCHANGED documents
  <2>1. \A b \in Caller : ~ At(b, "notify")'
    BY <1>1, <1>2, <1>3 DEF Returns, NoCommand, At
  <2>2. QED
    BY <1>1, <1>3, <2>1, Quiet
<1>4. ASSUME NEW d \in Document,
             ~ (command[c].for = "close" /\ documents[d] = 0),
             documents' = [documents EXCEPT ![d] = News(c, d).version],
             command' = [command EXCEPT ![c].message = News(c, d), ![c].at = "notify"]
      PROVE  LockInv' /\ StreamInv' /\ NewsInv'
  <2>1. News(c, d).of = d /\ Follows(News(c, d), documents[d])
    <3>1. documents[d] \in Nat
      BY <1>2
    <3>2. CASE command[c].for = "close"
      <4>1. News(c, d) = Notice("didClose", d, 0)
        BY <3>1, <3>2 DEF News
      <4>2. QED
        BY <1>4, <3>1, <3>2, <4>1 DEF Notice, Follows
    <3>3. CASE command[c].for # "close" /\ documents[d] > 0
      <4>1. News(c, d) = Notice("didChange", d, documents[d] + 1)
        BY <3>1, <3>3 DEF News
      <4>2. QED
        BY <3>1, <3>3, <4>1 DEF Notice, Follows
    <3>4. CASE command[c].for # "close" /\ documents[d] = 0
      <4>1. News(c, d) = Notice("didOpen", d, 1)
        BY <3>1, <3>4 DEF News
      <4>2. QED
        BY <3>1, <3>4, <4>1 DEF Notice, Follows
    <3>5. QED
      BY <3>1, <3>2, <3>3, <3>4
  <2>2. /\ At(c, "notify")' /\ command'[c].message = News(c, d)
        /\ \A b \in Caller \ {c} : ~ At(b, "notify")'
    <3>1. command'[c].at = "notify" /\ command'[c].message = News(c, d)
      BY <1>2, <1>4 DEF Command
    <3>2. \A b \in Caller \ {c} : command'[b] = command[b]
      BY <1>2, <1>4
    <3>3. QED
      BY <1>1, <3>1, <3>2 DEF At
  <2>3. /\ documents'[d] = News(c, d).version
        /\ \A e \in Document \ {d} : documents'[e] = documents[e]
    BY <1>2, <1>4
  <2>4. LockInv'
    BY <2>2 DEF LockInv
  <2>5. \A k, e, v : Before(k, e, v)' <=> Before(k, e, v)
    BY <1>1 DEF Before, Tells
  <2>6. StreamInv'
    BY <1>1, <2>5 DEF SessionInv, StreamInv, Tells
  <2>7. \A b \in Caller, e \in Document : Notifying(b, e)' <=> b = c /\ e = d
    BY <2>1, <2>2 DEF Notifying
  <2>8. NewsInv'
    BY <1>1, <2>1, <2>2, <2>3, <2>5, <2>7 DEF SessionInv, NewsInv, Notifying
  <2>9. QED
    BY <2>4, <2>6, <2>8
<1>5. QED
  BY <1>3, <1>4 DEF UpdateDocument

LEMMA CommandKeeps ==
  ASSUME SessionInv, NEW c \in Caller, CommandStep(c)
  PROVE  LockInv' /\ StreamInv' /\ NewsInv'
<1>1. SessionTypeInv /\ command \in [Caller -> Command]
  BY DEF SessionInv, SessionTypeInv, SessionTypeOK
<1>2. CASE UpdateDocument(c)
  BY <1>2, UpdateKeeps
<1>3. ASSUME ~ UpdateDocument(c)
      PROVE  /\ Proceeds(c, Calm) /\ UNCHANGED <<view, documents>>
             /\ \A b \in Caller \ {c} : command'[b] = command[b]
             /\ ~ At(c, "notify")'
  <2>1. Proceeds(c, Calm)
    BY <1>1, <1>3, CommandType DEF CommandStep
  <2>2. \A b \in Caller \ {c} : command'[b] = command[b]
    BY <1>1, <2>1 DEF Proceeds
  <2>3. ~ At(c, "notify")'
    BY <1>1, <2>1 DEF Proceeds, Calm, At
  <2>4. UNCHANGED <<view, documents>>
    BY <1>3 DEF CommandStep, notify, RequestRefused, RegisterRequest, WriteRequest, Receives,
                TimesOut, CancelRequest, shutdown, Kill, session, process
  <2>5. QED
    BY <2>1, <2>2, <2>3, <2>4
<1>4. CASE notify(c)
  <2>1. ~ UpdateDocument(c) /\ At(c, "notify") /\ UNCHANGED server
    BY <1>4 DEF notify, UpdateDocument, At, process
  <2>2. CASE Writes(command[c].message)
    BY <1>3, <2>1, <2>2, NotifyWrites
  <2>3. CASE WriteFails
    BY <1>3, <2>1, <2>3, Quiet DEF WriteFails, At
  <2>4. QED
    BY <1>4, <2>2, <2>3 DEF notify
<1>5. ASSUME ~ At(c, "notify"), ~ UpdateDocument(c), UNCHANGED server,
             NEW m \in Message, ~ Told(m), Writes(m)
      PROVE  LockInv' /\ StreamInv' /\ NewsInv'
  BY <1>3, <1>5, OtherWritten DEF At
<1>6. ASSUME ~ At(c, "notify"), ~ UpdateDocument(c), server' = "up" => server = "up",
             UNCHANGED stdin
      PROVE  LockInv' /\ StreamInv' /\ NewsInv'
  BY <1>3, <1>6, Quiet DEF At
<1>7. CASE WriteRequest(c) \/ CancelRequest(c)
  <2>1. ~ At(c, "notify") /\ ~ UpdateDocument(c) /\ UNCHANGED server
    BY <1>7 DEF WriteRequest, CancelRequest, UpdateDocument, At, process
  <2>2. At(c, "write") \/ At(c, "cancel")
    BY <1>7 DEF WriteRequest, CancelRequest
  <2>3. command[c].id \in RequestId
    BY <1>1, <2>2 DEF SessionTypeInv, CommandsOK, At
  <2>4. \A m \in {[kind |-> "request", id |-> command[c].id], [kind |-> "$/cancelRequest"]} :
          m \in Message /\ ~ Told(m)
    BY <2>3 DEF Message, Told
  <2>5. \/ UNCHANGED stdin
        \/ \E m \in {[kind |-> "request", id |-> command[c].id], [kind |-> "$/cancelRequest"]} :
             Writes(m)
    BY <1>7 DEF WriteRequest, CancelRequest, WriteFails
  <2>6. QED
    BY <1>5, <1>6, <2>1, <2>4, <2>5
<1>8. CASE RequestRefused(c) \/ RegisterRequest(c) \/ Receives(c) \/ TimesOut(c)
             \/ shutdown(c) \/ Kill(c)
  <2>1. /\ ~ At(c, "notify") /\ ~ UpdateDocument(c) /\ UNCHANGED stdin
        /\ server' = "up" => server = "up"
    BY <1>8 DEF RequestRefused, RegisterRequest, Receives, TimesOut, shutdown, Kill,
                UpdateDocument, At, process
  <2>2. QED
    BY <1>6, <2>1
<1>9. QED
  BY <1>2, <1>4, <1>7, <1>8 DEF CommandStep

LEMMA ReaderKeeps ==
  ASSUME SessionInv, ReaderStep
  PROVE  LockInv' /\ StreamInv' /\ NewsInv'
<1>1. SessionTypeInv
  BY DEF SessionInv
<1>2. UNCHANGED <<view, documents, server>>
  BY DEF ReaderStep, TakesAnswer, TakesRequest, respond, StreamEnds, fail_pending, session, process
<1>3. ASSUME NEW c \in Caller
      PROVE  /\ At(c, "notify")' <=> At(c, "notify")
             /\ At(c, "notify") => command'[c].message = command[c].message
  <2>1. UNCHANGED command \/ Answered({Head(stdout).id}, "ok") \/ Answered(pending, "error")
    BY DEF ReaderStep, TakesAnswer, TakesRequest, respond, StreamEnds, fail_pending, commandVars
  <2>2. CASE UNCHANGED command
    BY <2>2 DEF At
  <2>3. CASE Answered({Head(stdout).id}, "ok")
    BY <1>1, <2>3, AnsweredKeeps DEF At
  <2>4. CASE Answered(pending, "error")
    BY <1>1, <2>4, AnsweredKeeps DEF At
  <2>5. QED
    BY <2>1, <2>2, <2>3, <2>4
<1>4. UNCHANGED stdin \/ Writes([kind |-> "response"])
  BY DEF ReaderStep, TakesAnswer, TakesRequest, respond, StreamEnds, fail_pending, WriteFails
<1>5. [kind |-> "response"] \in Message /\ ~ Told([kind |-> "response"])
  BY DEF Message, Told
<1>6. CASE UNCHANGED stdin
  BY <1>2, <1>3, <1>6, Quiet
<1>7. CASE Writes([kind |-> "response"])
  BY <1>2, <1>3, <1>5, <1>7, OtherWritten
<1>8. QED
  BY <1>4, <1>6, <1>7

LEMMA CalledKeeps ==
  ASSUME SessionInv, NEW c \in Caller, NEW what \in {"sync", "query", "close", "shutdown"},
         Called(c, what)
  PROVE  LockInv' /\ StreamInv' /\ NewsInv'
<1>1. /\ command \in [Caller -> Command] /\ At(c, "idle")
      /\ UNCHANGED <<stdin, view, documents, server>>
  BY DEF Called, process, SessionInv, SessionTypeInv, SessionTypeOK
<1>2. /\ \A b \in Caller \ {c} : command'[b] = command[b]
      /\ command'[c].at \in {"stop", "document"}
  BY <1>1 DEF Called, NoCommand
<1>3. \A b \in Caller : (At(b, "notify")' <=> At(b, "notify"))
        /\ (At(b, "notify") => command'[b].message = command[b].message)
  BY <1>1, <1>2 DEF At
<1>4. QED
  BY <1>1, <1>3, Quiet

LEMMA SessionKept ==
  ASSUME SessionInv, [SessionNext]_sessionVars
  PROVE  SessionInv'
<1>1. SessionTypeInv'
  BY SessionTypeKept DEF SessionInv
<1>2. LockInv' /\ StreamInv' /\ NewsInv'
  <2>1. CASE \/ UNCHANGED sessionVars \/ Replaced \/ Dropped
             \/ ServerAnswers \/ ServerAsks \/ ServerEnds
    <3>1. /\ UNCHANGED <<stdin, view, documents, command>>
          /\ server' = "up" => server = "up"
      BY <2>1 DEF sessionVars, session, commandVars, process, Replaced, Dropped,
                  ServerAnswers, ServerAsks, ServerEnds
    <3>2. QED
      BY <3>1, Quiet DEF At
  <2>2. QED
    BY <2>1, CommandKeeps, ReaderKeeps, ReadKeeps, CalledKeeps DEF SessionNext
<1>3. QED
  BY <1>1, <1>2 DEF SessionInv

LEMMA SessionSafety == SessionInit /\ [][SessionNext]_sessionVars => []SessionInv
<1>1. SessionInit => SessionInv
  BY SessionStarts
<1>2. SessionInv /\ [SessionNext]_sessionVars => SessionInv'
  BY SessionKept
<1>3. QED
  BY <1>1, <1>2, PTL

LEMMA SessionInvariant == SessionSpec => []SessionInv
<1>1. SessionSpec => SessionInit /\ [][SessionNext]_sessionVars
  BY PTL DEF SessionSpec
<1>2. QED
  BY <1>1, SessionSafety, PTL

\* Type correctness of a session, with what its pipes hold.
THEOREM SessionTypeCorrect == SessionSpec => []SessionTypeOK
<1>1. SessionInv => SessionTypeOK
  BY DEF SessionInv, SessionTypeInv
<1>2. QED
  BY <1>1, SessionInvariant, PTL

\* The server never reads a message that the protocol forbids: a document is opened
\* once, its versions rise by one and only an open one is changed or closed, with any
\* number of threads and documents and pipes of any length.
THEOREM DocumentsStayInStep == SessionSpec => DocumentsInStep
<1>1. ASSUME SessionInv, ServerReads PROVE Allowed(Head(stdin))
  <2>1. /\ stdin \in Seq(Message) /\ stdin # <<>>
        /\ Head(stdin) = stdin[1] /\ 1 \in 1 .. Len(stdin) /\ stdin[1] \in Message
        /\ view \in [Document -> Version]
    BY <1>1 DEF SessionInv, SessionTypeInv, SessionTypeOK, ServerReads
  <2>2. CASE Told(stdin[1])
    <3>1. stdin[1] \in Notification
      BY <2>1, <2>2, Messages
    <3>2. PICK d \in Document : d = stdin[1].of /\ Tells(1, d)
      BY <2>2, <3>1 DEF Notification, Tells
    <3>3. Before(1, d, view[d])
      BY DEF Before
    <3>4. Follows(stdin[1], view[d])
      BY <1>1, <2>1, <3>2, <3>3 DEF SessionInv, StreamInv
    <3>5. QED
      BY <2>1, <2>2, <3>2, <3>4 DEF Allowed, Follows, Told
  <2>3. CASE ~ Told(stdin[1])
    BY <2>1, <2>3 DEF Allowed, Told
  <2>4. QED
    BY <2>2, <2>3
<1>2. SessionInv /\ [SessionNext]_sessionVars => [ServerReads => Allowed(Head(stdin))]_sessionVars
  BY <1>1
<1>3. SessionSpec => [][SessionNext]_sessionVars
  BY PTL DEF SessionSpec
<1>4. QED
  BY <1>2, <1>3, SessionInvariant, PTL DEF DocumentsInStep

-----------------------------------------------------------------------------
\* Side by side, a review, a check and a session each do what their own specification
\* says: while one moves, the others stutter.
LEMMA CheckoutIsAll ==
  MCSpec => /\ Spec
            /\ CheckInit /\ [][CheckNext]_checkVars
            /\ SessionInit /\ [][SessionNext]_sessionVars
<1>1. MCInit => Init /\ CheckInit /\ SessionInit
  BY DEF MCInit
<1>2. [MCNext]_<<vars, checkVars, sessionVars, focus>> =>
        [Next]_vars /\ [CheckNext]_checkVars /\ [SessionNext]_sessionVars
  BY DEF MCNext, Reviews, Checks, Serves
<1>3. MCSpec => MCInit /\ [][MCNext]_<<vars, checkVars, sessionVars, focus>>
  BY PTL DEF MCSpec
<1>4. QED
  BY <1>1, <1>2, <1>3, PTL DEF Spec

\* What is done in the checkout keeps to its types, and a check has one of the statuses
\* of CheckCommandResult: an ended one never has the exit of its leader instead
\* (checks/execution.rs).
THEOREM CheckoutKeepsItsTypes == MCSpec => []CheckoutTypeOK
<1>1. ReviewInv /\ CheckInv /\ SessionInv => CheckoutTypeOK
  BY DEF ReviewInv, ReviewTypeInv, CheckInv, SessionInv, SessionTypeInv, CheckoutTypeOK
<1>2. QED
  BY <1>1, CheckoutIsAll, ReviewInvariant, CheckSafety, SessionSafety, PTL
=============================================================================
