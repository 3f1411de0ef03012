--------------------------- MODULE CheckExecution ---------------------------
(***************************************************************************)
(* One run of an approved check: run_parsed_check_with_timeout of          *)
(* core/checks/execution.rs.  The check is a process, the leader of a      *)
(* process group, that may start others; each holds write ends of the two  *)
(* output pipes.  A reader thread per pipe ends when nobody holds its      *)
(* write end any more.  The thread that runs the check waits for the       *)
(* leader with a timeout, then for each reader with a timeout, and         *)
(* terminates the process tree when one of the waits was in vain.          *)
(***************************************************************************)

CONSTANTS
    Leader,         \* the process spawned for the check
    Descendants     \* processes it may start

ASSUME LeaderAssumption == Leader \notin Descendants

Pipes == {"stdout", "stderr"}
Processes == {Leader} \cup Descendants

VARIABLES
    at,             \* step of the thread that runs the check
    cause,          \* why the process tree is terminated: a wait, a pipe
    procs,          \* [process -> alive, in the group, pipes it holds]
    exit,           \* exit of the leader; "bad" is another code or a signal
    reaped,         \* the leader has been waited for
    capture,        \* [pipe -> what its reader has sent]
    term_error,     \* terminate_process_tree reported an error
    result          \* CheckCommandResult: status and the outputs it carries

checkVars == <<at, cause, procs, exit, reaped, capture, term_error, result>>

Gone == [alive |-> FALSE, group |-> FALSE, holds |-> {}]
Sent == {"whole", "blank"}
NoResult == [status |-> "none", out |-> [p \in Pipes |-> "none"]]

Late(p) == IF p = "stdout" THEN "late stdout" ELSE "late stderr"

Alive == {q \in Processes : procs[q].alive}
Holders(p) == {q \in Alive : p \in procs[q].holds}
Group == {q \in Alive : procs[q].group}

CheckInit ==
    /\ at = "start"
    /\ cause = "none"
    /\ procs = [q \in Processes |-> Gone]
    /\ exit = "none"
    /\ reaped = FALSE
    /\ capture = [p \in Pipes |-> "none"]
    /\ term_error = FALSE
    /\ result = NoResult

-----------------------------------------------------------------------------
(* The thread that runs the check                                          *)

\* The kill tool is missing, or the executable cannot be spawned.
FailsWithoutSpawn ==
    /\ at = "start"
    /\ result' = [NoResult EXCEPT !.status = "failed"]
    /\ at' = "done"
    /\ UNCHANGED <<cause, procs, exit, reaped, capture, term_error>>

Spawn ==
    /\ at = "start"
    /\ procs' = [procs EXCEPT ![Leader] =
                    [alive |-> TRUE, group |-> TRUE, holds |-> Pipes]]
    /\ capture' = [p \in Pipes |-> "reading"]
    /\ at' = "wait"
    /\ UNCHANGED <<cause, exit, reaped, term_error, result>>

\* Waiting for the leader reaps it.
WaitReturns ==
    /\ at = "wait"
    /\ exit # "none"
    /\ reaped' = TRUE
    /\ at' = "stdout"
    /\ UNCHANGED <<cause, procs, exit, capture, term_error, result>>

\* The timeout, or an error of the wait.  The leader may just have ended.
WaitFails ==
    /\ at = "wait"
    /\ cause' \in {"timeout", "wait"}
    /\ at' = "terminate"
    /\ UNCHANGED <<procs, exit, reaped, capture, term_error, result>>

\* Mutant: the exit of the leader is reported as the status of the check.
DrainReportsExit(p) ==
    /\ at = p
    /\ capture[p] \in Sent
    /\ capture' = [capture EXCEPT ![p] = "taken"]
    /\ result' = [status |-> IF p = "stdout" THEN "none" ELSE exit,
                  out |-> [result.out EXCEPT ![p] = capture[p]]]
    /\ at' = IF p = "stdout" THEN "stderr" ELSE "done"
    /\ UNCHANGED <<cause, procs, exit, reaped, term_error>>

\* Mutant: the check ends without waiting for its standard error.
DrainsStdoutOnly(p) ==
    /\ at = p
    /\ capture[p] \in Sent
    /\ capture' = [capture EXCEPT ![p] = "taken"]
    /\ result' = [status |-> IF exit = "ok" THEN "passed" ELSE "failed",
                  out |-> [result.out EXCEPT ![p] = capture[p]]]
    /\ at' = "done"
    /\ UNCHANGED <<cause, procs, exit, reaped, term_error>>

\* finish_completed_check: standard output first, then standard error.
Drain(p) ==
    /\ at = p
    /\ capture[p] \in Sent
    /\ capture' = [capture EXCEPT ![p] = "taken"]
    /\ result' = [status |-> IF p = "stdout" THEN "none"
                             ELSE IF exit = "ok" THEN "passed" ELSE "failed",
                  out |-> [result.out EXCEPT ![p] = capture[p]]]
    /\ at' = IF p = "stdout" THEN "stderr" ELSE "done"
    /\ UNCHANGED <<cause, procs, exit, reaped, term_error>>

\* Mutant: the wait for a reader has no timeout.
DrainWaitsForEver(p) == FALSE

DrainTimesOut(p) ==
    /\ at = p
    /\ capture[p] = "reading"
    /\ cause' = p
    /\ at' = "terminate"
    /\ UNCHANGED <<procs, exit, reaped, capture, term_error, result>>

\* What follows terminate_process_tree: a timeout is reported at once with the
\* output that has already been sent; a pipe is waited for once more.
AfterTermination ==
    IF cause \in Pipes
    THEN /\ at' = Late("stdout")
         /\ UNCHANGED <<capture, result>>
    ELSE /\ at' = "done"
         /\ capture' = [capture EXCEPT !["stdout"] =
                            IF @ \in Sent THEN "taken" ELSE @]
         /\ result' = [status |-> IF cause = "timeout" THEN "timeout" ELSE "failed",
                       out |-> [stdout |-> IF capture["stdout"] \in Sent
                                           THEN capture["stdout"] ELSE "none",
                                stderr |-> "none"]]

\* The kill tool is gone or cannot be started: no process is killed, nor the
\* leader waited for.
KillNotInvoked ==
    /\ at = "terminate"
    /\ term_error' = TRUE
    /\ AfterTermination
    /\ UNCHANGED <<cause, procs, exit, reaped>>

\* Mutant: only the leader is killed.
KillLeaderOnly ==
    /\ at = "terminate"
    /\ term_error' = FALSE
    /\ procs' = [procs EXCEPT ![Leader] = Gone]
    /\ exit' = IF exit = "none" THEN "bad" ELSE exit
    /\ reaped' = TRUE
    /\ AfterTermination
    /\ UNCHANGED cause

\* terminate_process_tree: SIGKILL to the group, in which a leader that has
\* not been reaped still counts; the kill of an empty group is an error.
KillGroup ==
    /\ at = "terminate"
    /\ LET members == Group \cup (IF reaped THEN {} ELSE {Leader})
       IN  /\ term_error' = (members = {})
           /\ procs' = [q \in Processes |->
                           IF q \in members \cup {Leader} THEN Gone ELSE procs[q]]
    /\ exit' = IF exit = "none" THEN "bad" ELSE exit
    /\ reaped' = TRUE
    /\ AfterTermination
    /\ UNCHANGED cause

\* output_drain_failure_result: whatever either reader sends before a second
\* timeout.  An output taken before is not in the channel any more.
LateDrain(p) ==
    /\ at = Late(p)
    /\ result' = [status |-> IF p = "stdout" THEN "none" ELSE "failed",
                  out |-> [result.out EXCEPT ![p] =
                              IF capture[p] \in Sent THEN capture[p] ELSE "none"]]
    /\ capture' = [capture EXCEPT ![p] = IF @ \in Sent THEN "taken" ELSE @]
    /\ at' = IF p = "stdout" THEN Late("stderr") ELSE "done"
    /\ UNCHANGED <<cause, procs, exit, reaped, term_error>>

RunnerStep ==
    \/ FailsWithoutSpawn
    \/ Spawn
    \/ WaitReturns
    \/ WaitFails
    \/ \E p \in Pipes : Drain(p) \/ DrainTimesOut(p) \/ LateDrain(p)
    \/ KillNotInvoked
    \/ KillGroup

-----------------------------------------------------------------------------
(* The reader threads and the processes of the check                       *)

\* read_to_string returns at the end of the stream.  Bytes that are not UTF-8
\* are an error that leaves the string empty, and it is sent all the same.
ReaderEnds(p) ==
    /\ capture[p] = "reading"
    /\ Holders(p) = {}
    /\ \E sent \in Sent : capture' = [capture EXCEPT ![p] = sent]
    /\ UNCHANGED <<at, cause, procs, exit, reaped, term_error, result>>

Forks(q, d) ==
    /\ q \in Alive
    /\ d \in Descendants \ Alive
    /\ procs' = [procs EXCEPT ![d] = procs[q]]
    /\ UNCHANGED <<at, cause, exit, reaped, capture, term_error, result>>

\* A process redirects one of its outputs elsewhere.
ClosesPipe(q, p) ==
    /\ q \in Holders(p)
    /\ procs' = [procs EXCEPT ![q].holds = @ \ {p}]
    /\ UNCHANGED <<at, cause, exit, reaped, capture, term_error, result>>

\* setsid, as a daemon does.
LeavesGroup(d) ==
    /\ d \in Descendants \cap Group
    /\ procs' = [procs EXCEPT ![d].group = FALSE]
    /\ UNCHANGED <<at, cause, exit, reaped, capture, term_error, result>>

Ends(q) ==
    /\ q \in Alive
    /\ procs' = [procs EXCEPT ![q] = Gone]
    /\ IF q = Leader THEN exit' \in {"ok", "bad"} ELSE UNCHANGED exit
    /\ UNCHANGED <<at, cause, reaped, capture, term_error, result>>

ProcessStep ==
    \/ \E p \in Pipes : ReaderEnds(p)
    \/ \E q \in Processes :
        \/ \E d \in Descendants : Forks(q, d)
        \/ \E p \in Pipes : ClosesPipe(q, p)
        \/ LeavesGroup(q)
        \/ Ends(q)

CheckNext == RunnerStep \/ ProcessStep

\* The thread is sequential code, and each of its waits has a timeout.  The
\* processes of the check owe nothing, and so neither do their readers.
CheckSpec == CheckInit /\ [][CheckNext]_checkVars /\ WF_checkVars(RunnerStep)

-----------------------------------------------------------------------------
(* Properties                                                              *)

CheckTypeOK ==
    /\ at \in {"start", "wait", "stdout", "stderr", "terminate",
               "late stdout", "late stderr", "done"}
    /\ cause \in {"none", "timeout", "wait"} \cup Pipes
    /\ procs \in [Processes -> [alive : BOOLEAN, group : BOOLEAN, holds : SUBSET Pipes]]
    /\ exit \in {"none", "ok", "bad"}
    /\ reaped \in BOOLEAN
    /\ capture \in [Pipes -> {"none", "reading", "taken"} \cup Sent]
    /\ term_error \in BOOLEAN
    /\ result \in [status : {"none", "passed", "failed", "timeout"},
                   out : [Pipes -> {"none"} \cup Sent]]

\* A passed check is over: its leader ended well, and no process it started can
\* still write the output that the result reports.  This is what the two waits
\* of finish_completed_check are for.
PassedIsOver ==
    at = "done" /\ result.status = "passed" =>
        /\ exit = "ok"
        /\ \A p \in Pipes : Holders(p) = {} /\ result.out[p] # "none"

\* When a wait was in vain and no termination error is reported, no process of
\* the group is left, whichever wait it was and whoever ended meanwhile.
StoppedGroupIsGone ==
    at = "done" /\ cause # "none" /\ ~term_error => Group = {}

\* A check that was spawned ends, although its processes may never end nor close
\* their pipes.
CheckEnds == at = "wait" ~> at = "done"
=============================================================================
