-------------------------- MODULE LanguageRecovery --------------------------
(* The recovery coordinator of one language server (commands/recovery.rs) over
   the recovery ledger, the installer and the session registry.  The main
   thread runs checks, with the automatic restart inside them; confirmed
   repairs run on worker threads.  Every lock is taken for one step only, so
   what a thread has read is stale when it acts on it. *)
EXTENDS LanguageTools, Sequences, SequencesExt

VARIABLES
  engine,    \* the ledger: in memory, and saved with every change
  pending,   \* diagnoses a confirmation token was given out for
  queue,     \* threads that hold a generation not yet applied, oldest first
  held,      \* the observation or diagnosis each thread has in hand
  tried      \* (history) automatic repairs begun since the diagnosis changed

vars == <<tool, running, cancelled, status, session, pc,
          engine, pending, queue, held, tried>>

ledger == <<engine, tried>>

PC == {"idle", "take", "observe", "begin", "discover", "request", "claim", "installing",
       "promoting", "restart", "start", "verify", "take_final", "observe_final",
       "verified", "failed", "cancelled"}

(* A repair of the capability is under way in thread t. *)
Repairs(t) == t \notin Direct /\ pc[t] \notin {"idle", "take", "observe", "begin"}

TypeOK ==
  /\ ToolsTypeOK
  /\ pc \in [Thread -> PC]
  /\ engine \in Engine
  /\ pending \subseteq Revision
  /\ queue \in Seq(Thread) /\ Len(queue) <= Cardinality(Thread)
  /\ held \in [Thread -> Observation \cup {Nothing}]
  /\ tried \in 0..3

Init ==
  /\ InitTools
  /\ pc = [t \in Thread |-> "idle"]
  /\ engine = NewEngine
  /\ pending = {} /\ queue = <<>>
  /\ held = [t \in Thread |-> Nothing]
  /\ tried = 0

(* Observing another diagnosis ends the count of tries. *)
Observed(obs) ==
  /\ engine' = observe(engine, obs)
  /\ tried' = IF engine.record # Nothing /\ engine.record.revision = obs.revision
              THEN tried ELSE 0

Hold(t, obs) == held' = [held EXCEPT ![t] = obs]

-----------------------------------------------------------------------------
(* check, on the main thread: read the services ... *)
CheckReads ==
  /\ pc[Main] = "idle"
  /\ Hold(Main, language_observation(Runtime, status, tool))
  /\ Goto(Main, "take")
  /\ UNCHANGED <<toolVars, session, pending, queue, ledger>>

(* ... take the next generation ... *)
TakeGeneration(t) ==
  /\ pc[t] \in {"take", "take_final"}
  /\ queue' = Append(queue, t)
  /\ IF pc[t] = "take" THEN Goto(t, "observe") /\ UNCHANGED held
     ELSE Goto(t, "observe_final") /\ Hold(t, language_observation("Ready", Nothing, TRUE))
  /\ UNCHANGED <<toolVars, session, pending, ledger>>

(* ... and apply it, unless a later generation was applied first: then the
   thread returns, also out of a repair it has begun. *)
AppliesObservation(t) ==
  /\ pc[t] \in {"observe", "observe_final"}
  /\ Hold(t, Nothing)
  /\ IF ~Contains(queue, t)
     THEN Goto(t, "idle") /\ UNCHANGED <<queue, ledger>>
     ELSE /\ Observed(held[t])
          /\ queue' = SubSeq(queue, 1 + CHOOSE i \in 1..Len(queue) : queue[i] = t, Len(queue))
          /\ Goto(t, CASE pc[t] = "observe_final" -> "verified"
                       [] pc[t] = "observe" /\ "restart" \in engine'.record.actions -> "begin"
                       [] pc[t] = "observe" /\ "restart" \notin engine'.record.actions -> "idle")
  /\ UNCHANGED <<toolVars, session, pending>>

(* begin_repair takes the lock again: of a check for the restart the record
   offered, of a confirmed repair for the install. *)
BeginRepair(t) ==
  LET action == IF t = Main THEN "restart" ELSE "install"
  IN /\ pc[t] = "begin"
     /\ IF CanBegin(engine, action)
        THEN /\ engine' = begin_repair(engine, action)
             /\ tried' = IF action \in Automatic THEN tried + 1 ELSE tried
             /\ Goto(t, IF t = Main THEN "restart" ELSE "discover")
        ELSE Goto(t, "idle") /\ UNCHANGED ledger
     /\ UNCHANGED <<toolVars, session, pending, queue, held>>

-----------------------------------------------------------------------------
(* repair_preview and confirm. *)

repair_preview ==
  /\ pc[Main] = "idle"
  /\ engine.record # Nothing /\ "install" \in engine.record.actions
  /\ pending' = pending \cup {engine.record.revision}
  /\ UNCHANGED <<toolVars, session, pc, queue, held, ledger>>

(* The token is spent whatever follows: it may have expired, the diagnosis may
   have changed or the action be gone. *)
Confirm(t) ==
  /\ pc[t] = "idle"
  /\ \E revision \in pending :
       /\ pending' = pending \ {revision}
       /\ \/ UNCHANGED pc
          \/ /\ engine.record.revision = revision
             /\ "install" \in engine.record.actions
             /\ Goto(t, "begin")
  /\ UNCHANGED <<toolVars, session, queue, held, ledger>>

(* discovery_for_capability: its error leaves the attempt begun.  What it finds
   of the executable is what the install's progress is judged by. *)
Discover(t) ==
  /\ pc[t] = "discover"
  /\ \/ Goto(t, "request") /\ Hold(t, language_observation("Starting", Nothing, tool))
     \/ Goto(t, "idle") /\ UNCHANGED held
  /\ UNCHANGED <<toolVars, session, pending, queue, ledger>>

(* The installer of a confirmed repair reports each status to the ledger. *)
Progress(t) ==
  IF (status' # status \/ pc'[t] = "promoting") /\ t \in Worker
  THEN /\ Observed(IF status' \in {"Installing", "Ready"}
                   THEN language_observation("Starting", status', TRUE) ELSE held[t])
       /\ queue' = <<>>
  ELSE UNCHANGED <<queue, ledger>>

Install(t) ==
  /\ \/ InstallRequested(t)
     \/ InstallClaimed(t)
     \/ InstallEnds(t)
     \/ InstallProbed(t)
     \/ Promote(t)
  /\ Progress(t)
  /\ UNCHANGED <<pending, held>>

(* The install command, outside recovery. *)
DirectInstall(t) ==
  /\ pc[t] = "idle"
  /\ Goto(t, "request")
  /\ UNCHANGED <<toolVars, session, pending, queue, held, ledger>>

-----------------------------------------------------------------------------
(* The tail of both repairs: restart, then verify that it initialized. *)
Restart(t) ==
  /\ RestartRemoves(t) \/ RestartStarts(t)
  /\ UNCHANGED <<toolVars, pending, queue, held, ledger>>

VerifyRuntime(t) ==
  /\ pc[t] = "verify"
  /\ Goto(t, IF Runtime = "Ready" THEN "take_final" ELSE "failed")
  /\ UNCHANGED <<toolVars, session, pending, queue, held, ledger>>

FinishRepair(t) ==
  /\ pc[t] \in {"verified", "failed", "cancelled"}
  /\ IF engine.active = Nothing THEN UNCHANGED ledger
     ELSE /\ engine' = finish_repair(engine, CASE pc[t] = "verified" -> "Verified"
                                               [] pc[t] = "cancelled" -> "Cancelled"
                                               [] pc[t] = "failed" -> "Failed")
          /\ UNCHANGED tried
  /\ Goto(t, "idle")
  /\ UNCHANGED <<toolVars, session, pending, queue, held>>

-----------------------------------------------------------------------------
(* The app dies: threads, tokens and statuses go.  The ledger was saved with
   its last change and is loaded with the attempt that was active; dying before
   that save is dying before the change.  A promotion may be caught with the
   tool moved aside. *)
Crash ==
  /\ pc' = [t \in Thread |-> "idle"]
  /\ pending' = {} /\ queue' = <<>> /\ held' = [t \in Thread |-> Nothing]
  /\ running' = Nothing /\ cancelled' = {} /\ status' = Nothing /\ session' = Nothing
  /\ tool' \in {tool, tool /\ \A t \in Thread : pc[t] # "promoting"}
  /\ UNCHANGED ledger

Environment ==
  /\ ensure_session \/ stop \/ StreamEnds \/ cancel \/ Uninstalled
  /\ UNCHANGED <<pending, queue, held, ledger>>

Next ==
  \/ CheckReads
  \/ repair_preview
  \/ \E t \in Thread : \/ TakeGeneration(t) \/ AppliesObservation(t) \/ BeginRepair(t)
                       \/ Restart(t) \/ VerifyRuntime(t) \/ FinishRepair(t)
  \/ \E w \in Worker : Confirm(w) \/ Discover(w)
  \/ \E d \in Direct : DirectInstall(d)
  \/ \E t \in Installer : Install(t)
  \/ Environment
  \/ Crash

Spec == Init /\ [][Next]_vars

-----------------------------------------------------------------------------
(* Two threads never repair the capability at the same time, although checks
   and confirmations interleave between their look at the record and
   begin_repair. *)
OneRepairAtATime ==
  \A s, t \in Thread : Repairs(s) /\ Repairs(t) => s = t

(* An automatic repair is tried at most twice on an unchanged diagnosis,
   however failed restarts, new sessions and confirmed repairs interleave. *)
AutomaticRepairsBounded == tried <= AUTOMATIC_ATTEMPT_LIMIT

(* A confirmed repair begins only while its install is offered: the diagnosis
   the user reviewed has not been replaced between the token and begin_repair. *)
RepairsWhatWasReviewed ==
  [][\A w \in Worker : pc[w] = "begin" /\ pc'[w] = "discover"
       => /\ engine.record.revision.code = "MissingExecutable"
          /\ engine.active = Nothing]_vars
=============================================================================
