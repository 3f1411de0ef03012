------------------------------ MODULE SafeQuit ------------------------------
(* The quit coordinator (quit.rs) and the handler of its event (App.tsx).
   Commands and tray events run one at a time on the main thread; each request
   has a fallback thread that sleeps, loads the two atomics one after the other
   and exits.  The flush between acknowledgement and completion is left to the
   module that composes this one with the editor. *)
EXTENDS Naturals, FiniteSets

CONSTANT MaxRequests      \* bound: quit requests

ASSUME MaxRequestsAssumption == MaxRequests \in Nat

Request == 1..MaxRequests

VARIABLES
  next_request_id,
  pending_request_id,
  acknowledged_request_id,
  requesting,    \* main is inside request_safe_quit, before pending is stored
  fallback,      \* the fallback thread of each request
  handler,       \* the frontend's handler of each request
  exited,        \* "no", "forced" or "completed"
  heard          \* (history) requests acknowledged before their timer rang

quitVars == <<next_request_id, pending_request_id, acknowledged_request_id,
              requesting, fallback, handler, exited, heard>>
atomics == <<next_request_id, pending_request_id, acknowledged_request_id>>

Fallback == {"none", "sleeping", "unacknowledged", "exiting", "done"}
Handler == {"none", "event", "flushing", "flushed", "failed", "done"}

QuitTypeOK ==
  /\ next_request_id \in 0..MaxRequests
  /\ pending_request_id \in 0..MaxRequests /\ acknowledged_request_id \in 0..MaxRequests
  /\ requesting \in BOOLEAN
  /\ fallback \in [Request -> Fallback] /\ handler \in [Request -> Handler]
  /\ exited \in {"no", "forced", "completed"}
  /\ heard \subseteq Request

(* Earlier requests may have been answered. *)
QuitInit ==
  /\ next_request_id \in 0..MaxRequests
  /\ pending_request_id = 0 /\ acknowledged_request_id = 0
  /\ requesting = FALSE
  /\ fallback = [r \in Request |-> IF r <= next_request_id THEN "done" ELSE "none"]
  /\ handler = fallback
  /\ exited = "no" /\ heard = {}

MainIdle == exited = "no" /\ ~requesting

(* request: the fallback threads of earlier requests may run between its two
   stores. *)
RequestClearsAck ==
  /\ MainIdle /\ next_request_id < MaxRequests
  /\ next_request_id' = next_request_id + 1
  /\ acknowledged_request_id' = 0
  /\ requesting' = TRUE
  /\ UNCHANGED <<pending_request_id, fallback, handler, exited, heard>>

(* The event reaches the handler unless the window is gone. *)
RequestStoresPending ==
  /\ requesting
  /\ pending_request_id' = next_request_id
  /\ requesting' = FALSE
  /\ fallback' = [fallback EXCEPT ![next_request_id] = "sleeping"]
  /\ handler' \in {handler, [handler EXCEPT ![next_request_id] = "event"]}
  /\ UNCHANGED <<next_request_id, acknowledged_request_id, exited, heard>>

safe_quit_ack(r) ==
  /\ MainIdle /\ handler[r] = "event"
  /\ IF pending_request_id = r
     THEN /\ acknowledged_request_id' = r
          /\ handler' = [handler EXCEPT ![r] = "flushing"]
          /\ heard' = IF fallback[r] = "sleeping" THEN heard \cup {r} ELSE heard
     ELSE /\ handler' = [handler EXCEPT ![r] = "done"]
          /\ UNCHANGED <<acknowledged_request_id, heard>>
  /\ UNCHANGED <<next_request_id, pending_request_id, requesting, fallback, exited>>

(* The flush ends: the handler goes on with complete or cancel. *)
FlushAnswers(r, result) ==
  /\ handler[r] = "flushing"
  /\ handler' = [handler EXCEPT ![r] = result]

Complete(r) == pending_request_id = r /\ acknowledged_request_id = r

safe_quit_complete(r) ==
  /\ MainIdle /\ handler[r] = "flushed"
  /\ IF Complete(r)
     THEN /\ pending_request_id' = 0 /\ acknowledged_request_id' = 0
          /\ exited' = "completed"
          /\ UNCHANGED handler
     ELSE /\ handler' = [handler EXCEPT ![r] = "failed"]
          /\ UNCHANGED <<pending_request_id, acknowledged_request_id, exited>>
  /\ UNCHANGED <<next_request_id, requesting, fallback, heard>>

safe_quit_cancel(r) ==
  /\ MainIdle /\ handler[r] = "failed"
  /\ IF pending_request_id = r
     THEN pending_request_id' = 0 /\ acknowledged_request_id' = 0
     ELSE UNCHANGED <<pending_request_id, acknowledged_request_id>>
  /\ handler' = [handler EXCEPT ![r] = "done"]
  /\ UNCHANGED <<next_request_id, requesting, fallback, exited, heard>>

-----------------------------------------------------------------------------
(* The fallback thread of r. *)
Wakes(r, from, to) ==
  /\ exited = "no" /\ fallback[r] = from
  /\ fallback' = [fallback EXCEPT ![r] = to]
  /\ UNCHANGED <<atomics, requesting, handler, heard>>

TimerRings(r) ==
  Wakes(r, "sleeping", IF pending_request_id = r THEN "unacknowledged" ELSE "done")
    /\ UNCHANGED exited

(* Mutant: the acknowledgement is not looked at. *)
LoadsNothing(r) == Wakes(r, "unacknowledged", "exiting") /\ UNCHANGED exited

LoadsAcknowledged(r) ==
  Wakes(r, "unacknowledged", IF acknowledged_request_id # r THEN "exiting" ELSE "done")
    /\ UNCHANGED exited

Exits(r) == Wakes(r, "exiting", "done") /\ exited' = "forced"

FallbackStep(r) ==
  TimerRings(r) \/ LoadsAcknowledged(r) \/ Exits(r)

QuitStep ==
  \/ RequestClearsAck
  \/ RequestStoresPending
  \/ \E r \in Request : \/ safe_quit_ack(r) \/ safe_quit_complete(r) \/ safe_quit_cancel(r)
                        \/ FallbackStep(r)
=============================================================================
