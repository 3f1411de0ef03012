---------------------------- MODULE LanguageTools ----------------------------
(* The installer of managed language servers (language_tools.rs), for one
   recipe, beside the language-server registry of the same server
   (language_server.rs).  Several threads install: the recovery coordinator's
   and those of the install command. *)
EXTENDS RecoveryEngine, FiniteSets

CONSTANTS
  Main,      \* the main thread: sync commands run here, one at a time
  Worker,    \* threads that confirm a recovery
  Direct     \* threads of the install command, outside recovery

Thread == Worker \cup Direct \cup {Main}
Installer == Worker \cup Direct

ASSUME ThreadAssumption ==
  /\ Main \notin Installer /\ Worker \cap Direct = {}
  /\ IsFiniteSet(Installer)

VARIABLES
  tool,      \* is the executable installed?  (descriptor.availability)
  running,   \* whose cancel flag the running map holds for the recipe
  cancelled, \* threads whose cancel flag is set
  status,    \* last status of the recipe
  session,   \* the registered session of the server, or Nothing
  pc         \* what each thread does next

toolVars == <<tool, running, cancelled, status>>

InstallState == {Nothing, "Installing", "Ready", "Cancelled", "Error"}

(* A session that was inserted is Ready or Error.  "reader" is FALSE once the
   stdout reader has seen the stream end: nothing will set an error again. *)
Session == [state : {"Ready", "Error"}, reader : BOOLEAN]

ToolsTypeOK ==
  /\ tool \in BOOLEAN
  /\ running \in Installer \cup {Nothing}
  /\ cancelled \subseteq Installer
  /\ status \in InstallState
  /\ session \in Session \cup {Nothing}

InitTools ==
  /\ tool \in BOOLEAN /\ running = Nothing /\ cancelled = {} /\ status = Nothing
  /\ session = Nothing

Runtime == IF session = Nothing THEN "NotStarted" ELSE session.state

Goto(t, place) == pc' = [pc EXCEPT ![t] = place]

-----------------------------------------------------------------------------
(* The registry of sessions. *)

(* A start that works.  The process may end between its initialize response
   and set_ready: the reader's set_error is then overwritten. *)
Started == {[state |-> "Ready", reader |-> TRUE], [state |-> "Ready", reader |-> FALSE]}

(* ensure_session: the lock of the registry is held through the start. *)
ensure_session ==
  /\ tool
  /\ Runtime # "Ready"
  /\ session' \in Started
  /\ UNCHANGED <<toolVars, pc>>

stop ==
  /\ session # Nothing
  /\ session' = Nothing
  /\ UNCHANGED <<toolVars, pc>>

(* The server's stream ends: its reader records the error. *)
StreamEnds ==
  /\ session # Nothing /\ session.reader
  /\ session' = [state |-> "Error", reader |-> FALSE]
  /\ UNCHANGED <<toolVars, pc>>

(* restart refuses before it touches the registry when the executable is
   missing; otherwise it takes the old session out and stops it ... *)
RestartRemoves(t) ==
  /\ pc[t] = "restart"
  /\ IF tool THEN session' = Nothing /\ Goto(t, "start")
             ELSE UNCHANGED session /\ Goto(t, "failed")

(* ... and starts the new one outside the lock, replacing whatever was
   registered meanwhile. *)
RestartStarts(t) ==
  /\ pc[t] = "start"
  /\ \/ session' \in Started /\ Goto(t, "verify")
     \/ UNCHANGED session /\ Goto(t, "failed")

-----------------------------------------------------------------------------
(* The installer. *)

(* An install ends for its thread: a recovery goes on, a command returns. *)
Leave(t, place) == Goto(t, IF t \in Direct THEN "idle" ELSE place)

(* install_at_observed up to the running check; claiming the recipe takes the
   lock again, so two threads may both claim it. *)
InstallRequested(t) ==
  /\ pc[t] = "request"
  /\ IF running # Nothing THEN Leave(t, "failed") ELSE Goto(t, "claim")
  /\ UNCHANGED <<toolVars, session>>

InstallClaimed(t) ==
  /\ pc[t] = "claim"
  /\ running' = t /\ status' = "Installing" /\ cancelled' = cancelled \ {t}
  /\ Goto(t, "installing")
  /\ UNCHANGED <<tool, session>>

(* What ends the install command or its probe: cancelled, failed, or an error
   of the runner, which returns early and leaves the status as it is. *)
InstallEnds(t) ==
  /\ pc[t] = "installing"
  /\ \/ t \in cancelled /\ status' = "Cancelled" /\ Leave(t, "cancelled")
     \/ t \notin cancelled /\ status' = "Error" /\ Leave(t, "failed")
     \/ UNCHANGED status /\ Leave(t, "failed")
  /\ running' = Nothing
  /\ UNCHANGED <<tool, cancelled, session>>

(* The command and its probe have worked: the status is "Installing" again,
   whatever another installer has made of it. *)
InstallProbed(t) ==
  /\ pc[t] = "installing" /\ t \notin cancelled
  /\ status' = "Installing"
  /\ Goto(t, "promoting")
  /\ UNCHANGED <<tool, running, cancelled, session>>

(* promote_directory: the old tree is moved aside, the new one moved in; when
   that fails the old one is moved back.  A failure to remove the old tree
   afterwards is reported although the new one is in place. *)
Promote(t) ==
  /\ pc[t] = "promoting"
  /\ running' = Nothing
  /\ \/ tool' = TRUE /\ status' = "Ready" /\ Leave(t, "restart")
     \/ tool' \in {tool, TRUE} /\ UNCHANGED status /\ Leave(t, "failed")
  /\ UNCHANGED <<cancelled, session>>

cancel ==
  /\ running # Nothing
  /\ cancelled' = cancelled \cup {running}
  /\ UNCHANGED <<tool, running, status, session, pc>>

(* The user removes the executable (or it leaves PATH). *)
Uninstalled == tool /\ tool' = FALSE /\ UNCHANGED <<running, cancelled, status, session, pc>>
=============================================================================
