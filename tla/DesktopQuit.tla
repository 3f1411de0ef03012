----------------------------- MODULE DesktopQuit -----------------------------
(* Quitting while the editor is in use: the quit coordinator composed with the
   editor's drafts.  The handler of an acknowledged request flushes the drafts
   and then completes; when the flush fails it cancels. *)
EXTENDS SafeQuit, EditorDrafts

ASSUME FlusherAssumption == Request \subseteq Flusher /\ Timer \notin Request

desktopVars == <<quitVars, editorVars>>

DesktopTypeOK == QuitTypeOK /\ EditorTypeOK

DesktopInit == QuitInit /\ EditorInit

Alive == exited = "no"

(* The handler starts its flush when safe_quit_ack has returned. *)
HandlerFlushes(r) ==
  /\ Alive /\ handler[r] = "flushing" /\ step[r] = "idle"
  /\ FlushStarts(r)
  /\ UNCHANGED quitVars

HandlerResumes(r) ==
  /\ Alive /\ FlushResumes(r) /\ UNCHANGED quitVars

HandlerAnswers(r) ==
  /\ Alive /\ step[r] \in {"done", "failed"}
  /\ FlushAnswers(r, IF step[r] = "done" THEN "flushed" ELSE "failed")
  /\ UNCHANGED <<atomics, requesting, fallback, exited, heard, editorVars>>

(* The debounce timer rings; ringing again joins a flush under way. *)
TimerFlushes ==
  /\ Alive
  /\ (timer /\ FlushStarts(Timer)) \/ FlushResumes(Timer)
  /\ UNCHANGED quitVars

(* A text typed after the last pass of a handler's flush is not waited for, not
   even while the flush awaits writes that others have queued. *)
UserTypes ==
  /\ Alive
  /\ Type(\A r \in Request : step[r] \in {"tail", "done"} => handler[r] \in {"failed", "done"})
  /\ UNCHANGED quitVars

Edit == Alive /\ EditorStep /\ UNCHANGED quitVars

Quit == QuitStep /\ UNCHANGED editorVars

DesktopNext ==
  \/ Quit
  \/ \E r \in Request : HandlerFlushes(r) \/ HandlerResumes(r) \/ HandlerAnswers(r)
  \/ TimerFlushes
  \/ UserTypes
  \/ Edit

DesktopSpec == DesktopInit /\ [][DesktopNext]_desktopVars

-----------------------------------------------------------------------------
(* A quit that completes leaves no edit behind: the text of a dirty tab is in
   its draft or in the file, unless the user gave it up, typed it while a save
   or close was under way or after the last pass of the flush. *)
QuitKeepsEdits ==
  exited = "completed" /\ owed # None
    => disk = owed \/ (draft # None /\ draft.content = owed)

(* The fallback of a request acknowledged before its timer rang does not end the
   app under its flush, unless a newer request was made.  (Between its two loads
   a cancel can still slip in: then it exits after the cancelled quit.) *)
FlushIsNotCutOff ==
  [][\A r \in Request :
       exited = "no" /\ exited' = "forced" /\ fallback[r] = "exiting" /\ fallback'[r] = "done"
       /\ r \in heard /\ next_request_id = r
         => handler[r] = "done"]_desktopVars

(* The persisted draft never goes back to an older text of the tab. *)
DraftsInOrder ==
  [][draft # None /\ draft' # None => draft'.content >= draft.content]_desktopVars

(* The persisted draft of a text that is owed is removed only when the file has
   the text or the user gives it up. *)
DraftOutlivesText ==
  [][draft # None /\ draft' = None /\ draft.content = owed
       => disk = owed \/ owed' = None]_desktopVars
=============================================================================
