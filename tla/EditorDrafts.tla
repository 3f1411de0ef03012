---------------------------- MODULE EditorDrafts ----------------------------
(* One file in the code editor (CodeTab.tsx), the recovery drafts of its unsaved
   text (codeDraftPersistence.ts, code_drafts.rs) and its save
   (code_workspace.rs).  JavaScript runs one continuation at a time; what it
   awaits is done by the backend meanwhile, and the draft writes of the file
   wait for each other.  A text stands for its fingerprint.  At most one save or
   close is in progress. *)
EXTENDS Naturals, Sequences, FiniteSets

CONSTANTS
  None,
  MaxText,      \* bound: texts typed, or written by another program
  Timer,        \* the flush of the debounce timer
  Editor,       \* the save or close in progress
  Flusher       \* who flushes all drafts: the timer and the quit handlers

ASSUME MaxTextAssumption == MaxText \in Nat

Waiter == Flusher \cup {Editor}

Text == 0..MaxText
Draft == [content : Text, base : Text]
Tab == [content : Text, base : Text, dirty : BOOLEAN]
Job == [kind : {"save", "close"}, content : Text, base : Text]

ASSUME EditorNoneAssumption == None \notin Draft \cup Tab \cup Job
ASSUME EditorAssumption == Timer \in Flusher /\ Editor \notin Flusher

(* A queued draft write; "staged" while its version is the staged one. *)
Write == [content : Text, base : Text, staged : BOOLEAN]

VARIABLES
  disk,      \* the file
  draft,     \* the persisted draft, or None
  tab,       \* the open tab, or None
  typed,     \* the last text there has been
  staged,    \* the staged snapshot, or None
  chain,     \* queued draft writes, the first one in flight
  timer,     \* is the debounce timer armed?
  step,      \* what each flush and the save or close does next
  left,      \* how many queued writes each still awaits
  result,    \* did the awaited write work?
  job,       \* the save or close in progress, or None
  owed       \* (history) the text the editor must not lose, or None

editorVars == <<disk, draft, tab, typed, staged, chain, timer, step, left, result, job, owed>>
waits == <<step, left, result>>

Step == {"idle", "batch", "tail", "done", "failed", "save", "discard", "delete"}

EditorTypeOK ==
  /\ disk \in Text /\ typed \in Text
  /\ draft \in Draft \cup {None} /\ staged \in Draft \cup {None}
  /\ tab \in Tab \cup {None} /\ job \in Job \cup {None}
  /\ chain \in Seq(Write)
  /\ timer \in BOOLEAN
  /\ step \in [Waiter -> Step] /\ result \in [Waiter -> BOOLEAN]
  /\ left \in [Waiter -> Nat] /\ \A w \in Waiter : left[w] <= Len(chain)
  /\ owed \in Text \cup {None}
  /\ job = None <=> step[Editor] = "idle"

EditorInit ==
  /\ disk = 0 /\ typed \in 1..MaxText
  /\ draft \in {None, [content |-> 1, base |-> 0], [content |-> 1, base |-> 1]}
  /\ tab = None /\ staged = None /\ chain = <<>> /\ timer = FALSE /\ job = None
  /\ step = [w \in Waiter |-> "idle"] /\ left = [w \in Waiter |-> 0]
  /\ result = [w \in Waiter |-> TRUE]
  /\ owed = IF draft = None THEN None ELSE draft.content

-----------------------------------------------------------------------------
(* Staging: a new snapshot gets a new version and arms the timer. *)

Snapshot(t) == [content |-> t.content, base |-> t.base]
Outdated == [i \in 1..Len(chain) |-> [chain[i] EXCEPT !.staged = FALSE]]

Stage(t) ==
  /\ timer' = TRUE
  /\ IF staged = Snapshot(t) THEN UNCHANGED <<staged, chain>>
     ELSE staged' = Snapshot(t) /\ chain' = Outdated

Unstage == staged' = None /\ chain' = Outdated /\ timer' = FALSE

(* A waiter goes on once n more writes have ended; with none it goes on at once. *)
Await(w, place, n) ==
  /\ step' = [step EXCEPT ![w] = place]
  /\ left' = [left EXCEPT ![w] = n]
  /\ result' = [result EXCEPT ![w] = TRUE]

Queued == Append(chain, [content |-> staged.content, base |-> staged.base, staged |-> TRUE])

(* Mutant: a write that works unstages whatever is staged by then. *)
WriteUnstagesAll(works) ==
  /\ chain # <<>>
  /\ IF works THEN /\ draft' = [content |-> Head(chain).content, base |-> Head(chain).base]
                   /\ staged' = None
                   /\ chain' = [i \in 1..(Len(chain) - 1) |->
                                  [chain[i + 1] EXCEPT !.staged = FALSE]]
              ELSE chain' = Tail(chain) /\ UNCHANGED <<draft, staged>>
  /\ left' = [w \in Waiter |-> IF left[w] > 0 THEN left[w] - 1 ELSE 0]
  /\ result' = [w \in Waiter |-> IF left[w] > 0 THEN works ELSE result[w]]
  /\ UNCHANGED <<disk, tab, typed, timer, step, job, owed>>

(* Mutant: writes do not wait for each other. *)
WriteEndsAnyOrder(works) ==
  \E i \in 1..Len(chain) :
    /\ IF works /\ chain[i].staged THEN staged' = None ELSE UNCHANGED staged
    /\ chain' = SubSeq(chain, 1, i - 1) \o SubSeq(chain, i + 1, Len(chain))
    /\ draft' = IF works THEN Snapshot(chain[i]) ELSE draft
    /\ left' = [w \in Waiter |-> IF left[w] > 0 THEN left[w] - 1 ELSE 0]
    /\ result' = [w \in Waiter |-> IF left[w] > 0 THEN works ELSE result[w]]
    /\ UNCHANGED <<disk, tab, typed, timer, step, job, owed>>

(* The write in flight ends: it unstages its own version only; when it fails
   the next one is tried all the same. *)
WriteEnds(works) ==
  /\ chain # <<>>
  /\ IF works /\ Head(chain).staged
     THEN staged' = None /\ chain' = Tail(Outdated)
     ELSE UNCHANGED staged /\ chain' = Tail(chain)
  /\ draft' = IF works THEN Snapshot(Head(chain)) ELSE draft
  /\ left' = [w \in Waiter |-> IF left[w] > 0 THEN left[w] - 1 ELSE 0]
  /\ result' = [w \in Waiter |-> IF left[w] > 0 THEN works ELSE result[w]]
  /\ UNCHANGED <<disk, tab, typed, timer, step, job, owed>>

-----------------------------------------------------------------------------
Ended(f) == IF f = Timer THEN "idle" ELSE "done"
Rejected(f) == IF f = Timer THEN "idle" ELSE "failed"

(* flushCodeWorkspaceDrafts: write what is staged until nothing is, then await
   the writes still queued. *)
FlushPass(f) ==
  IF staged # None THEN chain' = Queued /\ Await(f, "batch", Len(Queued))
  ELSE UNCHANGED chain /\ Await(f, IF chain = <<>> THEN Ended(f) ELSE "tail", Len(chain))

FlushStarts(f) ==
  /\ FlushPass(f)
  /\ timer' = FALSE
  /\ UNCHANGED <<disk, draft, tab, typed, staged, job, owed>>

FlushResumes(f) ==
  /\ step[f] \in {"batch", "tail"} /\ left[f] = 0
  /\ IF result[f] /\ step[f] = "batch" THEN FlushPass(f)
     ELSE UNCHANGED chain /\ Await(f, IF result[f] THEN Ended(f) ELSE Rejected(f), 0)
  /\ UNCHANGED <<disk, draft, tab, typed, staged, timer, job, owed>>

-----------------------------------------------------------------------------
(* The tab. *)

(* Opening reads the file and its draft: a draft of the file's own text is
   dropped, one of its base restored, another restored or discarded. *)
OpenFile ==
  /\ tab = None /\ job = None /\ chain = <<>>
  /\ \/ /\ draft = None
        /\ tab' = [content |-> disk, base |-> disk, dirty |-> FALSE]
        /\ UNCHANGED <<draft, staged, chain, timer, owed>>
     \/ /\ draft # None /\ draft.content = disk
        /\ draft' = None
        /\ tab' = [content |-> disk, base |-> disk, dirty |-> FALSE]
        /\ UNCHANGED <<staged, chain, timer, owed>>
     \/ /\ draft # None /\ draft.content # disk
        /\ tab' = [content |-> draft.content, base |-> disk, dirty |-> TRUE]
        /\ Stage(tab')
        /\ owed' = draft.content
        /\ UNCHANGED draft
     \/ /\ draft # None /\ draft.content # disk /\ draft.base # disk
        /\ Unstage
        /\ tab' = [content |-> disk, base |-> disk, dirty |-> FALSE]
        /\ draft' = None /\ owed' = None
  /\ UNCHANGED <<disk, typed, waits, job>>

(* Typing; the effect on the tabs stages the text. *)
Type(promised) ==
  /\ tab # None /\ typed < MaxText
  /\ typed' = typed + 1
  /\ tab' = [tab EXCEPT !.content = typed', !.dirty = TRUE]
  /\ Stage(tab')
  /\ owed' = IF promised /\ job = None THEN typed' ELSE None
  /\ UNCHANGED <<disk, draft, waits, job>>

(* Another tab changes: the effect stages every dirty tab again. *)
OtherTabChanges ==
  /\ tab # None /\ tab.dirty /\ staged = None
  /\ Stage(tab)
  /\ UNCHANGED <<disk, draft, tab, typed, waits, job, owed>>

ExternalEdit ==
  /\ typed < MaxText
  /\ typed' = typed + 1 /\ disk' = typed'
  /\ UNCHANGED <<draft, tab, staged, chain, timer, waits, job, owed>>

-----------------------------------------------------------------------------
(* discardCodeWorkspaceDraft: unstage, await the queued writes, delete. *)
Discard == Unstage /\ Await(Editor, IF chain = <<>> THEN "delete" ELSE "discard", Len(chain))

EndJob == job' = None /\ Await(Editor, "idle", 0)

(* The end of a save: the tab is replaced by what was saved. *)
SaveSucceeds ==
  /\ EndJob
  /\ tab' = [content |-> job.content, base |-> job.content, dirty |-> FALSE]
  /\ owed' = IF tab.content = job.content THEN owed ELSE None

(* save: flush this file's draft first ... *)
SaveStarts ==
  /\ job = None /\ tab # None /\ tab.dirty
  /\ job' = [kind |-> "save", content |-> tab.content, base |-> tab.base]
  /\ IF staged # None
     THEN /\ chain' = Queued /\ timer' = FALSE
          /\ Await(Editor, "batch", Len(Queued))
     ELSE /\ UNCHANGED chain /\ timer' = FALSE
          /\ Await(Editor, IF chain = <<>> THEN "save" ELSE "tail", Len(chain))
  /\ UNCHANGED <<disk, draft, tab, typed, staged, owed>>

SaveResumes ==
  /\ job # None /\ step[Editor] \in {"batch", "tail"} /\ left[Editor] = 0
  /\ IF ~result[Editor] THEN EndJob /\ UNCHANGED timer
     ELSE /\ UNCHANGED job
          /\ IF step[Editor] = "batch" /\ chain # <<>>
             THEN Await(Editor, "tail", Len(chain)) /\ UNCHANGED timer
             ELSE Await(Editor, "save", 0) /\ timer' = (staged # None)
  /\ UNCHANGED <<disk, draft, tab, typed, staged, chain, owed>>

(* Mutant: a save whose file changed drops the draft all the same. *)
SaveDiscardsAlways ==
  /\ step[Editor] = "save"
  /\ disk' = IF disk = job.base THEN job.content ELSE disk
  /\ Discard
  /\ UNCHANGED <<draft, tab, typed, job, owed>>

(* ... then replace the file if it is still the one the tab was opened from. *)
SaveDocument ==
  /\ step[Editor] = "save"
  /\ \/ /\ disk = job.base
        /\ disk' = job.content
        /\ owed' = IF owed = job.content THEN None ELSE owed
        /\ Discard
        /\ UNCHANGED job
     \/ EndJob /\ UNCHANGED <<disk, staged, chain, timer, owed>>
  /\ UNCHANGED <<draft, tab, typed>>

(* Closing a dirty tab: the user gives its text up. *)
CloseTab ==
  /\ job = None /\ tab # None
  /\ IF tab.dirty
     THEN /\ job' = [kind |-> "close", content |-> tab.content, base |-> tab.base]
          /\ Discard
          /\ owed' = None
          /\ UNCHANGED tab
     ELSE tab' = None /\ UNCHANGED <<job, waits, staged, chain, timer, owed>>
  /\ UNCHANGED <<disk, draft, typed>>

DiscardResumes ==
  /\ step[Editor] = "discard" /\ left[Editor] = 0
  /\ \/ result[Editor] /\ Await(Editor, "delete", 0) /\ UNCHANGED <<job, tab, owed>>
     \/ ~result[Editor] /\ job.kind = "save" /\ SaveSucceeds
     \/ ~result[Editor] /\ job.kind = "close" /\ EndJob /\ UNCHANGED <<tab, owed>>
  /\ UNCHANGED <<disk, draft, typed, staged, chain, timer>>

(* The draft is deleted, or that fails. *)
DeleteDraft ==
  /\ step[Editor] = "delete"
  /\ draft' \in {None, draft}
  /\ \/ job.kind = "save" /\ SaveSucceeds
     \/ /\ job.kind = "close" /\ EndJob
        /\ \/ tab' = None /\ owed' = None
           \/ draft' # None /\ UNCHANGED <<tab, owed>>
  /\ UNCHANGED <<disk, typed, staged, chain, timer>>

EditorStep ==
  \/ \E works \in BOOLEAN : WriteEnds(works)
  \/ OpenFile \/ OtherTabChanges \/ ExternalEdit
  \/ SaveStarts \/ SaveResumes \/ SaveDocument \/ CloseTab \/ DiscardResumes \/ DeleteDraft
=============================================================================
