---------------------------- MODULE DesktopProofs ----------------------------
(* Theorems about what the desktop keeps on disk for its user: the drafts of the
   editor through a quit (DesktopQuit), then the database through imports and a
   restore, with the cache over it (ProjectionCache).  They hold for any number of
   quit requests, texts, threads, Work Items, events, backups, restores and faults. *)
EXTENDS MCDesktop, FiniteSetTheorems, TLAPS

-----------------------------------------------------------------------------
(* Safe quit: every interleaving of the fallback threads, the handlers and the editor. *)

(* A request that does not exist yet, or whose pending id is not stored yet. *)
Unborn(r) == r > next_request_id \/ (requesting /\ r = next_request_id)

QuitTypeInv ==
  /\ next_request_id \in 0..MaxRequests
  /\ pending_request_id \in 0..next_request_id
  /\ fallback \in [Request -> Fallback] /\ handler \in [Request -> Handler]
  /\ exited \in {"no", "forced", "completed"}
  /\ heard \subseteq Request

UnbornInv ==
  \A r \in Request : Unborn(r) =>
    fallback[r] = "none" /\ handler[r] = "none" /\ r \notin heard /\ pending_request_id # r

(* While the latest request, heard in time, has not been given up, its two ids
   stay in place and its fallback does not decide to exit. *)
FlushInv ==
  \A r \in heard : exited = "no" /\ r = next_request_id /\ handler[r] # "done" =>
    /\ pending_request_id = r /\ acknowledged_request_id = r
    /\ fallback[r] # "exiting"

QuitInv == QuitTypeInv /\ UnbornInv /\ FlushInv

-----------------------------------------------------------------------------
LEMMA QuitInitInv == DesktopInit => QuitInv
BY MaxRequestsAssumption
   DEF DesktopInit, QuitInit, QuitInv, QuitTypeInv, UnbornInv, FlushInv, Unborn, Request, Fallback, Handler

LEMMA RequestKeeps ==
  ASSUME QuitInv, RequestClearsAck \/ RequestStoresPending
  PROVE  QuitInv'
<1>1. CASE RequestClearsAck
  BY <1>1, MaxRequestsAssumption
     DEF RequestClearsAck, MainIdle, QuitInv, QuitTypeInv, UnbornInv, FlushInv, Unborn, Request
<1>2. CASE RequestStoresPending
  <2>1. next_request_id \in Request \/ next_request_id = 0
    BY MaxRequestsAssumption DEF QuitInv, QuitTypeInv, Request
  <2>2. /\ fallback' \in [Request -> Fallback] /\ handler' \in [Request -> Handler]
        /\ \A r \in Request \ {next_request_id} : fallback'[r] = fallback[r] /\ handler'[r] = handler[r]
    BY <1>2 DEF RequestStoresPending, QuitInv, QuitTypeInv, Fallback, Handler
  <2>3. QED
    BY <1>2, <2>1, <2>2, MaxRequestsAssumption
       DEF RequestStoresPending, QuitInv, QuitTypeInv, UnbornInv, FlushInv, Unborn, Request
<1>3. QED
  BY <1>1, <1>2

LEMMA AnswersKeep ==
  ASSUME QuitInv, NEW r \in Request,
         safe_quit_ack(r) \/ safe_quit_complete(r) \/ safe_quit_cancel(r)
  PROVE  QuitInv'
<1> USE MaxRequestsAssumption
    DEF QuitInv, QuitTypeInv, UnbornInv, FlushInv, Unborn, Request, MainIdle, Handler
<1>1. CASE safe_quit_ack(r)
  <2>1. QuitTypeInv'
    BY <1>1 DEF safe_quit_ack
  <2>2. UnbornInv'
    BY <1>1 DEF safe_quit_ack
  <2>3. FlushInv'
    <3> SUFFICES ASSUME NEW q \in heard', exited' = "no", q = next_request_id', handler'[q] # "done"
                 PROVE  /\ pending_request_id' = q /\ acknowledged_request_id' = q
                        /\ fallback'[q] # "exiting"
      OBVIOUS
    <3>1. CASE pending_request_id = r
      <4>1. CASE q = r
        BY <1>1, <3>1, <4>1 DEF safe_quit_ack
      <4>2. CASE q # r
        BY <1>1, <3>1, <4>2 DEF safe_quit_ack
      <4>3. QED
        BY <4>1, <4>2
    <3>2. CASE pending_request_id # r
      BY <1>1, <3>2 DEF safe_quit_ack
    <3>3. QED
      BY <3>1, <3>2
  <2>4. QED
    BY <2>1, <2>2, <2>3
<1>2. CASE safe_quit_complete(r)
  BY <1>2 DEF safe_quit_complete, Complete
<1>3. CASE safe_quit_cancel(r)
  BY <1>3 DEF safe_quit_cancel
<1>4. QED
  BY <1>1, <1>2, <1>3

LEMMA FallbackKeeps ==
  ASSUME QuitInv, NEW r \in Request, FallbackStep(r)
  PROVE  QuitInv'
<1> USE MaxRequestsAssumption
    DEF QuitInv, QuitTypeInv, UnbornInv, FlushInv, Unborn, Request, Wakes, atomics, Fallback
<1>1. CASE TimerRings(r)
  BY <1>1 DEF TimerRings
<1>2. CASE LoadsAcknowledged(r)
  BY <1>2 DEF LoadsAcknowledged
<1>3. CASE Exits(r)
  BY <1>3 DEF Exits
<1>4. QED
  BY <1>1, <1>2, <1>3 DEF FallbackStep

LEMMA HandlerKeeps ==
  ASSUME QuitInv, NEW r \in Request, HandlerAnswers(r)
  PROVE  QuitInv'
<1>1. PICK answer \in {"flushed", "failed"} : FlushAnswers(r, answer)
  BY DEF HandlerAnswers
<1>2. handler[r] = "flushing"
  BY <1>1 DEF FlushAnswers
<1>3. handler' = [handler EXCEPT ![r] = answer]
  BY <1>1 DEF FlushAnswers
<1>4. UNCHANGED <<atomics, requesting, fallback, exited, heard>>
  BY DEF HandlerAnswers
<1>5. QED
  BY <1>2, <1>3, <1>4, MaxRequestsAssumption
     DEF QuitInv, QuitTypeInv, UnbornInv, FlushInv, Unborn, Request, atomics, Handler

LEMMA QuitInvKept == QuitInv /\ [DesktopNext]_desktopVars => QuitInv'
<1> SUFFICES ASSUME QuitInv, [DesktopNext]_desktopVars PROVE QuitInv'
  OBVIOUS
<1>1. CASE UNCHANGED quitVars
  BY <1>1 DEF quitVars, QuitInv, QuitTypeInv, UnbornInv, FlushInv, Unborn
<1>2. CASE Quit
  BY <1>2, RequestKeeps, AnswersKeep, FallbackKeeps DEF Quit, QuitStep
<1>3. CASE \E r \in Request : HandlerAnswers(r)
  BY <1>3, HandlerKeeps
<1>4. QED
  BY <1>1, <1>2, <1>3 DEF DesktopNext, HandlerFlushes, HandlerResumes, TimerFlushes, UserTypes, Edit, desktopVars

(* The latest request, acknowledged before its timer rang, is not cut off by
   its own fallback, whatever the two atomics go through for other requests
   (quit.rs, should_force_exit). *)
THEOREM FlushNotCutOff == DesktopSpec => FlushIsNotCutOff
<1> DEFINE A == \A r \in Request :
         exited = "no" /\ exited' = "forced" /\ fallback[r] = "exiting" /\ fallback'[r] = "done"
         /\ r \in heard /\ next_request_id = r
           => handler[r] = "done"
<1>1. QuitInv => A
  BY DEF QuitInv, FlushInv
<1>2. QED
  BY <1>1, QuitInitInv, QuitInvKept, PTL DEF DesktopSpec, FlushIsNotCutOff
-----------------------------------------------------------------------------
(* The editor. *)

LEMMA OutdatedFacts ==
  ASSUME chain \in Seq(Write)
  PROVE  /\ Outdated \in Seq(Write) /\ Len(Outdated) = Len(chain)
         /\ \A i \in 1..Len(chain) : Outdated[i].content = chain[i].content
<1>1. \A i \in 1..Len(chain) : [chain[i] EXCEPT !.staged = FALSE] \in Write
                              /\ [chain[i] EXCEPT !.staged = FALSE].content = chain[i].content
  <2>1. \A entry \in Write : /\ [entry EXCEPT !.staged = FALSE] \in Write
                             /\ [entry EXCEPT !.staged = FALSE].content = entry.content
    BY DEF Write
  <2>2. \A i \in 1..Len(chain) : chain[i] \in Write
    OBVIOUS
  <2>3. QED
    BY <2>1, <2>2
<1>2. Len(chain) \in Nat
  OBVIOUS
<1>3. Outdated \in [1..Len(chain) -> Write]
  BY <1>1 DEF Outdated
<1>4. Outdated \in Seq(Write) /\ Len(Outdated) = Len(chain)
  BY <1>2, <1>3
<1>5. QED
  BY <1>1, <1>4 DEF Outdated

LEMMA QueuedFacts ==
  ASSUME chain \in Seq(Write), staged \in Draft
  PROVE  /\ Queued \in Seq(Write) /\ Len(Queued) = Len(chain) + 1
         /\ \A i \in 1..Len(chain) : Queued[i] = chain[i]
         /\ Queued[Len(chain) + 1].content = staged.content
<1>1. [content |-> staged.content, base |-> staged.base, staged |-> TRUE] \in Write
  BY DEF Draft, Write
<1>2. QED
  BY <1>1 DEF Queued

LEMMA AwaitFacts ==
  ASSUME EditorTypeOK, NEW w \in Waiter, NEW place \in Step, NEW n \in Nat, Await(w, place, n)
  PROVE  /\ step' \in [Waiter -> Step] /\ step'[w] = place
         /\ \A v \in Waiter \ {w} : step'[v] = step[v]
         /\ left' \in [Waiter -> Nat] /\ left'[w] = n
         /\ \A v \in Waiter \ {w} : left'[v] = left[v]
         /\ result' \in [Waiter -> BOOLEAN]
BY DEF Await, EditorTypeOK

LEMMA EditorInitType == DesktopInit => EditorTypeOK
<1> SUFFICES ASSUME DesktopInit PROVE EditorTypeOK
  OBVIOUS
<1>1. MaxText \in Nat /\ MaxText >= 1
  BY MaxTextAssumption DEF DesktopInit, EditorInit
<1>2. chain = <<>> /\ chain \in Seq(Write)
  BY DEF DesktopInit, EditorInit
<1>3. draft \in Draft \cup {None} /\ owed \in Text \cup {None}
  <2>1. [content |-> 1, base |-> 0] \in Draft /\ [content |-> 1, base |-> 1] \in Draft
    BY <1>1 DEF Draft, Text
  <2>2. QED
    BY <1>1, <2>1 DEF DesktopInit, EditorInit, Text
<1>4. /\ step \in [Waiter -> Step] /\ step[Editor] = "idle"
      /\ left \in [Waiter -> Nat] /\ result \in [Waiter -> BOOLEAN]
      /\ \A w \in Waiter : left[w] = 0
  BY DEF DesktopInit, EditorInit, Waiter, Step
<1>5. \A w \in Waiter : left[w] <= Len(chain)
  BY <1>2, <1>4
<1>6. /\ timer \in BOOLEAN /\ tab = None /\ staged = None /\ job = None
      /\ disk \in Text /\ typed \in Text
  <2>1. timer \in BOOLEAN /\ tab = None /\ staged = None /\ job = None
    BY DEF DesktopInit, EditorInit
  <2>2. disk \in Text /\ typed \in Text
    BY <1>1 DEF DesktopInit, EditorInit, Text
  <2>3. QED
    BY <2>1, <2>2
<1>7. tab \in Tab \cup {None} /\ staged \in Draft \cup {None} /\ job \in Job \cup {None}
  BY <1>6
<1>8. job = None <=> step[Editor] = "idle"
  BY <1>4, <1>6
<1>9. QED
  BY <1>2, <1>3, <1>4, <1>5, <1>6, <1>7, <1>8 DEF EditorTypeOK

-----------------------------------------------------------------------------
(* Texts grow along the way a text takes: from the tab it is staged, queued and
   written.  Nothing on the way is older than what is ahead of it. *)

Above(n) ==
  /\ draft # None => draft.content <= n
  /\ \A i \in 1..Len(chain) : chain[i].content <= n

OrderInv ==
  /\ \A i, j \in 1..Len(chain) : i <= j => chain[i].content <= chain[j].content
  /\ draft # None => \A i \in 1..Len(chain) : draft.content <= chain[i].content
  /\ staged # None => Above(staged.content) /\ staged.content <= typed
  /\ tab # None /\ tab.dirty =>
       /\ Above(tab.content) /\ tab.content <= typed
       /\ staged # None => staged.content <= tab.content
  /\ Above(typed)

EditInv == EditorTypeOK /\ OrderInv

WaitsOK ==
  /\ step \in [Waiter -> Step] /\ result \in [Waiter -> BOOLEAN]
  /\ left \in [Waiter -> Nat] /\ \A w \in Waiter : left[w] <= Len(chain)

LEMMA AwaitKeeps ==
  ASSUME EditorTypeOK, NEW w \in Waiter, NEW place \in Step, NEW n \in Nat,
         Await(w, place, n), chain' \in Seq(Write), Len(chain) <= Len(chain'), n <= Len(chain')
  PROVE  /\ WaitsOK' /\ step'[w] = place
         /\ w # Editor => step'[Editor] = step[Editor]
<1>1. Len(chain) \in Nat /\ Len(chain') \in Nat /\ Editor \in Waiter
  BY DEF EditorTypeOK, Waiter
<1>2. \A v \in Waiter : left'[v] <= Len(chain')
  <2>1. left'[w] = n
    BY AwaitFacts
  <2>2. ASSUME NEW v \in Waiter \ {w} PROVE left'[v] <= Len(chain')
    <3>1. left'[v] = left[v] /\ left[v] \in Nat /\ left[v] <= Len(chain)
      BY AwaitFacts DEF EditorTypeOK
    <3>2. QED
      BY <1>1, <3>1
  <2>3. QED
    BY <2>1, <2>2
<1>3. QED
  BY <1>1, <1>2, AwaitFacts DEF WaitsOK

LEMMA Contents ==
  ASSUME EditorTypeOK
  PROVE  /\ typed \in Nat /\ Len(chain) \in Nat
         /\ draft # None => draft.content \in Nat
         /\ staged # None => staged.content \in Nat
         /\ tab # None => tab.content \in Nat
         /\ \A i \in 1..Len(chain) : chain[i].content \in Nat
<1>1. \A n \in Text : n \in Nat
  BY MaxTextAssumption DEF Text
<1>2. ASSUME NEW i \in 1..Len(chain) PROVE chain[i].content \in Nat
  <2>1. chain[i] \in Write
    BY DEF EditorTypeOK
  <2>2. QED
    BY <1>1, <2>1 DEF Write
<1>3. QED
  BY <1>1, <1>2 DEF EditorTypeOK, Draft, Tab

(* Steps that bring no new text on its way. *)
LEMMA OrderKept ==
  ASSUME EditInv,
         Len(chain') = Len(chain),
         \A i \in 1..Len(chain) : chain'[i].content = chain[i].content,
         draft' = draft \/ draft' = None, staged' = staged \/ staged' = None,
         typed' \in Nat, typed <= typed',
         tab' = tab \/ tab' = None \/ tab'.dirty = FALSE
  PROVE  OrderInv'
<1>1. \A n \in Nat : Above(n) => Above(n)'
  BY DEF Above
<1>2. /\ typed \in Nat /\ Len(chain) \in Nat
      /\ draft # None => draft.content \in Nat
      /\ staged # None => staged.content \in Nat
      /\ tab # None => tab.content \in Nat
      /\ \A i \in 1..Len(chain) : chain[i].content \in Nat
  BY Contents DEF EditInv
<1>3. Above(typed)'
  <2>1. Above(typed')
    BY <1>2 DEF EditInv, OrderInv, Above
  <2>2. QED
    BY <1>1, <2>1
<1>4. staged' # None => Above(staged.content)' /\ staged'.content <= typed'
  BY <1>1, <1>2 DEF EditInv, OrderInv
<1>5. tab' # None /\ tab'.dirty =>
        /\ Above(tab.content)' /\ tab'.content <= typed'
        /\ staged' # None => staged'.content <= tab'.content
  <2> SUFFICES ASSUME tab' # None, tab'.dirty
               PROVE  /\ Above(tab.content)' /\ tab'.content <= typed'
                      /\ staged' # None => staged'.content <= tab'.content
    OBVIOUS
  <2>1. tab' = tab /\ tab # None /\ tab.dirty
    OBVIOUS
  <2>2. Above(tab.content) /\ tab.content <= typed /\ (staged # None => staged.content <= tab.content)
    BY <2>1 DEF EditInv, OrderInv
  <2>3. Above(tab.content)'
    BY <1>1, <1>2, <2>1, <2>2
  <2>4. QED
    BY <1>2, <2>1, <2>2, <2>3
<1>6. /\ \A i, j \in 1..Len(chain') : i <= j => chain'[i].content <= chain'[j].content
      /\ draft' # None => \A i \in 1..Len(chain') : draft'.content <= chain'[i].content
  BY DEF EditInv, OrderInv
<1>7. QED
  BY <1>3, <1>4, <1>5, <1>6 DEF OrderInv

(* The staged text is queued. *)
LEMMA OrderQueued ==
  ASSUME EditInv, staged # None, chain' = Queued,
         UNCHANGED <<draft, staged, typed, tab>>
  PROVE  OrderInv'
<1>1. /\ typed \in Nat /\ Len(chain) \in Nat
      /\ draft # None => draft.content \in Nat
      /\ staged.content \in Nat
      /\ tab # None => tab.content \in Nat
      /\ \A i \in 1..Len(chain) : chain[i].content \in Nat
  BY Contents DEF EditInv
<1>2. /\ Len(chain') = Len(chain) + 1
      /\ \A i \in 1..Len(chain) : chain'[i] = chain[i]
      /\ chain'[Len(chain) + 1].content = staged.content
  BY QueuedFacts DEF EditInv, EditorTypeOK
<1>3. ASSUME NEW n \in Nat, Above(n), staged.content <= n PROVE Above(n)'
  <2>1. ASSUME NEW i \in 1..Len(chain') PROVE chain'[i].content <= n
    <3>1. i \in 1..Len(chain) \/ i = Len(chain) + 1
      BY <1>1, <1>2
    <3>2. QED
      BY <1>2, <1>3, <3>1 DEF Above
  <2>2. QED
    BY <1>3, <2>1 DEF Above
<1>4. Above(staged.content) /\ staged.content <= typed /\ Above(typed)
  BY DEF EditInv, OrderInv
<1>5. ASSUME NEW i \in 1..Len(chain'), NEW j \in 1..Len(chain'), i <= j
      PROVE  chain'[i].content <= chain'[j].content
  <2>1. CASE j \in 1..Len(chain)
    <3>1. i \in 1..Len(chain)
      BY <1>1, <1>2, <1>5, <2>1
    <3>2. QED
      BY <1>2, <1>5, <2>1, <3>1 DEF EditInv, OrderInv
  <2>2. CASE j = Len(chain) + 1
    <3>1. i \in 1..Len(chain) \/ i = Len(chain) + 1
      BY <1>1, <1>2
    <3>2. QED
      BY <1>1, <1>2, <1>4, <2>2, <3>1 DEF Above
  <2>3. QED
    BY <1>1, <1>2, <2>1, <2>2
<1>6. draft' # None => \A i \in 1..Len(chain') : draft'.content <= chain'[i].content
  <2> SUFFICES ASSUME draft' # None, NEW i \in 1..Len(chain') PROVE draft'.content <= chain'[i].content
    OBVIOUS
  <2>1. i \in 1..Len(chain) \/ i = Len(chain) + 1
    BY <1>1, <1>2
  <2>2. QED
    BY <1>2, <1>4, <2>1 DEF Above, EditInv, OrderInv
<1>7. staged' # None => Above(staged.content)' /\ staged'.content <= typed'
  BY <1>1, <1>3, <1>4
<1>8. tab' # None /\ tab'.dirty =>
        /\ Above(tab.content)' /\ tab'.content <= typed'
        /\ staged' # None => staged'.content <= tab'.content
  BY <1>1, <1>3 DEF EditInv, OrderInv
<1>9. Above(typed)'
  BY <1>1, <1>3, <1>4
<1>10. QED
  BY <1>5, <1>6, <1>7, <1>8, <1>9 DEF OrderInv

(* A text that nothing on the way is newer than is staged. *)
LEMMA OrderStaged ==
  ASSUME EditInv, NEW t \in Tab, Stage(t), tab' = t, draft' = draft,
         typed' \in Nat, typed <= typed', t.content <= typed', Above(t.content)
  PROVE  OrderInv'
<1>1. /\ Len(chain') = Len(chain)
      /\ \A i \in 1..Len(chain) : chain'[i].content = chain[i].content
  <2>1. CASE chain' = chain
    BY <2>1
  <2>2. CASE chain' = Outdated
    BY <2>2, OutdatedFacts DEF EditInv, EditorTypeOK
  <2>3. QED
    BY <2>1, <2>2 DEF Stage
<1>2. staged' = Snapshot(t)
  BY DEF Stage
<1>3. staged'.content = t.content
  BY <1>2 DEF Snapshot
<1>4. /\ typed \in Nat /\ t.content \in Nat
      /\ draft # None => draft.content \in Nat
      /\ \A i \in 1..Len(chain) : chain[i].content \in Nat
  BY Contents, MaxTextAssumption DEF EditInv, Tab, Text
<1>5. \A n \in Nat : Above(n) => Above(n)'
  BY <1>1 DEF Above
<1>6. Above(t.content)' /\ Above(staged.content)'
  BY <1>3, <1>4, <1>5
<1>7. Above(typed)'
  <2>1. Above(typed')
    BY <1>4 DEF EditInv, OrderInv, Above
  <2>2. QED
    BY <1>5, <2>1
<1>8. /\ \A i, j \in 1..Len(chain') : i <= j => chain'[i].content <= chain'[j].content
      /\ draft' # None => \A i \in 1..Len(chain') : draft'.content <= chain'[i].content
  BY <1>1 DEF EditInv, OrderInv
<1>9. QED
  BY <1>3, <1>4, <1>6, <1>7, <1>8 DEF OrderInv

(* The oldest queued text is written, or not. *)
LEMMA OrderWritten ==
  ASSUME EditInv, chain # <<>>, Len(chain') = Len(chain) - 1,
         \A i \in 1..Len(chain') : chain'[i].content = chain[i + 1].content,
         draft' = draft \/ (draft' # None /\ draft'.content = Head(chain).content),
         staged' = staged \/ staged' = None, typed' = typed, tab' = tab
  PROVE  OrderInv'
<1>1. /\ typed \in Nat /\ Len(chain) \in Nat /\ Len(chain) > 0
      /\ draft # None => draft.content \in Nat
      /\ staged # None => staged.content \in Nat
      /\ tab # None => tab.content \in Nat
      /\ \A i \in 1..Len(chain) : chain[i].content \in Nat
  <2>1. Len(chain) > 0 /\ Len(chain) \in Nat
    BY DEF EditInv, EditorTypeOK
  <2>2. QED
    BY <2>1, Contents DEF EditInv
<1>2. Head(chain).content = chain[1].content
  BY DEF EditInv, EditorTypeOK
<1>3. ASSUME NEW n \in Nat, Above(n) PROVE Above(n)'
  <2>1. draft' # None => draft'.content <= n
    BY <1>1, <1>2, <1>3 DEF Above
  <2>2. ASSUME NEW i \in 1..Len(chain') PROVE chain'[i].content <= n
    <3>1. i + 1 \in 1..Len(chain)
      BY <1>1
    <3>2. QED
      BY <1>3, <3>1 DEF Above
  <2>3. QED
    BY <2>1, <2>2 DEF Above
<1>4. ASSUME NEW i \in 1..Len(chain'), NEW j \in 1..Len(chain'), i <= j
      PROVE  chain'[i].content <= chain'[j].content
  <2>1. i + 1 \in 1..Len(chain) /\ j + 1 \in 1..Len(chain) /\ i + 1 <= j + 1
    BY <1>1, <1>4
  <2>2. chain[i + 1].content <= chain[j + 1].content
    BY <2>1 DEF EditInv, OrderInv
  <2>3. QED
    BY <2>2
<1>5. ASSUME draft' # None, NEW i \in 1..Len(chain') PROVE draft'.content <= chain'[i].content
  <2>1. i + 1 \in 1..Len(chain) /\ 1 \in 1..Len(chain) /\ 1 <= i + 1
    BY <1>1
  <2>2. chain[1].content <= chain[i + 1].content
    BY <2>1 DEF EditInv, OrderInv
  <2>3. draft # None => draft.content <= chain[i + 1].content
    BY <2>1 DEF EditInv, OrderInv
  <2>4. QED
    BY <1>2, <1>5, <2>2, <2>3
<1>6. Above(typed)'
  BY <1>1, <1>3 DEF EditInv, OrderInv
<1>7. staged' # None => Above(staged.content)' /\ staged'.content <= typed'
  BY <1>1, <1>3 DEF EditInv, OrderInv
<1>8. tab' # None /\ tab'.dirty =>
        /\ Above(tab.content)' /\ tab'.content <= typed'
        /\ staged' # None => staged'.content <= tab'.content
  BY <1>1, <1>3 DEF EditInv, OrderInv
<1>9. QED
  BY <1>4, <1>5, <1>6, <1>7, <1>8 DEF OrderInv

-----------------------------------------------------------------------------
(* The steps of the editor. *)

LEMMA WriteKeeps ==
  ASSUME EditInv, NEW works \in BOOLEAN, WriteEnds(works)
  PROVE  EditInv' /\ (draft # None /\ draft' # None => draft'.content >= draft.content)
<1>1. /\ chain \in Seq(Write) /\ chain # <<>> /\ Len(chain) \in Nat /\ Len(chain) > 0
      /\ Head(chain) \in Write /\ Head(chain) = chain[1] /\ chain[1] \in Write
      /\ UNCHANGED <<disk, tab, typed, timer, step, job, owed>>
  BY DEF WriteEnds, EditInv, EditorTypeOK
<1>2. Outdated \in Seq(Write) /\ Len(Outdated) = Len(chain) /\ Outdated # <<>>
  BY <1>1, OutdatedFacts
<1>3. /\ chain' \in Seq(Write) /\ Len(chain') = Len(chain) - 1
      /\ \A i \in 1..Len(chain') : chain'[i].content = chain[i + 1].content
  <2>1. CASE chain' = Tail(chain)
    BY <1>1, <2>1
  <2>2. CASE chain' = Tail(Outdated)
    <3>1. \A i \in 1..Len(chain') : i + 1 \in 1..Len(chain) /\ chain'[i] = Outdated[i + 1]
      BY <1>1, <1>2, <2>2
    <3>2. QED
      BY <1>1, <1>2, <2>2, <3>1, OutdatedFacts
  <2>3. QED
    BY <2>1, <2>2 DEF WriteEnds
<1>4. staged' = staged \/ staged' = None
  BY DEF WriteEnds
<1>5. draft' = draft \/ (draft' \in Draft /\ draft'.content = Head(chain).content)
  <2>1. Snapshot(Head(chain)) \in Draft /\ Snapshot(Head(chain)).content = Head(chain).content
    BY <1>1 DEF Snapshot, Draft, Write
  <2>2. draft' = Snapshot(Head(chain)) \/ draft' = draft
    BY DEF WriteEnds
  <2>3. QED
    BY <2>1, <2>2
<1>6. \A w \in Waiter : left'[w] \in Nat /\ left'[w] <= Len(chain')
  <2>1. \A w \in Waiter : left[w] \in Nat /\ left[w] <= Len(chain)
    BY DEF EditInv, EditorTypeOK
  <2>2. left' = [w \in Waiter |-> IF left[w] > 0 THEN left[w] - 1 ELSE 0]
    BY DEF WriteEnds
  <2>3. QED
    BY <1>1, <1>3, <2>1, <2>2
<1>7. left' \in [Waiter -> Nat]
  BY <1>6 DEF WriteEnds
<1>8. result' \in [Waiter -> BOOLEAN]
  BY DEF WriteEnds, EditInv, EditorTypeOK
<1>9. EditorTypeOK'
  BY <1>1, <1>3, <1>4, <1>5, <1>6, <1>7, <1>8 DEF EditInv, EditorTypeOK
<1>10. OrderInv'
  BY <1>1, <1>3, <1>4, <1>5, OrderWritten, EditorNoneAssumption
<1>11. draft # None /\ draft' # None => draft'.content >= draft.content
  <2>1. draft # None => draft.content <= chain[1].content
    BY <1>1 DEF EditInv, OrderInv
  <2>2. (draft # None => draft.content \in Nat) /\ chain[1].content \in Nat
    BY <1>1, Contents DEF EditInv
  <2>3. QED
    BY <1>1, <1>5, <2>1, <2>2
<1>12. QED
  BY <1>9, <1>10, <1>11 DEF EditInv

LEMMA FlushKeeps ==
  ASSUME EditInv, NEW f \in Flusher, FlushStarts(f) \/ FlushResumes(f)
  PROVE  EditInv' /\ draft' = draft
<1>1. /\ UNCHANGED <<disk, draft, tab, typed, staged, job, owed>>
      /\ timer' \in BOOLEAN
  BY DEF FlushStarts, FlushResumes, EditInv, EditorTypeOK
<1>2. chain \in Seq(Write) /\ Len(chain) \in Nat /\ f \in Waiter /\ f # Editor
  BY EditorAssumption DEF EditInv, EditorTypeOK, Waiter
<1>3. \/ chain' = chain
      \/ staged # None /\ chain' = Queued
  BY DEF FlushStarts, FlushResumes, FlushPass
<1>4. staged # None => Queued \in Seq(Write) /\ Len(Queued) = Len(chain) + 1
  BY <1>2, QueuedFacts DEF EditInv, EditorTypeOK
<1>5. PICK place \in Step, n \in Nat : Await(f, place, n) /\ n <= Len(chain')
  <2>1. Ended(f) \in Step /\ Rejected(f) \in Step /\ "batch" \in Step /\ "tail" \in Step
    BY DEF Ended, Rejected, Step
  <2>2. CASE FlushPass(f)
    BY <1>2, <1>4, <2>1, <2>2 DEF FlushPass
  <2>3. CASE chain' = chain /\ Await(f, IF result[f] THEN Ended(f) ELSE Rejected(f), 0)
    BY <1>2, <2>1, <2>3
  <2>4. QED
    BY <2>2, <2>3 DEF FlushStarts, FlushResumes
<1>6. chain' \in Seq(Write) /\ Len(chain) <= Len(chain')
  BY <1>2, <1>3, <1>4
<1>7. WaitsOK' /\ step'[Editor] = step[Editor]
  BY <1>2, <1>5, <1>6, AwaitKeeps DEF EditInv
<1>8. EditorTypeOK'
  BY <1>1, <1>6, <1>7 DEF EditInv, EditorTypeOK, WaitsOK
<1>9. OrderInv'
  <2>1. CASE chain' = chain
    BY <1>1, <2>1, OrderKept, Contents DEF EditInv
  <2>2. CASE staged # None /\ chain' = Queued
    BY <1>1, <2>2, OrderQueued
  <2>3. QED
    BY <1>3, <2>1, <2>2
<1>10. QED
  BY <1>1, <1>8, <1>9 DEF EditInv

(* Unless it is queued, a draft write is at most marked as no longer staged. *)
SameTexts ==
  /\ chain' \in Seq(Write) /\ Len(chain') = Len(chain)
  /\ \A i \in 1..Len(chain) : chain'[i].content = chain[i].content

LEMMA ChainKept ==
  ASSUME EditInv, chain' = chain \/ chain' = Outdated
  PROVE  SameTexts
BY OutdatedFacts DEF EditInv, EditorTypeOK, SameTexts

LEMMA WaitsKept ==
  ASSUME EditInv, SameTexts, UNCHANGED waits
  PROVE  WaitsOK' /\ step'[Editor] = step[Editor]
BY DEF EditInv, EditorTypeOK, SameTexts, WaitsOK, waits

LEMMA NewText ==
  ASSUME EditInv, typed < MaxText, typed' = typed + 1
  PROVE  typed' \in Text /\ typed' \in Nat /\ typed <= typed' /\ Above(typed')
<1>1. typed \in 0..MaxText /\ MaxText \in Nat
  BY MaxTextAssumption DEF EditInv, EditorTypeOK, Text
<1>2. /\ Len(chain) \in Nat /\ draft # None => draft.content \in Nat
      /\ \A i \in 1..Len(chain) : chain[i].content \in Nat
  BY Contents DEF EditInv
<1>3. Above(typed')
  BY <1>1, <1>2 DEF EditInv, OrderInv, Above
<1>4. QED
  BY <1>1, <1>3 DEF Text

LEMMA StageType ==
  ASSUME EditInv, NEW t \in Tab, Stage(t)
  PROVE  staged' \in Draft /\ timer' \in BOOLEAN /\ SameTexts
<1>1. Snapshot(t) \in Draft
  BY DEF Snapshot, Draft, Tab
<1>2. QED
  BY <1>1, ChainKept DEF Stage

LEMMA TypeKeeps ==
  ASSUME EditInv, NEW promised, Type(promised)
  PROVE  EditInv' /\ draft' = draft
<1>1. /\ tab # None /\ typed < MaxText /\ typed' = typed + 1
      /\ tab' = [tab EXCEPT !.content = typed', !.dirty = TRUE]
      /\ Stage(tab') /\ owed' \in {typed', None}
      /\ UNCHANGED <<disk, draft, waits, job>>
  BY DEF Type
<1>2. typed' \in Text /\ typed' \in Nat /\ typed <= typed' /\ Above(typed')
  BY <1>1, NewText
<1>3. tab' \in Tab /\ tab'.content = typed'
  BY <1>1, <1>2 DEF EditInv, EditorTypeOK, Tab
<1>4. staged' \in Draft /\ timer' \in BOOLEAN /\ SameTexts
  BY <1>1, <1>3, StageType
<1>5. WaitsOK' /\ step'[Editor] = step[Editor]
  BY <1>1, <1>4, WaitsKept
<1>6. EditorTypeOK'
  BY <1>1, <1>2, <1>3, <1>4, <1>5 DEF EditInv, EditorTypeOK, WaitsOK, SameTexts
<1>7. OrderInv'
  <2>1. PICK t \in Tab : t = tab' /\ t.content = typed'
    BY <1>3
  <2>2. Stage(t) /\ Above(t.content) /\ t.content <= typed' /\ draft' = draft
    BY <1>1, <1>2, <2>1
  <2>3. QED
    BY <1>2, <2>1, <2>2, OrderStaged
<1>8. QED
  BY <1>1, <1>6, <1>7 DEF EditInv

LEMMA OtherTabKeeps ==
  ASSUME EditInv, OtherTabChanges
  PROVE  EditInv' /\ draft' = draft
<1>1. /\ tab \in Tab /\ tab # None /\ tab.dirty /\ Stage(tab)
      /\ UNCHANGED <<disk, draft, tab, typed, waits, job, owed>>
  BY DEF OtherTabChanges, EditInv, EditorTypeOK
<1>2. staged' \in Draft /\ timer' \in BOOLEAN /\ SameTexts
  BY <1>1, StageType
<1>3. WaitsOK' /\ step'[Editor] = step[Editor]
  BY <1>1, <1>2, WaitsKept
<1>4. EditorTypeOK'
  BY <1>1, <1>2, <1>3 DEF EditInv, EditorTypeOK, WaitsOK, SameTexts
<1>5. Above(tab.content) /\ tab.content <= typed /\ typed \in Nat
  BY <1>1, Contents DEF EditInv, OrderInv
<1>6. OrderInv'
  BY <1>1, <1>5, OrderStaged
<1>7. QED
  BY <1>1, <1>4, <1>6 DEF EditInv

LEMMA ExternalKeeps ==
  ASSUME EditInv, ExternalEdit
  PROVE  EditInv' /\ draft' = draft
<1>1. /\ typed < MaxText /\ typed' = typed + 1 /\ disk' = typed'
      /\ UNCHANGED <<draft, tab, staged, chain, timer, waits, job, owed>>
  BY DEF ExternalEdit
<1>2. typed' \in Text /\ typed' \in Nat /\ typed <= typed'
  BY <1>1, NewText
<1>3. WaitsOK' /\ step'[Editor] = step[Editor]
  BY <1>1, ChainKept, WaitsKept
<1>4. EditorTypeOK'
  BY <1>1, <1>2, <1>3 DEF EditInv, EditorTypeOK, WaitsOK
<1>5. OrderInv'
  BY <1>1, <1>2, OrderKept
<1>6. QED
  BY <1>1, <1>4, <1>5 DEF EditInv

LEMMA OpenKeeps ==
  ASSUME EditInv, OpenFile
  PROVE  EditInv' /\ (draft' = draft \/ draft' = None)
<1> DEFINE clean == [content |-> disk, base |-> disk, dirty |-> FALSE]
<1>1. disk \in Text /\ typed \in Nat /\ clean \in Tab /\ clean.dirty = FALSE
  BY Contents DEF EditInv, EditorTypeOK, Tab
<1>2. UNCHANGED <<disk, typed, waits, job>>
  BY DEF OpenFile
<1>3. CASE draft # None /\ tab' = [content |-> draft.content, base |-> disk, dirty |-> TRUE]
           /\ Stage(tab') /\ owed' = draft.content /\ draft' = draft
  <2>1. draft.content \in Text /\ tab' \in Tab /\ tab'.content = draft.content
    BY <1>1, <1>3 DEF EditInv, EditorTypeOK, Draft, Tab
  <2>2. staged' \in Draft /\ timer' \in BOOLEAN /\ SameTexts
    BY <1>3, <2>1, StageType
  <2>3. WaitsOK' /\ step'[Editor] = step[Editor]
    BY <1>2, <2>2, WaitsKept
  <2>4. EditorTypeOK'
    BY <1>2, <1>3, <2>1, <2>2, <2>3 DEF EditInv, EditorTypeOK, WaitsOK, SameTexts
  <2>5. Above(draft.content) /\ draft.content <= typed
    <3>1. chain = <<>> /\ draft.content \in Nat
      BY <1>3, Contents DEF OpenFile, EditInv
    <3>2. QED
      BY <1>3, <3>1 DEF EditInv, OrderInv, Above
  <2>6. OrderInv'
    BY <1>1, <1>2, <1>3, <2>1, <2>5, OrderStaged
  <2>7. QED
    BY <1>3, <2>4, <2>6 DEF EditInv
<1>4. CASE /\ tab' = clean /\ (draft' = draft \/ draft' = None)
           /\ (staged' = staged \/ staged' = None) /\ (chain' = chain \/ chain' = Outdated)
           /\ timer' \in {timer, FALSE} /\ owed' \in {owed, None}
  <2>1. SameTexts
    BY <1>4, ChainKept
  <2>2. WaitsOK' /\ step'[Editor] = step[Editor]
    BY <1>2, <2>1, WaitsKept
  <2>3. EditorTypeOK'
    BY <1>1, <1>2, <1>4, <2>1, <2>2 DEF EditInv, EditorTypeOK, WaitsOK, SameTexts
  <2>4. tab'.dirty = FALSE
    BY <1>1, <1>4
  <2>5. OrderInv'
    <3>1. typed' \in Nat /\ typed <= typed'
      BY <1>1, <1>2
    <3>2. (draft' = draft \/ draft' = None) /\ (staged' = staged \/ staged' = None)
      BY <1>4
    <3>3. QED
      BY <2>1, <2>4, <3>1, <3>2, OrderKept DEF SameTexts
  <2>6. QED
    BY <1>4, <2>3, <2>5 DEF EditInv
<1>5. QED
  BY <1>3, <1>4 DEF OpenFile, Unstage

(* A save or close in progress goes from place to place, or ends. *)
LEMMA JobKeeps ==
  ASSUME EditInv, NEW place \in Step, NEW n \in Nat, Await(Editor, place, n),
         SameTexts, n <= Len(chain'),
         disk' \in Text, typed' = typed, draft' = draft \/ draft' = None,
         staged' = staged \/ staged' = None, timer' \in BOOLEAN,
         owed' \in Text \cup {None}, job' \in Job \cup {None}, job' = None <=> place = "idle",
         tab' = tab \/ tab' = None \/ (tab' \in Tab /\ tab'.dirty = FALSE)
  PROVE  EditInv'
<1>1. Editor \in Waiter /\ chain' \in Seq(Write) /\ Len(chain') = Len(chain)
  BY DEF Waiter, SameTexts
<1>2. WaitsOK' /\ step'[Editor] = place
  <2>1. Len(chain) \in Nat
    BY Contents DEF EditInv
  <2>2. Len(chain) <= Len(chain')
    BY <1>1, <2>1
  <2>3. QED
    BY <1>1, <2>2, AwaitKeeps DEF EditInv
<1>3. EditorTypeOK'
  <2>1. /\ typed' \in Text /\ draft' \in Draft \cup {None} /\ staged' \in Draft \cup {None}
        /\ tab' \in Tab \cup {None}
    BY DEF EditInv, EditorTypeOK
  <2>2. QED
    BY <1>1, <1>2, <2>1 DEF EditorTypeOK, WaitsOK
<1>4. OrderInv'
  <2>1. typed' \in Nat /\ typed <= typed'
    BY Contents DEF EditInv
  <2>2. QED
    BY <2>1, OrderKept DEF SameTexts
<1>5. QED
  BY <1>3, <1>4 DEF EditInv

LEMMA DiscardAwaits ==
  ASSUME EditInv, Discard
  PROVE  /\ SameTexts /\ staged' = None /\ timer' = FALSE
         /\ \E place \in {"delete", "discard"}, n \in Nat :
              Await(Editor, place, n) /\ n <= Len(chain')
<1>1. SameTexts /\ staged' = None /\ timer' = FALSE /\ Len(chain) \in Nat
  BY ChainKept, Contents DEF Discard, Unstage, EditInv
<1>2. Len(chain) <= Len(chain')
  BY <1>1 DEF SameTexts
<1>3. QED
  BY <1>1, <1>2 DEF Discard

LEMMA JobType ==
  ASSUME EditorTypeOK
  PROVE  /\ step[Editor] # "idle" => job \in Job /\ job # None
         /\ job \in Job => /\ [content |-> job.content, base |-> job.content, dirty |-> FALSE] \in Tab
                           /\ job.content \in Text
BY DEF EditorTypeOK, Job, Tab

LEMMA SaveSucceedsKeeps ==
  ASSUME EditInv, step[Editor] # "idle", SaveSucceeds, SameTexts,
         disk' \in Text, typed' = typed, draft' = draft \/ draft' = None,
         staged' = staged, timer' = timer
  PROVE  EditInv'
<1>1. /\ job' = None /\ Await(Editor, "idle", 0)
      /\ tab' = [content |-> job.content, base |-> job.content, dirty |-> FALSE]
      /\ owed' \in {owed, None}
  BY DEF SaveSucceeds, EndJob
<1>2. tab' \in Tab /\ tab'.dirty = FALSE
  <2>1. tab' \in Tab
    BY <1>1, JobType DEF EditInv
  <2>2. QED
    BY <1>1, <2>1
<1>3. timer' \in BOOLEAN /\ owed' \in Text \cup {None} /\ "idle" \in Step /\ 0 <= Len(chain')
  BY <1>1, Contents DEF EditInv, EditorTypeOK, Step, SameTexts
<1>4. QED
  BY <1>1, <1>2, <1>3, JobKeeps

LEMMA SaveKeeps ==
  ASSUME EditInv, SaveStarts \/ SaveResumes \/ SaveDocument
  PROVE  EditInv' /\ draft' = draft
<1>1. /\ chain \in Seq(Write) /\ Len(chain) \in Nat /\ typed \in Nat
      /\ disk \in Text /\ timer \in BOOLEAN /\ owed \in Text \cup {None}
      /\ job \in Job \cup {None} /\ Editor \in Waiter
      /\ {"idle", "batch", "tail", "save", "discard", "delete"} \subseteq Step
  BY Contents DEF EditInv, EditorTypeOK, Waiter, Step
<1>2. CASE SaveStarts
  <2>1. /\ tab \in Tab /\ job' = [kind |-> "save", content |-> tab.content, base |-> tab.base]
        /\ timer' = FALSE /\ UNCHANGED <<disk, draft, tab, typed, staged, owed>>
    BY <1>2 DEF SaveStarts, EditInv, EditorTypeOK
  <2>2. job' \in Job /\ job' # None
    BY <2>1, EditorNoneAssumption DEF Tab, Job
  <2>3. CASE staged # None /\ chain' = Queued /\ Await(Editor, "batch", Len(Queued))
    <3>1. Queued \in Seq(Write) /\ Len(Queued) = Len(chain) + 1
      BY <1>1, <2>3, QueuedFacts DEF EditInv, EditorTypeOK
    <3>2. WaitsOK' /\ step'[Editor] = "batch"
      BY <1>1, <2>3, <3>1, AwaitKeeps DEF EditInv
    <3>3. EditorTypeOK'
      BY <1>1, <2>1, <2>2, <2>3, <3>1, <3>2 DEF EditInv, EditorTypeOK, WaitsOK
    <3>4. OrderInv'
      BY <2>1, <2>3, OrderQueued
    <3>5. QED
      BY <2>1, <3>3, <3>4 DEF EditInv
  <2>4. CASE chain' = chain /\ Await(Editor, IF chain = <<>> THEN "save" ELSE "tail", Len(chain))
    <3>1. PICK place \in {"save", "tail"} : Await(Editor, place, Len(chain))
      BY <2>4
    <3>2. SameTexts /\ Len(chain) <= Len(chain')
      BY <1>1, <2>4, ChainKept
    <3>3. QED
      BY <1>1, <2>1, <2>2, <3>1, <3>2, JobKeeps
  <2>5. QED
    BY <1>2, <2>3, <2>4 DEF SaveStarts
<1>3. CASE SaveResumes
  <2>1. /\ job # None /\ UNCHANGED <<disk, draft, tab, typed, staged, chain, owed>>
        /\ timer' \in BOOLEAN
    BY <1>1, <1>3 DEF SaveResumes
  <2>2. SameTexts /\ Len(chain') = Len(chain)
    BY <1>1, <2>1, ChainKept
  <2>3. PICK place \in {"idle", "tail", "save"}, n \in {0, Len(chain)} :
          /\ Await(Editor, place, n) /\ job' \in {job, None}
          /\ job' = None <=> place = "idle"
    <3>1. CASE result[Editor]
      BY <1>1, <1>3, <2>1, <3>1 DEF SaveResumes
    <3>2. CASE ~result[Editor]
      BY <1>3, <3>2 DEF SaveResumes, EndJob
    <3>3. QED
      BY <3>1, <3>2
  <2>4. n \in Nat /\ n <= Len(chain')
    BY <1>1, <2>2
  <2>5. QED
    BY <1>1, <2>1, <2>2, <2>3, <2>4, JobKeeps
<1>4. CASE SaveDocument
  <2>1. step[Editor] = "save" /\ UNCHANGED <<draft, tab, typed>> /\ job \in Job /\ job # None
    BY <1>4, JobType DEF SaveDocument, EditInv
  <2>2. CASE disk' = job.content /\ owed' \in {owed, None} /\ Discard /\ job' = job
    <3>1. disk' \in Text
      BY <2>1, <2>2, JobType DEF EditInv
    <3>2. PICK place \in {"delete", "discard"}, n \in Nat :
            Await(Editor, place, n) /\ n <= Len(chain')
      BY <2>2, DiscardAwaits
    <3>3. SameTexts /\ staged' = None /\ timer' \in BOOLEAN
      BY <2>2, DiscardAwaits
    <3>4. QED
      BY <1>1, <2>1, <2>2, <3>1, <3>2, <3>3, JobKeeps
  <2>3. CASE EndJob /\ UNCHANGED <<disk, staged, chain, timer, owed>>
    <3>1. SameTexts /\ 0 <= Len(chain')
      BY <1>1, <2>3, ChainKept
    <3>2. QED
      BY <1>1, <2>1, <2>3, <3>1, JobKeeps DEF EndJob
  <2>4. QED
    BY <1>4, <2>2, <2>3 DEF SaveDocument
<1>5. QED
  BY <1>2, <1>3, <1>4

LEMMA CloseKeeps ==
  ASSUME EditInv, CloseTab \/ DiscardResumes \/ DeleteDraft
  PROVE  EditInv' /\ (draft' = draft \/ draft' = None)
<1>1. /\ chain \in Seq(Write) /\ Len(chain) \in Nat /\ typed \in Nat
      /\ disk \in Text /\ timer \in BOOLEAN /\ owed \in Text \cup {None}
      /\ job \in Job \cup {None} /\ Editor \in Waiter
      /\ {"idle", "discard", "delete"} \subseteq Step
  BY Contents DEF EditInv, EditorTypeOK, Waiter, Step
<1>2. CASE CloseTab
  <2>1. tab \in Tab /\ job = None /\ UNCHANGED <<disk, draft, typed>>
    BY <1>2 DEF CloseTab, EditInv, EditorTypeOK
  <2>2. CASE tab.dirty
    <3>1. /\ job' = [kind |-> "close", content |-> tab.content, base |-> tab.base]
          /\ Discard /\ owed' = None /\ tab' = tab
      BY <1>2, <2>2 DEF CloseTab
    <3>2. job' \in Job /\ job' # None
      BY <2>1, <3>1, EditorNoneAssumption DEF Tab, Job
    <3>3. PICK place \in {"delete", "discard"}, n \in Nat :
            Await(Editor, place, n) /\ n <= Len(chain')
      BY <3>1, DiscardAwaits
    <3>4. SameTexts /\ staged' = None /\ timer' \in BOOLEAN
      BY <3>1, DiscardAwaits
    <3>5. QED
      BY <1>1, <2>1, <3>1, <3>2, <3>3, <3>4, JobKeeps
  <2>3. CASE ~tab.dirty
    <3>1. tab' = None /\ UNCHANGED <<job, waits, staged, chain, timer, owed>>
      BY <1>2, <2>3 DEF CloseTab
    <3>2. SameTexts
      BY <3>1, ChainKept
    <3>3. WaitsOK' /\ step'[Editor] = step[Editor]
      BY <3>1, <3>2, WaitsKept
    <3>4. EditorTypeOK'
      BY <2>1, <3>1, <3>3 DEF EditInv, EditorTypeOK, WaitsOK
    <3>5. OrderInv'
      BY <1>1, <2>1, <3>1, <3>2, OrderKept DEF SameTexts
    <3>6. QED
      BY <2>1, <3>4, <3>5 DEF EditInv
  <2>4. QED
    BY <2>2, <2>3
<1>3. CASE DiscardResumes
  <2>1. /\ step[Editor] # "idle" /\ job \in Job /\ job # None
        /\ UNCHANGED <<disk, draft, typed, staged, chain, timer>>
    BY <1>3, JobType DEF DiscardResumes, EditInv
  <2>2. SameTexts /\ 0 <= Len(chain')
    BY <1>1, <2>1, ChainKept
  <2>3. CASE SaveSucceeds
    BY <1>1, <2>1, <2>2, <2>3, SaveSucceedsKeeps
  <2>4. CASE Await(Editor, "delete", 0) /\ UNCHANGED <<job, tab, owed>>
    BY <1>1, <2>1, <2>2, <2>4, JobKeeps
  <2>5. CASE EndJob /\ UNCHANGED <<tab, owed>>
    BY <1>1, <2>1, <2>2, <2>5, JobKeeps DEF EndJob
  <2>6. QED
    BY <1>3, <2>1, <2>3, <2>4, <2>5 DEF DiscardResumes
<1>4. CASE DeleteDraft
  <2>1. /\ step[Editor] # "idle" /\ draft' \in {None, draft}
        /\ UNCHANGED <<disk, typed, staged, chain, timer>>
    BY <1>4 DEF DeleteDraft
  <2>2. SameTexts /\ 0 <= Len(chain')
    BY <1>1, <2>1, ChainKept
  <2>3. CASE SaveSucceeds
    BY <1>1, <2>1, <2>2, <2>3, SaveSucceedsKeeps
  <2>4. CASE EndJob /\ ((tab' = None /\ owed' = None) \/ UNCHANGED <<tab, owed>>)
    BY <1>1, <2>1, <2>2, <2>4, JobKeeps DEF EndJob
  <2>5. QED
    BY <1>4, <2>1, <2>3, <2>4 DEF DeleteDraft
<1>5. QED
  BY <1>2, <1>3, <1>4

LEMMA EditorInitInv == DesktopInit => EditInv
<1> SUFFICES ASSUME DesktopInit PROVE EditInv
  OBVIOUS
<1>1. EditorTypeOK
  BY EditorInitType
<1>2. chain = <<>> /\ staged = None /\ tab = None /\ typed >= 1 /\ (draft # None => draft.content = 1)
  BY MaxTextAssumption DEF DesktopInit, EditorInit
<1>3. OrderInv
  BY <1>2 DEF OrderInv, Above
<1>4. QED
  BY <1>1, <1>3 DEF EditInv

LEMMA EditInvKept ==
  ASSUME EditInv, [DesktopNext]_desktopVars
  PROVE  EditInv' /\ (draft # None /\ draft' # None => draft'.content >= draft.content)
<1>1. \A n \in Nat : n >= n
  OBVIOUS
<1>2. draft' = draft \/ draft' = None =>
        (draft # None /\ draft' # None => draft'.content >= draft.content)
  BY <1>1, Contents DEF EditInv
<1>3. CASE UNCHANGED editorVars
  <2>1. EditInv'
    BY <1>3 DEF editorVars, EditInv, EditorTypeOK, OrderInv, Above
  <2>2. QED
    BY <1>2, <1>3, <2>1 DEF editorVars
<1>4. ASSUME NEW works \in BOOLEAN, WriteEnds(works)
      PROVE  EditInv' /\ (draft # None /\ draft' # None => draft'.content >= draft.content)
  BY <1>4, WriteKeeps
<1>5. ASSUME NEW f \in Flusher, FlushStarts(f) \/ FlushResumes(f)
      PROVE  EditInv' /\ draft' = draft
  BY <1>5, FlushKeeps
<1>6. CASE \E r \in Request : HandlerFlushes(r) \/ HandlerResumes(r) \/ HandlerAnswers(r)
  BY <1>2, <1>3, <1>5, <1>6, FlusherAssumption DEF HandlerFlushes, HandlerResumes, HandlerAnswers
<1>7. CASE TimerFlushes
  BY <1>2, <1>5, <1>7, EditorAssumption DEF TimerFlushes
<1>8. CASE UserTypes
  BY <1>2, <1>8, TypeKeeps DEF UserTypes
<1>9. CASE Edit
  BY <1>2, <1>4, <1>9, OpenKeeps, OtherTabKeeps, ExternalKeeps, SaveKeeps, CloseKeeps
     DEF Edit, EditorStep
<1>10. QED
  BY <1>3, <1>6, <1>7, <1>8, <1>9 DEF DesktopNext, Quit, desktopVars

(* The persisted draft never goes back to an older text, however flushes, saves,
   closes and the timer queue their writes (codeDraftPersistence.ts). *)
THEOREM DraftsNeverGoBack == DesktopSpec => DraftsInOrder
<1> DEFINE A == draft # None /\ draft' # None => draft'.content >= draft.content
<1>1. EditInv /\ [DesktopNext]_desktopVars => EditInv' /\ A
  BY EditInvKept
<1>2. QED
  BY <1>1, EditorInitInv, PTL DEF DesktopSpec, DraftsInOrder

-----------------------------------------------------------------------------
(* The promised text on its way.  Once it is in the draft file nothing older or
   newer replaces it; until then it is staged. *)

Persisted == draft # None /\ draft.content = owed

TextsInv == disk <= typed /\ (job # None => job.content <= typed)

StagedInv ==
  \A i \in 1..Len(chain) :
    chain[i].staged => staged # None /\ chain[i].content = staged.content

OwedInv ==
  owed # None =>
    /\ owed # disk /\ owed <= typed
    /\ IF tab = None THEN Persisted /\ staged = None /\ chain = <<>>
       ELSE /\ tab.dirty /\ tab.content = owed
            /\ Persisted \/ (staged # None /\ staged.content = owed)
    /\ job # None => job.kind = "save" /\ job.content = owed
    /\ step[Editor] \notin {"discard", "delete"}

PromiseInv == EditInv /\ TextsInv /\ StagedInv /\ OwedInv

(* A flush past its last pass has found nothing left to write.  A handler whose
   flush is over goes on to complete, and then the text is in the draft. *)
FlushedInv ==
  /\ \A r \in Request :
       /\ handler[r] = "flushed" => step[r] = "done"
       /\ step[r] \in {"tail", "done"} /\ handler[r] \notin {"failed", "done"} /\ owed # None
            => Persisted
  /\ exited = "completed" /\ owed # None => Persisted

(* What a step of the editor that promises no new text may do. *)
PromiseStep ==
  /\ TextsInv' /\ StagedInv' /\ OwedInv'
  /\ owed' # None => owed' = owed /\ (Persisted => Persisted')

LEMMA NoneStaged ==
  ASSUME chain \in Seq(Write)
  PROVE  \A i \in 1..Len(chain) : Outdated[i].staged = FALSE
<1>1. \A entry \in Write : [entry EXCEPT !.staged = FALSE].staged = FALSE
  BY DEF Write
<1>2. \A i \in 1..Len(chain) : chain[i] \in Write
  OBVIOUS
<1>3. QED
  BY <1>1, <1>2 DEF Outdated

LEMMA StagedInvKept ==
  ASSUME EditInv, StagedInv,
         chain' = Outdated \/ (chain' = chain /\ staged' = staged)
  PROVE  StagedInv'
<1>1. chain \in Seq(Write)
  BY DEF EditInv, EditorTypeOK
<1>2. CASE chain' = Outdated
  <2>1. \A i \in 1..Len(chain') : chain'[i].staged = FALSE
    BY <1>1, <1>2, OutdatedFacts, NoneStaged
  <2>2. QED
    BY <2>1 DEF StagedInv
<1>3. CASE chain' = chain /\ staged' = staged
  BY <1>3 DEF StagedInv
<1>4. QED
  BY <1>2, <1>3

LEMMA QueuedStaged ==
  ASSUME EditorTypeOK, StagedInv, staged # None, chain' = Queued, staged' = staged
  PROVE  StagedInv'
<1>1. /\ Len(chain) \in Nat /\ Len(chain') = Len(chain) + 1
      /\ \A i \in 1..Len(chain) : chain'[i] = chain[i]
      /\ chain'[Len(chain) + 1].content = staged.content
  BY QueuedFacts DEF EditorTypeOK
<1>2. \A i \in 1..Len(chain') : i \in 1..Len(chain) \/ i = Len(chain) + 1
  BY <1>1
<1>3. QED
  BY <1>1, <1>2 DEF StagedInv

(* The texts as numbers. *)
LEMMA TextNumbers ==
  ASSUME EditorTypeOK
  PROVE  /\ typed \in Nat /\ disk \in Nat
         /\ owed # None => owed \in Nat
         /\ job # None => job \in Job /\ job.content \in Nat
BY MaxTextAssumption DEF EditorTypeOK, Text, Job

LEMMA WritePromises ==
  ASSUME PromiseInv, NEW works \in BOOLEAN, WriteEnds(works)
  PROVE  PromiseStep
<1>1. /\ chain \in Seq(Write) /\ chain # <<>> /\ Len(chain) \in Nat /\ Len(chain) > 0
      /\ Head(chain) = chain[1] /\ chain[1] \in Write /\ 1 \in 1..Len(chain)
      /\ UNCHANGED <<disk, tab, typed, step, job, owed>>
  BY DEF WriteEnds, PromiseInv, EditInv, EditorTypeOK
<1>2. Snapshot(chain[1]) \in Draft /\ Snapshot(chain[1]).content = chain[1].content
      /\ Snapshot(chain[1]) # None
  BY <1>1, EditorNoneAssumption DEF Snapshot, Draft, Write
<1>3. ASSUME works, chain[1].staged
      PROVE  /\ StagedInv' /\ draft' = Snapshot(chain[1])
             /\ staged # None /\ staged.content = chain[1].content
  <2>1. staged' = None /\ chain' = Tail(Outdated) /\ draft' = Snapshot(chain[1])
    BY <1>1, <1>3 DEF WriteEnds
  <2>2. /\ Outdated \in Seq(Write) /\ Len(Outdated) = Len(chain) /\ Outdated # <<>>
        /\ \A i \in 1..Len(chain) : Outdated[i].staged = FALSE
    <3>1. Outdated \in Seq(Write) /\ Len(Outdated) = Len(chain)
      BY <1>1, OutdatedFacts
    <3>2. Outdated # <<>>
      BY <1>1, <3>1
    <3>3. QED
      BY <1>1, <3>1, <3>2, NoneStaged
  <2>3. \A i \in 1..Len(chain') : i + 1 \in 1..Len(chain) /\ chain'[i] = Outdated[i + 1]
    BY <1>1, <2>1, <2>2
  <2>4. \A i \in 1..Len(chain') : chain'[i].staged = FALSE
    BY <2>2, <2>3
  <2>5. staged # None /\ chain[1].content = staged.content
    BY <1>1, <1>3 DEF PromiseInv, StagedInv
  <2>6. QED
    BY <2>1, <2>4, <2>5 DEF StagedInv
<1>4. ASSUME ~(works /\ chain[1].staged)
      PROVE  StagedInv' /\ staged' = staged /\ draft' \in {draft, Snapshot(chain[1])}
  <2>1. /\ staged' = staged /\ chain' = Tail(chain)
        /\ draft' = draft \/ draft' = Snapshot(chain[1])
    BY <1>1, <1>4 DEF WriteEnds
  <2>2. \A i \in 1..Len(chain') : i + 1 \in 1..Len(chain) /\ chain'[i] = chain[i + 1]
    BY <1>1, <2>1
  <2>3. QED
    BY <2>1, <2>2 DEF PromiseInv, StagedInv
<1>5. ASSUME owed # None PROVE (Persisted => Persisted') /\ OwedInv'
  <2>1. /\ tab # None /\ tab.dirty /\ tab.content = owed /\ owed # disk /\ owed <= typed
        /\ Persisted \/ (staged # None /\ staged.content = owed)
        /\ job # None => job.kind = "save" /\ job.content = owed
        /\ step[Editor] \notin {"discard", "delete"}
    BY <1>1, <1>5 DEF PromiseInv, OwedInv
  <2>2. owed \in Nat /\ chain[1].content \in Nat
    BY <1>1, <1>5, TextNumbers, Contents DEF PromiseInv, EditInv
  <2>3. chain[1].content <= owed
    BY <1>1, <2>1 DEF PromiseInv, EditInv, OrderInv, Above
  <2>4. Persisted => chain[1].content = owed
    <3>1. Persisted => owed <= chain[1].content
      BY <1>1 DEF Persisted, PromiseInv, EditInv, OrderInv
    <3>2. QED
      BY <2>2, <2>3, <3>1
  <2>5. draft' \in {draft, Snapshot(chain[1])}
    BY <1>3, <1>4
  <2>6. Persisted => Persisted'
    BY <1>1, <1>2, <2>4, <2>5 DEF Persisted
  <2>7. Persisted' \/ (staged' # None /\ staged'.content = owed')
    BY <1>1, <1>2, <1>3, <1>4, <2>1, <2>6 DEF Persisted
  <2>8. QED
    BY <1>1, <2>1, <2>6, <2>7 DEF OwedInv
<1>6. TextsInv'
  BY <1>1 DEF PromiseInv, TextsInv
<1>7. owed = None => OwedInv'
  BY <1>1 DEF OwedInv
<1>8. QED
  BY <1>1, <1>3, <1>4, <1>5, <1>6, <1>7 DEF PromiseStep

LEMMA FlushPromises ==
  ASSUME PromiseInv, NEW f \in Flusher, FlushStarts(f) \/ FlushResumes(f)
  PROVE  PromiseStep /\ (Persisted <=> Persisted') /\ owed' = owed
<1>1. UNCHANGED <<disk, draft, tab, typed, staged, job, owed>>
  BY DEF FlushStarts, FlushResumes
<1>2. chain \in Seq(Write) /\ Len(chain) \in Nat /\ f # Editor /\ Editor \in Waiter
  BY EditorAssumption DEF PromiseInv, EditInv, EditorTypeOK, Waiter
<1>3. step'[Editor] = step[Editor]
  <2>1. \E place, n : Await(f, place, n)
    BY DEF FlushStarts, FlushResumes, FlushPass
  <2>2. QED
    BY <1>2, <2>1 DEF Await, PromiseInv, EditInv, EditorTypeOK
<1>4. chain' = chain \/ (staged # None /\ chain' = Queued)
  BY DEF FlushStarts, FlushResumes, FlushPass
<1>5. StagedInv'
  <2>1. CASE chain' = chain
    BY <1>1, <2>1 DEF PromiseInv, StagedInv
  <2>2. CASE staged # None /\ chain' = Queued
    BY <1>1, <2>2, QueuedStaged DEF PromiseInv, EditInv
  <2>3. QED
    BY <1>4, <2>1, <2>2
<1>6. OwedInv' /\ TextsInv'
  BY <1>1, <1>3, <1>4 DEF PromiseInv, OwedInv, TextsInv, Persisted
<1>7. QED
  BY <1>1, <1>5, <1>6 DEF PromiseStep, Persisted

LEMMA TypePromises ==
  ASSUME PromiseInv, NEW promised \in BOOLEAN, Type(promised)
  PROVE  TextsInv' /\ StagedInv' /\ OwedInv' /\ (owed' # None => promised)
<1>1. /\ tab # None /\ typed < MaxText /\ typed' = typed + 1
      /\ tab' = [tab EXCEPT !.content = typed', !.dirty = TRUE]
      /\ Stage(tab') /\ owed' = (IF promised /\ job = None THEN typed' ELSE None)
      /\ UNCHANGED <<disk, draft, waits, job>>
  BY DEF Type
<1>2. typed \in Nat /\ typed' \in Nat /\ disk \in Nat /\ (job # None => job.content \in Nat)
  BY <1>1, TextNumbers, NewText DEF PromiseInv, EditInv
<1>3. TextsInv'
  BY <1>1, <1>2 DEF PromiseInv, TextsInv
<1>4. StagedInv'
  BY <1>1, StagedInvKept DEF PromiseInv, Stage
<1>5. tab' \in Tab /\ tab'.content = typed' /\ tab'.dirty
  BY <1>1, NewText DEF PromiseInv, EditInv, EditorTypeOK, Tab
<1>6. staged' = Snapshot(tab')
  BY <1>1 DEF Stage
<1>7. staged' # None /\ staged'.content = typed' /\ tab' # None
  <2>1. Snapshot(tab') \in Draft /\ Snapshot(tab').content = typed'
    BY <1>5 DEF Snapshot, Draft, Tab
  <2>2. QED
    BY <1>5, <1>6, <2>1, EditorNoneAssumption
<1>8. ASSUME owed' # None PROVE OwedInv' /\ promised
  <2>1. promised /\ job = None /\ owed' = typed'
    BY <1>1, <1>8
  <2>2. step'[Editor] = "idle" /\ job' = None
    BY <1>1, <2>1 DEF PromiseInv, EditInv, EditorTypeOK, waits
  <2>3. owed' # disk' /\ owed' <= typed'
    BY <1>1, <1>2, <2>1 DEF PromiseInv, TextsInv
  <2>4. QED
    BY <1>5, <1>7, <2>1, <2>2, <2>3 DEF OwedInv
<1>9. owed' = None => OwedInv'
  BY DEF OwedInv
<1>10. QED
  BY <1>3, <1>4, <1>8, <1>9

LEMMA TabPromises ==
  ASSUME PromiseInv, OtherTabChanges \/ ExternalEdit
  PROVE  PromiseStep
<1>1. CASE OtherTabChanges
  <2>1. /\ tab \in Tab /\ tab # None /\ tab.dirty /\ Stage(tab)
        /\ UNCHANGED <<disk, draft, tab, typed, waits, job, owed>>
    BY <1>1 DEF OtherTabChanges, PromiseInv, EditInv, EditorTypeOK
  <2>2. staged' = Snapshot(tab)
    BY <2>1 DEF Stage
  <2>3. staged' # None /\ staged'.content = tab.content
    <3>1. Snapshot(tab) \in Draft /\ Snapshot(tab).content = tab.content
      BY <2>1 DEF Snapshot, Draft, Tab
    <3>2. QED
      BY <2>2, <3>1, EditorNoneAssumption
  <2>4. StagedInv'
    BY <2>1, StagedInvKept DEF PromiseInv, Stage
  <2>5. OwedInv' /\ TextsInv'
    BY <2>1, <2>3 DEF PromiseInv, OwedInv, TextsInv, Persisted, waits
  <2>6. QED
    BY <2>1, <2>4, <2>5 DEF PromiseStep, Persisted
<1>2. CASE ExternalEdit
  <2>1. /\ typed < MaxText /\ typed' = typed + 1 /\ disk' = typed'
        /\ UNCHANGED <<draft, tab, staged, chain, timer, waits, job, owed>>
    BY <1>2 DEF ExternalEdit
  <2>2. /\ typed \in Nat /\ (owed # None => owed \in Nat)
        /\ (job # None => job.content \in Nat)
    BY TextNumbers DEF PromiseInv, EditInv
  <2>3. StagedInv'
    BY <2>1 DEF PromiseInv, StagedInv
  <2>4. TextsInv'
    BY <2>1, <2>2 DEF PromiseInv, TextsInv
  <2>5. ASSUME owed # None PROVE owed' # disk' /\ owed' <= typed'
    BY <2>1, <2>2, <2>5 DEF PromiseInv, OwedInv
  <2>6. OwedInv'
    BY <2>1, <2>5 DEF PromiseInv, OwedInv, Persisted, waits
  <2>7. QED
    BY <2>1, <2>3, <2>4, <2>6 DEF PromiseStep, Persisted
<1>3. QED
  BY <1>1, <1>2

LEMMA OpenPromises ==
  ASSUME PromiseInv, OpenFile
  PROVE  /\ TextsInv' /\ StagedInv' /\ OwedInv'
         /\ owed' # None => Persisted'
         /\ draft # None /\ draft' = None /\ draft.content = owed => disk = owed \/ owed' = None
<1>1. /\ tab = None /\ job = None /\ step[Editor] = "idle"
      /\ UNCHANGED <<disk, typed, waits, job>>
  BY DEF OpenFile, PromiseInv, EditInv, EditorTypeOK
<1>2. TextsInv'
  BY <1>1 DEF PromiseInv, TextsInv
<1>3. owed # None => draft # None /\ draft.content = owed /\ owed # disk
  BY <1>1 DEF PromiseInv, OwedInv, Persisted
<1>4. CASE draft = None /\ UNCHANGED <<draft, staged, chain, timer, owed>>
  BY <1>2, <1>3, <1>4 DEF PromiseInv, StagedInv, OwedInv
<1>5. CASE draft # None /\ draft.content = disk /\ UNCHANGED <<staged, chain, timer, owed>>
  BY <1>2, <1>3, <1>5 DEF PromiseInv, StagedInv, OwedInv
<1>6. CASE /\ draft # None /\ draft.content # disk
           /\ tab' = [content |-> draft.content, base |-> disk, dirty |-> TRUE]
           /\ Stage(tab') /\ owed' = draft.content /\ UNCHANGED draft
  <2>1. draft.content \in Text /\ tab' \in Tab /\ tab'.content = draft.content /\ tab'.dirty
    BY <1>6 DEF PromiseInv, EditInv, EditorTypeOK, Draft, Tab
  <2>2. StagedInv'
    BY <1>6, StagedInvKept DEF PromiseInv, Stage
  <2>3. draft.content <= typed
    BY <1>6 DEF PromiseInv, EditInv, OrderInv, Above
  <2>4. tab' # None /\ Persisted'
    BY <1>6, <2>1, EditorNoneAssumption DEF Persisted
  <2>5. OwedInv'
    BY <1>1, <1>6, <2>1, <2>3, <2>4 DEF OwedInv, waits
  <2>6. QED
    BY <1>2, <1>6, <2>2, <2>4, <2>5
<1>7. CASE Unstage /\ owed' = None
  <2>1. StagedInv'
    BY <1>7, StagedInvKept DEF PromiseInv, Unstage
  <2>2. QED
    BY <1>2, <1>7, <2>1 DEF OwedInv
<1>8. QED
  BY <1>4, <1>5, <1>6, <1>7 DEF OpenFile

LEMMA SavePromises ==
  ASSUME PromiseInv, SaveStarts \/ SaveResumes \/ SaveDocument
  PROVE  PromiseStep
<1>1. /\ chain \in Seq(Write) /\ Editor \in Waiter
      /\ \A place, n : Await(Editor, place, n) => step'[Editor] = place
  BY DEF Await, PromiseInv, EditInv, EditorTypeOK, Waiter
<1>2. CASE SaveStarts
  <2>1. /\ tab # None /\ tab.dirty
        /\ job' = [kind |-> "save", content |-> tab.content, base |-> tab.base]
        /\ UNCHANGED <<disk, draft, tab, typed, staged, owed>>
        /\ chain' = chain \/ (staged # None /\ chain' = Queued)
    BY <1>2 DEF SaveStarts
  <2>2. step'[Editor] \in {"batch", "save", "tail"}
    <3>1. \E place \in {"batch", "save", "tail"}, n \in {Len(Queued), Len(chain)} :
            Await(Editor, place, n)
      BY <1>2 DEF SaveStarts
    <3>2. QED
      BY <1>1, <3>1
  <2>3. StagedInv'
    <3>1. CASE chain' = chain
      BY <2>1, <3>1 DEF PromiseInv, StagedInv
    <3>2. CASE staged # None /\ chain' = Queued
      BY <1>1, <2>1, <3>2, QueuedStaged DEF PromiseInv, EditInv
    <3>3. QED
      BY <2>1, <3>1, <3>2
  <2>4. TextsInv'
    BY <2>1 DEF PromiseInv, TextsInv, EditInv, OrderInv
  <2>5. OwedInv'
    BY <2>1, <2>2 DEF PromiseInv, OwedInv, Persisted
  <2>6. QED
    BY <2>1, <2>3, <2>4, <2>5 DEF PromiseStep, Persisted
<1>3. CASE SaveResumes
  <2>1. job # None /\ UNCHANGED <<disk, draft, tab, typed, staged, chain, owed>>
        /\ job' \in {job, None}
    BY <1>3 DEF SaveResumes, EndJob
  <2>2. step'[Editor] \in {"idle", "tail", "save"}
    <3>1. \E place \in {"idle", "tail", "save"}, n \in {0, Len(chain)} : Await(Editor, place, n)
      BY <1>3 DEF SaveResumes, EndJob
    <3>2. QED
      BY <1>1, <3>1
  <2>3. StagedInv' /\ TextsInv'
    BY <2>1 DEF PromiseInv, StagedInv, TextsInv
  <2>4. OwedInv'
    BY <2>1, <2>2 DEF PromiseInv, OwedInv, Persisted
  <2>5. QED
    BY <2>1, <2>3, <2>4 DEF PromiseStep, Persisted
<1>4. CASE SaveDocument
  <2>1. step[Editor] = "save" /\ UNCHANGED <<draft, tab, typed>> /\ job # None
    BY <1>4 DEF SaveDocument, PromiseInv, EditInv, EditorTypeOK
  <2>2. CASE /\ disk' = job.content /\ owed' = (IF owed = job.content THEN None ELSE owed)
             /\ Discard /\ job' = job
    <3>1. owed' = None
      BY <2>1, <2>2 DEF PromiseInv, OwedInv
    <3>2. StagedInv'
      BY <2>2, StagedInvKept DEF PromiseInv, Discard, Unstage
    <3>3. TextsInv'
      BY <2>1, <2>2 DEF PromiseInv, TextsInv
    <3>4. QED
      BY <3>1, <3>2, <3>3 DEF PromiseStep, OwedInv
  <2>3. CASE EndJob /\ UNCHANGED <<disk, staged, chain, timer, owed>>
    <3>1. job' = None /\ step'[Editor] = "idle"
      BY <1>1, <2>3 DEF EndJob
    <3>2. StagedInv' /\ TextsInv'
      BY <2>1, <2>3, <3>1 DEF PromiseInv, StagedInv, TextsInv
    <3>3. OwedInv'
      BY <2>1, <2>3, <3>1 DEF PromiseInv, OwedInv, Persisted
    <3>4. QED
      BY <2>1, <2>3, <3>2, <3>3 DEF PromiseStep, Persisted
  <2>4. QED
    BY <1>4, <2>2, <2>3 DEF SaveDocument
<1>5. QED
  BY <1>2, <1>3, <1>4

(* Whatever gives up a draft has nothing left that is owed. *)
LEMMA ClosePromises ==
  ASSUME PromiseInv, CloseTab \/ DiscardResumes \/ DeleteDraft
  PROVE  PromiseStep /\ owed' = None
<1>1. owed' = None
  <2>1. CASE CloseTab
    BY <2>1 DEF CloseTab, PromiseInv, OwedInv
  <2>2. CASE DiscardResumes \/ DeleteDraft
    <3>1. owed = None
      BY <2>2 DEF DiscardResumes, DeleteDraft, PromiseInv, OwedInv
    <3>2. QED
      BY <2>2, <3>1 DEF DiscardResumes, DeleteDraft, SaveSucceeds, EndJob
  <2>3. QED
    BY <2>1, <2>2
<1>2. /\ UNCHANGED <<disk, typed>>
      /\ job' \in {job, None} \/ (tab # None /\ tab.dirty /\ job'.content = tab.content)
  BY DEF CloseTab, DiscardResumes, DeleteDraft, SaveSucceeds, EndJob
<1>3. TextsInv'
  BY <1>2 DEF PromiseInv, TextsInv, EditInv, OrderInv
<1>4. chain' = Outdated \/ UNCHANGED <<chain, staged>>
  BY DEF CloseTab, Discard, Unstage, DiscardResumes, DeleteDraft
<1>5. StagedInv'
  BY <1>4, StagedInvKept DEF PromiseInv
<1>6. QED
  BY <1>1, <1>3, <1>5 DEF PromiseStep, OwedInv

LEMMA PromiseInitInv == DesktopInit => PromiseInv /\ FlushedInv
<1> SUFFICES ASSUME DesktopInit PROVE PromiseInv /\ FlushedInv
  OBVIOUS
<1>1. /\ chain = <<>> /\ tab = None /\ staged = None /\ job = None /\ disk = 0
      /\ typed \in Nat /\ typed >= 1
      /\ step = [w \in Waiter |-> "idle"] /\ step[Editor] = "idle"
      /\ owed = IF draft = None THEN None ELSE draft.content
      /\ draft # None => draft.content = 1
  BY MaxTextAssumption DEF DesktopInit, EditorInit, Waiter
<1>2. OwedInv
  BY <1>1 DEF OwedInv, Persisted
<1>3. PromiseInv
  BY <1>1, <1>2, EditorInitInv DEF PromiseInv, TextsInv, StagedInv
<1>4. \A r \in Request : handler[r] # "flushed" /\ step[r] = "idle"
  BY <1>1, FlusherAssumption DEF DesktopInit, QuitInit, Waiter
<1>5. exited = "no"
  BY DEF DesktopInit, QuitInit
<1>6. QED
  BY <1>3, <1>4, <1>5 DEF FlushedInv

(* A flush of f that has no pass left finds the promised text in its draft. *)
LEMMA PassEndsPersisted ==
  ASSUME PromiseInv, NEW f \in Flusher, FlushStarts(f) \/ FlushResumes(f),
         step'[f] \in {"tail", "done"}, owed # None
  PROVE  Persisted \/ step[f] = "tail"
<1>1. f \in Waiter /\ step \in [Waiter -> Step]
  BY DEF Waiter, PromiseInv, EditInv, EditorTypeOK
<1>2. CASE FlushPass(f)
  <2>1. staged = None
    BY <1>1, <1>2 DEF FlushPass, Await
  <2>2. QED
    BY <2>1 DEF PromiseInv, OwedInv
<1>3. CASE /\ FlushResumes(f) /\ ~(result[f] /\ step[f] = "batch")
           /\ Await(f, IF result[f] THEN Ended(f) ELSE Rejected(f), 0)
  <2>1. result[f]
    BY <1>1, <1>3 DEF Await, Rejected
  <2>2. QED
    BY <1>3, <2>1 DEF FlushResumes
<1>4. QED
  BY <1>2, <1>3 DEF FlushStarts, FlushResumes

(* The coordinator goes on, or a handler answers, while the editor rests. *)
LEMMA AnswersFlushed ==
  ASSUME FlushedInv, UNCHANGED editorVars,
         \A r \in Request :
           /\ handler'[r] = "flushed" => handler[r] = "flushed" \/ step[r] = "done"
           /\ handler'[r] \notin {"failed", "done"} => handler[r] \notin {"failed", "done"},
         exited' = "completed" =>
           exited = "completed" \/ \E r \in Request : handler[r] = "flushed"
  PROVE  FlushedInv'
<1>1. UNCHANGED <<step, owed, draft>>
  BY DEF editorVars
<1>2. Persisted' <=> Persisted
  BY <1>1 DEF Persisted
<1>3. ASSUME NEW r \in Request, handler[r] = "flushed", owed # None PROVE Persisted
  BY <1>3 DEF FlushedInv
<1>4. QED
  BY <1>1, <1>2, <1>3 DEF FlushedInv

LEMMA QuitFlushed ==
  ASSUME QuitInv, FlushedInv, QuitStep, UNCHANGED editorVars
  PROVE  FlushedInv'
<1>1. handler \in [Request -> Handler]
  BY DEF QuitInv, QuitTypeInv
<1>2. CASE RequestClearsAck \/ \E r \in Request : FallbackStep(r)
  BY <1>2, AnswersFlushed
     DEF RequestClearsAck, FallbackStep, TimerRings, LoadsAcknowledged, Exits, Wakes
<1>3. CASE RequestStoresPending
  <2>1. \A r \in Request : handler'[r] = handler[r] \/ (handler[r] = "none" /\ handler'[r] = "event")
    <3>1. next_request_id \in Request => handler[next_request_id] = "none"
      BY <1>3 DEF RequestStoresPending, QuitInv, UnbornInv, Unborn
    <3>2. QED
      BY <1>1, <1>3, <3>1 DEF RequestStoresPending
  <2>2. QED
    BY <1>3, <2>1, AnswersFlushed DEF RequestStoresPending
<1>4. ASSUME NEW r \in Request,
             safe_quit_ack(r) \/ safe_quit_complete(r) \/ safe_quit_cancel(r)
      PROVE  FlushedInv'
  <2>1. \/ handler' = handler
        \/ handler[r] = "event" /\ handler' = [handler EXCEPT ![r] = "flushing"]
        \/ \E last \in {"failed", "done"} : handler' = [handler EXCEPT ![r] = last]
    BY <1>4 DEF safe_quit_ack, safe_quit_complete, safe_quit_cancel
  <2>2. exited' = exited \/ handler[r] = "flushed"
    BY <1>4 DEF safe_quit_ack, safe_quit_complete, safe_quit_cancel
  <2>3. \A q \in Request :
          /\ handler'[q] = "flushed" => handler[q] = "flushed"
          /\ handler'[q] \notin {"failed", "done"} => handler[q] \notin {"failed", "done"}
    BY <1>1, <2>1
  <2>4. QED
    BY <2>2, <2>3, AnswersFlushed
<1>5. QED
  BY <1>2, <1>3, <1>4 DEF QuitStep

(* A draft whose text is owed is not given up. *)
Outlives == draft # None /\ draft' = None /\ draft.content = owed => disk = owed \/ owed' = None

(* While the coordinator rests and no flush goes on. *)
LEMMA EditFlushed ==
  ASSUME PromiseInv, FlushedInv, Edit
  PROVE  TextsInv' /\ StagedInv' /\ OwedInv' /\ FlushedInv' /\ Outlives
<1>1. handler' = handler /\ exited' = exited
  BY DEF Edit, quitVars
<1>2. \A r \in Request : step'[r] = step[r]
  <2>1. UNCHANGED step \/ \E place, n : Await(Editor, place, n)
    BY DEF Edit, EditorStep, WriteEnds, OpenFile, OtherTabChanges, ExternalEdit, SaveStarts,
           SaveResumes, SaveDocument, CloseTab, DiscardResumes, DeleteDraft, SaveSucceeds,
           EndJob, Discard, waits
  <2>2. Request \subseteq Waiter \ {Editor} /\ step \in [Waiter -> Step]
    BY FlusherAssumption, EditorAssumption DEF PromiseInv, EditInv, EditorTypeOK, Waiter
  <2>3. QED
    BY <2>1, <2>2 DEF Await
<1>3. CASE PromiseStep
  <2>1. FlushedInv'
    BY <1>1, <1>2, <1>3 DEF FlushedInv, PromiseStep
  <2>2. QED
    BY <1>3, <2>1, EditorNoneAssumption DEF PromiseStep, Persisted, Outlives
<1>4. CASE OpenFile
  <2>1. TextsInv' /\ StagedInv' /\ OwedInv' /\ (owed' # None => Persisted') /\ Outlives
    BY <1>4, OpenPromises DEF Outlives
  <2>2. FlushedInv'
    BY <1>1, <1>2, <2>1 DEF FlushedInv
  <2>3. QED
    BY <2>1, <2>2
<1>5. QED
  BY <1>3, <1>4, WritePromises, TabPromises, SavePromises, ClosePromises DEF Edit, EditorStep

LEMMA FlushFlushed ==
  ASSUME PromiseInv, FlushedInv, NEW f \in Flusher, UNCHANGED quitVars,
         FlushResumes(f) \/ (FlushStarts(f) /\ (f \in Request => step[f] = "idle"))
  PROVE  TextsInv' /\ StagedInv' /\ OwedInv' /\ FlushedInv' /\ Outlives
<1>1. PromiseStep /\ (Persisted <=> Persisted') /\ owed' = owed /\ draft' = draft
  BY FlushPromises DEF FlushStarts, FlushResumes
<1>2. handler' = handler /\ exited' = exited
  BY DEF quitVars
<1>3. \A r \in Request \ {f} : step'[r] = step[r]
  <2>1. \E place, n : Await(f, place, n)
    BY DEF FlushStarts, FlushResumes, FlushPass
  <2>2. Request \subseteq Waiter /\ step \in [Waiter -> Step]
    BY FlusherAssumption DEF PromiseInv, EditInv, EditorTypeOK, Waiter
  <2>3. QED
    BY <2>1, <2>2 DEF Await
<1>4. f \in Request => handler[f] # "flushed"
  BY DEF FlushedInv, FlushResumes
<1>5. ASSUME f \in Request, step'[f] \in {"tail", "done"},
             handler[f] \notin {"failed", "done"}, owed # None
      PROVE  Persisted
  BY <1>5, PassEndsPersisted DEF FlushedInv
<1>6. FlushedInv'
  BY <1>1, <1>2, <1>3, <1>4, <1>5 DEF FlushedInv
<1>7. QED
  BY <1>1, <1>6 DEF PromiseStep, Outlives

LEMMA TypeFlushed ==
  ASSUME PromiseInv, FlushedInv, UserTypes
  PROVE  TextsInv' /\ StagedInv' /\ OwedInv' /\ FlushedInv' /\ Outlives
<1> DEFINE promised ==
      \A r \in Request : step[r] \in {"tail", "done"} => handler[r] \in {"failed", "done"}
<1>1. TextsInv' /\ StagedInv' /\ OwedInv' /\ (owed' # None => promised)
  <2>1. Type(promised) /\ promised \in BOOLEAN
    BY DEF UserTypes
  <2>2. QED
    BY <2>1, TypePromises
<1>2. UNCHANGED <<handler, exited, step, draft>> /\ exited = "no"
  BY DEF UserTypes, Type, quitVars, waits, Alive
<1>3. FlushedInv'
  BY <1>1, <1>2 DEF FlushedInv
<1>4. QED
  BY <1>1, <1>2, <1>3 DEF Outlives

LEMMA FlushedInvKept ==
  ASSUME QuitInv, PromiseInv, FlushedInv, [DesktopNext]_desktopVars
  PROVE  PromiseInv' /\ FlushedInv' /\ Outlives
<1>1. EditInv'
  BY EditInvKept DEF PromiseInv
<1>2. ASSUME UNCHANGED editorVars,
             \/ QuitStep \/ (handler' = handler /\ exited' = exited)
             \/ \E r \in Request : HandlerAnswers(r)
      PROVE  PromiseInv' /\ FlushedInv' /\ Outlives
  <2>1. TextsInv' /\ StagedInv' /\ OwedInv' /\ Outlives
    BY <1>2 DEF editorVars, PromiseInv, TextsInv, StagedInv, OwedInv, Persisted, Outlives
  <2>2. CASE QuitStep
    BY <1>1, <1>2, <2>1, <2>2, QuitFlushed DEF PromiseInv
  <2>3. CASE handler' = handler /\ exited' = exited
    BY <1>1, <1>2, <2>1, <2>3, AnswersFlushed DEF PromiseInv
  <2>4. ASSUME NEW r \in Request, HandlerAnswers(r) PROVE FlushedInv'
    <3>1. handler \in [Request -> Handler]
      BY DEF QuitInv, QuitTypeInv
    <3>2. /\ handler[r] = "flushing" /\ exited' = exited
          /\ handler' = [handler EXCEPT ![r] = IF step[r] = "done" THEN "flushed" ELSE "failed"]
      BY <2>4 DEF HandlerAnswers, FlushAnswers
    <3>3. QED
      BY <1>2, <3>1, <3>2, AnswersFlushed
  <2>5. QED
    BY <1>1, <1>2, <2>1, <2>2, <2>3, <2>4 DEF PromiseInv
<1>3. CASE Edit
  BY <1>1, <1>3, EditFlushed DEF PromiseInv
<1>4. CASE UserTypes
  BY <1>1, <1>4, TypeFlushed DEF PromiseInv
<1>5. CASE TimerFlushes
  <2>1. Timer \in Flusher /\ Timer \notin Request /\ UNCHANGED quitVars
        /\ (FlushStarts(Timer) \/ FlushResumes(Timer))
    BY <1>5, EditorAssumption, FlusherAssumption DEF TimerFlushes
  <2>2. QED
    BY <1>1, <2>1, FlushFlushed DEF PromiseInv
<1>6. ASSUME NEW r \in Request, HandlerFlushes(r) \/ HandlerResumes(r)
      PROVE  PromiseInv' /\ FlushedInv' /\ Outlives
  <2>1. /\ r \in Flusher /\ UNCHANGED quitVars
        /\ FlushResumes(r) \/ (FlushStarts(r) /\ step[r] = "idle")
    BY <1>6, FlusherAssumption DEF HandlerFlushes, HandlerResumes
  <2>2. QED
    BY <1>1, <2>1, FlushFlushed DEF PromiseInv
<1>7. CASE Quit \/ \E r \in Request : HandlerAnswers(r)
  BY <1>2, <1>7 DEF Quit, HandlerAnswers
<1>8. CASE UNCHANGED desktopVars
  BY <1>2, <1>8 DEF desktopVars, quitVars
<1>9. QED
  BY <1>3, <1>4, <1>5, <1>6, <1>7, <1>8 DEF DesktopNext

(* A quit that completes leaves no edit behind: whatever the editor has promised
   to keep is in the draft file when the flush of its handler is over, however the
   timer, saves, closes and other programs come in between (App.tsx, quit.rs). *)
THEOREM CompletedQuitKeepsEdits == DesktopSpec => []QuitKeepsEdits
<1>1. FlushedInv => QuitKeepsEdits
  BY DEF FlushedInv, QuitKeepsEdits, Persisted
<1>2. QuitInv /\ PromiseInv /\ FlushedInv /\ [DesktopNext]_desktopVars => PromiseInv' /\ FlushedInv'
  BY FlushedInvKept
<1>3. QED
  BY <1>1, <1>2, QuitInitInv, QuitInvKept, PromiseInitInv, PTL DEF DesktopSpec

(* A draft whose text is owed is removed only when the file has the text or the
   user gives it up: opening, saving and closing remove no other one. *)
THEOREM DraftsOutliveTexts == DesktopSpec => DraftOutlivesText
<1>1. QuitInv /\ PromiseInv /\ FlushedInv /\ [DesktopNext]_desktopVars
        => PromiseInv' /\ FlushedInv' /\ Outlives
  BY FlushedInvKept
<1>2. QED
  BY <1>1, QuitInitInv, QuitInvKept, PromiseInitInv, PTL DEF DesktopSpec, DraftOutlivesText, Outlives

-----------------------------------------------------------------------------
AtomicsInv == acknowledged_request_id \in 0..MaxRequests /\ requesting \in BOOLEAN

LEMMA AtomicsInvKept == AtomicsInv /\ [DesktopNext]_desktopVars => AtomicsInv'
<1> SUFFICES ASSUME AtomicsInv, [DesktopNext]_desktopVars PROVE AtomicsInv'
  OBVIOUS
<1>1. \/ UNCHANGED quitVars
      \/ RequestClearsAck \/ RequestStoresPending
      \/ \E r \in Request : safe_quit_ack(r) \/ safe_quit_complete(r) \/ safe_quit_cancel(r)
      \/ \E r \in Request : FallbackStep(r) \/ HandlerAnswers(r)
  BY DEF DesktopNext, Quit, QuitStep, HandlerFlushes, HandlerResumes, TimerFlushes, UserTypes, Edit, desktopVars
<1>2. acknowledged_request_id' = acknowledged_request_id
        \/ acknowledged_request_id' = 0 \/ acknowledged_request_id' \in Request
  BY <1>1 DEF quitVars, atomics, RequestClearsAck, RequestStoresPending, safe_quit_ack,
              safe_quit_complete, safe_quit_cancel, FallbackStep, TimerRings,
              LoadsAcknowledged, Exits, Wakes, HandlerAnswers
<1>3. requesting' = requesting \/ requesting' = TRUE \/ requesting' = FALSE
  BY <1>1 DEF quitVars, RequestClearsAck, RequestStoresPending, safe_quit_ack,
              safe_quit_complete, safe_quit_cancel, FallbackStep, TimerRings,
              LoadsAcknowledged, Exits, Wakes, HandlerAnswers
<1>4. acknowledged_request_id' \in 0..MaxRequests
  BY <1>2, MaxRequestsAssumption DEF AtomicsInv, Request
<1>5. requesting' \in BOOLEAN
  BY <1>3 DEF AtomicsInv
<1>6. QED
  BY <1>4, <1>5 DEF AtomicsInv

(* Every variable of the quit coordinator and of the editor keeps its kind; a
   waiter never awaits more draft writes than are queued. *)
THEOREM QuitTypeCorrect == DesktopSpec => []DesktopTypeOK
<1>1. DesktopInit => AtomicsInv
  <2>1. DesktopInit => acknowledged_request_id = 0 /\ requesting \in BOOLEAN
    BY DEF DesktopInit, QuitInit
  <2>2. 0 \in 0..MaxRequests
    BY MaxRequestsAssumption
  <2>3. QED
    BY <2>1, <2>2 DEF AtomicsInv
<1>2. QuitInv /\ AtomicsInv /\ EditInv => DesktopTypeOK
  <2> SUFFICES ASSUME QuitInv, AtomicsInv, EditInv PROVE DesktopTypeOK
    OBVIOUS
  <2>1. pending_request_id \in 0..MaxRequests
    BY MaxRequestsAssumption DEF QuitInv, QuitTypeInv
  <2>2. QED
    BY <2>1 DEF QuitInv, QuitTypeInv, AtomicsInv, EditInv, DesktopTypeOK, QuitTypeOK
<1>3. EditInv /\ [DesktopNext]_desktopVars => EditInv'
  BY EditInvKept
<1>4. QED
  BY <1>1, <1>2, <1>3, QuitInitInv, QuitInvKept, AtomicsInvKept, EditorInitInv, PTL DEF DesktopSpec

-----------------------------------------------------------------------------
(* The event journal, the restore of its database and the cache over it. *)
TypeInv == TypeOK /\ IsFiniteSet(DOMAIN cache)

(* A database holds each event once, none before its identity was given, and
   none of the legacy journal before it is marked. *)
Sound(d, id) ==
  /\ IsInjective(d.events)
  /\ \A n \in DOMAIN d.events :
       IF d.events[n] \in ToSet(Legacy) THEN d.marked ELSE d.events[n].id < id
  /\ Len(d.events) < id + IF d.marked THEN Len(Legacy) ELSE 0

SoundInv ==
  /\ \A f \in File : Sound(db[f], next)
  /\ \A b \in backups : Sound(b, next)

(* Which files a restore has in hand, from where on. *)
RestoreInv ==
  /\ At("stage") => live # Null /\ restore.old = Null
  /\ At("aside") => live # Null /\ restore.old = Null /\ restore.candidate # Null
  /\ At("promote") => restore.old # Null /\ restore.candidate # Null
  /\ At("verify") \/ At("cleanup") =>
       restore.old # Null /\ restore.candidate # Null /\ live = restore.candidate
  /\ At("rollback") => restore.old # Null

(* While a restore is under way, what was acknowledged is in a backup. *)
AckInv ==
  \A e \in acked :
    \/ \E b \in backups : e \in ToSet(b.events)
    \/ ~Restoring /\ e \in ToSet(Ledgered)

Scoped(stamp, item) == InScope(IF stamp = Null THEN <<>> ELSE stamp, item)

IsPrefixOf(s, events) ==
  Len(s) <= Len(events) /\ \A n \in 1 .. Len(s) : s[n] = events[n]

(* No restore overlaps a load.  The stamp a load has read is a prefix of the
   ledger, and if nothing of the item came after it, neither did it before the
   load read the events. *)
LoadInv ==
  /\ call[Main].at # "idle" => load # Null /\ live # Null
  /\ load # Null =>
       /\ ~Restoring
       /\ load.at \in {"initial", "before"} => load.tries < MAX_STABLE_READ_ATTEMPTS
       /\ load.at \in {"events", "after"} =>
            live # Null /\ (load.before = Null \/ IsPrefixOf(load.before, Ledgered))
       /\ load.at = "after" =>
            (ledger_stamp = load.before => load.events = InScope(Ledgered, load.item))

(* A cached projection is that of the ledger its stamp stands for. *)
CacheInv ==
  \A i \in DOMAIN cache : cache[i].snapshot = Scoped(cache[i].stamp, i)

Inv == TypeInv /\ SoundInv /\ RestoreInv /\ AckInv /\ LoadInv /\ CacheInv

-----------------------------------------------------------------------------
(* The operators of the model. *)

LEMMA LeastNatural ==
  ASSUME NEW T \in SUBSET Nat, T # {}
  PROVE  \E x \in T : \A y \in T : x <= y
<1> DEFINE R == OpToRel(<, Nat)
<1>1. IsWellFoundedOn(R, Nat)
  BY NatLessThanWellFounded
<1>2. \A x, y \in Nat : <<x, y>> \in R <=> x < y
  BY DEF OpToRel
<1> HIDE DEF R
<1>3. PICK x \in T : \A y \in T : <<y, x>> \notin R
  BY <1>1, WFMin
<1>4. \A y \in T : ~(y < x)
  <2> TAKE y \in T
  <2>1. x \in Nat /\ y \in Nat
    OBVIOUS
  <2>2. QED
    BY <1>2, <1>3, <2>1
<1>5. \A y \in T : x <= y
  BY <1>4, T \subseteq Nat, x \in T
<1>6. QED
  BY <1>5

LEMMA Ledgers ==
  \A s : s \in Ledger <=> s \in Seq(Event) /\ Len(s) <= MaxEvents + Len(Legacy)
<1>1. MaxEvents + Len(Legacy) \in Nat
  BY MaxEventsAssumption, LegacyAssumption
<1>2. TAKE s
<1>3. s \in Ledger => s \in Seq(Event) /\ Len(s) <= MaxEvents + Len(Legacy)
  BY <1>1 DEF Ledger, BoundedSeq, SeqOf
<1>4. ASSUME s \in Seq(Event), Len(s) <= MaxEvents + Len(Legacy) PROVE s \in Ledger
  <2>1. Len(s) \in 0 .. MaxEvents + Len(Legacy) /\ s \in [1 .. Len(s) -> Event]
    BY <1>1, <1>4
  <2>2. QED
    BY <2>1 DEF Ledger, BoundedSeq, SeqOf
<1>5. QED
  BY <1>3, <1>4

LEMMA Events ==
  /\ Legacy \in Seq(Event)
  /\ \A n \in DOMAIN Legacy : Legacy[n] \in ToSet(Legacy)
  /\ \A e \in ToSet(Legacy) : e.id \notin 1 .. MaxEvents
  /\ \A e \in Event : e \notin ToSet(Legacy) => e.id \in 1 .. MaxEvents
<1> DEFINE Old == [id : Nat \ (1 .. MaxEvents), item : Item]
<1>0. \A e \in Old : e.id \notin 1 .. MaxEvents
  OBVIOUS
<1>1. Legacy \in Seq(Old)
  BY LegacyAssumption
<1> HIDE DEF Old
<1>2. \A n \in DOMAIN Legacy : Legacy[n] \in ToSet(Legacy) /\ Legacy[n].id \notin 1 .. MaxEvents
  BY <1>0, <1>1 DEF ToSet
<1>3. Legacy \in Seq(ToSet(Legacy))
  BY <1>1, <1>2
<1>4. ToSet(Legacy) \subseteq Event
  BY DEF Event
<1>5. \A e \in ToSet(Legacy) : e.id \notin 1 .. MaxEvents
  BY <1>2 DEF ToSet
<1>6. \A e \in Event : e \notin ToSet(Legacy) => e.id \in 1 .. MaxEvents
  BY DEF Event
<1>7. QED
  BY <1>2, <1>3, <1>4, <1>5, <1>6

LEMMA AppendIsSound ==
  ASSUME NEW d \in Database, NEW id \in 1 .. MaxEvents, NEW item \in Item, Sound(d, id)
  PROVE  LET grown == [d EXCEPT !.events = Append(@, [id |-> id, item |-> item])] IN
           grown \in Database /\ Sound(grown, id + 1)
<1> DEFINE event == [id |-> id, item |-> item]
           grown == [d EXCEPT !.events = Append(@, event)]
<1>1. event \in Event /\ event \notin ToSet(Legacy) /\ event.id = id
  BY Events DEF Event
<1>2. d.events \in Seq(Event) /\ d.marked \in BOOLEAN /\ Len(Legacy) \in Nat /\ MaxEvents \in Nat
  BY Ledgers, MaxEventsAssumption, LegacyAssumption DEF Database
<1> HIDE DEF event
<1>3. /\ grown.events = Append(d.events, event) /\ grown.marked = d.marked
      /\ grown.events \in Seq(Event) /\ Len(grown.events) = Len(d.events) + 1
      /\ \A n \in DOMAIN d.events : grown.events[n] = d.events[n]
      /\ grown.events[Len(d.events) + 1] = event
      /\ DOMAIN grown.events = DOMAIN d.events \cup {Len(d.events) + 1}
  BY <1>1, <1>2 DEF Database
<1>4. Len(grown.events) < id + 1 + IF d.marked THEN Len(Legacy) ELSE 0
  BY <1>2, <1>3 DEF Sound
<1>5. grown \in Database
  <2>1. Len(grown.events) <= MaxEvents + Len(Legacy)
    BY <1>2, <1>3, <1>4
  <2>2. grown = [marked |-> d.marked, events |-> Append(d.events, event)]
    BY DEF Database
  <2>3. QED
    BY <1>2, <1>3, <2>1, <2>2, Ledgers DEF Database
<1>6. \A n \in DOMAIN d.events : d.events[n] # event
  BY <1>1, <1>2 DEF Sound
<1>7. IsInjective(grown.events)
  BY <1>3, <1>6 DEF Sound, IsInjective
<1>8. \A n \in DOMAIN grown.events :
        IF grown.events[n] \in ToSet(Legacy) THEN grown.marked ELSE grown.events[n].id < id + 1
  BY <1>1, <1>2, <1>3, Events DEF Sound
<1>9. QED
  BY <1>3, <1>4, <1>5, <1>7, <1>8 DEF Sound, event

LEMMA ImportIsSound ==
  ASSUME NEW d \in Database, NEW id \in 1 .. MaxEvents + 1, Sound(d, id)
  PROVE  Imported(d) \in Database /\ Sound(Imported(d), id)
<1>1. CASE d.marked
  BY <1>1 DEF Imported
<1>2. CASE ~d.marked
  <2> DEFINE grown == [marked |-> TRUE, events |-> d.events \o Legacy]
  <2>1. /\ d.events \in Seq(Event) /\ Legacy \in Seq(Event)
        /\ Len(Legacy) \in Nat /\ Len(d.events) \in Nat /\ MaxEvents \in Nat
    BY Ledgers, Events, MaxEventsAssumption DEF Database
  <2>2. /\ grown.events = d.events \o Legacy /\ grown.events \in Seq(Event)
        /\ Len(grown.events) = Len(d.events) + Len(Legacy)
        /\ \A n \in 1 .. Len(d.events) : grown.events[n] = d.events[n]
        /\ \A n \in 1 .. Len(Legacy) : grown.events[Len(d.events) + n] = Legacy[n]
    BY <2>1
  <2>3. \A n \in DOMAIN grown.events :
          \/ n \in DOMAIN d.events /\ grown.events[n] = d.events[n]
          \/ n - Len(d.events) \in DOMAIN Legacy /\ grown.events[n] = Legacy[n - Len(d.events)]
    <3> TAKE n \in DOMAIN grown.events
    <3>1. CASE n \in 1 .. Len(d.events)
      BY <2>1, <2>2, <3>1
    <3>2. CASE n \notin 1 .. Len(d.events)
      <4>1. n - Len(d.events) \in 1 .. Len(Legacy) /\ n = Len(d.events) + (n - Len(d.events))
        BY <2>1, <2>2, <3>2
      <4>2. QED
        BY <2>1, <2>2, <4>1
    <3>3. QED
      BY <3>1, <3>2
  <2>4. \A n \in DOMAIN d.events : d.events[n] \notin ToSet(Legacy) /\ d.events[n].id < id
    BY <1>2 DEF Sound
  <2>5. Len(grown.events) < id + Len(Legacy)
    BY <1>2, <2>1, <2>2 DEF Sound
  <2>6. grown \in Database
    <3>1. Len(grown.events) <= MaxEvents + Len(Legacy)
      BY <2>1, <2>2, <2>5
    <3>2. QED
      BY <2>2, <3>1, Ledgers DEF Database
  <2>7. IsInjective(grown.events)
    <3> SUFFICES ASSUME NEW a \in DOMAIN grown.events, NEW b \in DOMAIN grown.events,
                        grown.events[a] = grown.events[b]
                 PROVE  a = b
      BY DEF IsInjective
    <3>1. a \in Int /\ b \in Int
      BY <2>2
    <3>2. CASE a \in DOMAIN d.events /\ grown.events[a] = d.events[a]
      <4>1. b \in DOMAIN d.events /\ grown.events[b] = d.events[b]
        <5>1. grown.events[b] \notin ToSet(Legacy)
          BY <2>4, <3>2
        <5>2. QED
          BY <2>3, <5>1, Events
      <4>2. QED
        BY <3>2, <4>1 DEF Sound, IsInjective
    <3>3. CASE a - Len(d.events) \in DOMAIN Legacy /\ grown.events[a] = Legacy[a - Len(d.events)]
      <4>1. b - Len(d.events) \in DOMAIN Legacy /\ grown.events[b] = Legacy[b - Len(d.events)]
        <5>1. grown.events[b] \in ToSet(Legacy)
          BY <3>3, Events
        <5>2. QED
          BY <2>3, <2>4, <5>1
      <4>2. a - Len(d.events) = b - Len(d.events)
        BY <3>3, <4>1, LegacyAssumption DEF IsInjective
      <4>3. QED
        BY <2>1, <3>1, <4>2
    <3>4. QED
      BY <2>3, <3>2, <3>3
  <2>8. QED
    BY <1>2, <2>3, <2>4, <2>5, <2>6, <2>7, Events DEF Imported, Sound
<1>3. QED
  BY <1>1, <1>2 DEF Database

LEMMA EmptyIsSound ==
  ASSUME NEW id \in 1 .. MaxEvents + 1
  PROVE  EmptyDatabase \in Database /\ Sound(EmptyDatabase, id)
<1>1. <<>> \in Ledger /\ id > 0
  <2>1. Len(Legacy) \in Nat /\ Len(<<>>) = 0 /\ <<>> \in Seq(Event)
    BY LegacyAssumption
  <2>2. Len(<<>>) <= MaxEvents + Len(Legacy) /\ id > 0
    BY <2>1, MaxEventsAssumption
  <2>3. QED
    BY <2>1, <2>2, Ledgers
<1>2. EmptyDatabase.events = <<>> /\ EmptyDatabase.marked = FALSE /\ EmptyDatabase \in Database
  BY <1>1 DEF EmptyDatabase, Database
<1>3. DOMAIN EmptyDatabase.events = {} /\ Len(EmptyDatabase.events) = 0
  BY <1>2
<1>4. QED
  BY <1>1, <1>2, <1>3, MaxEventsAssumption DEF Sound, IsInjective

LEMMA SoundLater ==
  ASSUME NEW d \in Database, NEW id \in 1 .. MaxEvents, Sound(d, id)
  PROVE  Sound(d, id + 1)
<1>1. /\ Len(d.events) \in Nat /\ Len(Legacy) \in Nat /\ MaxEvents \in Nat
      /\ \A n \in DOMAIN d.events : d.events[n] \in Event
  BY Ledgers, LegacyAssumption, MaxEventsAssumption DEF Database
<1>2. \A n \in DOMAIN d.events :
        IF d.events[n] \in ToSet(Legacy) THEN d.marked ELSE d.events[n].id < id + 1
  BY <1>1, Events DEF Sound
<1>3. Len(d.events) < id + 1 + IF d.marked THEN Len(Legacy) ELSE 0
  <2>1. CASE d.marked
    BY <1>1, <2>1 DEF Sound
  <2>2. CASE ~d.marked
    BY <1>1, <2>2 DEF Sound
  <2>3. QED
    BY <2>1, <2>2
<1>4. QED
  BY <1>2, <1>3 DEF Sound

LEMMA LastOfItem ==
  ASSUME NEW events \in Seq(Event), NEW item, Of(events, item) # {}
  PROVE  \E n \in Of(events, item) :
           /\ n = CHOOSE m \in Of(events, item) : \A k \in Of(events, item) : k <= m
           /\ \A k \in Of(events, item) : k <= n
<1> DEFINE T == {Len(events) - k : k \in Of(events, item)}
<1>1. Of(events, item) \subseteq 1 .. Len(events) /\ Len(events) \in Nat
  BY DEF Of
<1>2. T \in SUBSET Nat /\ T # {}
  BY <1>1
<1>3. PICK least \in T : \A y \in T : least <= y
  BY <1>2, LeastNatural
<1>4. PICK n \in Of(events, item) : least = Len(events) - n
  BY <1>3
<1>5. \A k \in Of(events, item) : k <= n
  <2> TAKE k \in Of(events, item)
  <2>1. Len(events) - n <= Len(events) - k
    BY <1>3, <1>4
  <2>2. QED
    BY <1>1, <2>1
<1>6. QED
  BY <1>5

LEMMA RevisionIs ==
  ASSUME NEW events \in Ledger, NEW item \in Item
  PROVE  LET revision == engineering_event_revision(events, item) IN
           \/ revision = Null /\ Of(events, item) = {}
           \/ /\ revision \in Ledger /\ IsPrefixOf(revision, events)
              /\ Len(revision) \in Of(events, item)
              /\ \A k \in Of(events, item) : k <= Len(revision)
              /\ revision = SubSeq(events, 1, Len(revision))
<1>1. CASE Of(events, item) = {}
  BY <1>1 DEF engineering_event_revision
<1>2. CASE Of(events, item) # {}
  <2>1. events \in Seq(Event) /\ Len(events) <= MaxEvents + Len(Legacy)
    BY Ledgers
  <2>2. PICK n \in Of(events, item) :
          /\ n = CHOOSE m \in Of(events, item) : \A k \in Of(events, item) : k <= m
          /\ \A k \in Of(events, item) : k <= n
    BY <1>2, <2>1, LastOfItem
  <2>3. n \in 1 .. Len(events)
    BY <2>1 DEF Of
  <2> DEFINE revision == SubSeq(events, 1, n)
  <2>4. engineering_event_revision(events, item) = revision
    BY <1>2, <2>2 DEF engineering_event_revision
  <2>5. /\ revision \in Seq(Event) /\ Len(revision) = n
        /\ \A k \in 1 .. n : revision[k] = events[k]
    BY <2>1, <2>3
  <2>6. Len(revision) <= MaxEvents + Len(Legacy)
    BY <2>1, <2>3, <2>5, MaxEventsAssumption, LegacyAssumption
  <2>7. revision \in Ledger
    BY <2>5, <2>6, Ledgers
  <2> HIDE DEF revision
  <2>8. IsPrefixOf(revision, events)
    BY <2>3, <2>5 DEF IsPrefixOf
  <2>9. revision = SubSeq(events, 1, Len(revision))
    BY <2>5 DEF revision
  <2>10. QED
    BY <2>2, <2>4, <2>5, <2>7, <2>8, <2>9
<1>3. QED
  BY <1>1, <1>2

LEMMA ScopeOfRevision ==
  ASSUME NEW events \in Ledger, NEW item \in Item
  PROVE  Scoped(engineering_event_revision(events, item), item) = InScope(events, item)
<1> DEFINE revision == engineering_event_revision(events, item)
<1>1. CASE revision = Null /\ Of(events, item) = {}
  <2>1. Of(<<>>, item) = {}
    BY DEF Of
  <2>2. InScope(<<>>, item) = InScope(events, item)
    BY <1>1, <2>1 DEF InScope, Restrict
  <2>3. QED
    BY <1>1, <2>2 DEF Scoped
<1>2. CASE /\ revision \in Ledger /\ IsPrefixOf(revision, events)
           /\ Len(revision) \in Of(events, item)
           /\ \A k \in Of(events, item) : k <= Len(revision)
  <2>1. revision # Null
    BY <1>2, JournalNullAssumption
  <2> HIDE DEF revision
  <2>2. revision \in Seq(Event) /\ events \in Seq(Event)
    BY <1>2, Ledgers
  <2>3. Of(revision, item) = Of(events, item)
    BY <1>2, <2>2 DEF IsPrefixOf, Of
  <2>4. \A n \in Of(events, item) : revision[n] = events[n]
    BY <1>2, <2>2 DEF IsPrefixOf, Of
  <2>5. InScope(revision, item) = InScope(events, item)
    BY <2>3, <2>4 DEF InScope, Restrict
  <2>6. QED
    BY <2>1, <2>5 DEF Scoped, revision
<1>3. QED
  BY <1>1, <1>2, RevisionIs

LEMMA ScopeIsProjection ==
  ASSUME NEW events \in Ledger, NEW item
  PROVE  InScope(events, item) \in Projection
<1>1. /\ events \in Seq(Event) /\ Len(events) <= MaxEvents + Len(Legacy)
      /\ MaxEvents \in Nat /\ Len(Legacy) \in Nat /\ Len(events) \in Nat
  BY Ledgers, MaxEventsAssumption, LegacyAssumption
<1>2. Of(events, item) \in SUBSET (1 .. MaxEvents + Len(Legacy))
  BY <1>1 DEF Of
<1>3. InScope(events, item) \in [Of(events, item) -> Event]
  BY <1>1 DEF InScope, Restrict, Of
<1>4. QED
  BY <1>2, <1>3 DEF Projection

(* If a stamp that is a prefix of an older ledger is that of a newer one, nothing
   of the item has come between. *)
LEMMA UnmovedScope ==
  ASSUME NEW events \in Ledger, NEW later \in Ledger, NEW item \in Item, NEW stamp \in Stamp,
         IsPrefixOf(events, later), stamp = Null \/ IsPrefixOf(stamp, events),
         engineering_event_revision(later, item) = stamp
  PROVE  /\ engineering_event_revision(events, item) = stamp
         /\ InScope(later, item) = InScope(events, item)
<1>1. events \in Seq(Event) /\ later \in Seq(Event)
  BY Ledgers
<1>2. Of(events, item) = Of(later, item) \cap 1 .. Len(events)
  BY <1>1 DEF IsPrefixOf, Of
<1>3. Of(later, item) \subseteq 1 .. Len(events)
  <2>1. CASE stamp = Null
    <3>1. stamp \notin Ledger
      BY <2>1, JournalNullAssumption
    <3>2. QED
      BY <3>1, RevisionIs
  <2>2. CASE stamp # Null
    <3>1. stamp \in Seq(Event) /\ Len(stamp) <= Len(events)
      BY <2>2, Ledgers DEF Stamp, IsPrefixOf
    <3>2. \A k \in Of(later, item) : k <= Len(stamp)
      BY <2>2, RevisionIs
    <3>3. QED
      BY <1>1, <3>1, <3>2 DEF Of
  <2>3. QED
    BY <2>1, <2>2
<1>4. Of(events, item) = Of(later, item)
  BY <1>2, <1>3
<1>5. InScope(later, item) = InScope(events, item)
  BY <1>1, <1>4 DEF InScope, Restrict, Of, IsPrefixOf
<1>6. engineering_event_revision(events, item) = engineering_event_revision(later, item)
  <2>1. CASE Of(events, item) = {}
    BY <1>4, <2>1 DEF engineering_event_revision
  <2>2. CASE Of(events, item) # {}
    <3>1. PICK n \in Of(events, item) :
            n = CHOOSE m \in Of(events, item) : \A k \in Of(events, item) : k <= m
      BY <1>1, <2>2, LastOfItem
    <3>2. n \in 1 .. Len(events) /\ Len(events) <= Len(later)
      BY <1>1 DEF Of, IsPrefixOf
    <3>3. SubSeq(events, 1, n) = SubSeq(later, 1, n)
      BY <1>1, <3>2 DEF IsPrefixOf
    <3>4. QED
      BY <1>4, <2>2, <3>1, <3>3 DEF engineering_event_revision
  <2>3. QED
    BY <2>1, <2>2
<1>7. QED
  BY <1>5, <1>6

-----------------------------------------------------------------------------
(* Initially. *)

LEMMA InitInv == Init => Inv
<1> SUFFICES ASSUME Init PROVE Inv
  OBVIOUS
<1> USE DEF Init, JournalInit, RestoreInit
<1>1. live \in File /\ next \in 1 .. MaxEvents + 1
  BY FileAssumption, MaxEventsAssumption
<1>2. EmptyDatabase \in Database /\ Sound(EmptyDatabase, next)
  BY <1>1, EmptyIsSound
<1>3. DOMAIN cache = {} /\ cache \in [DOMAIN cache -> [stamp : Stamp, snapshot : Projection]]
  OBVIOUS
<1>4. IsFiniteSet(DOMAIN cache) /\ Cardinality(DOMAIN cache) = 0
  BY <1>3, FS_EmptySet
<1>5. JournalTypeOK
  BY <1>1, <1>2 DEF JournalTypeOK, Idle
<1>6. RestoreTypeOK
  <2>1. backups \subseteq Database /\ restore \in Restore \cup {Null} /\ ~Restoring
    BY DEF Restoring
  <2>2. restores \in 0 .. MaxRestores
    BY RestoreAssumption
  <2>3. fault \in {"none", "failed", "died"}
    OBVIOUS
  <2>4. QED
    BY <2>1, <2>2, <2>3 DEF RestoreTypeOK
<1>7. TypeInv
  BY <1>3, <1>4, <1>5, <1>6, CacheAssumption DEF TypeInv, TypeOK
<1>8. SoundInv
  BY <1>2 DEF SoundInv
<1>9. RestoreInv /\ AckInv
  BY DEF RestoreInv, AckInv, At, Restoring
<1>10. LoadInv
  BY ThreadAssumption DEF LoadInv, Thread, Idle
<1>11. CacheInv
  BY <1>3 DEF CacheInv
<1>12. QED
  BY <1>7, <1>8, <1>9, <1>10, <1>11 DEF Inv

-----------------------------------------------------------------------------
(* Steps of the journal: a thread imports or appends. *)

JournalStep(t) ==
  \/ ImportChecks(t, Spare) \/ ImportCommits(t)
  \/ AppendOpens(t, Spare) \/ AppendFails(t)
  \/ \E item \in Item : append_pending(t, item, Restoring)

LEMMA SameIsPrefix == \A s \in Ledger : IsPrefixOf(s, s)
BY Ledgers DEF IsPrefixOf

LEMMA AppendExtends ==
  ASSUME NEW s \in Seq(Event), NEW e \in Event
  PROVE  IsPrefixOf(s, Append(s, e)) /\ e \in ToSet(Append(s, e))
<1>1. Len(s) + 1 \in DOMAIN Append(s, e) /\ Append(s, e)[Len(s) + 1] = e
  OBVIOUS
<1>2. e \in ToSet(Append(s, e))
  BY <1>1 DEF ToSet
<1>3. IsPrefixOf(s, Append(s, e))
  BY DEF IsPrefixOf
<1>4. QED
  BY <1>2, <1>3

LEMMA JournalWriteKeeps ==
  ASSUME TypeInv, SoundInv, NEW t \in Thread, NEW d, Writes(t, d), NEW id \in next .. MaxEvents + 1,
         id \in {next, next + 1},
         call[t].file # Null =>
           d \in Database /\ Sound(d, id) /\ IsPrefixOf(db[call[t].file].events, d.events)
  PROVE  /\ db' \in [File -> Database]
         /\ \A f \in File : Sound(db'[f], id) /\ IsPrefixOf(db[f].events, db'[f].events)
<1>1. /\ db \in [File -> Database] /\ call[t].file \in File \cup {Null}
      /\ next \in 1 .. MaxEvents + 1
  BY DEF TypeInv, TypeOK, JournalTypeOK
<1>2. \A f \in File : Sound(db[f], id) /\ IsPrefixOf(db[f].events, db[f].events)
  <2>1. \A f \in File : db[f] \in Database /\ db[f].events \in Ledger
    BY <1>1 DEF Database
  <2>2. CASE id = next
    BY <2>1, <2>2, SameIsPrefix DEF SoundInv
  <2>3. CASE id = next + 1
    <3>1. next \in 1 .. MaxEvents
      BY <1>1, <2>3, MaxEventsAssumption
    <3>2. QED
      BY <2>1, <2>3, <3>1, SameIsPrefix, SoundLater DEF SoundInv
  <2>4. QED
    BY <2>2, <2>3
<1>3. CASE call[t].file = Null
  BY <1>1, <1>2, <1>3 DEF Writes
<1>4. CASE call[t].file # Null
  BY <1>1, <1>2, <1>4 DEF Writes
<1>5. QED
  BY <1>3, <1>4

LEMMA JournalStepKeeps ==
  ASSUME TypeInv, SoundInv, NEW t \in Thread, JournalStep(t)
  PROVE  /\ JournalTypeOK'
         /\ next' \in {next, next + 1}
         /\ \A f \in File : Sound(db'[f], next') /\ IsPrefixOf(db[f].events, db'[f].events)
         /\ live # Null => live' = live
         /\ \/ acked' = acked
            \/ \E e : /\ acked' = acked \cup {e} /\ ~Restoring
                     /\ live' # Null /\ e \in ToSet(db'[live'].events)
         /\ \A other \in Thread \ {t} : call'[other] = call[other]
<1> USE DEF Thread
<1>1. /\ JournalTypeOK /\ db \in [File -> Database] /\ next \in 1 .. MaxEvents + 1
      /\ \A f \in File : db[f].events \in Ledger /\ db[f].marked \in BOOLEAN
  BY DEF TypeInv, TypeOK, JournalTypeOK, Database
<1>2. \A f \in File : Sound(db[f], next) /\ IsPrefixOf(db[f].events, db[f].events)
  BY <1>1, SameIsPrefix DEF SoundInv
<1>3. CASE ImportChecks(t, Spare)
  BY <1>1, <1>2, <1>3 DEF ImportChecks, OpensOver, JournalTypeOK
<1>4. CASE ImportCommits(t)
  <2> DEFINE d == Imported(db[call[t].file])
  <2>1. call[t].file \in File \cup {Null}
    BY <1>1 DEF JournalTypeOK
  <2>2. ASSUME call[t].file # Null
        PROVE  d \in Database /\ Sound(d, next) /\ IsPrefixOf(db[call[t].file].events, d.events)
    <3>1. db[call[t].file] \in Database /\ Sound(db[call[t].file], next)
      BY <1>1, <1>2, <2>1, <2>2
    <3>2. d \in Database /\ Sound(d, next)
      BY <1>1, <3>1, ImportIsSound
    <3>3. IsPrefixOf(db[call[t].file].events, d.events)
      <4>1. db[call[t].file].events \in Seq(Event) /\ Legacy \in Seq(Event)
        BY <3>1, Ledgers, Events DEF Database
      <4>2. QED
        BY <4>1 DEF Imported, IsPrefixOf
    <3>4. QED
      BY <3>2, <3>3
  <2>3. /\ db' \in [File -> Database]
        /\ \A f \in File : Sound(db'[f], next) /\ IsPrefixOf(db[f].events, db'[f].events)
    <3>1. Writes(t, d) /\ next \in next .. MaxEvents + 1
      BY <1>1, <1>4, MaxEventsAssumption DEF ImportCommits
    <3> HIDE DEF d
    <3>2. QED
      BY <2>2, <3>1, JournalWriteKeeps
  <2>4. QED
    BY <1>1, <1>4, <2>3 DEF ImportCommits, JournalTypeOK
<1>5. CASE AppendOpens(t, Spare)
  BY <1>1, <1>2, <1>5 DEF AppendOpens, OpensOver, JournalTypeOK
<1>6. CASE AppendFails(t)
  BY <1>1, <1>2, <1>6 DEF AppendFails, JournalTypeOK, Idle
<1>7. ASSUME NEW item \in Item, append_pending(t, item, Restoring)
      PROVE  /\ JournalTypeOK'
             /\ next' = next + 1
             /\ \A f \in File : Sound(db'[f], next') /\ IsPrefixOf(db[f].events, db'[f].events)
             /\ live' = live
             /\ \/ acked' = acked
                \/ \E e : /\ acked' = acked \cup {e} /\ ~Restoring
                         /\ live' # Null /\ e \in ToSet(db'[live'].events)
             /\ \A other \in Thread \ {t} : call'[other] = call[other]
  <2> DEFINE event == [id |-> next, item |-> item]
             d == [db[call[t].file] EXCEPT !.events = Append(@, event)]
  <2>1. call[t].file \in File \cup {Null} /\ next \in 1 .. MaxEvents /\ next + 1 \in next .. MaxEvents + 1
    BY <1>1, <1>7, MaxEventsAssumption DEF JournalTypeOK, append_pending
  <2>2. event \in Event
    BY <2>1 DEF Event
  <2>3. ASSUME call[t].file # Null
        PROVE  /\ d \in Database /\ Sound(d, next + 1)
               /\ IsPrefixOf(db[call[t].file].events, d.events)
               /\ event \in ToSet(d.events)
    <3>1. db[call[t].file] \in Database /\ Sound(db[call[t].file], next)
      BY <1>1, <1>2, <2>1, <2>3
    <3>2. d \in Database /\ Sound(d, next + 1)
      BY <2>1, <3>1, AppendIsSound
    <3>3. db[call[t].file].events \in Seq(Event) /\ d.events = Append(db[call[t].file].events, event)
      BY <3>1, Ledgers DEF Database
    <3> HIDE DEF d, event
    <3>4. QED
      BY <2>2, <3>2, <3>3, AppendExtends
  <2>4. /\ Writes(t, d) /\ next' = next + 1 /\ live' = live
        /\ acked' = IF live # Null /\ call[t].file = live /\ ~Restoring
                    THEN acked \cup {event} ELSE acked
        /\ call' = [call EXCEPT ![t] = Idle]
    BY <1>7 DEF append_pending
  <2> HIDE DEF d, event
  <2>5. /\ db' \in [File -> Database]
        /\ \A f \in File : Sound(db'[f], next + 1) /\ IsPrefixOf(db[f].events, db'[f].events)
    BY <2>1, <2>3, <2>4, JournalWriteKeeps
  <2>6. JournalTypeOK'
    BY <1>1, <2>1, <2>2, <2>4, <2>5 DEF JournalTypeOK, Idle
  <2>7. CASE live # Null /\ call[t].file = live /\ ~Restoring
    <3>1. db'[live'] = d
      BY <1>1, <2>1, <2>4, <2>7 DEF Writes
    <3>2. QED
      BY <1>1, <2>3, <2>4, <2>5, <2>6, <2>7, <3>1 DEF JournalTypeOK
  <2>8. CASE ~(live # Null /\ call[t].file = live /\ ~Restoring)
    BY <1>1, <2>4, <2>5, <2>6, <2>8 DEF JournalTypeOK
  <2>9. QED
    BY <2>7, <2>8
<1>8. QED
  BY <1>3, <1>4, <1>5, <1>6, <1>7 DEF JournalStep

(* A step of the journal by itself keeps all but what is said of a load. *)
LEMMA JournalStepInv ==
  ASSUME Inv, NEW t \in Thread, JournalStep(t), UNCHANGED <<restoreVars, cache, load>>,
         t = Main => load # Null
  PROVE  TypeInv' /\ SoundInv' /\ RestoreInv' /\ AckInv' /\ CacheInv'
<1> USE DEF restoreVars
<1>1. TypeInv /\ SoundInv /\ RestoreInv /\ AckInv /\ CacheInv
  BY DEF Inv
<1>2. /\ JournalTypeOK' /\ next' \in {next, next + 1}
      /\ \A f \in File : Sound(db'[f], next') /\ IsPrefixOf(db[f].events, db'[f].events)
      /\ live # Null => live' = live
      /\ \/ acked' = acked
         \/ \E e : /\ acked' = acked \cup {e} /\ ~Restoring
                  /\ live' # Null /\ e \in ToSet(db'[live'].events)
  BY <1>1, JournalStepKeeps
<1>3. TypeInv'
  BY <1>1, <1>2 DEF TypeInv, TypeOK, RestoreTypeOK, Restoring
<1>4. SoundInv'
  <2>1. \A b \in backups : b \in Database /\ Sound(b, next)
    BY <1>1 DEF SoundInv, TypeInv, TypeOK, RestoreTypeOK
  <2>2. next \in 1 .. MaxEvents + 1 /\ next' \in 1 .. MaxEvents + 1
    BY <1>1, <1>2 DEF TypeInv, TypeOK, JournalTypeOK
  <2>3. \A b \in backups : Sound(b, next')
    <3>1. CASE next' = next
      BY <2>1, <3>1
    <3>2. CASE next' = next + 1
      <4>1. next \in 1 .. MaxEvents
        BY <2>2, <3>2, MaxEventsAssumption
      <4>2. QED
        BY <2>1, <3>2, <4>1, SoundLater
    <3>3. QED
      BY <1>2, <3>1, <3>2
  <2>4. QED
    BY <1>2, <2>3 DEF SoundInv
<1>5. RestoreInv'
  BY <1>1, <1>2 DEF RestoreInv, At, Restoring
<1>6. AckInv'
  <2>1. ASSUME live # Null, NEW e \in ToSet(db[live].events)
        PROVE  live' # Null /\ e \in ToSet(db'[live'].events)
    <3>1. live \in File /\ live' = live /\ IsPrefixOf(db[live].events, db'[live].events)
      BY <1>1, <1>2, <2>1 DEF TypeInv, TypeOK, JournalTypeOK
    <3>2. db[live].events \in Seq(Event) /\ db'[live].events \in Seq(Event)
      BY <1>1, <1>2, <3>1, Ledgers DEF TypeInv, TypeOK, JournalTypeOK, Database
    <3>3. QED
      BY <2>1, <3>1, <3>2 DEF IsPrefixOf, ToSet
  <2>2. Ledgered' = IF live' = Null THEN <<>> ELSE db'[live'].events
    BY DEF Ledgered
  <2>3. \A e \in ToSet(Ledgered) : live # Null /\ e \in ToSet(db[live].events)
    BY DEF Ledgered, ToSet
  <2>4. \A e \in ToSet(Ledgered) : e \in ToSet(Ledgered')
    BY <2>1, <2>2, <2>3
  <2>5. QED
    BY <1>1, <1>2, <2>2, <2>4 DEF AckInv, Restoring
<1>7. CacheInv'
  BY <1>1 DEF CacheInv
<1>8. QED
  BY <1>3, <1>4, <1>5, <1>6, <1>7

LEMMA PrefixTransitive ==
  \A r, s, t \in Ledger : IsPrefixOf(r, s) /\ IsPrefixOf(s, t) => IsPrefixOf(r, t)
BY Ledgers DEF IsPrefixOf

(* What a load has read keeps its meaning while others append. *)
LEMMA JournalStepKeepsLoad ==
  ASSUME Inv, NEW t \in Thread, JournalStep(t), UNCHANGED <<restoreVars, cache, load>>, load # Null
  PROVE  /\ ~Restoring'
         /\ load.at \in {"initial", "before"} => load.tries < MAX_STABLE_READ_ATTEMPTS
         /\ load.at \in {"events", "after"} =>
              live' # Null /\ (load.before = Null \/ IsPrefixOf(load.before, Ledgered'))
         /\ load.at = "after" =>
              (ledger_stamp' = load.before => load.events = InScope(Ledgered', load.item))
<1> USE DEF restoreVars
<1>1. TypeInv /\ SoundInv /\ LoadInv
  BY DEF Inv
<1>2. /\ JournalTypeOK'
      /\ \A f \in File : IsPrefixOf(db[f].events, db'[f].events)
      /\ live # Null => live' = live
  BY <1>1, JournalStepKeeps
<1>3. /\ ~Restoring'
      /\ load.at \in {"initial", "before"} => load.tries < MAX_STABLE_READ_ATTEMPTS
  BY <1>1 DEF LoadInv, Restoring
<1>4. CASE load.at \in {"events", "after"}
  <2>1. live # Null /\ (load.before = Null \/ IsPrefixOf(load.before, Ledgered))
    BY <1>1, <1>4 DEF LoadInv
  <2>2. live \in File /\ live' = live /\ Ledgered = db[live].events /\ Ledgered' = db'[live].events
    BY <1>1, <1>2, <2>1 DEF TypeInv, TypeOK, JournalTypeOK, Ledgered
  <2>3. Ledgered \in Ledger /\ Ledgered' \in Ledger /\ IsPrefixOf(Ledgered, Ledgered')
    BY <1>1, <1>2, <2>2 DEF TypeInv, TypeOK, JournalTypeOK, Database
  <2>4. load.before \in Stamp /\ load.item \in Item
    BY <1>1 DEF TypeInv, TypeOK, Load
  <2>5. load.before = Null \/ IsPrefixOf(load.before, Ledgered')
    BY <2>1, <2>3, <2>4, PrefixTransitive DEF Stamp
  <2>6. ASSUME load.at = "after", ledger_stamp' = load.before
        PROVE  load.events = InScope(Ledgered', load.item)
    <3>1. engineering_event_revision(Ledgered', load.item) = load.before
      BY <2>6 DEF ledger_stamp
    <3>2. /\ engineering_event_revision(Ledgered, load.item) = load.before
          /\ InScope(Ledgered', load.item) = InScope(Ledgered, load.item)
      BY <2>1, <2>3, <2>4, <3>1, UnmovedScope
    <3>3. QED
      BY <1>1, <2>6, <3>2 DEF LoadInv, ledger_stamp
  <2>7. QED
    BY <1>3, <1>4, <2>1, <2>2, <2>5, <2>6
<1>5. QED
  BY <1>3, <1>4

LEMMA AppendsKeep ==
  ASSUME Inv, NEW t \in Appender, Appends(t)
  PROVE  Inv'
<1>1. JournalStep(t) /\ UNCHANGED <<restoreVars, cache, load>>
  BY DEF Appends, JournalStep
<1>2. t \in Thread /\ t # Main /\ Main \in Thread
  BY ThreadAssumption DEF Thread
<1>3. TypeInv' /\ SoundInv' /\ RestoreInv' /\ AckInv' /\ CacheInv'
  BY <1>1, <1>2, JournalStepInv
<1>4. call'[Main] = call[Main] /\ (live # Null => live' = live)
  BY <1>1, <1>2, JournalStepKeeps DEF Inv
<1>5. LoadInv'
  <2>1. call'[Main].at # "idle" => load' # Null /\ live' # Null
    BY <1>1, <1>4 DEF Inv, LoadInv
  <2>2. CASE load = Null
    BY <1>1, <2>1, <2>2 DEF LoadInv
  <2>3. CASE load # Null
    BY <1>1, <1>2, <2>1, <2>3, JournalStepKeepsLoad DEF LoadInv
  <2>4. QED
    BY <2>2, <2>3
<1>6. QED
  BY <1>3, <1>5 DEF Inv

LEMMA MainImportsKeeps ==
  ASSUME Inv, MainImports
  PROVE  Inv'
<1>1. /\ JournalStep(Main) /\ UNCHANGED <<restoreVars, cache, load>> /\ load # Null
      /\ ImportChecks(Main, Spare) \/ ImportCommits(Main)
  BY DEF MainImports, JournalStep
<1>2. Main \in Thread
  BY DEF Thread
<1>3. TypeInv' /\ SoundInv' /\ RestoreInv' /\ AckInv' /\ CacheInv'
  BY <1>1, <1>2, JournalStepInv
<1>4. LoadInv'
  <2>1. live' # Null
    <3>1. CASE ImportChecks(Main, Spare)
      BY <3>1, JournalNullAssumption DEF ImportChecks, OpensOver
    <3>2. CASE ImportCommits(Main)
      BY <3>2 DEF ImportCommits, Inv, LoadInv
    <3>3. QED
      BY <1>1, <3>1, <3>2
  <2>2. QED
    BY <1>1, <1>2, <2>1, JournalStepKeepsLoad DEF LoadInv
<1>5. QED
  BY <1>3, <1>4 DEF Inv

-----------------------------------------------------------------------------
(* Steps of a load. *)

LEMMA ReadKeeps ==
  ASSUME Inv, NEW place, Reads(place)
  PROVE  /\ JournalTypeOK' /\ RestoreTypeOK' /\ SoundInv' /\ RestoreInv' /\ AckInv'
         /\ call'[Main].at = "idle" /\ live # Null /\ live \in File /\ ~Restoring'
         /\ Ledgered' = Ledgered /\ Ledgered \in Ledger /\ load \in Load
<1> USE DEF Reads, restoreVars
<1>1. JournalTypeOK /\ RestoreTypeOK /\ SoundInv /\ RestoreInv /\ AckInv /\ LoadInv /\ load \in Load
  BY DEF Inv, TypeInv, TypeOK
<1>2. live # Null
  BY <1>1 DEF LoadInv, MarkedNow
<1>3. JournalTypeOK' /\ call'[Main].at = "idle"
  BY <1>1 DEF JournalTypeOK, Idle, Thread
<1>4. RestoreTypeOK' /\ SoundInv' /\ RestoreInv' /\ AckInv' /\ ~Restoring'
  BY <1>1 DEF RestoreTypeOK, SoundInv, RestoreInv, AckInv, LoadInv, Ledgered, Restoring, At
<1>5. live \in File /\ Ledgered' = Ledgered /\ Ledgered \in Ledger
  BY <1>1, <1>2 DEF JournalTypeOK, Ledgered, Database
<1>6. QED
  BY <1>1, <1>2, <1>3, <1>4, <1>5

LEMMA LoadsKeeps ==
  ASSUME Inv, NEW item \in Item, Loads(item)
  PROVE  Inv'
<1> USE DEF Loads, journalVars, restoreVars
<1>1. <<>> \in Projection
  <2>1. {} \in SUBSET (1 .. MaxEvents + Len(Legacy)) /\ <<>> \in [{} -> Event]
    OBVIOUS
  <2>2. QED
    BY <2>1 DEF Projection
<1>2. load' \in Load
  BY <1>1, CacheAssumption DEF Load, Stamp
<1>3. TypeInv'
  BY <1>2 DEF Inv, TypeInv, TypeOK, JournalTypeOK, RestoreTypeOK, Restoring
<1>4. SoundInv' /\ RestoreInv' /\ AckInv' /\ CacheInv'
  BY DEF Inv, SoundInv, RestoreInv, AckInv, CacheInv, Ledgered, Restoring, At
<1>5. LoadInv'
  BY <1>2, LoadNullAssumption, CacheAssumption DEF LoadInv, MainFree, Restoring
<1>6. QED
  BY <1>3, <1>4, <1>5 DEF Inv

LEMMA ReadOnlyKeeps ==
  ASSUME Inv, cached_snapshot \/ BeforeStamp \/ read_events \/ FreshReplay
  PROVE  Inv'
<1>1. /\ LoadInv /\ CacheInv /\ TypeOK /\ IsFiniteSet(DOMAIN cache)
      /\ UNCHANGED cache
  BY DEF Inv, TypeInv, cached_snapshot, BeforeStamp, read_events, FreshReplay
<1>2. PICK place : Reads(place)
  BY DEF cached_snapshot, BeforeStamp, read_events, FreshReplay
<1>3. /\ JournalTypeOK' /\ RestoreTypeOK' /\ SoundInv' /\ RestoreInv' /\ AckInv'
      /\ call'[Main].at = "idle" /\ live # Null /\ live' = live /\ ~Restoring'
      /\ Ledgered' = Ledgered /\ Ledgered \in Ledger /\ load \in Load
  BY <1>2, ReadKeeps DEF Reads
<1>4. CacheInv'
  BY <1>1 DEF CacheInv
<1>5. load' \in Load \cup {Null} /\ LoadInv'
  <2>1. CASE cached_snapshot
    BY <1>1, <1>3, <2>1, LoadNullAssumption DEF cached_snapshot, Reads, LoadInv, Load
  <2>2. CASE BeforeStamp
    <3>1. load.item \in Item /\ load.tries \in 0 .. MAX_STABLE_READ_ATTEMPTS /\ load.at = "before"
      BY <1>3, <2>2 DEF Load, BeforeStamp, Reads
    <3>2. ledger_stamp \in Stamp /\ (ledger_stamp = Null \/ IsPrefixOf(ledger_stamp, Ledgered))
      BY <1>3, <3>1, RevisionIs DEF ledger_stamp, Stamp
    <3>3. load.tries + 1 \in 0 .. MAX_STABLE_READ_ATTEMPTS
      BY <1>1, <1>3, <3>1, LoadNullAssumption, CacheAssumption DEF LoadInv
    <3>4. load' = [load EXCEPT !.at = "events", !.before = ledger_stamp, !.tries = @ + 1]
      BY <2>2 DEF BeforeStamp
    <3>5. load' \in Load /\ load'.at = "events" /\ load'.before = ledger_stamp
      BY <1>3, <3>2, <3>3, <3>4 DEF Load
    <3>6. QED
      BY <1>3, <3>2, <3>5 DEF LoadInv
  <2>3. CASE read_events
    <3>1. load.at = "events" /\ load' = [load EXCEPT !.at = "after", !.events = InScope(Ledgered, load.item)]
      BY <2>3 DEF read_events, Reads
    <3>2. InScope(Ledgered, load.item) \in Projection
      BY <1>3, ScopeIsProjection
    <3>3. /\ load' \in Load /\ load'.at = "after" /\ load'.before = load.before
          /\ load'.item = load.item /\ load'.events = InScope(Ledgered, load.item)
      BY <1>3, <3>1, <3>2 DEF Load
    <3>4. load # Null /\ (load.before = Null \/ IsPrefixOf(load.before, Ledgered))
      BY <1>1, <1>3, <3>1, LoadNullAssumption DEF LoadInv
    <3>5. QED
      BY <1>3, <3>3, <3>4 DEF LoadInv
  <2>4. CASE FreshReplay
    BY <1>3, <2>4 DEF FreshReplay, LoadInv
  <2>5. QED
    BY <2>1, <2>2, <2>3, <2>4
<1>6. TypeInv'
  BY <1>1, <1>3, <1>5 DEF TypeInv, TypeOK
<1>7. QED
  BY <1>3, <1>4, <1>5, <1>6 DEF Inv

LEMMA EvictedMakesRoom ==
  ASSUME TypeInv, load \in Load
  PROVE  /\ DOMAIN Evicted \subseteq DOMAIN cache
         /\ \A i \in DOMAIN Evicted : Evicted[i] = cache[i]
         /\ IsFiniteSet(DOMAIN Evicted \cup {load.item})
         /\ Cardinality(DOMAIN Evicted \cup {load.item}) <= MAX_CACHED_RUN_DIRS
<1>1. /\ DOMAIN cache \subseteq Item /\ IsFiniteSet(DOMAIN cache)
      /\ Cardinality(DOMAIN cache) \in Nat /\ Cardinality(DOMAIN cache) <= MAX_CACHED_RUN_DIRS
      /\ MAX_CACHED_RUN_DIRS \in Nat \ {0} /\ Item \subseteq Nat
  BY FS_CardinalityType, CacheAssumption DEF TypeInv, TypeOK
<1>2. CASE load.item \in DOMAIN cache
  <2>1. Evicted = cache /\ DOMAIN Evicted \cup {load.item} = DOMAIN cache
    BY <1>2 DEF Evicted
  <2>2. QED
    BY <1>1, <2>1
<1>3. CASE load.item \notin DOMAIN cache /\ Cardinality(DOMAIN cache) < MAX_CACHED_RUN_DIRS
  <2>1. Evicted = cache
    BY <1>3 DEF Evicted
  <2>2. /\ IsFiniteSet(DOMAIN cache \cup {load.item})
        /\ Cardinality(DOMAIN cache \cup {load.item}) = Cardinality(DOMAIN cache) + 1
    BY <1>1, <1>3, FS_AddElement
  <2>3. QED
    BY <1>1, <1>3, <2>1, <2>2
<1>4. CASE load.item \notin DOMAIN cache /\ ~(Cardinality(DOMAIN cache) < MAX_CACHED_RUN_DIRS)
  <2> DEFINE first == CHOOSE i \in DOMAIN cache : \A j \in DOMAIN cache : i <= j
             rest == DOMAIN cache \ {first}
  <2>1. DOMAIN cache # {}
    BY <1>1, <1>4, FS_EmptySet
  <2>2. first \in DOMAIN cache
    <3>1. DOMAIN cache \in SUBSET Nat
      BY <1>1
    <3>2. \E i \in DOMAIN cache : \A j \in DOMAIN cache : i <= j
      BY <2>1, <3>1, LeastNatural
    <3>3. QED
      BY <3>2
  <2>3. Evicted = [i \in rest |-> cache[i]]
    BY <1>4 DEF Evicted, Restrict
  <2> HIDE DEF first
  <2>4. IsFiniteSet(rest) /\ Cardinality(rest) = Cardinality(DOMAIN cache) - 1
    BY <1>1, <2>2, FS_RemoveElement
  <2>5. /\ IsFiniteSet(rest \cup {load.item})
        /\ Cardinality(rest \cup {load.item}) = Cardinality(rest) + 1
    BY <1>4, <2>4, FS_AddElement
  <2>6. QED
    BY <1>1, <2>3, <2>4, <2>5
<1>5. QED
  BY <1>2, <1>3, <1>4

LEMMA AfterStampKeeps ==
  ASSUME Inv, AfterStamp
  PROVE  Inv'
<1>1. LoadInv /\ CacheInv /\ TypeInv /\ Reads("after") /\ load.at = "after"
  BY DEF Inv, AfterStamp, Reads
<1>2. /\ JournalTypeOK' /\ RestoreTypeOK' /\ SoundInv' /\ RestoreInv' /\ AckInv'
      /\ call'[Main].at = "idle" /\ live # Null /\ ~Restoring'
      /\ Ledgered \in Ledger /\ load \in Load
  BY <1>1, ReadKeeps
<1>3. load # Null /\ load.item \in Item /\ load.events \in Projection /\ load.before \in Stamp
  BY <1>2, LoadNullAssumption DEF Load
<1>4. CASE ledger_stamp = load.before /\ cache_snapshot(ledger_stamp) /\ load' = Null
  <2> DEFINE entry == [stamp |-> ledger_stamp, snapshot |-> load.events]
             kept == Evicted
             keys == DOMAIN kept \cup {load.item}
  <2>1. cache' = [i \in keys |-> IF i = load.item THEN entry ELSE kept[i]]
    BY <1>4 DEF cache_snapshot
  <2>2. /\ DOMAIN kept \subseteq DOMAIN cache /\ \A i \in DOMAIN kept : kept[i] = cache[i]
        /\ IsFiniteSet(keys) /\ Cardinality(keys) <= MAX_CACHED_RUN_DIRS
    BY <1>1, <1>2, EvictedMakesRoom
  <2>3. entry \in [stamp : Stamp, snapshot : Projection]
    BY <1>3, <1>4
  <2>4. /\ DOMAIN cache \subseteq Item
        /\ \A i \in DOMAIN cache : /\ cache[i] \in [stamp : Stamp, snapshot : Projection]
                                 /\ cache[i].snapshot = Scoped(cache[i].stamp, i)
    BY <1>1 DEF TypeInv, TypeOK, CacheInv
  <2>5. load.events = Scoped(ledger_stamp, load.item)
    BY <1>1, <1>2, <1>3, <1>4, ScopeOfRevision DEF LoadInv, ledger_stamp
  <2> HIDE DEF kept, keys
  <2>6. DOMAIN cache' = keys /\ keys \subseteq Item
    BY <1>3, <2>1, <2>2, <2>4 DEF keys
  <2>7. \A i \in keys : /\ cache'[i] \in [stamp : Stamp, snapshot : Projection]
                        /\ cache'[i].snapshot = Scoped(cache'[i].stamp, i)
    <3> TAKE i \in keys
    <3>1. CASE i = load.item
      BY <2>1, <2>3, <2>5, <3>1
    <3>2. CASE i # load.item
      BY <2>1, <2>2, <2>4, <3>2 DEF keys
    <3>3. QED
      BY <3>1, <3>2
  <2>8. cache' \in [DOMAIN cache' -> [stamp : Stamp, snapshot : Projection]]
    BY <2>1, <2>6, <2>7
  <2>9. TypeInv'
    BY <1>2, <1>4, <2>2, <2>6, <2>8 DEF TypeInv, TypeOK
  <2>10. CacheInv'
    BY <2>6, <2>7 DEF CacheInv
  <2>11. LoadInv'
    BY <1>2, <1>4 DEF LoadInv
  <2>12. QED
    BY <1>2, <2>9, <2>10, <2>11 DEF Inv
<1>5. CASE /\ load' = [load EXCEPT !.at =
                IF load.tries < MAX_STABLE_READ_ATTEMPTS THEN "before" ELSE "fresh"]
           /\ UNCHANGED cache
  <2>1. load' \in Load
    BY <1>2, <1>5 DEF Load
  <2>2. LoadInv'
    BY <1>2, <1>5 DEF LoadInv, Load
  <2>3. TypeInv' /\ CacheInv'
    BY <1>1, <1>2, <1>5, <2>1 DEF TypeInv, TypeOK, CacheInv
  <2>4. QED
    BY <1>2, <2>2, <2>3 DEF Inv
<1>6. QED
  BY <1>4, <1>5 DEF AfterStamp

-----------------------------------------------------------------------------
(* Steps of backup and restore, and a crash. *)

LEMMA UnlinksIs ==
  ASSUME TypeInv, SoundInv, NEW files, Unlinks(files)
  PROVE  /\ db' \in [File -> Database] /\ \A f \in File : Sound(db'[f], next)
         /\ call' \in [Thread -> [at : {"idle", "import", "imported", "append"},
                                  file : File \cup {Null}]]
         /\ \A t \in Thread : call'[t].at = call[t].at
<1>1. JournalTypeOK /\ next \in 1 .. MaxEvents + 1
  BY DEF TypeInv, TypeOK, JournalTypeOK
<1>2. EmptyDatabase \in Database /\ Sound(EmptyDatabase, next)
  BY <1>1, EmptyIsSound
<1>3. db' \in [File -> Database] /\ \A f \in File : Sound(db'[f], next)
  BY <1>1, <1>2 DEF Unlinks, JournalTypeOK, SoundInv
<1>4. QED
  BY <1>1, <1>3 DEF Unlinks, JournalTypeOK

(* What a step of the restore leaves alone, and what is left to show of it. *)
LEMMA RestoreFrame ==
  ASSUME Inv, load = Null, UNCHANGED <<next, acked, cache, load>>,
         live' \in File \cup {Null}, db' \in [File -> Database],
         \A f \in File : Sound(db'[f], next),
         call' \in [Thread -> [at : {"idle", "import", "imported", "append"},
                              file : File \cup {Null}]],
         \A t \in Thread : call'[t].at = call[t].at,
         RestoreTypeOK', RestoreInv', AckInv', \A b \in backups' : Sound(b, next)
  PROVE  Inv'
<1>1. TypeInv /\ LoadInv /\ CacheInv
  BY DEF Inv
<1>2. JournalTypeOK'
  BY <1>1 DEF TypeInv, TypeOK, JournalTypeOK
<1>3. TypeInv'
  BY <1>1, <1>2 DEF TypeInv, TypeOK
<1>4. SoundInv'
  BY DEF SoundInv
<1>5. LoadInv' /\ CacheInv'
  BY <1>1 DEF LoadInv, CacheInv, Thread
<1>6. QED
  BY <1>3, <1>4, <1>5 DEF Inv

LEMMA BackupSavesAll ==
  ASSUME Inv, backup_to, ~Restoring
  PROVE  /\ live' \in File /\ db' = db /\ backups' \subseteq Database
         /\ backups \subseteq backups' /\ \A b \in backups' : Sound(b, next)
         /\ \A e \in acked : \E b \in backups' : e \in ToSet(b.events)
<1>1. TypeInv /\ SoundInv /\ AckInv
  BY DEF Inv
<1>2. PICK f \in File : OpensOver(f, Spare) /\ backups' = backups \cup {db[f]}
  BY DEF backup_to
<1>3. live' = f /\ db' = db /\ (live # Null => live = f)
  BY <1>2 DEF OpensOver
<1>4. db[f] \in Database /\ Sound(db[f], next)
  BY <1>1 DEF TypeInv, TypeOK, JournalTypeOK, SoundInv
<1>5. backups' \subseteq Database /\ \A b \in backups' : Sound(b, next)
  BY <1>1, <1>2, <1>4 DEF TypeInv, TypeOK, RestoreTypeOK, SoundInv
<1>6. ASSUME NEW e \in ToSet(Ledgered) PROVE e \in ToSet(db[f].events)
  BY <1>3, <1>6 DEF Ledgered, ToSet
<1>7. \A e \in acked : \E b \in backups' : e \in ToSet(b.events)
  BY <1>1, <1>2, <1>6 DEF AckInv
<1>8. QED
  BY <1>2, <1>3, <1>5, <1>7

LEMMA BackupsKeep ==
  ASSUME Inv, load = Null, UNCHANGED <<cache, load>>,
         backup_state \/ \E src \in backups : restore_state(src)
  PROVE  Inv'
<1>1. /\ JournalTypeOK /\ RestoreTypeOK /\ TypeInv /\ SoundInv
      /\ ~Restoring /\ backup_to /\ UNCHANGED <<call, next, acked, fault>>
  BY DEF Inv, TypeInv, TypeOK, backup_state, restore_state, MainFree, Restoring
<1>2. /\ live' \in File /\ db' = db /\ backups' \subseteq Database
      /\ backups \subseteq backups' /\ \A b \in backups' : Sound(b, next)
      /\ \A e \in acked : \E b \in backups' : e \in ToSet(b.events)
  BY <1>1, BackupSavesAll
<1>3. AckInv'
  BY <1>1, <1>2 DEF AckInv
<1>4. RestoreTypeOK' /\ RestoreInv'
  <2>1. CASE backup_state
    BY <1>1, <1>2, <2>1 DEF backup_state, RestoreTypeOK, RestoreInv, Restoring, At
  <2>2. ASSUME NEW src \in backups, restore_state(src)
        PROVE  RestoreTypeOK' /\ RestoreInv'
    <3>1. restore' = [at |-> "stage", src |-> src, candidate |-> Null, old |-> Null]
      BY <2>2 DEF restore_state
    <3>2. src \in Database /\ src \in backups'
      BY <1>1, <1>2 DEF RestoreTypeOK
    <3>3. restore' \in Restore /\ restore'.at = "stage" /\ restore'.src \in backups' /\ restore'.old = Null
      BY <3>1, <3>2 DEF Restore
    <3>4. restores' \in 0 .. MaxRestores /\ fault' \in {"none", "failed", "died"}
      BY <1>1, <2>2, RestoreAssumption DEF restore_state, RestoreTypeOK
    <3>5. RestoreTypeOK'
      BY <1>2, <3>3, <3>4 DEF RestoreTypeOK
    <3>6. RestoreInv'
      BY <1>2, <3>3, JournalNullAssumption DEF RestoreInv, At
    <3>7. QED
      BY <3>5, <3>6
  <2>3. QED
    BY <2>1, <2>2
<1>5. QED
  BY <1>1, <1>2, <1>3, <1>4, RestoreFrame DEF JournalTypeOK, SoundInv

LEMMA StageFindsFile ==
  ASSUME Inv, At("stage")
  PROVE  (CHOOSE g \in Spare : TRUE) \in File
<1>1. /\ Restoring /\ restore.old = Null
      /\ live \in File \cup {Null} /\ restore.candidate \in File \cup {Null}
  BY DEF At, Restoring, Inv, RestoreInv, TypeInv, TypeOK, JournalTypeOK, RestoreTypeOK, Restore
<1>2. PICK g \in File : g \notin {live, restore.candidate}
  BY <1>1, FileAssumption
<1>3. g \in Spare /\ Spare \subseteq File
  BY <1>1, <1>2, JournalNullAssumption DEF Spare
<1>4. QED
  BY <1>3

LEMMA StagesGoOn ==
  ASSUME Inv, StageCandidate \/ MoveAside \/ Promote \/ PromotedIsGood \/ PromotedIsBad
  PROVE  restore' # Null
<1>1. restore \in Restore /\ live \in File \cup {Null}
  BY DEF Inv, TypeInv, TypeOK, JournalTypeOK, RestoreTypeOK, Restoring, At,
         StageCandidate, MoveAside, Promote, PromotedIsGood, PromotedIsBad
<1>2. CASE StageCandidate
  <2> DEFINE f == CHOOSE g \in Spare : TRUE
  <2>1. f \in File /\ restore' = [restore EXCEPT !.at = "aside", !.candidate = f]
    BY <1>2, StageFindsFile DEF StageCandidate
  <2> HIDE DEF f
  <2>2. restore' \in Restore
    BY <1>1, <2>1 DEF Restore
  <2>3. QED
    BY <2>2, RestoreNullAssumption
<1>3. CASE MoveAside \/ Promote \/ PromotedIsGood \/ PromotedIsBad
  <2>1. restore' \in Restore
    BY <1>1, <1>3 DEF Restore, Goes, MoveAside, Promote, PromotedIsGood, PromotedIsBad
  <2>2. QED
    BY <2>1, RestoreNullAssumption
<1>4. QED
  BY <1>2, <1>3

LEMMA StagesKeep ==
  ASSUME Inv, load = Null, UNCHANGED <<cache, load>>,
         StageCandidate \/ MoveAside \/ PromotedIsGood
  PROVE  Inv'
<1> USE DEF At, Goes, journalVars
<1>1. /\ JournalTypeOK /\ RestoreTypeOK /\ TypeInv /\ SoundInv /\ RestoreInv
      /\ Restoring /\ restore \in Restore /\ restore.src \in backups /\ backups \subseteq Database
      /\ UNCHANGED <<call, next, acked, backups, restores, fault>>
  BY DEF Inv, TypeInv, TypeOK, RestoreTypeOK, Restoring, StageCandidate, MoveAside, PromotedIsGood
<1>2. AckInv'
  BY <1>1 DEF Inv, AckInv
<1>3. CASE StageCandidate
  <2> DEFINE f == CHOOSE g \in Spare : TRUE
  <2>1. f \in File
    BY <1>1, <1>3, StageFindsFile DEF StageCandidate
  <2>2. /\ restore' = [restore EXCEPT !.at = "aside", !.candidate = f]
        /\ db' = [db EXCEPT ![f] = restore.src] /\ live' = live
    BY <1>3 DEF StageCandidate
  <2> HIDE DEF f
  <2>3. /\ restore' \in Restore /\ restore'.at = "aside" /\ restore'.candidate = f
        /\ restore'.old = restore.old /\ restore'.src = restore.src
    BY <1>1, <2>1, <2>2 DEF Restore
  <2>4. db' \in [File -> Database] /\ \A g \in File : Sound(db'[g], next)
    BY <1>1, <2>1, <2>2 DEF JournalTypeOK, SoundInv
  <2>5. RestoreTypeOK'
    BY <1>1, <2>3 DEF RestoreTypeOK
  <2>6. RestoreInv'
    BY <1>1, <1>3, <2>1, <2>2, <2>3, JournalNullAssumption DEF RestoreInv, StageCandidate
  <2>7. QED
    BY <1>1, <1>2, <2>2, <2>4, <2>5, <2>6, RestoreFrame DEF JournalTypeOK, SoundInv
<1>4. CASE MoveAside
  <2>1. restore' = [restore EXCEPT !.at = "promote", !.old = live] /\ live' = Null /\ db' = db
    BY <1>4 DEF MoveAside
  <2>2. /\ restore' \in Restore /\ restore'.at = "promote" /\ restore'.candidate = restore.candidate
        /\ restore'.old = live /\ restore'.src = restore.src
    BY <1>1, <2>1 DEF Restore, JournalTypeOK
  <2>3. RestoreTypeOK' /\ RestoreInv'
    BY <1>1, <1>4, <2>2 DEF RestoreTypeOK, RestoreInv, MoveAside
  <2>4. QED
    BY <1>1, <1>2, <2>1, <2>3, RestoreFrame DEF JournalTypeOK, SoundInv
<1>5. CASE PromotedIsGood
  <2>1. restore' = [restore EXCEPT !.at = "cleanup"] /\ live' = live /\ db' = db
    BY <1>5 DEF PromotedIsGood
  <2>2. /\ restore' \in Restore /\ restore'.at = "cleanup" /\ restore'.candidate = restore.candidate
        /\ restore'.old = restore.old /\ restore'.src = restore.src
    BY <1>1, <2>1 DEF Restore
  <2>3. RestoreTypeOK' /\ RestoreInv'
    BY <1>1, <1>5, <2>1, <2>2 DEF RestoreTypeOK, RestoreInv, PromotedIsGood
  <2>4. QED
    BY <1>1, <1>2, <2>1, <2>3, RestoreFrame DEF JournalTypeOK, SoundInv
<1>6. QED
  BY <1>3, <1>4, <1>5

LEMMA UnlinkingKeeps ==
  ASSUME Inv, load = Null, UNCHANGED <<cache, load>>,
         Promote \/ PromotedIsBad \/ RollBack \/ RestoreFails \/ RestoreEnds
  PROVE  Inv'
<1> USE DEF At, Goes
<1>1. /\ JournalTypeOK /\ RestoreTypeOK /\ TypeInv /\ SoundInv /\ RestoreInv
      /\ Restoring /\ restore \in Restore /\ restore.src \in backups /\ backups \subseteq Database
      /\ UNCHANGED <<next, acked, backups, restores>> /\ fault' \in {"none", "failed", "died"}
  BY DEF Inv, TypeInv, TypeOK, RestoreTypeOK, Restoring, Fails, Faults,
         Promote, PromotedIsBad, RollBack, RestoreFails, RestoreEnds
<1>2. PICK files : Unlinks(files)
  BY DEF Promote, PromotedIsBad, RollBack, RestoreFails, RestoreEnds
<1>3. /\ db' \in [File -> Database] /\ \A f \in File : Sound(db'[f], next)
      /\ call' \in [Thread -> [at : {"idle", "import", "imported", "append"},
                               file : File \cup {Null}]]
      /\ \A t \in Thread : call'[t].at = call[t].at
  BY <1>1, <1>2, UnlinksIs
<1>4. live' \in File \cup {Null}
  BY <1>1 DEF JournalTypeOK, Restore, Promote, PromotedIsBad, RollBack, RestoreFails, RestoreEnds
<1>5. AckInv'
  BY <1>1 DEF Inv, AckInv
<1>6. RestoreTypeOK' /\ RestoreInv'
  <2>1. CASE Promote
    <3>1. restore' = [restore EXCEPT !.at = "verify"] /\ live' = restore.candidate
      BY <2>1 DEF Promote
    <3>2. /\ restore' \in Restore /\ restore'.at = "verify" /\ restore'.candidate = restore.candidate
          /\ restore'.old = restore.old /\ restore'.src = restore.src
      BY <1>1, <3>1 DEF Restore
    <3>3. QED
      BY <1>1, <2>1, <3>1, <3>2 DEF RestoreTypeOK, RestoreInv, Promote
  <2>2. CASE PromotedIsBad
    <3>1. restore' = [restore EXCEPT !.at = "rollback", !.candidate = Null]
      BY <2>2 DEF PromotedIsBad
    <3>2. /\ restore' \in Restore /\ restore'.at = "rollback"
          /\ restore'.old = restore.old /\ restore'.src = restore.src
      BY <1>1, <3>1 DEF Restore
    <3>3. QED
      BY <1>1, <2>2, <3>2 DEF RestoreTypeOK, RestoreInv, PromotedIsBad
  <2>3. CASE RollBack \/ RestoreFails \/ RestoreEnds
    <3>1. restore' = Null
      BY <2>3 DEF RollBack, RestoreFails, RestoreEnds
    <3>2. QED
      BY <1>1, <3>1 DEF RestoreTypeOK, RestoreInv, Restoring
  <2>4. QED
    BY <2>1, <2>2, <2>3
<1>7. QED
  BY <1>1, <1>3, <1>4, <1>5, <1>6, RestoreFrame DEF SoundInv

LEMMA CrashKeeps ==
  ASSUME Inv, Crash
  PROVE  Inv'
<1>1. /\ JournalTypeOK /\ RestoreTypeOK /\ TypeInv /\ SoundInv /\ Restoring /\ load = Null
      /\ restore' = Null /\ cache' = <<>> /\ UNCHANGED <<live, next, acked, backups, restores, load>>
      /\ fault' \in {"none", "failed", "died"}
  BY DEF Inv, TypeInv, TypeOK, LoadInv, Crash, Faults
<1>2. EmptyDatabase \in Database /\ Sound(EmptyDatabase, next)
  BY <1>1, EmptyIsSound DEF JournalTypeOK
<1>3. db' \in [File -> Database] /\ \A f \in File : Sound(db'[f], next)
  BY <1>1, <1>2 DEF Crash, JournalTypeOK, SoundInv
<1>4. /\ call' \in [Thread -> [at : {"idle", "import", "imported", "append"},
                               file : File \cup {Null}]]
      /\ call'[Main] = Idle
  BY <1>1 DEF Crash, JournalTypeOK, Idle, Thread
<1>5. JournalTypeOK' /\ RestoreTypeOK'
  BY <1>1, <1>3, <1>4 DEF JournalTypeOK, RestoreTypeOK, Restoring
<1>6. DOMAIN cache' = {} /\ cache' \in [DOMAIN cache' -> [stamp : Stamp, snapshot : Projection]]
  BY <1>1
<1>7. IsFiniteSet(DOMAIN cache') /\ Cardinality(DOMAIN cache') = 0
  BY <1>6, FS_EmptySet
<1>8. TypeInv'
  BY <1>1, <1>5, <1>6, <1>7, CacheAssumption DEF TypeInv, TypeOK
<1>9. SoundInv' /\ RestoreInv' /\ AckInv'
  BY <1>1, <1>3 DEF Inv, SoundInv, RestoreInv, AckInv, At, Restoring
<1>10. LoadInv' /\ CacheInv'
  BY <1>1, <1>4, <1>6 DEF LoadInv, CacheInv, Idle
<1>11. QED
  BY <1>8, <1>9, <1>10 DEF Inv

-----------------------------------------------------------------------------
LEMMA StepInv == Inv /\ [Next]_vars => Inv'
<1> SUFFICES ASSUME Inv, [Next]_vars PROVE Inv'
  OBVIOUS
<1>1. ASSUME NEW t \in Appender, Appends(t) PROVE Inv'
  BY <1>1, AppendsKeep
<1>2. CASE load = Null /\ RestoreStep /\ UNCHANGED <<cache, load>>
  BY <1>2, BackupsKeep, StagesKeep, UnlinkingKeeps DEF RestoreStep
<1>3. CASE LoadStep
  BY <1>3, LoadsKeeps, MainImportsKeeps, ReadOnlyKeeps, AfterStampKeeps DEF LoadStep
<1>4. CASE Crash
  BY <1>4, CrashKeeps
<1>5. CASE UNCHANGED vars
  BY <1>5
     DEF vars, journalVars, restoreVars, Inv, TypeInv, TypeOK, JournalTypeOK, RestoreTypeOK, Restoring,
         SoundInv, RestoreInv, At, AckInv, Ledgered, LoadInv, ledger_stamp, CacheInv
<1>6. QED
  BY <1>1, <1>2, <1>3, <1>4, <1>5 DEF Next

LEMMA Invariant == Spec => []Inv
BY InitInv, StepInv, PTL DEF Spec

(* The files, the databases, the calls, the restore, the cache and the load have
   their types.  In particular the cache never has more entries than its limit, and a
   load gives up after its last attempt (cache_snapshot, load_engineering_projection). *)
THEOREM JournalTypeCorrect == Spec => []TypeOK
<1>1. Inv => TypeOK
  BY DEF Inv, TypeInv
<1>2. QED
  BY <1>1, Invariant, PTL

(* No database holds an event twice, however many callers find the legacy journal
   not imported yet, and whatever is restored meanwhile (ensure_legacy_jsonl_import). *)
THEOREM EventsAreStoredOnce == Spec => []NoEventTwice
<1>1. Inv => NoEventTwice
  BY DEF Inv, SoundInv, Sound, NoEventTwice
<1>2. QED
  BY <1>1, Invariant, PTL

(* A cached projection that the stamp of the ledger hits is the projection of the
   ledger, restores included (load_engineering_projection). *)
THEOREM CacheTellsTheTruth == Spec => []CacheIsTrue
<1>1. ASSUME Inv, live # Null, NEW i \in DOMAIN cache,
             cache[i].stamp = engineering_event_revision(Ledgered, i)
      PROVE  cache[i].snapshot = InScope(Ledgered, i)
  <2>1. Ledgered \in Ledger /\ i \in Item
    BY <1>1 DEF Inv, TypeInv, TypeOK, JournalTypeOK, Database, Ledgered
  <2>2. cache[i].snapshot = Scoped(cache[i].stamp, i)
    BY <1>1 DEF Inv, CacheInv
  <2>3. QED
    BY <1>1, <2>1, <2>2, ScopeOfRevision
<1>2. Inv => CacheIsTrue
  BY <1>1 DEF CacheIsTrue
<1>3. QED
  BY <1>2, Invariant, PTL

(* An event stored in the live database outside a restore is in the live database or
   in a backup for good (restore_state). *)
THEOREM AcknowledgedIsKept == Spec => []AcknowledgedSurvives
<1>1. Inv => AcknowledgedSurvives
  BY DEF Inv, AckInv, AcknowledgedSurvives
<1>2. QED
  BY <1>1, Invariant, PTL

(* A restore that returns leaves the old database or the restored one at the path,
   and not one that a call made in between has created (restore_database_file). *)
THEOREM RestoreLeavesAWhole == Spec => RestoreIsWhole
<1> DEFINE Whole == Restoring /\ restore' = Null /\ ~(Crash) =>
             live' # Null /\ live' \in {restore.old, restore.candidate} \cup
                              (IF restore.old = Null THEN {live} ELSE {})
<1>1. ASSUME Inv, [Next]_vars, Restoring, restore' = Null, ~(Crash)
      PROVE  live' # Null /\ live' \in {restore.old, restore.candidate} \cup
                              (IF restore.old = Null THEN {live} ELSE {})
  <2>1. RestoreInv /\ restore \in Restore /\ restore # Null
    BY <1>1 DEF Inv, TypeInv, TypeOK, RestoreTypeOK, Restoring
  <2>2. RollBack \/ RestoreFails \/ RestoreEnds
    <3>1. \A src : ~(restore_state(src)) /\ ~(backup_state)
      BY <2>1 DEF restore_state, backup_state, MainFree
    <3>2. restore' # restore
      BY <1>1, <2>1
    <3>3. RestoreStep
      BY <1>1, <3>2
         DEF Next, vars, restoreVars, Appends, LoadStep, Loads, MainImports, cached_snapshot, BeforeStamp,
             read_events, AfterStamp, FreshReplay, Reads
    <3>4. ~(StageCandidate \/ MoveAside \/ Promote \/ PromotedIsGood \/ PromotedIsBad)
      BY <1>1, StagesGoOn
    <3>5. QED
      BY <3>1, <3>3, <3>4 DEF RestoreStep
  <2>3. CASE RollBack
    BY <2>1, <2>3 DEF RollBack, RestoreInv, At
  <2>4. CASE RestoreFails
    BY <2>1, <2>4 DEF RestoreFails, RestoreInv, At
  <2>5. CASE RestoreEnds
    BY <2>1, <2>5 DEF RestoreEnds, RestoreInv, At
  <2>6. QED
    BY <2>2, <2>3, <2>4, <2>5
<1>2. Inv /\ [Next]_vars => [Whole]_vars
  BY <1>1
<1>3. QED
  BY <1>2, Invariant, PTL DEF Spec, RestoreIsWhole

-----------------------------------------------------------------------------
(* The restore implements the contract of RestoreContract. *)

(* Which files a restore can still confuse: none without a name holds anything or is
   written to, and the old file, the candidate and the live file are told apart until
   the candidate is the live one. *)
FilesInv ==
  /\ \A f \in Spare : db[f] = EmptyDatabase
  /\ \A t \in Thread : call[t].file \notin Spare
  /\ Restoring =>
       /\ live # restore.old
       /\ restore.candidate = Null <=> restore.at \in {"stage", "rollback"}
       /\ restore.at \in {"aside", "promote"} => live # restore.candidate
       /\ restore.candidate # Null =>
            /\ restore.candidate # restore.old
            /\ IsPrefixOf(restore.src.events, db[restore.candidate].events)

LEMMA InitFiles == Init => FilesInv
<1> SUFFICES ASSUME Init PROVE FilesInv
  OBVIOUS
<1>1. ~Restoring /\ \A f \in File : db[f] = EmptyDatabase
  BY DEF Init, JournalInit, RestoreInit, Restoring
<1>2. Spare \subseteq File /\ \A t \in Thread : call[t].file = Null
  BY DEF Spare, Init, JournalInit, Idle
<1>3. QED
  BY <1>1, <1>2, JournalNullAssumption DEF FilesInv

LEMMA SpareIsThere ==
  ASSUME Inv, live = Null \/ ~Restoring \/ restore.old = Null \/ restore.candidate = Null
  PROVE  (CHOOSE g \in Spare : TRUE) \in Spare
<1>1. /\ live \in File \cup {Null}
      /\ Restoring => restore.candidate \in File \cup {Null} /\ restore.old \in File \cup {Null}
  BY DEF Inv, TypeInv, TypeOK, JournalTypeOK, RestoreTypeOK, Restoring, Restore
<1>2. Null \in File \cup {Null} /\ Null \notin File
  BY JournalNullAssumption
<1>3. PICK a \in File \cup {Null}, b \in File \cup {Null} : Spare = File \ {a, b, Null}
  <2>1. CASE ~Restoring
    BY <1>1, <1>2, <2>1 DEF Spare
  <2>2. CASE Restoring /\ live = Null
    BY <1>1, <1>2, <2>2 DEF Spare
  <2>3. CASE Restoring /\ restore.old = Null
    BY <1>1, <1>2, <2>3 DEF Spare
  <2>4. CASE Restoring /\ restore.candidate = Null
    BY <1>1, <1>2, <2>4 DEF Spare
  <2>5. QED
    BY <2>1, <2>2, <2>3, <2>4
<1>4. PICK g \in File : g \notin {a, b}
  BY FileAssumption
<1>5. g \in Spare
  BY <1>2, <1>3, <1>4
<1>6. QED
  BY <1>5

(* A file that a call opens is the live one, and one that it creates was spare. *)
LEMMA OpensSpare ==
  ASSUME Inv, NEW f \in File, OpensOver(f, Spare)
  PROVE  live' = f /\ db' = db /\ (live # Null => live = f) /\ (live = Null => f \in Spare)
<1>1. CASE live # Null
  BY <1>1 DEF OpensOver
<1>2. CASE live = Null
  BY <1>2, SpareIsThere DEF OpensOver
<1>3. QED
  BY <1>1, <1>2

LEMMA JournalTouches ==
  ASSUME Inv, NEW t \in Thread, JournalStep(t)
  PROVE  /\ live' = live \/ (live = Null /\ live' \in Spare)
         /\ \A f \in File : f # call[t].file => db'[f] = db[f]
         /\ \A u \in Thread : call'[u].file \in {call[u].file, Null, live'}
<1>1. /\ live \in File \cup {Null} /\ db \in [File -> Database]
      /\ call \in [Thread -> [at : {"idle", "import", "imported", "append"},
                              file : File \cup {Null}]]
  BY DEF Inv, TypeInv, TypeOK, JournalTypeOK
<1>2. CASE ImportChecks(t, Spare)
  <2>1. PICK f \in File : OpensOver(f, Spare) /\ call' = [call EXCEPT ![t] =
              [at |-> IF db[f].marked THEN "imported" ELSE "import",
               file |-> IF db[f].marked THEN Null ELSE f]]
    BY <1>2 DEF ImportChecks
  <2>2. live' = f /\ db' = db /\ (live # Null => live = f) /\ (live = Null => f \in Spare)
    BY <2>1, OpensSpare
  <2>3. QED
    BY <1>1, <2>1, <2>2
<1>3. CASE AppendOpens(t, Spare)
  <2>1. PICK f \in File :
          OpensOver(f, Spare) /\ call' = [call EXCEPT ![t] = [at |-> "append", file |-> f]]
    BY <1>3 DEF AppendOpens
  <2>2. live' = f /\ db' = db /\ (live # Null => live = f) /\ (live = Null => f \in Spare)
    BY <2>1, OpensSpare
  <2>3. QED
    BY <1>1, <2>1, <2>2
<1>4. CASE ImportCommits(t)
  <2>1. /\ live' = live /\ call' = [call EXCEPT ![t] = [at |-> "imported", file |-> Null]]
        /\ \E d : Writes(t, d)
    BY <1>4 DEF ImportCommits
  <2>2. QED
    BY <1>1, <2>1 DEF Writes
<1>5. CASE AppendFails(t)
  BY <1>1, <1>5 DEF AppendFails, Idle
<1>6. ASSUME NEW item \in Item, append_pending(t, item, Restoring)
      PROVE  /\ live' = live
             /\ \A f \in File : f # call[t].file => db'[f] = db[f]
             /\ \A u \in Thread : call'[u].file \in {call[u].file, Null}
  <2>1. live' = live /\ call' = [call EXCEPT ![t] = Idle] /\ \E d : Writes(t, d)
    BY <1>6 DEF append_pending
  <2>2. QED
    BY <1>1, <2>1 DEF Writes, Idle
<1>7. QED
  BY <1>2, <1>3, <1>4, <1>5, <1>6 DEF JournalStep

LEMMA JournalStepKeepsFiles ==
  ASSUME Inv, FilesInv, NEW t \in Thread, JournalStep(t), UNCHANGED restoreVars
  PROVE  FilesInv' /\ Spare' \subseteq Spare
<1> USE DEF restoreVars
<1>1. /\ live' = live \/ (live = Null /\ live' \in Spare)
      /\ \A f \in File : f # call[t].file => db'[f] = db[f]
      /\ \A u \in Thread : call'[u].file \in {call[u].file, Null, live'}
  BY JournalTouches
<1>2. Spare' = Spare \ {live'} /\ Spare \subseteq File /\ Null \notin File /\ restore' = restore
  BY <1>1, JournalNullAssumption DEF Spare, Restoring
<1>3. \A f \in Spare : db'[f] = EmptyDatabase
  BY <1>1, <1>2 DEF FilesInv
<1>4. \A u \in Thread : call'[u].file \notin Spare'
  BY <1>1, <1>2 DEF FilesInv
<1>5. ASSUME Restoring
      PROVE  /\ live' # restore.old
             /\ restore.at \in {"aside", "promote"} => live' # restore.candidate
             /\ restore.candidate # Null =>
                  IsPrefixOf(restore.src.events, db'[restore.candidate].events)
  <2>1. restore.candidate \notin Spare /\ restore.old \notin Spare
    BY <1>5 DEF Spare
  <2>2. live' # restore.old /\ (restore.at \in {"aside", "promote"} => live' # restore.candidate)
    BY <1>1, <1>5, <2>1 DEF FilesInv
  <2>3. ASSUME restore.candidate # Null
        PROVE  IsPrefixOf(restore.src.events, db'[restore.candidate].events)
    <3>1. restore.candidate \in File /\ restore.src \in Database /\ db \in [File -> Database]
      BY <1>5, <2>3 DEF Inv, TypeInv, TypeOK, RestoreTypeOK, JournalTypeOK, Restoring, Restore
    <3>2. db' \in [File -> Database] /\ IsPrefixOf(db[restore.candidate].events, db'[restore.candidate].events)
      BY <3>1, JournalStepKeeps DEF Inv, JournalTypeOK
    <3>3. QED
      BY <1>5, <2>3, <3>1, <3>2, PrefixTransitive DEF FilesInv, Database
  <2>4. QED
    BY <2>2, <2>3
<1>6. QED
  BY <1>2, <1>3, <1>4, <1>5 DEF FilesInv, Restoring

(* What the contract sees is a ledger, or nothing, and its operators are the model's. *)
StandingInv ==
  /\ Standing \in File \cup {Null}
  /\ Standing # Null => StandingLedger = db[Standing].events /\ StandingLedger \in Ledger
  /\ Standing = Null => StandingLedger = Null /\ ~Replacing
  /\ ~Replacing => Standing = live
  /\ Replacing => Restoring /\ Standing = restore.old

LEMMA StandingIs == Inv => StandingInv
<1> SUFFICES ASSUME Inv PROVE StandingInv
  OBVIOUS
<1>1. /\ live \in File \cup {Null} /\ db \in [File -> Database]
      /\ Restoring => restore.old \in File \cup {Null}
  BY DEF Inv, TypeInv, TypeOK, JournalTypeOK, RestoreTypeOK, Restoring, Restore
<1>2. Replacing => Restoring /\ restore.old # Null
  BY DEF Replacing, Inv, RestoreInv, At
<1>3. QED
  BY <1>1, <1>2 DEF StandingInv, Standing, StandingLedger, Database

LEMMA StandsThroughout == Inv /\ Inv' => StandingInv /\ StandingInv'
BY StandingIs, PTL

LEMMA LedgersAreSequences == Null \notin Ledger /\ \A s \in Ledger : s \in Seq(Event)
BY Ledgers, JournalNullAssumption

LEMMA ContractPrefix ==
  ASSUME NEW s \in Seq(Event), NEW t \in Seq(Event), IsPrefixOf(s, t)
  PROVE  Contract!IsPrefix(s, t)
BY DEF IsPrefixOf, Contract!IsPrefix

LEMMA SavedEventsAre == Contract!SavedEvents = UNION {ToSet(b.events) : b \in backups}
BY DEF Contract!SavedEvents, Contract!ToSet, SavedLedgers, ToSet

LEMMA AcknowledgedIsSaved ==
  ASSUME Inv, Restoring
  PROVE  acked \subseteq Contract!SavedEvents
BY SavedEventsAre DEF Inv, AckInv

(* A step that only adds to the ledger that stands, or begins it, stores. *)
LEMMA GrowingStores ==
  ASSUME Inv, Inv', UNCHANGED <<backups, fault>>,
         Standing' # Null, Standing # Null => Standing' = Standing,
         IF Standing = Null THEN db'[Standing'] = EmptyDatabase
         ELSE IsPrefixOf(db[Standing].events, db'[Standing].events),
         \/ acked' = acked
         \/ \E e : acked' = acked \cup {e} /\ e \in ToSet(db'[Standing'].events)
  PROVE  Contract!Store
<1>1. StandingLedger' = db'[Standing'].events /\ StandingLedger' \in Ledger
  BY StandsThroughout DEF StandingInv
<1>2. StandingLedger' # Null /\ StandingLedger' \in Seq(Event)
  BY <1>1, LedgersAreSequences
<1>3. IF StandingLedger = Null THEN StandingLedger' = <<>>
      ELSE Contract!IsPrefix(StandingLedger, StandingLedger')
  <2>1. CASE Standing = Null
    BY <1>1, <2>1, StandsThroughout DEF StandingInv, EmptyDatabase
  <2>2. CASE Standing # Null
    <3>1. StandingLedger \in Seq(Event) /\ StandingLedger # Null /\ IsPrefixOf(StandingLedger, StandingLedger')
      BY <1>1, <2>2, StandsThroughout, LedgersAreSequences DEF StandingInv
    <3>2. QED
      BY <1>2, <3>1, ContractPrefix
  <2>3. QED
    BY <2>1, <2>2
<1>4. acked \subseteq acked' /\ acked' \subseteq acked \cup Contract!ToSet(StandingLedger')
  BY <1>1 DEF Contract!ToSet, ToSet
<1>5. SavedLedgers' = SavedLedgers
  BY DEF SavedLedgers
<1>6. QED
  BY <1>2, <1>3, <1>4, <1>5 DEF Contract!Store

LEMMA JournalStepStores ==
  ASSUME Inv, Inv', FilesInv, NEW t \in Thread, JournalStep(t), UNCHANGED restoreVars
  PROVE  Contract!Store \/ UNCHANGED Contract!contractVars
<1> USE DEF restoreVars
<1>1. /\ live' = live \/ (live = Null /\ live' \in Spare)
      /\ \A f \in File : f # call[t].file => db'[f] = db[f]
  BY JournalTouches
<1>2. /\ \A f \in File : IsPrefixOf(db[f].events, db'[f].events)
      /\ \/ acked' = acked
         \/ \E e : /\ acked' = acked \cup {e} /\ ~Restoring
                  /\ live' # Null /\ e \in ToSet(db'[live'].events)
  BY JournalStepKeeps DEF Inv
<1>3. (Replacing' <=> Replacing) /\ (Replacing => Restoring)
  BY DEF Replacing, Restoring
<1>4. /\ ~Replacing => Standing = live /\ Standing' = live'
      /\ Replacing => Standing = restore.old /\ Standing' = restore.old
      /\ Standing = Null => ~Replacing
  BY <1>3, StandsThroughout DEF StandingInv
<1>5. CASE Standing' = Null
  <2>1. ~Replacing /\ live = Null /\ live' = Null /\ Standing = Null
    BY <1>1, <1>3, <1>4, <1>5, StandsThroughout DEF StandingInv
  <2>2. StandingLedger = Null /\ StandingLedger' = Null
    BY <1>5, <2>1, StandsThroughout DEF StandingInv
  <2>3. acked' = acked
    BY <1>2, <2>1
  <2>4. QED
    BY <2>2, <2>3 DEF Contract!contractVars, SavedLedgers
<1>6. CASE Standing' # Null
  <2>1. Standing # Null => Standing' = Standing /\ Standing \in File
    BY <1>1, <1>4, StandsThroughout DEF StandingInv
  <2>2. ASSUME Standing = Null PROVE db'[Standing'] = EmptyDatabase
    <3>1. Standing' \in Spare
      BY <1>1, <1>4, <1>6, <2>2
    <3>2. Standing' \in File /\ Standing' # call[t].file /\ db[Standing'] = EmptyDatabase
      BY <3>1 DEF FilesInv, Spare
    <3>3. QED
      BY <1>1, <3>2
  <2>3. ASSUME NEW e, acked' = acked \cup {e}, ~Restoring, e \in ToSet(db'[live'].events)
        PROVE  e \in ToSet(db'[Standing'].events)
    BY <1>3, <1>4, <2>3
  <2>4. QED
    BY <1>2, <1>6, <2>1, <2>2, <2>3, GrowingStores
<1>7. QED
  BY <1>5, <1>6

(* A step that touches neither the files nor the backups keeps the files, and the
   contract does not see it. *)
LEMMA UntouchedFiles ==
  ASSUME Inv, FilesInv, UNCHANGED <<live, db, acked, restoreVars>>,
         \A t \in Thread : call'[t].file \in {call[t].file, Null}
  PROVE  FilesInv' /\ UNCHANGED Contract!contractVars
<1> USE DEF restoreVars
<1>1. Spare' = Spare /\ Null \notin Spare
  BY JournalNullAssumption DEF Spare, Restoring
<1>2. FilesInv'
  BY <1>1 DEF FilesInv, Restoring
<1>3. UNCHANGED <<StandingLedger, SavedLedgers>>
  BY DEF StandingLedger, Standing, Replacing, Restoring, SavedLedgers
<1>4. QED
  BY <1>2, <1>3 DEF Contract!contractVars

LEMMA BackupsSave ==
  ASSUME Inv, Inv', FilesInv, backup_state \/ \E src \in backups : restore_state(src)
  PROVE  FilesInv' /\ Contract!Save
<1>1. /\ ~Restoring /\ backup_to /\ UNCHANGED <<call, acked, fault>>
      /\ \/ restore' = Null
         \/ \E src \in backups :
              restore' = [at |-> "stage", src |-> src, candidate |-> Null, old |-> Null]
  BY DEF backup_state, restore_state, MainFree, Restoring
<1>2. PICK f \in File : OpensOver(f, Spare) /\ backups' = backups \cup {db[f]}
  BY <1>1 DEF backup_to
<1>3. live' = f /\ db' = db /\ (live # Null => live = f) /\ (live = Null => f \in Spare)
  BY <1>2, OpensSpare
<1>4. Spare' = Spare \ {f} /\ Null \notin File
  BY <1>1, <1>3, JournalNullAssumption DEF Spare, Restoring
<1>5. FilesInv'
  BY <1>1, <1>3, <1>4 DEF FilesInv, Restoring
<1>6. ~Replacing /\ ~Replacing'
  BY <1>1 DEF Replacing, Restoring
<1>7. StandingLedger' = db[f].events
      /\ StandingLedger = IF live = Null THEN Null ELSE db[f].events
  BY <1>3, <1>4, <1>6 DEF StandingLedger, Standing
<1>8. db[f].events = Contract!Opened
  <2>1. CASE live = Null
    BY <1>3, <1>7, <2>1 DEF Contract!Opened, FilesInv, EmptyDatabase
  <2>2. CASE live # Null
    <3>1. db[f].events # Null
      BY <1>6, <2>2, <1>3, StandingIs, LedgersAreSequences DEF StandingInv
    <3>2. QED
      BY <1>7, <2>2, <3>1 DEF Contract!Opened
  <2>3. QED
    BY <2>1, <2>2
<1>9. SavedLedgers' = SavedLedgers \cup {db[f].events}
  BY <1>2 DEF SavedLedgers
<1>10. QED
  BY <1>1, <1>5, <1>7, <1>8, <1>9 DEF Contract!Save

LEMMA StageIsNoStep ==
  ASSUME Inv, FilesInv, StageCandidate
  PROVE  FilesInv' /\ UNCHANGED Contract!contractVars
<1> DEFINE f == CHOOSE g \in Spare : TRUE
<1>1. /\ restore \in Restore /\ Restoring /\ restore.at = "stage" /\ db \in [File -> Database]
      /\ live # Null /\ restore.old = Null /\ restore.candidate = Null
      /\ restore.src \in Database
  BY DEF Inv, TypeInv, TypeOK, JournalTypeOK, RestoreTypeOK, RestoreInv, FilesInv, Restoring, At,
         StageCandidate, Restore
<1>2. f \in Spare /\ Spare \subseteq File
  BY <1>1, SpareIsThere DEF Spare
<1>3. /\ db' = [db EXCEPT ![f] = restore.src]
      /\ restore' = [restore EXCEPT !.at = "aside", !.candidate = f]
      /\ UNCHANGED <<live, call, acked, backups, fault>>
  BY DEF StageCandidate
<1> HIDE DEF f
<1>4. /\ restore' \in Restore /\ restore'.at = "aside" /\ restore'.candidate = f
      /\ restore'.old = Null /\ restore'.src = restore.src
  BY <1>1, <1>2, <1>3 DEF Restore
<1>5. restore' # Null
  BY <1>4, RestoreNullAssumption
<1>6. Spare' = Spare \ {f} /\ f # live /\ Null \notin File
  BY <1>1, <1>2, <1>3, <1>4, <1>5, JournalNullAssumption DEF Spare, Restoring
<1>7. IsPrefixOf(restore.src.events, db'[f].events)
  BY <1>1, <1>2, <1>3, SameIsPrefix DEF Database
<1>8. FilesInv'
  BY <1>1, <1>2, <1>3, <1>4, <1>5, <1>6, <1>7 DEF FilesInv, Restoring
<1>9. ~Replacing /\ ~Replacing'
  BY <1>1, <1>4 DEF Replacing
<1>10. UNCHANGED <<StandingLedger, SavedLedgers>>
  BY <1>1, <1>2, <1>3, <1>6, <1>9 DEF StandingLedger, Standing, SavedLedgers
<1>11. QED
  BY <1>3, <1>8, <1>10 DEF Contract!contractVars

LEMMA MoveAsideIsNoStep ==
  ASSUME Inv, FilesInv, MoveAside
  PROVE  FilesInv' /\ UNCHANGED Contract!contractVars
<1>1. /\ restore \in Restore /\ Restoring /\ restore.at = "aside" /\ live \in File
      /\ restore.old = Null /\ restore.candidate # Null /\ live # restore.candidate
  BY DEF Inv, TypeInv, TypeOK, JournalTypeOK, RestoreTypeOK, RestoreInv, FilesInv, Restoring, At,
         MoveAside
<1>2. /\ restore' = [restore EXCEPT !.at = "promote", !.old = live] /\ live' = Null
      /\ UNCHANGED <<db, call, acked, backups, fault>>
  BY DEF MoveAside
<1>3. /\ restore' \in Restore /\ restore'.at = "promote" /\ restore'.old = live
      /\ restore'.candidate = restore.candidate /\ restore'.src = restore.src
  BY <1>1, <1>2 DEF Restore
<1>4. restore' # Null
  BY <1>3, RestoreNullAssumption
<1>5. Spare' = Spare /\ Null \notin File
  BY <1>1, <1>2, <1>3, <1>4, JournalNullAssumption DEF Spare, Restoring
<1>6. FilesInv'
  BY <1>1, <1>2, <1>3, <1>4, <1>5 DEF FilesInv, Restoring
<1>7. ~Replacing /\ Replacing'
  BY <1>1, <1>3, <1>4 DEF Replacing, Restoring
<1>8. UNCHANGED <<StandingLedger, SavedLedgers>>
  BY <1>2, <1>3, <1>7 DEF StandingLedger, Standing, SavedLedgers
<1>9. QED
  BY <1>2, <1>6, <1>8 DEF Contract!contractVars

(* At the check of the promoted file the restore takes place. *)
LEMMA PromotedIsGoodRestores ==
  ASSUME Inv, Inv', FilesInv, PromotedIsGood
  PROVE  FilesInv' /\ Contract!Restore
<1>1. /\ restore \in Restore /\ Restoring /\ restore.at = "verify" /\ restore.src \in backups
      /\ restore.candidate # Null /\ live = restore.candidate /\ restore.src \in Database
  BY DEF Inv, TypeInv, TypeOK, RestoreTypeOK, RestoreInv, Restoring, At, PromotedIsGood, Restore
<1>2. /\ restore' = [restore EXCEPT !.at = "cleanup"]
      /\ UNCHANGED <<live, db, call, acked, backups, fault>>
  BY DEF PromotedIsGood, Goes, journalVars
<1>3. /\ restore' \in Restore /\ restore'.at = "cleanup" /\ restore'.old = restore.old
      /\ restore'.candidate = restore.candidate /\ restore'.src = restore.src
  BY <1>1, <1>2 DEF Restore
<1>4. restore' # Null
  BY <1>3, RestoreNullAssumption
<1>5. Spare' = Spare
  BY <1>1, <1>2, <1>3, <1>4 DEF Spare, Restoring
<1>6. FilesInv'
  BY <1>1, <1>2, <1>3, <1>4, <1>5 DEF FilesInv, Restoring
<1>7. ~Replacing'
  BY <1>3 DEF Replacing
<1>8. StandingLedger' = db[live].events /\ StandingLedger' \in Ledger
  BY <1>1, <1>2, <1>7, StandsThroughout DEF StandingInv
<1>9. /\ StandingLedger' # Null /\ StandingLedger' \in Seq(Event)
      /\ restore.src.events \in Seq(Event)
  BY <1>1, <1>8, LedgersAreSequences DEF Database
<1>10. restore.src.events \in SavedLedgers /\ Contract!IsPrefix(restore.src.events, StandingLedger')
  BY <1>1, <1>8, <1>9, ContractPrefix DEF FilesInv, SavedLedgers
<1>11. QED
  BY <1>1, <1>2, <1>6, <1>9, <1>10, AcknowledgedIsSaved DEF Contract!Restore, SavedLedgers

(* Files that lose their name are spare ones, as good as new. *)
LEMMA UnlinkedAreSpare ==
  ASSUME FilesInv, NEW files, Unlinks(files), Spare' \subseteq Spare \cup files
  PROVE  /\ \A f \in Spare' : db'[f] = EmptyDatabase
         /\ \A t \in Thread : call'[t].file \notin Spare'
<1>1. Spare' \subseteq File /\ Null \notin Spare'
  BY JournalNullAssumption DEF Spare
<1>2. \A f \in Spare' : db'[f] = EmptyDatabase
  BY <1>1 DEF Unlinks, FilesInv
<1>3. ASSUME NEW t \in Thread PROVE call'[t].file \notin Spare'
  <2>1. CASE call[t].file \in files
    <3>1. call'[t] = [call[t] EXCEPT !.file = Null]
      BY <2>1 DEF Unlinks
    <3>2. call'[t].file = Null \/ call'[t].file = call[t].file
      BY <3>1
    <3>3. QED
      BY <1>1, <2>1, <3>1, <3>2 DEF FilesInv
  <2>2. CASE call[t].file \notin files
    BY <2>2 DEF Unlinks, FilesInv
  <2>3. QED
    BY <2>1, <2>2
<1>4. QED
  BY <1>2, <1>3

(* Neither the promotion nor its failure is a step: the old database stands. *)
LEMMA PromoteIsNoStep ==
  ASSUME Inv, FilesInv, Promote \/ PromotedIsBad
  PROVE  FilesInv' /\ UNCHANGED Contract!contractVars
<1>1. /\ restore \in Restore /\ Restoring /\ restore.at = IF Promote THEN "promote" ELSE "verify"
      /\ restore.old # Null /\ restore.candidate # Null /\ restore.old # restore.candidate
      /\ live # restore.old /\ restore.src \in Database
      /\ restore.old \in File /\ restore.candidate \in File
  BY DEF Inv, TypeInv, TypeOK, RestoreTypeOK, RestoreInv, FilesInv, Restoring, At,
         Promote, PromotedIsBad, Restore
<1>2. /\ Unlinks({live}) /\ UNCHANGED <<acked, backups>>
      /\ fault' = "died" <=> fault = "died"
  BY DEF Promote, PromotedIsBad, Fails, Faults
<1>3. /\ restore' \in Restore /\ restore'.old = restore.old /\ restore'.src = restore.src
      /\ restore'.at \in {"verify", "rollback"}
  BY <1>1 DEF Restore, Promote, PromotedIsBad, Goes
<1>4. restore' # Null
  BY <1>3, RestoreNullAssumption
<1>5. db'[restore.old] = db[restore.old]
  BY <1>1, <1>2 DEF Unlinks
<1>6. UNCHANGED <<StandingLedger, SavedLedgers>>
  BY <1>1, <1>2, <1>3, <1>4, <1>5
     DEF StandingLedger, Standing, Replacing, Restoring, SavedLedgers
<1>7. CASE Promote
  <2>1. /\ live' = restore.candidate /\ live # restore.candidate
        /\ restore'.candidate = restore.candidate /\ restore'.at = "verify"
    BY <1>1, <1>7 DEF Promote, Goes, Restore, FilesInv, At
  <2>2. Spare' \subseteq Spare \cup {live}
    BY <1>3, <1>4, <2>1 DEF Spare, Restoring
  <2>3. IsPrefixOf(restore.src.events, db'[restore.candidate].events)
    BY <1>1, <1>2, <2>1 DEF Unlinks, FilesInv
  <2>4. FilesInv'
    BY <1>1, <1>2, <1>3, <2>1, <2>2, <2>3, UnlinkedAreSpare DEF FilesInv
  <2>5. QED
    BY <1>2, <1>6, <2>4 DEF Contract!contractVars
<1>8. CASE PromotedIsBad
  <2>1. live' = Null /\ restore'.candidate = Null /\ restore'.at = "rollback" /\ live = restore.candidate
    BY <1>1, <1>8 DEF PromotedIsBad, Restore, Inv, RestoreInv, At
  <2>2. Spare' \subseteq Spare \cup {live}
    BY <1>3, <1>4, <2>1 DEF Spare, Restoring
  <2>3. FilesInv'
    BY <1>1, <1>2, <1>3, <2>1, <2>2, UnlinkedAreSpare DEF FilesInv
  <2>4. QED
    BY <1>2, <1>6, <2>3 DEF Contract!contractVars
<1>9. QED
  BY <1>7, <1>8

(* A restore that returns leaves what stands: the old database, or, once it has been
   replaced, the one that replaced it. *)
LEMMA ReturnIsNoStep ==
  ASSUME Inv, FilesInv, RollBack \/ RestoreFails \/ RestoreEnds
  PROVE  FilesInv' /\ UNCHANGED Contract!contractVars
<1> DEFINE files == IF RollBack THEN {live}
                    ELSE IF RestoreEnds THEN {restore.old}
                    ELSE {restore.candidate} \cup IF At("promote") THEN {live} ELSE {}
<1>1. /\ Restoring /\ restore' = Null /\ RestoreInv /\ RestoreTypeOK /\ JournalTypeOK
      /\ restore \in Restore /\ UNCHANGED <<acked, backups>> /\ (fault' = "died" <=> fault = "died")
  BY DEF Inv, TypeInv, TypeOK, RestoreTypeOK, Restoring, At, Fails, Faults,
         RollBack, RestoreFails, RestoreEnds
<1>2. Unlinks(files)
  BY DEF RollBack, RestoreFails, RestoreEnds, At
<1>3. live' = Standing /\ Standing \notin files \ {Null}
      /\ {live, restore.old, restore.candidate} \subseteq files \cup {Standing, Null}
  <2>1. CASE RollBack
    BY <1>1, <2>1 DEF RollBack, FilesInv, RestoreInv, At, Standing, Replacing
  <2>2. CASE RestoreEnds
    BY <1>1, <2>2 DEF RestoreEnds, RollBack, FilesInv, RestoreInv, At, Standing, Replacing
  <2>3. CASE RestoreFails /\ At("promote")
    BY <1>1, <2>3 DEF RestoreFails, RestoreEnds, RollBack, FilesInv, RestoreInv, At, Standing, Replacing
  <2>4. CASE RestoreFails /\ ~At("promote")
    BY <1>1, <2>4 DEF RestoreFails, RestoreEnds, RollBack, FilesInv, RestoreInv, At, Standing, Replacing
  <2>5. QED
    BY <2>1, <2>2, <2>3, <2>4
<1> HIDE DEF files
<1>4. Spare' = File \ {Standing} /\ Null \notin File
  BY <1>1, <1>3, JournalNullAssumption DEF Spare, Restoring
<1>5. Spare' \subseteq Spare \cup files
  BY <1>1, <1>3, <1>4 DEF Spare
<1>6. FilesInv'
  BY <1>1, <1>2, <1>5, UnlinkedAreSpare DEF FilesInv, Restoring
<1>7. Standing' = Standing /\ (Standing # Null => Standing \in File /\ db'[Standing] = db[Standing])
  BY <1>1, <1>2, <1>3, StandingIs DEF Standing, Replacing, Restoring, Unlinks, StandingInv
<1>8. UNCHANGED <<StandingLedger, SavedLedgers>>
  BY <1>1, <1>7 DEF StandingLedger, SavedLedgers
<1>9. QED
  BY <1>1, <1>6, <1>8 DEF Contract!contractVars

LEMMA CrashDies ==
  ASSUME Inv, Inv', FilesInv, Crash
  PROVE  FilesInv' /\ Contract!Die
<1>1. /\ Restoring /\ restore' = Null /\ fault # "died" /\ fault' = "died"
      /\ UNCHANGED <<live, acked, backups>>
  BY DEF Crash, Faults
<1> DEFINE stray == {restore.candidate, restore.old} \ {live}
<1>2. /\ db' = [f \in File |-> IF f \in stray THEN EmptyDatabase ELSE db[f]]
      /\ \A t \in Thread : call'[t] \in {Idle, call[t], [call[t] EXCEPT !.file = Null]}
      /\ \A t \in Thread : call[t].file \in stray => call'[t] \in {Idle, [call[t] EXCEPT !.file = Null]}
  BY DEF Crash
<1> HIDE DEF stray
<1>3. Spare' \subseteq Spare \cup stray /\ Spare' \subseteq File /\ Null \notin File
  BY <1>1, JournalNullAssumption DEF Spare, Restoring, stray
<1>4. \A f \in Spare' : db'[f] = EmptyDatabase
  BY <1>2, <1>3 DEF FilesInv
<1>5. \A t \in Thread : call'[t].file \notin Spare'
  <2>1. \A t \in Thread : call'[t].file \in {Null, call[t].file}
                         /\ (call[t].file \in stray => call'[t].file = Null)
    BY <1>2 DEF Idle, Inv, TypeInv, TypeOK, JournalTypeOK
  <2>2. QED
    BY <1>3, <2>1 DEF FilesInv
<1>6. FilesInv'
  BY <1>1, <1>4, <1>5 DEF FilesInv, Restoring
<1>7. StandingLedger' \in Seq(Event) \cup {Null}
  BY StandsThroughout, LedgersAreSequences DEF StandingInv
<1>8. QED
  BY <1>1, <1>6, <1>7, AcknowledgedIsSaved DEF Contract!Die, SavedLedgers

LEMMA StepKeepsContract ==
  ASSUME Inv, Inv', FilesInv, [Next]_vars
  PROVE  FilesInv' /\ [Contract!ContractNext]_(Contract!contractVars)
<1> USE DEF Contract!ContractNext
<1>1. ASSUME NEW t \in Appender, Appends(t)
      PROVE  FilesInv' /\ [Contract!ContractNext]_(Contract!contractVars)
  <2>1. JournalStep(t) /\ UNCHANGED restoreVars /\ t \in Thread
    BY <1>1 DEF Appends, JournalStep, Thread
  <2>2. QED
    BY <2>1, JournalStepKeepsFiles, JournalStepStores
<1>2. CASE MainImports
  <2>1. JournalStep(Main) /\ UNCHANGED restoreVars /\ Main \in Thread
    BY <1>2 DEF MainImports, JournalStep, Thread
  <2>2. QED
    BY <2>1, JournalStepKeepsFiles, JournalStepStores
<1>3. CASE (\E item \in Item : Loads(item)) \/ cached_snapshot \/ BeforeStamp \/ read_events
             \/ AfterStamp \/ FreshReplay
  <2>1. /\ UNCHANGED <<live, db, acked, restoreVars>>
        /\ call' = call \/ call' = [call EXCEPT ![Main] = Idle]
    BY <1>3 DEF Loads, journalVars, cached_snapshot, BeforeStamp, read_events, AfterStamp,
                FreshReplay, Reads
  <2>2. \A t \in Thread : call'[t].file \in {call[t].file, Null}
    BY <2>1 DEF Idle, Inv, TypeInv, TypeOK, JournalTypeOK
  <2>3. QED
    BY <2>1, <2>2, UntouchedFiles
<1>4. CASE RestoreStep
  BY <1>4, BackupsSave, StageIsNoStep, MoveAsideIsNoStep, PromotedIsGoodRestores, PromoteIsNoStep,
     ReturnIsNoStep DEF RestoreStep
<1>5. CASE Crash
  BY <1>5, CrashDies
<1>6. CASE UNCHANGED vars
  BY <1>6, UntouchedFiles DEF vars, journalVars
<1>7. QED
  BY <1>1, <1>2, <1>3, <1>4, <1>5, <1>6 DEF Next, LoadStep

(* Backup and restore keep the contract of RestoreContract: between the copy taken
   first and the last file removed, with calls of the journal that create, fill and
   keep open files of their own at any point, the database that stands changes in one
   step, at the check of the promoted file, and what was acknowledged is saved by then
   (restore_database_file, restore_state). *)
THEOREM RestoreImplementsContract == Spec => RestoreKeepsContract
<1>1. Init => Contract!ContractInit
  <2> SUFFICES ASSUME Init PROVE Contract!ContractInit
    OBVIOUS
  <2>1. live \in File /\ ~Replacing /\ Null \notin File
    BY FileAssumption, JournalNullAssumption DEF Init, JournalInit, RestoreInit, Replacing, Restoring
  <2>2. StandingLedger = <<>> /\ SavedLedgers = {}
    BY <2>1 DEF Init, JournalInit, RestoreInit, StandingLedger, Standing, SavedLedgers, EmptyDatabase
  <2>3. QED
    BY <2>2 DEF Init, JournalInit, RestoreInit, Contract!ContractInit
<1>2. Inv /\ Inv' /\ FilesInv /\ [Next]_vars
        => FilesInv' /\ [Contract!ContractNext]_(Contract!contractVars)
  BY StepKeepsContract
<1>3. QED
  BY <1>1, <1>2, InitFiles, Invariant, PTL DEF Spec, RestoreKeepsContract, Contract!ContractSpec

LEMMA PrefixHasLess ==
  ASSUME NEW s \in Seq(Event), NEW t \in Seq(Event), Contract!IsPrefix(s, t)
  PROVE  Contract!ToSet(s) \subseteq Contract!ToSet(t)
<1>1. ASSUME NEW n \in DOMAIN s PROVE n \in DOMAIN t /\ s[n] = t[n]
  <2>1. /\ n \in 1 .. Len(s) /\ Len(s) \in Nat /\ Len(s) <= Len(t)
        /\ SubSeq(s, 1, Len(s)) = SubSeq(t, 1, Len(s))
    BY DEF Contract!IsPrefix
  <2>2. SubSeq(s, 1, Len(s))[n] = s[n] /\ SubSeq(t, 1, Len(s))[n] = t[n]
    BY <2>1
  <2>3. QED
    BY <2>1, <2>2
<1>2. QED
  BY <1>1 DEF Contract!ToSet

(* The contract is worth keeping: what has been promised is in the database or in a
   backup, whatever was restored and whenever the desktop died. *)
THEOREM ContractKeepsPromises == Contract!ContractSpec => []Contract!PromisesKept
<1> DEFINE Kept == StandingLedger \in Seq(Event) \cup {Null} /\ Contract!PromisesKept
<1> USE DEF Contract!PromisesKept
<1>1. Contract!ContractInit => Kept
  BY DEF Contract!ContractInit
<1>2. ASSUME Kept, [Contract!ContractNext]_(Contract!contractVars) PROVE Kept'
  <2>1. CASE Contract!Store
    <3>1. /\ StandingLedger' \in Seq(Event) /\ Contract!Opened' = StandingLedger'
          /\ acked' \subseteq acked \cup Contract!ToSet(StandingLedger')
          /\ Contract!SavedEvents' = Contract!SavedEvents
      BY <2>1 DEF Contract!Store, Contract!Opened, Contract!SavedEvents
    <3>2. Contract!ToSet(Contract!Opened) \subseteq Contract!ToSet(StandingLedger')
      <4>1. CASE StandingLedger = Null
        BY <4>1 DEF Contract!Opened, Contract!ToSet
      <4>2. CASE StandingLedger # Null
        BY <1>2, <2>1, <3>1, <4>2, PrefixHasLess DEF Contract!Store, Contract!Opened
      <4>3. QED
        BY <4>1, <4>2
    <3>3. QED
      BY <1>2, <3>1, <3>2
  <2>2. CASE Contract!Save
    <3>1. StandingLedger' = Contract!Opened /\ SavedLedgers' = SavedLedgers \cup {Contract!Opened}
          /\ acked' = acked /\ Contract!Opened \in Seq(Event)
      BY <1>2, <2>2 DEF Contract!Save, Contract!Opened
    <3>2. Contract!SavedEvents' = Contract!SavedEvents \cup Contract!ToSet(Contract!Opened)
      BY <3>1 DEF Contract!SavedEvents
    <3>3. QED
      BY <1>2, <3>1, <3>2
  <2>3. CASE Contract!Restore \/ Contract!Die
    <3>1. CASE acked \subseteq Contract!SavedEvents /\ StandingLedger' \in Seq(Event) \cup {Null}
      BY <2>3, <3>1 DEF Contract!Restore, Contract!Die, Contract!SavedEvents
    <3>2. CASE StandingLedger' = StandingLedger
      BY <1>2, <2>3, <3>2 DEF Contract!Restore, Contract!Die, Contract!SavedEvents, Contract!Opened
    <3>3. QED
      BY <2>3, <3>1, <3>2 DEF Contract!Restore, Contract!Die
  <2>4. CASE UNCHANGED Contract!contractVars
    BY <1>2, <2>4 DEF Contract!contractVars, Contract!SavedEvents, Contract!Opened
  <2>5. QED
    BY <1>2, <2>1, <2>2, <2>3, <2>4 DEF Contract!ContractNext
<1>3. QED
  BY <1>1, <1>2, PTL DEF Contract!ContractSpec

-----------------------------------------------------------------------------
\* The desktop as a whole does what each of its two parts does: whichever moves, the other
\* stutters, so every theorem above is one of MCSpec too.
LEMMA DesktopIsBoth == MCSpec => DesktopSpec /\ Spec
<1>1. MCInit => DesktopInit /\ Init
  BY DEF MCInit
<1>2. [MCNext]_<<desktopVars, vars, focus>> => [DesktopNext]_desktopVars /\ [Next]_vars
  BY DEF MCNext
<1>3. QED
  BY <1>1, <1>2, PTL DEF MCSpec, DesktopSpec, Spec

\* The desktop keeps to its types, whichever part moves: a flush waits for no more writes
\* than there are, and the cache never has more entries than its limit
\* (projection_cache.rs).
THEOREM DesktopKeepsItsTypes == MCSpec => []DesktopTypesOK
<1>1. DesktopTypeOK /\ TypeOK => DesktopTypesOK
  BY DEF DesktopTypesOK
<1>2. QED
  BY <1>1, DesktopIsBoth, QuitTypeCorrect, JournalTypeCorrect, PTL
=============================================================================
