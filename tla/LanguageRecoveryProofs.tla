------------------------ MODULE LanguageRecoveryProofs ------------------------
(* Theorems about LanguageRecovery, for any number of workers, of installs
   outside recovery and of crashes, with or without a recipe. *)
EXTENDS LanguageRecovery, FiniteSetTheorems, SequenceTheorems, TLAPS

(* Installing is only ever offered for a missing executable. *)
OffersFit(revision) ==
  "install" \in revision.actions => revision.code = "MissingExecutable"

Sound == {obs \in Observation : OffersFit(obs.revision)}

TypeInv ==
  /\ tool \in BOOLEAN
  /\ pc \in [Thread -> PC]
  /\ engine \in Engine
  /\ held \in [Thread -> Sound \cup {Nothing}]
  /\ tried \in Nat

(* Whoever is about to apply an observation has one in hand. *)
HoldsOne(t) ==
  \/ pc[t] \in {"take", "observe", "observe_final"}
  \/ t \in Worker /\ pc[t] \in {"request", "claim", "installing", "promoting"}

HeldInv == \A t \in Thread : HoldsOne(t) => held[t] \in Sound

(* An install outside recovery stays among the steps of the installer. *)
DirectPlace == {"idle", "request", "claim", "installing", "promoting"}

DirectInv == \A d \in Direct : pc[d] \in DirectPlace

(* The attempt of the thread that repairs is the active one. *)
RepairInv == OneRepairAtATime /\ \A t \in Thread : Repairs(t) => engine.active # Nothing

(* The ledger counts what has been tried. *)
LedgerInv ==
  /\ tried = IF engine.record = Nothing THEN 0 ELSE engine.record.automatic_attempts
  /\ engine.active # Nothing => engine.record # Nothing
  /\ engine.record # Nothing =>
       /\ OffersFit(engine.record.revision)
       /\ engine.record.actions \subseteq engine.record.revision.actions

Inv == TypeInv /\ HeldInv /\ DirectInv /\ RepairInv /\ LedgerInv

-----------------------------------------------------------------------------
(* The operators of the ledger. *)

LEMMA DiagnosisType ==
  ASSUME NEW state \in RecoveryState, NEW code \in FailureCode,
         NEW actions \in SUBSET RecoveryAction,
         "install" \in actions => code = "MissingExecutable"
  PROVE  Diagnosis(state, code, actions) \in Sound
BY DEF Diagnosis, Sound, Observation, Revision, OffersFit

(* A probe never offers an install of what is there. *)
LEMMA ProbeIsSound ==
  ASSUME NEW runtime, NEW install, NEW available \in BOOLEAN
  PROVE  language_observation(runtime, install, available) \in Sound
<1>1. /\ Diagnosis("Healthy", Nothing, {}) \in Sound
      /\ Diagnosis("Repairing", Nothing, {}) \in Sound
      /\ Diagnosis("NeedsApproval", "MissingExecutable", {"install"}) \in Sound
      /\ Diagnosis("Blocked", "MissingExecutable", {}) \in Sound
      /\ Diagnosis("Degraded", "InitializationFailed", {"restart"}) \in Sound
      /\ Diagnosis("Unknown", Nothing, {}) \in Sound
  BY DiagnosisType DEF RecoveryState, FailureCode, RecoveryAction
<1>2. QED
  BY <1>1 DEF language_observation

LEMMA ObserveKeepsLedger ==
  ASSUME engine \in Engine, tried \in Nat, LedgerInv, NEW obs \in Sound, Observed(obs)
  PROVE  /\ engine' \in Engine /\ tried' \in Nat /\ LedgerInv'
         /\ engine'.active = engine.active
<1> DEFINE same == engine.record # Nothing /\ engine.record.revision = obs.revision
           attempts == IF same THEN engine.record.automatic_attempts ELSE 0
           spent == IF attempts >= AUTOMATIC_ATTEMPT_LIMIT THEN Automatic ELSE {}
           record == [state |-> obs.state, revision |-> obs.revision,
                      actions |-> obs.revision.actions \ spent,
                      automatic_attempts |-> attempts]
<1>1. engine' = [engine EXCEPT !.record = record]
  BY DEF Observed, observe
<1>2. attempts \in 0..AUTOMATIC_ATTEMPT_LIMIT
  BY DEF Engine, RecoveryRecord, AUTOMATIC_ATTEMPT_LIMIT
<1>3. obs.state \in RecoveryState /\ obs.revision \in Revision /\ OffersFit(obs.revision)
  BY DEF Sound, Observation
<1>4. record \in RecoveryRecord
  <2>1. obs.revision.actions \ spent \in SUBSET RecoveryAction
    BY <1>3 DEF Revision
  <2>2. QED
    BY <1>2, <1>3, <2>1 DEF RecoveryRecord
<1>5. record # Nothing
  BY <1>4, RecoveryNoneAssumption
<1>6. engine'.record = record /\ engine'.active = engine.active /\ engine' \in Engine
  BY <1>1, <1>4 DEF Engine
<1>7. tried' = attempts
  BY DEF Observed, LedgerInv
<1>8. QED
  BY <1>2, <1>3, <1>5, <1>6, <1>7 DEF LedgerInv, AUTOMATIC_ATTEMPT_LIMIT

LEMMA BeginKeepsLedger ==
  ASSUME engine \in Engine, tried \in Nat, LedgerInv,
         NEW action \in RecoveryAction, CanBegin(engine, action),
         engine' = begin_repair(engine, action),
         tried' = IF action \in Automatic THEN tried + 1 ELSE tried
  PROVE  engine' \in Engine /\ tried' \in Nat /\ LedgerInv' /\ engine'.active = action
<1> DEFINE attempts == IF action \in Automatic THEN engine.record.automatic_attempts + 1
                       ELSE engine.record.automatic_attempts
           record == [engine.record EXCEPT !.state = "Repairing", !.automatic_attempts = attempts]
<1>1. engine.record \in RecoveryRecord /\ engine.record # Nothing
  BY DEF CanBegin, Engine
<1>2. engine' = [record |-> record, active |-> action]
  BY <1>1 DEF begin_repair, RecoveryRecord
<1>3. attempts \in 0..AUTOMATIC_ATTEMPT_LIMIT
  BY <1>1 DEF RecoveryRecord, CanBegin, AUTOMATIC_ATTEMPT_LIMIT
<1>4. tried' = attempts
  BY <1>1 DEF LedgerInv
<1> HIDE DEF attempts
<1>5. /\ record \in RecoveryRecord
      /\ record.revision = engine.record.revision /\ record.actions = engine.record.actions
      /\ record.automatic_attempts = attempts
  BY <1>1, <1>3 DEF RecoveryRecord, RecoveryState
<1>6. record # Nothing
  BY <1>5, RecoveryNoneAssumption
<1> HIDE DEF record
<1>7. engine'.record = record /\ engine'.active = action /\ engine' \in Engine
  BY <1>2, <1>5 DEF Engine
<1>8. QED
  BY <1>1, <1>3, <1>4, <1>5, <1>6, <1>7 DEF LedgerInv, AUTOMATIC_ATTEMPT_LIMIT

LEMMA FinishKeepsLedger ==
  ASSUME engine \in Engine, tried \in Nat, LedgerInv, engine.record # Nothing,
         NEW result \in Result, engine' = finish_repair(engine, result), tried' = tried
  PROVE  engine' \in Engine /\ tried' \in Nat /\ LedgerInv' /\ engine'.active = Nothing
<1> DEFINE exhausted == engine.record.automatic_attempts >= AUTOMATIC_ATTEMPT_LIMIT
           state == CASE result = "Verified" -> "Healthy"
                      [] result = "Cancelled" -> "NeedsApproval"
                      [] result = "Failed" -> IF exhausted THEN "Blocked" ELSE "Degraded"
           actions == CASE result = "Verified" -> {}
                        [] result = "Cancelled" -> engine.record.actions
                        [] result = "Failed" -> IF exhausted
                                                THEN engine.record.actions \ Automatic
                                                ELSE engine.record.actions
           record == [engine.record EXCEPT !.state = state, !.actions = actions]
<1>1. engine.record \in RecoveryRecord
  BY DEF Engine
<1>2. engine' = [record |-> record, active |-> Nothing]
  BY <1>1 DEF finish_repair, RecoveryRecord, Result
<1>3. state \in RecoveryState /\ actions \subseteq engine.record.actions
  BY DEF Result, RecoveryState
<1> HIDE DEF state, actions
<1>4. /\ record \in RecoveryRecord
      /\ record.revision = engine.record.revision /\ record.actions = actions
      /\ record.automatic_attempts = engine.record.automatic_attempts
  BY <1>1, <1>3 DEF RecoveryRecord
<1>5. record # Nothing
  BY <1>4, RecoveryNoneAssumption
<1> HIDE DEF record
<1>6. engine'.record = record /\ engine'.active = Nothing /\ engine' \in Engine
  BY <1>2, <1>4 DEF Engine
<1>7. QED
  BY <1>3, <1>4, <1>5, <1>6 DEF LedgerInv

-----------------------------------------------------------------------------
(* Inv is inductive. *)

LEMMA InitInv == Init => Inv
<1> SUFFICES ASSUME Init PROVE Inv
  OBVIOUS
<1>1. NewEngine \in Engine /\ NewEngine.record = Nothing
  BY DEF NewEngine, Engine
<1>2. TypeInv
  BY <1>1 DEF Init, InitTools, TypeInv, PC
<1>3. \A t \in Thread : pc[t] = "idle"
  BY DEF Init
<1>4. HeldInv /\ DirectInv /\ RepairInv
  BY <1>3 DEF HeldInv, HoldsOne, DirectInv, RepairInv, DirectPlace, OneRepairAtATime, Repairs, Thread
<1>5. LedgerInv
  BY <1>1 DEF Init, LedgerInv, NewEngine
<1>6. QED
  BY <1>2, <1>4, <1>5 DEF Inv

(* A step of one thread keeps Inv when it leaves its own place and what the
   thread has in hand in order, keeps the ledger, and changes the attempt only
   by beginning one where there was none or by ending its own. *)
LEMMA MoveKeeps ==
  ASSUME Inv, NEW t \in Thread, NEW place \in PC, Goto(t, place),
         t \in Direct => place \in DirectPlace,
         tool' \in BOOLEAN,
         held' = held \/ \E obs \in Sound \cup {Nothing} : Hold(t, obs),
         HoldsOne(t)' => held'[t] \in Sound,
         engine' \in Engine /\ tried' \in Nat /\ LedgerInv',
         \/ engine'.active = engine.active /\ (Repairs(t)' => Repairs(t))
         \/ engine.active = Nothing /\ engine'.active # Nothing
         \/ Repairs(t) /\ ~Repairs(t)'
  PROVE  Inv'
<1>1. /\ pc' \in [Thread -> PC] /\ pc'[t] = place
      /\ \A s \in Thread \ {t} : pc'[s] = pc[s]
  BY DEF Inv, TypeInv, Goto
<1>2. /\ held' \in [Thread -> Sound \cup {Nothing}]
      /\ \A s \in Thread \ {t} : held'[s] = held[s]
  BY DEF Inv, TypeInv, Hold
<1>3. TypeInv'
  BY <1>1, <1>2 DEF TypeInv
<1>4. HeldInv'
  <2>1. \A s \in Thread \ {t} : HoldsOne(s)' => HoldsOne(s)
    BY <1>1 DEF HoldsOne
  <2>2. QED
    BY <1>2, <2>1 DEF Inv, HeldInv
<1>5. DirectInv'
  BY <1>1 DEF Inv, DirectInv, Thread, Installer
<1>6. RepairInv'
  <2>1. \A s \in Thread \ {t} : Repairs(s)' => Repairs(s)
    BY <1>1 DEF Repairs
  <2>2. QED
    BY <2>1 DEF Inv, RepairInv, OneRepairAtATime
<1>7. QED
  BY <1>3, <1>4, <1>5, <1>6 DEF Inv

(* Most steps leave the ledger alone, and begin no repair. *)
LEMMA QuietMoveKeeps ==
  ASSUME Inv, NEW t \in Thread, NEW place \in PC, Goto(t, place),
         t \in Direct => place \in DirectPlace,
         tool' \in BOOLEAN,
         held' = held \/ \E obs \in Sound \cup {Nothing} : Hold(t, obs),
         HoldsOne(t)' => held'[t] \in Sound,
         UNCHANGED ledger,
         Repairs(t)' => Repairs(t)
  PROVE  Inv'
<1>1. engine' = engine /\ tried' = tried
  BY DEF ledger
<1>2. engine' \in Engine /\ tried' \in Nat /\ LedgerInv'
  BY <1>1 DEF Inv, TypeInv, LedgerInv
<1>3. QED
  BY <1>1, <1>2, MoveKeeps

(* What the places mean for the thread that reaches them. *)
LEMMA Kinds ==
  /\ Main \in Thread /\ Main \notin Direct /\ Main \notin Worker
  /\ \A w \in Worker : w \in Thread /\ w \notin Direct /\ w # Main
  /\ \A t \in Installer : t \in Thread
  /\ \A t \in Direct : t \in Thread
BY ThreadAssumption DEF Thread, Installer

LEMMA CheckKeeps ==
  ASSUME Inv, CheckReads \/ \E t \in Thread : TakeGeneration(t)
  PROVE  Inv'
<1>1. CASE CheckReads
  <2>1. language_observation(Runtime, status, tool) \in Sound
    BY ProbeIsSound DEF Inv, TypeInv
  <2>2. /\ Goto(Main, "take") /\ Hold(Main, language_observation(Runtime, status, tool))
        /\ UNCHANGED ledger /\ tool' = tool
    BY <1>1 DEF CheckReads, toolVars
  <2>3. held'[Main] \in Sound /\ pc'[Main] = "take"
    BY <2>1, <2>2, Kinds DEF Hold, Goto, Inv, TypeInv
  <2> HIDE DEF language_observation
  <2>4. QED
    BY <2>1, <2>2, <2>3, Kinds, QuietMoveKeeps DEF PC, Repairs, Inv, TypeInv
<1>2. ASSUME NEW t \in Thread, TakeGeneration(t) PROVE Inv'
  <2> DEFINE final == language_observation("Ready", Nothing, TRUE)
  <2>1. final \in Sound
    BY ProbeIsSound
  <2> HIDE DEF final
  <2>2. PICK place \in {"observe", "observe_final"} :
          /\ Goto(t, place)
          /\ place = "observe" => pc[t] = "take" /\ held' = held
          /\ place = "observe_final" => pc[t] = "take_final" /\ Hold(t, final)
    BY <1>2 DEF TakeGeneration, final
  <2>3. held'[t] \in Sound /\ pc'[t] = place
    BY <2>1, <2>2 DEF Hold, Goto, Inv, TypeInv, HeldInv, HoldsOne
  <2>4. UNCHANGED ledger /\ tool' = tool
    BY <1>2 DEF TakeGeneration, toolVars
  <2>5. t \notin Direct
    BY <2>2 DEF Inv, DirectInv, DirectPlace
  <2>6. Repairs(t)' => Repairs(t)
    BY <2>2, <2>3 DEF Repairs
  <2>7. QED
    BY <2>1, <2>2, <2>3, <2>4, <2>5, <2>6, QuietMoveKeeps DEF PC, Inv, TypeInv
<1>3. QED
  BY <1>1, <1>2

LEMMA ApplyKeeps ==
  ASSUME Inv, NEW t \in Thread, AppliesObservation(t)
  PROVE  Inv'
<1>1. t \notin Direct /\ held[t] \in Sound
  BY DEF AppliesObservation, Inv, DirectInv, DirectPlace, HeldInv, HoldsOne
<1>2. Hold(t, Nothing) /\ tool' = tool
  BY DEF AppliesObservation, toolVars
<1>3. CASE ~Contains(queue, t)
  <2>1. Goto(t, "idle") /\ UNCHANGED ledger
    BY <1>3 DEF AppliesObservation
  <2>2. pc'[t] = "idle"
    BY <2>1 DEF Goto, Inv, TypeInv
  <2>3. QED
    BY <1>1, <1>2, <2>1, <2>2, QuietMoveKeeps DEF PC, HoldsOne, Repairs, Inv, TypeInv
<1>4. CASE Contains(queue, t)
  <2>1. PICK place \in {"verified", "begin", "idle"} :
          Goto(t, place) /\ (place = "verified" <=> pc[t] = "observe_final")
    BY <1>4 DEF AppliesObservation
  <2>2. /\ engine' \in Engine /\ tried' \in Nat /\ LedgerInv'
        /\ engine'.active = engine.active
    BY <1>1, <1>4, ObserveKeepsLedger DEF AppliesObservation, Inv, TypeInv
  <2>3. pc'[t] = place
    BY <2>1 DEF Goto, Inv, TypeInv
  <2>4. Repairs(t)' => Repairs(t)
    BY <2>1, <2>3 DEF Repairs
  <2>5. ~HoldsOne(t)'
    BY <2>1, <2>3 DEF HoldsOne
  <2>6. QED
    BY <1>1, <1>2, <2>1, <2>2, <2>4, <2>5, MoveKeeps DEF PC, Inv, TypeInv
<1>5. QED
  BY <1>3, <1>4

LEMMA BeginKeeps ==
  ASSUME Inv, NEW t \in Thread, BeginRepair(t)
  PROVE  Inv'
<1> DEFINE action == IF t = Main THEN "restart" ELSE "install"
<1>1. pc[t] = "begin" /\ t \notin Direct /\ tool' = tool /\ held' = held
  BY DEF BeginRepair, toolVars, Inv, DirectInv, DirectPlace
<1>2. CASE ~CanBegin(engine, action)
  <2>1. Goto(t, "idle") /\ UNCHANGED ledger
    BY <1>2 DEF BeginRepair
  <2>2. pc'[t] = "idle"
    BY <2>1 DEF Goto, Inv, TypeInv
  <2>3. QED
    BY <1>1, <2>1, <2>2, QuietMoveKeeps DEF PC, HoldsOne, Repairs, Inv, TypeInv
<1>3. CASE CanBegin(engine, action)
  <2>1. /\ engine' = begin_repair(engine, action)
        /\ tried' = IF action \in Automatic THEN tried + 1 ELSE tried
        /\ Goto(t, IF t = Main THEN "restart" ELSE "discover")
    BY <1>3 DEF BeginRepair
  <2>2. action \in RecoveryAction
    BY DEF RecoveryAction
  <2>3. /\ engine' \in Engine /\ tried' \in Nat /\ LedgerInv'
        /\ engine'.active = action /\ action # Nothing
    BY <1>3, <2>1, <2>2, BeginKeepsLedger, RecoveryNoneAssumption DEF Inv, TypeInv
  <2>4. PICK place \in {"restart", "discover"} : Goto(t, place)
    BY <2>1
  <2>5. pc'[t] = place
    BY <2>4 DEF Goto, Inv, TypeInv
  <2>6. engine.active = Nothing
    BY <1>3 DEF CanBegin
  <2>7. ~HoldsOne(t)'
    BY <2>5 DEF HoldsOne
  <2> HIDE DEF action
  <2>8. QED
    BY <1>1, <2>3, <2>4, <2>6, <2>7, MoveKeeps DEF PC, Inv, TypeInv
<1>4. QED
  BY <1>2, <1>3

LEMMA ConfirmKeeps ==
  ASSUME Inv, NEW w \in Worker, Confirm(w) \/ Discover(w)
  PROVE  Inv'
<1>1. UNCHANGED ledger /\ tool' = tool /\ w \in Thread /\ w \notin Direct
  BY Kinds DEF Confirm, Discover, toolVars
<1>2. CASE Confirm(w)
  <2>1. held' = held /\ (Goto(w, "begin") \/ Goto(w, "idle"))
    BY <1>1, <1>2 DEF Confirm, Goto, Inv, TypeInv
  <2>2. pc'[w] \in {"begin", "idle"}
    BY <1>1, <2>1 DEF Goto, Inv, TypeInv
  <2>3. ~HoldsOne(w)' /\ ~Repairs(w)'
    BY <2>2 DEF HoldsOne, Repairs
  <2>4. QED
    BY <1>1, <2>1, <2>3, QuietMoveKeeps DEF PC, Inv, TypeInv
<1>3. CASE Discover(w)
  <2> DEFINE found == language_observation("Starting", Nothing, tool)
  <2>1. found \in Sound /\ pc[w] = "discover"
    BY <1>3, ProbeIsSound DEF Inv, TypeInv, Discover
  <2> HIDE DEF found
  <2>2. CASE Goto(w, "request") /\ Hold(w, found)
    <3>1. held'[w] \in Sound /\ pc'[w] = "request"
      BY <1>1, <2>1, <2>2 DEF Goto, Hold, Inv, TypeInv
    <3>2. QED
      BY <1>1, <2>1, <2>2, <3>1, QuietMoveKeeps DEF PC, Repairs, Inv, TypeInv
  <2>3. CASE Goto(w, "idle") /\ held' = held
    <3>1. pc'[w] = "idle"
      BY <1>1, <2>3 DEF Goto, Inv, TypeInv
    <3>2. QED
      BY <1>1, <2>3, <3>1, QuietMoveKeeps DEF PC, HoldsOne, Repairs, Inv, TypeInv
  <2>4. QED
    BY <1>3, <2>2, <2>3 DEF Discover, found
<1>4. QED
  BY <1>2, <1>3

LEMMA InstallKeeps ==
  ASSUME Inv, NEW t \in Installer, Install(t)
  PROVE  Inv'
<1> DEFINE Step == \/ InstallRequested(t) \/ InstallClaimed(t) \/ InstallEnds(t)
                   \/ InstallProbed(t) \/ Promote(t)
<1>1. Step /\ Progress(t) /\ held' = held /\ t \in Thread
  BY Kinds DEF Install
<1>2. pc[t] \in {"request", "claim", "installing", "promoting"}
  BY <1>1 DEF InstallRequested, InstallClaimed, InstallEnds, InstallProbed, Promote
<1>3. t \notin Direct => Repairs(t) /\ HoldsOne(t) /\ held[t] \in Sound
  BY <1>1, <1>2 DEF Repairs, HoldsOne, Inv, HeldInv, Installer
<1>4. PICK place \in {"idle", "failed", "claim", "installing", "promoting", "restart", "cancelled"} :
        Goto(t, place) /\ (t \in Direct => place \in DirectPlace)
  BY <1>1 DEF InstallRequested, InstallClaimed, InstallEnds, InstallProbed, Promote,
              Leave, DirectPlace
<1>5. tool' \in BOOLEAN
  <2>1. tool' = tool \/ tool' = TRUE
    BY <1>1 DEF InstallRequested, InstallClaimed, InstallEnds, InstallProbed, Promote, toolVars
  <2>2. QED
    BY <2>1 DEF Inv, TypeInv
<1>6. pc'[t] = place
  BY <1>1, <1>4 DEF Goto, Inv, TypeInv
<1>7. HoldsOne(t)' => held'[t] \in Sound
  BY <1>1, <1>3, <1>4, <1>6, Kinds DEF HoldsOne, DirectPlace
<1>8. Repairs(t)' => Repairs(t)
  BY <1>3 DEF Repairs
<1>9. \/ UNCHANGED ledger
      \/ \E obs \in Sound : Observed(obs)
  <2>1. CASE UNCHANGED <<queue, ledger>>
    BY <2>1
  <2>2. CASE ~UNCHANGED <<queue, ledger>>
    <3> DEFINE probed == language_observation("Starting", status', TRUE)
    <3>1. probed \in Sound
      BY ProbeIsSound
    <3> HIDE DEF probed
    <3>2. t \in Worker /\ Observed(IF status' \in {"Installing", "Ready"} THEN probed ELSE held[t])
      BY <1>1, <2>2 DEF Progress, probed
    <3>3. held[t] \in Sound
      BY <1>3, <3>2, Kinds
    <3>4. QED
      BY <3>1, <3>2, <3>3
  <2>3. QED
    BY <2>1, <2>2
<1> HIDE DEF Step
<1>10. CASE UNCHANGED ledger
  BY <1>1, <1>4, <1>5, <1>7, <1>8, <1>10, QuietMoveKeeps DEF PC
<1>11. ASSUME NEW obs \in Sound, Observed(obs) PROVE Inv'
  <2>1. /\ engine' \in Engine /\ tried' \in Nat /\ LedgerInv'
        /\ engine'.active = engine.active
    BY <1>11, ObserveKeepsLedger DEF Inv, TypeInv
  <2>2. QED
    BY <1>1, <1>4, <1>5, <1>7, <1>8, <2>1, MoveKeeps DEF PC
<1>12. QED
  BY <1>9, <1>10, <1>11

LEMMA DirectKeeps ==
  ASSUME Inv, NEW d \in Direct, DirectInstall(d)
  PROVE  Inv'
<1>1. /\ Goto(d, "request") /\ held' = held /\ tool' = tool /\ UNCHANGED ledger
      /\ d \in Thread /\ d \notin Worker
  BY Kinds DEF DirectInstall, toolVars
<1>2. pc'[d] = "request"
  BY <1>1 DEF Goto, Inv, TypeInv
<1>3. ~HoldsOne(d)' /\ ~Repairs(d)'
  BY <1>1, <1>2 DEF HoldsOne, Repairs
<1>4. QED
  BY <1>1, <1>3, QuietMoveKeeps DEF PC, DirectPlace, Inv, TypeInv

LEMMA RestartKeeps ==
  ASSUME Inv, NEW t \in Thread, Restart(t) \/ VerifyRuntime(t)
  PROVE  Inv'
<1>1. pc[t] \in {"restart", "start", "verify"}
  BY DEF Restart, RestartRemoves, RestartStarts, VerifyRuntime
<1>2. held' = held /\ tool' = tool /\ UNCHANGED ledger
  BY DEF Restart, RestartRemoves, RestartStarts, VerifyRuntime, toolVars
<1>3. t \notin Direct /\ Repairs(t)
  BY <1>1 DEF Inv, DirectInv, DirectPlace, Repairs
<1>4. PICK place \in {"start", "failed", "verify", "take_final"} : Goto(t, place)
  BY DEF Restart, RestartRemoves, RestartStarts, VerifyRuntime
<1>5. pc'[t] = place
  BY <1>4 DEF Goto, Inv, TypeInv
<1>6. ~HoldsOne(t)'
  BY <1>5 DEF HoldsOne
<1>7. QED
  BY <1>2, <1>3, <1>4, <1>6, QuietMoveKeeps DEF PC, Inv, TypeInv

LEMMA FinishKeeps ==
  ASSUME Inv, NEW t \in Thread, FinishRepair(t)
  PROVE  Inv'
<1>1. /\ pc[t] \in {"verified", "failed", "cancelled"} /\ Goto(t, "idle")
      /\ held' = held /\ tool' = tool
  BY DEF FinishRepair, toolVars
<1>2. t \notin Direct /\ Repairs(t)
  BY <1>1 DEF Inv, DirectInv, DirectPlace, Repairs
<1>3. engine.active # Nothing /\ engine.record # Nothing
  BY <1>2 DEF Inv, RepairInv, LedgerInv
<1>4. pc'[t] = "idle"
  BY <1>1 DEF Goto, Inv, TypeInv
<1>5. ~HoldsOne(t)' /\ ~Repairs(t)'
  BY <1>4 DEF HoldsOne, Repairs
<1>6. PICK result \in Result : engine' = finish_repair(engine, result) /\ tried' = tried
  <2>1. CASE pc[t] = "verified"
    BY <1>3, <2>1 DEF FinishRepair, Result
  <2>2. CASE pc[t] = "cancelled"
    BY <1>3, <2>2 DEF FinishRepair, Result
  <2>3. CASE pc[t] = "failed"
    BY <1>3, <2>3 DEF FinishRepair, Result
  <2>4. QED
    BY <1>1, <2>1, <2>2, <2>3
<1>7. engine' \in Engine /\ tried' \in Nat /\ LedgerInv'
  BY <1>3, <1>6, FinishKeepsLedger DEF Inv, TypeInv
<1>8. QED
  BY <1>1, <1>2, <1>5, <1>7, MoveKeeps DEF PC, Inv, TypeInv

(* After a crash nobody repairs, whatever attempt the saved ledger names. *)
LEMMA CrashKeeps ==
  ASSUME Inv, Crash
  PROVE  Inv'
<1>1. /\ \A t \in Thread : pc'[t] = "idle" /\ held'[t] = Nothing
      /\ pc' \in [Thread -> PC] /\ held' \in [Thread -> Sound \cup {Nothing}]
  BY DEF Crash, PC
<1>2. tool' \in BOOLEAN
  BY DEF Crash, Inv, TypeInv
<1>3. engine' = engine /\ tried' = tried
  BY DEF Crash, ledger
<1>4. TypeInv' /\ LedgerInv'
  BY <1>1, <1>2, <1>3 DEF Inv, TypeInv, LedgerInv
<1>5. HeldInv' /\ DirectInv' /\ RepairInv'
  BY <1>1, Kinds DEF HeldInv, HoldsOne, DirectInv, DirectPlace, RepairInv, OneRepairAtATime, Repairs
<1>6. QED
  BY <1>4, <1>5 DEF Inv

LEMMA QuietStepKeeps ==
  ASSUME Inv, tool' \in BOOLEAN, UNCHANGED <<pc, held, ledger>>
  PROVE  Inv'
BY DEF Inv, TypeInv, HeldInv, HoldsOne, DirectInv, RepairInv, OneRepairAtATime, Repairs,
       LedgerInv, ledger

LEMMA NextKeeps == Inv /\ [Next]_vars => Inv'
<1> SUFFICES ASSUME Inv, [Next]_vars PROVE Inv'
  OBVIOUS
<1>1. CASE CheckReads \/ \E t \in Thread : TakeGeneration(t)
  BY <1>1, CheckKeeps
<1>2. CASE \E t \in Thread : AppliesObservation(t)
  BY <1>2, ApplyKeeps
<1>3. CASE \E t \in Thread : BeginRepair(t)
  BY <1>3, BeginKeeps
<1>4. CASE \E t \in Thread : Restart(t) \/ VerifyRuntime(t)
  BY <1>4, RestartKeeps
<1>5. CASE \E t \in Thread : FinishRepair(t)
  BY <1>5, FinishKeeps
<1>6. CASE \E w \in Worker : Confirm(w) \/ Discover(w)
  BY <1>6, ConfirmKeeps
<1>7. CASE \E d \in Direct : DirectInstall(d)
  BY <1>7, DirectKeeps
<1>8. CASE \E t \in Installer : Install(t)
  BY <1>8, InstallKeeps
<1>9. CASE Crash
  BY <1>9, CrashKeeps
<1>10. CASE repair_preview
  BY <1>10, QuietStepKeeps DEF repair_preview, toolVars, Inv, TypeInv
<1>11. CASE Environment
  <2>1. tool' \in BOOLEAN /\ pc' = pc
    BY <1>11 DEF Environment, ensure_session, stop, StreamEnds, cancel, Uninstalled, toolVars,
                 Inv, TypeInv
  <2>2. QED
    BY <1>11, <2>1, QuietStepKeeps DEF Environment
<1>12. CASE UNCHANGED vars
  BY <1>12, QuietStepKeeps DEF vars, ledger, Inv, TypeInv
<1>13. QED
  BY <1>1, <1>2, <1>3, <1>4, <1>5, <1>6, <1>7, <1>8, <1>9, <1>10, <1>11, <1>12 DEF Next

LEMMA AlwaysInv == Spec => []Inv
BY InitInv, NextKeeps, PTL DEF Spec

-----------------------------------------------------------------------------
(* Whatever number of threads check, confirm, install and crash, one repair of
   the capability is under way at a time (recovery.rs, begin_repair). *)
THEOREM OneRepair == Spec => []OneRepairAtATime
<1>1. Inv => OneRepairAtATime
  BY DEF Inv, RepairInv
<1>2. QED
  BY <1>1, AlwaysInv, PTL

(* The automatic restart is begun at most twice while the diagnosis stays the
   same: the ledger's count, which a crash keeps, is the number of tries. *)
THEOREM RepairsBounded == Spec => []AutomaticRepairsBounded
<1>1. Inv => AutomaticRepairsBounded
  BY DEF Inv, TypeInv, LedgerInv, AutomaticRepairsBounded, Engine, RecoveryRecord,
         AUTOMATIC_ATTEMPT_LIMIT
<1>2. QED
  BY <1>1, AlwaysInv, PTL

(* A confirmed install begins only under the diagnosis that offers it, with no
   attempt active, although the lock is released between confirm's look at the
   record and begin_repair (commands/recovery.rs). *)
THEOREM ReviewedRepair == Spec => RepairsWhatWasReviewed
<1> DEFINE A == \A w \in Worker : pc[w] = "begin" /\ pc'[w] = "discover"
                  => /\ engine.record.revision.code = "MissingExecutable"
                     /\ engine.active = Nothing
<1>1. Inv /\ [Next]_vars => [A]_vars
  <2> SUFFICES ASSUME Inv, Next, NEW w \in Worker, pc[w] = "begin", pc'[w] = "discover"
               PROVE  /\ engine.record.revision.code = "MissingExecutable"
                      /\ engine.active = Nothing
    BY DEF vars
  <2>1. w \in Thread /\ w # Main
    BY Kinds
  <2>2. BeginRepair(w)
    <3> DEFINE Elsewhere ==
          \/ pc' = pc
          \/ \E t \in Thread : pc[t] # "begin" /\ \A s \in Thread \ {t} : pc'[s] = pc[s]
    <3>1. ~Elsewhere
      BY <2>1
    <3>2. ASSUME NEW t \in Thread, BeginRepair(t) PROVE t = w
      BY <2>1, <3>2 DEF BeginRepair, Goto, Inv, TypeInv
    <3>3. CASE CheckReads \/ repair_preview \/ Environment
      <4>1. Elsewhere
        BY <3>3, Kinds DEF CheckReads, repair_preview, Environment, ensure_session, stop,
                           StreamEnds, cancel, Uninstalled, Goto, Inv, TypeInv
      <4>2. QED
        BY <3>1, <4>1
    <3>4. ASSUME NEW t \in Thread,
                 \/ TakeGeneration(t) \/ AppliesObservation(t)
                 \/ Restart(t) \/ VerifyRuntime(t) \/ FinishRepair(t)
          PROVE  FALSE
      <4>1. pc[t] # "begin" /\ \E place : Goto(t, place)
        BY <3>4 DEF TakeGeneration, AppliesObservation, Restart, RestartRemoves,
                    RestartStarts, VerifyRuntime, FinishRepair
      <4>2. QED
        BY <3>1, <4>1 DEF Goto, Inv, TypeInv
    <3>5. ASSUME NEW t \in Worker, Confirm(t) \/ Discover(t) PROVE FALSE
      <4>1. pc[t] # "begin" /\ (pc' = pc \/ \E place : Goto(t, place)) /\ t \in Thread
        BY <3>5, Kinds DEF Confirm, Discover
      <4>2. QED
        BY <3>1, <4>1 DEF Goto, Inv, TypeInv
    <3>6. ASSUME NEW t \in Direct, DirectInstall(t) PROVE FALSE
      <4>1. pc[t] # "begin" /\ Goto(t, "request") /\ t \in Thread
        BY <3>6, Kinds DEF DirectInstall
      <4>2. QED
        BY <3>1, <4>1 DEF Goto, Inv, TypeInv
    <3>7. ASSUME NEW t \in Installer, Install(t) PROVE FALSE
      <4>1. pc[t] # "begin" /\ (\E place : Goto(t, place)) /\ t \in Thread
        BY <3>7, Kinds DEF Install, InstallRequested, InstallClaimed, InstallEnds,
                           InstallProbed, Promote, Leave
      <4>2. QED
        BY <3>1, <4>1 DEF Goto, Inv, TypeInv
    <3>8. ~Crash
      BY <2>1 DEF Crash
    <3>9. QED
      BY <3>2, <3>3, <3>4, <3>5, <3>6, <3>7, <3>8 DEF Next
  <2>3. CanBegin(engine, "install")
    BY <2>1, <2>2 DEF BeginRepair, Goto, Inv, TypeInv
  <2>4. QED
    BY <2>3 DEF CanBegin, Inv, LedgerInv, OffersFit
<1>2. QED
  BY <1>1, AlwaysInv, PTL DEF Spec, RepairsWhatWasReviewed

-----------------------------------------------------------------------------
(* Generations: a thread takes its next one only when it has applied the last. *)
Observing(t) == pc[t] \in {"observe", "observe_final"}

QueueInv ==
  /\ queue \in Seq(Thread)
  /\ \A i \in DOMAIN queue : Observing(queue[i])
  /\ \A i, j \in DOMAIN queue : queue[i] = queue[j] => i = j

RestInv == ToolsTypeOK /\ pending \subseteq Revision /\ QueueInv

(* Threads that hold no generation move, or none does. *)
LEMMA QueueStays ==
  ASSUME TypeInv, QueueInv, queue' = queue,
         \/ pc' = pc
         \/ \E t \in Thread : ~Observing(t) /\ \E place : Goto(t, place)
  PROVE  QueueInv'
<1>1. \A t \in Thread : Observing(t) => Observing(t)'
  BY DEF Observing, Goto, TypeInv
<1>2. \A i \in DOMAIN queue : queue[i] \in Thread
  BY DEF QueueInv
<1>3. QED
  BY <1>1, <1>2 DEF QueueInv

LEMMA QueueCleared ==
  ASSUME queue' = <<>>
  PROVE  QueueInv'
BY DEF QueueInv

LEMMA QueueGrows ==
  ASSUME TypeInv, QueueInv, NEW t \in Thread, ~Observing(t), queue' = Append(queue, t),
         NEW place \in {"observe", "observe_final"}, Goto(t, place)
  PROVE  QueueInv'
<1>1. pc'[t] = place /\ \A s \in Thread \ {t} : pc'[s] = pc[s]
  BY DEF Goto, TypeInv
<1>2. /\ queue \in Seq(Thread) /\ DOMAIN queue = 1 .. Len(queue) /\ Len(queue) \in Nat
      /\ queue' \in Seq(Thread) /\ DOMAIN queue' = 1 .. Len(queue) + 1
      /\ \A i \in DOMAIN queue : queue'[i] = queue[i]
      /\ queue'[Len(queue) + 1] = t
  BY DEF QueueInv
<1>3. \A i \in DOMAIN queue : Observing(queue[i]) /\ queue[i] # t /\ queue[i] \in Thread
  BY <1>2 DEF QueueInv
<1>4. \A i \in DOMAIN queue' : i \in DOMAIN queue \/ i = Len(queue) + 1
  BY <1>2
<1>5. \A i \in DOMAIN queue' : pc'[queue'[i]] \in {"observe", "observe_final"}
  BY <1>1, <1>2, <1>3, <1>4 DEF Observing
<1>6. ASSUME NEW i \in DOMAIN queue', NEW j \in DOMAIN queue', queue'[i] = queue'[j]
      PROVE  i = j
  BY <1>2, <1>3, <1>4, <1>6 DEF QueueInv
<1>7. QED
  BY <1>2, <1>5, <1>6 DEF QueueInv, Observing

(* Applying a generation drops it, and those before it. *)
LEMMA QueueShrinks ==
  ASSUME TypeInv, QueueInv, NEW k \in DOMAIN queue, NEW place, Goto(queue[k], place),
         queue' = SubSeq(queue, 1 + k, Len(queue))
  PROVE  QueueInv'
<1> DEFINE t == queue[k]
           n == Len(queue)
<1>1. /\ queue \in Seq(Thread) /\ DOMAIN queue = 1 .. n /\ n \in Nat /\ k \in 1 .. n
      /\ t \in Thread /\ \A i \in 1 .. n : queue[i] \in Thread
  BY DEF QueueInv
<1>2. \A s \in Thread \ {t} : pc'[s] = pc[s]
  BY <1>1 DEF Goto, TypeInv
<1>3. \A i \in 1 + k .. n : i \in DOMAIN queue /\ i # k
  BY <1>1
<1>4. queue' \in Seq(Thread) /\ DOMAIN queue' = 1 .. n - k
      /\ \A i \in 1 .. n - k : queue'[i] = queue[i + k] /\ i + k \in 1 + k .. n
  <2>1. \A i \in 1 + k .. n : queue[i] \in Thread
    BY <1>1, <1>3
  <2>2. 1 + k \in Int /\ n \in Int
    BY <1>1
  <2>3. /\ SubSeq(queue, 1 + k, n) \in Seq(Thread)
        /\ Len(SubSeq(queue, 1 + k, n)) = IF 1 + k <= n THEN n - (1 + k) + 1 ELSE 0
        /\ \A i \in 1 .. n - (1 + k) + 1 : SubSeq(queue, 1 + k, n)[i] = queue[1 + k + i - 1]
    BY <2>1, <2>2, SubSeqProperties
  <2>4. n - (1 + k) + 1 = n - k /\ Len(queue') = n - k
    BY <1>1, <2>3
  <2>5. \A i \in 1 .. n - k : 1 + k + i - 1 = i + k /\ i + k \in 1 + k .. n
    BY <1>1
  <2>6. queue' \in Seq(Thread) /\ DOMAIN queue' = 1 .. n - k
    BY <2>3, <2>4
  <2>7. QED
    BY <2>3, <2>4, <2>5, <2>6
<1>5. \A i \in DOMAIN queue' : queue'[i] = queue[i + k] /\ i + k \in DOMAIN queue /\ i + k # k
  BY <1>3, <1>4
<1>6. \A i \in DOMAIN queue' : pc'[queue'[i]] \in {"observe", "observe_final"}
  <2>1. \A i \in DOMAIN queue : i # k => Observing(queue[i]) /\ queue[i] \in Thread \ {t}
    BY <1>1 DEF QueueInv
  <2>2. QED
    BY <1>2, <1>5, <2>1 DEF Observing
<1>7. ASSUME NEW i \in DOMAIN queue', NEW j \in DOMAIN queue', queue'[i] = queue'[j]
      PROVE  i = j
  <2>1. i + k = j + k
    BY <1>5, <1>7 DEF QueueInv
  <2>2. i \in Int /\ j \in Int /\ k \in Int
    BY <1>1, <1>4
  <2>3. QED
    BY <2>1, <2>2
<1>8. QED
  BY <1>4, <1>6, <1>7 DEF QueueInv, Observing

(* The places an install goes through hold no generation. *)
LEMMA InstallKeepsRest ==
  ASSUME TypeInv, RestInv, NEW t \in Installer, Install(t)
  PROVE  RestInv'
<1>1. t \in Thread /\ pending' = pending
  BY Kinds DEF Install
<1>2. ~Observing(t) /\ \E place : Goto(t, place)
  BY DEF Install, InstallRequested, InstallClaimed, InstallEnds, InstallProbed, Promote, Leave,
         Observing
<1>3. queue' = queue \/ queue' = <<>>
  BY DEF Install, Progress
<1>4. QueueInv'
  BY <1>1, <1>2, <1>3, QueueStays, QueueCleared DEF RestInv
<1>5. ToolsTypeOK'
  <2>1. tool' \in BOOLEAN
    BY DEF Install, InstallRequested, InstallClaimed, InstallEnds, InstallProbed, Promote,
           toolVars, RestInv, ToolsTypeOK
  <2>2. running' \in Installer \cup {Nothing} /\ cancelled' \subseteq Installer
    BY DEF Install, InstallRequested, InstallClaimed, InstallEnds, InstallProbed, Promote,
           toolVars, RestInv, ToolsTypeOK
  <2>3. status' \in InstallState /\ session' \in Session \cup {Nothing}
    BY DEF Install, InstallRequested, InstallClaimed, InstallEnds, InstallProbed, Promote,
           toolVars, RestInv, ToolsTypeOK, InstallState
  <2>4. QED
    BY <2>1, <2>2, <2>3 DEF ToolsTypeOK
<1>6. QED
  BY <1>1, <1>4, <1>5 DEF RestInv

LEMMA StartedIs == Started \subseteq Session
BY DEF Started, Session

LEMMA RestKeeps == Inv /\ RestInv /\ [Next]_vars => RestInv'
<1> SUFFICES ASSUME Inv, RestInv, [Next]_vars PROVE RestInv'
  OBVIOUS
<1>1. TypeInv /\ QueueInv /\ ToolsTypeOK /\ pending \subseteq Revision
  BY DEF Inv, RestInv
<1>2. CASE CheckReads \/ repair_preview
  <2>1. /\ UNCHANGED <<toolVars, session, queue>>
        /\ pc' = pc \/ (~Observing(Main) /\ Goto(Main, "take"))
    <3>1. CASE CheckReads
      BY <3>1 DEF CheckReads, Observing
    <3>2. CASE repair_preview
      BY <3>2 DEF repair_preview
    <3>3. QED
      BY <1>2, <3>1, <3>2
  <2>2. pending' \subseteq Revision
    <3>1. CASE CheckReads
      BY <1>1, <3>1 DEF CheckReads
    <3>2. CASE repair_preview
      BY <1>1, <3>2 DEF repair_preview, TypeInv, Engine, RecoveryRecord
    <3>3. QED
      BY <1>2, <3>1, <3>2
  <2>3. QED
    BY <1>1, <2>1, <2>2, QueueStays, Kinds DEF RestInv, ToolsTypeOK, toolVars
<1>3. ASSUME NEW t \in Thread, TakeGeneration(t) PROVE RestInv'
  <2>1. /\ UNCHANGED <<toolVars, session, pending>> /\ ~Observing(t) /\ queue' = Append(queue, t)
        /\ Goto(t, "observe") \/ Goto(t, "observe_final")
    BY <1>3 DEF TakeGeneration, Observing
  <2>2. QED
    BY <1>1, <2>1, QueueGrows DEF RestInv, ToolsTypeOK, toolVars
<1>4. ASSUME NEW t \in Thread, AppliesObservation(t) PROVE RestInv'
  <2>1. UNCHANGED <<toolVars, session, pending>> /\ Observing(t)
    BY <1>4 DEF AppliesObservation, Observing
  <2>2. CASE ~Contains(queue, t)
    <3>1. Goto(t, "idle") /\ queue' = queue
      BY <1>4, <2>2 DEF AppliesObservation
    <3>2. \A i \in DOMAIN queue : queue[i] # t /\ queue[i] \in Thread
      <4>1. DOMAIN queue = 1 .. Len(queue) /\ \A i \in DOMAIN queue : queue[i] \in Thread
        BY <1>1 DEF QueueInv
      <4>2. QED
        BY <2>2, <4>1 DEF Contains
    <3>3. \A s \in Thread \ {t} : pc'[s] = pc[s]
      BY <1>1, <3>1 DEF Goto, TypeInv
    <3>4. QueueInv'
      BY <1>1, <3>1, <3>2, <3>3 DEF QueueInv, Observing
    <3>5. QED
      BY <1>1, <2>1, <3>4 DEF RestInv, ToolsTypeOK, toolVars
  <2>3. CASE Contains(queue, t)
    <3> DEFINE k == CHOOSE i \in 1 .. Len(queue) : queue[i] = t
    <3>1. k \in 1 .. Len(queue) /\ queue[k] = t
      BY <2>3 DEF Contains
    <3>2. queue' = SubSeq(queue, 1 + k, Len(queue)) /\ \E place : Goto(t, place)
      BY <1>4, <2>3 DEF AppliesObservation
    <3>3. k \in DOMAIN queue
      BY <1>1, <3>1 DEF QueueInv
    <3> HIDE DEF k
    <3>4. QueueInv'
      BY <1>1, <3>1, <3>2, <3>3, QueueShrinks
    <3>5. QED
      BY <1>1, <2>1, <3>4 DEF RestInv, ToolsTypeOK, toolVars
  <2>4. QED
    BY <2>2, <2>3
<1>5. ASSUME NEW t \in Thread, BeginRepair(t) \/ VerifyRuntime(t) \/ FinishRepair(t) PROVE RestInv'
  <2>1. /\ UNCHANGED <<toolVars, session, pending, queue>> /\ ~Observing(t)
        /\ \E place : Goto(t, place)
    BY <1>5 DEF BeginRepair, VerifyRuntime, FinishRepair, Observing
  <2>2. QED
    BY <1>1, <2>1, QueueStays DEF RestInv, ToolsTypeOK, toolVars
<1>6. ASSUME NEW t \in Thread, Restart(t) PROVE RestInv'
  <2>1. /\ UNCHANGED <<toolVars, pending, queue>> /\ ~Observing(t) /\ \E place : Goto(t, place)
    BY <1>6 DEF Restart, RestartRemoves, RestartStarts, Observing
  <2>2. session' \in Session \cup {Nothing}
    BY <1>1, <1>6, StartedIs DEF Restart, RestartRemoves, RestartStarts, ToolsTypeOK
  <2>3. QED
    BY <1>1, <2>1, <2>2, QueueStays DEF RestInv, ToolsTypeOK, toolVars
<1>7. ASSUME NEW w \in Worker, Confirm(w) \/ Discover(w) PROVE RestInv'
  <2>1. /\ UNCHANGED <<toolVars, session, queue>> /\ ~Observing(w) /\ pending' \subseteq pending
        /\ pc' = pc \/ \E place : Goto(w, place)
    BY <1>7 DEF Confirm, Discover, Observing
  <2>2. QED
    BY <1>1, <2>1, QueueStays, Kinds DEF RestInv, ToolsTypeOK, toolVars
<1>8. ASSUME NEW d \in Direct, DirectInstall(d) PROVE RestInv'
  <2>1. /\ UNCHANGED <<toolVars, session, pending, queue>> /\ ~Observing(d)
        /\ Goto(d, "request")
    BY <1>8 DEF DirectInstall, Observing
  <2>2. QED
    BY <1>1, <2>1, QueueStays, Kinds DEF RestInv, ToolsTypeOK, toolVars
<1>9. CASE Environment
  <2>1. UNCHANGED <<pending, queue, pc>>
    BY <1>9 DEF Environment, ensure_session, stop, StreamEnds, cancel, Uninstalled, toolVars
  <2>2. ToolsTypeOK'
    <3>1. [state |-> "Error", reader |-> FALSE] \in Session
      BY DEF Session
    <3>2. session' \in Session \cup {Nothing}
      BY <1>1, <1>9, <3>1, StartedIs
         DEF Environment, ensure_session, stop, StreamEnds, cancel, Uninstalled, ToolsTypeOK
    <3>3. tool' \in BOOLEAN /\ cancelled' \subseteq Installer /\ UNCHANGED <<running, status>>
      BY <1>1, <1>9
         DEF Environment, ensure_session, stop, StreamEnds, cancel, Uninstalled, toolVars,
             ToolsTypeOK
    <3>4. QED
      BY <1>1, <3>2, <3>3 DEF ToolsTypeOK
  <2>3. QED
    BY <1>1, <2>1, <2>2, QueueStays DEF RestInv
<1>10. CASE Crash
  <2>1. pending' = {} /\ queue' = <<>>
    BY <1>10 DEF Crash
  <2>2. ToolsTypeOK'
    BY <1>1, <1>10 DEF Crash, ToolsTypeOK, InstallState
  <2>3. QED
    BY <2>1, <2>2, QueueCleared DEF RestInv
<1>11. CASE UNCHANGED vars
  BY <1>1, <1>11, QueueStays DEF vars, RestInv, ToolsTypeOK
<1>12. QED
  BY <1>1, <1>2, <1>3, <1>4, <1>5, <1>6, <1>7, <1>8, <1>9, <1>10, <1>11, InstallKeepsRest
     DEF Next, RestInv

LEMMA InitRest == Init => RestInv
BY DEF Init, InitTools, RestInv, ToolsTypeOK, InstallState, QueueInv

(* No thread is in the queue twice, and there are finitely many. *)
LEMMA QueueFits ==
  ASSUME QueueInv
  PROVE  Len(queue) <= Cardinality(Thread)
<1>1. queue \in Seq(Thread) /\ DOMAIN queue = 1 .. Len(queue) /\ Len(queue) \in Nat
  BY DEF QueueInv
<1>2. IsFiniteSet(Thread)
  <2>1. Thread = Installer \cup {Main}
    BY DEF Thread, Installer
  <2>2. QED
    BY <2>1, ThreadAssumption, FS_AddElement
<1>3. queue \in [1 .. Len(queue) -> Thread]
  BY <1>1
<1>4. queue \in Injection(1 .. Len(queue), Thread)
  BY <1>1, <1>3 DEF QueueInv, Injection, IsInjective
<1>5. Cardinality(1 .. Len(queue)) <= Cardinality(Thread)
  BY <1>2, <1>4, FS_Injection
<1>6. Cardinality(1 .. Len(queue)) = Len(queue)
  <2>1. Cardinality(1 .. Len(queue)) =
          IF 1 > Len(queue) THEN 0 ELSE Len(queue) - 1 + 1
    BY <1>1, FS_Interval
  <2>2. QED
    BY <1>1, <2>1
<1>7. QED
  BY <1>5, <1>6

(* What the coordinator, the installer and the registry keep is of its types,
   and no thread holds two generations: there are never more to apply than
   there are threads (recovery.rs, the generation counter). *)
THEOREM RecoveryTypeCorrect == Spec => []TypeOK
<1>1. Inv /\ RestInv => TypeOK
  <2> SUFFICES ASSUME Inv, RestInv PROVE TypeOK
    OBVIOUS
  <2>1. tried \in 0 .. 3
    BY DEF Inv, TypeInv, LedgerInv, Engine, RecoveryRecord, AUTOMATIC_ATTEMPT_LIMIT
  <2>2. held \in [Thread -> Observation \cup {Nothing}]
    BY DEF Inv, TypeInv, Sound
  <2>3. Len(queue) <= Cardinality(Thread)
    BY QueueFits DEF RestInv
  <2>4. QED
    BY <2>1, <2>2, <2>3 DEF TypeOK, Inv, TypeInv, RestInv, QueueInv
<1>2. QED
  BY <1>1, AlwaysInv, InitRest, RestKeeps, PTL DEF Spec
=============================================================================
