--------------------------- MODULE ProjectionCache ---------------------------
(* The projection cache of the desktop (commands/engineering_projection_cache.rs)
   over the event journal.  work_engineering_intelligence is a synchronous
   command, so a load and a restore never overlap; appends overlap both. *)
EXTENDS DatabaseRestore

CONSTANTS
  Desktop,                   \* the appenders that are threads of the desktop
  MAX_STABLE_READ_ATTEMPTS,
  MAX_CACHED_RUN_DIRS

ASSUME DesktopAssumption == Desktop \subseteq Appender

(* The cache is sorted by its keys. *)
ASSUME CacheAssumption ==
  /\ Item \subseteq Nat
  /\ MAX_STABLE_READ_ATTEMPTS \in Nat \ {0}
  /\ MAX_CACHED_RUN_DIRS \in Nat \ {0}

VARIABLES
  cache,  \* item -> [stamp, snapshot]
  load    \* the load under way, or Null

vars == <<journalVars, restoreVars, cache, load>>

Stamp == Ledger \cup {Null}
Projection == UNION {[places -> Event] : places \in SUBSET (1 .. MaxEvents + Len(Legacy))}
Load ==
  [at : {"initial", "before", "events", "after", "fresh"}, item : Item,
   tries : 0 .. MAX_STABLE_READ_ATTEMPTS, before : Stamp, events : Projection]

ASSUME LoadNullAssumption == Null \notin Load

TypeOK ==
  /\ JournalTypeOK
  /\ RestoreTypeOK
  /\ DOMAIN cache \subseteq Item
  /\ Cardinality(DOMAIN cache) <= MAX_CACHED_RUN_DIRS
  /\ cache \in [DOMAIN cache -> [stamp : Stamp, snapshot : Projection]]
  /\ load \in Load \cup {Null}

Init ==
  /\ JournalInit /\ RestoreInit
  /\ cache = <<>> /\ load = Null

-----------------------------------------------------------------------------

Loads(item) ==
  /\ MainFree /\ load = Null
  /\ load' = [at |-> "initial", item |-> item, tries |-> 0,
              before |-> Null, events |-> <<>>]
  /\ UNCHANGED <<journalVars, restoreVars, cache>>

(* Every read of the load first makes sure of the import, with a connection of
   its own.  Only Main replaces the live file and a marker stays, so the read of
   a marker that is there is no step of its own. *)
MarkedNow == live # Null /\ db[live].marked

MainImports ==
  /\ load # Null
  /\ \/ ~MarkedNow /\ ImportChecks(Main, Spare)
     \/ ImportCommits(Main)
  /\ UNCHANGED <<restoreVars, cache, load>>

Reads(place) ==
  /\ load # Null /\ load.at = place
  /\ call[Main].at = "imported" \/ (call[Main].at = "idle" /\ MarkedNow)
  /\ call' = [call EXCEPT ![Main] = Idle]
  /\ UNCHANGED <<live, db, next, acked, restoreVars>>

ledger_stamp == engineering_event_revision(Ledgered, load.item)

cached_snapshot ==
  /\ Reads("initial")
  /\ LET hit == load.item \in DOMAIN cache /\ cache[load.item].stamp = ledger_stamp IN
       load' = IF hit THEN Null ELSE [load EXCEPT !.at = "before"]
  /\ UNCHANGED cache

BeforeStamp ==
  /\ Reads("before")
  /\ load' = [load EXCEPT !.at = "events", !.before = ledger_stamp, !.tries = @ + 1]
  /\ UNCHANGED cache

read_events ==
  /\ Reads("events")
  /\ load' = [load EXCEPT !.at = "after", !.events = InScope(Ledgered, load.item)]
  /\ UNCHANGED cache

(* Mutant: a full cache makes no room. *)
EvictsNone == cache

(* The first key of the map makes room for a new one. *)
Evicted ==
  IF load.item \in DOMAIN cache \/ Cardinality(DOMAIN cache) < MAX_CACHED_RUN_DIRS
  THEN cache
  ELSE LET first == CHOOSE i \in DOMAIN cache : \A j \in DOMAIN cache : i <= j
       IN Restrict(cache, DOMAIN cache \ {first})

cache_snapshot(stamp) ==
  LET entry == [stamp |-> stamp, snapshot |-> load.events]
      kept == Evicted
  IN cache' = [i \in DOMAIN kept \cup {load.item} |->
                 IF i = load.item THEN entry ELSE kept[i]]

(* Mutant: what was read is cached under the stamp found after it. *)
CachesUnstable ==
  /\ Reads("after")
  /\ cache_snapshot(ledger_stamp)
  /\ load' = Null

(* Only an unmoved ledger is cached; a moved one is read again, and the last
   read is returned as it is. *)
AfterStamp ==
  /\ Reads("after")
  /\ \/ /\ ledger_stamp = load.before
        /\ cache_snapshot(ledger_stamp)
        /\ load' = Null
     \/ /\ ledger_stamp # load.before
        /\ load' = [load EXCEPT !.at =
             IF load.tries < MAX_STABLE_READ_ATTEMPTS THEN "before" ELSE "fresh"]
        /\ UNCHANGED cache

FreshReplay ==
  /\ Reads("fresh")
  /\ load' = Null
  /\ UNCHANGED cache

LoadStep ==
  \/ \E item \in Item : Loads(item)
  \/ MainImports \/ cached_snapshot \/ BeforeStamp \/ read_events
  \/ AfterStamp \/ FreshReplay

-----------------------------------------------------------------------------

Appends(t) ==
  /\ \/ next <= MaxEvents /\ ImportChecks(t, Spare)
     \/ ImportCommits(t)
     \/ AppendOpens(t, Spare)
     \/ \E item \in Item : append_pending(t, item, Restoring)
     \/ AppendFails(t)
  /\ UNCHANGED <<restoreVars, cache, load>>

(* The desktop dies during a restore: its threads and its cache are gone, what
   lies under a temporary name stays there unread.  Dying at another time, it
   leaves what it would have left had the calls under way failed and no load
   been made. *)
Crash ==
  /\ Restoring /\ Faults("died")
  /\ LET stray == {restore.candidate, restore.old} \ {live} IN
       /\ db' = [f \in File |-> IF f \in stray THEN EmptyDatabase ELSE db[f]]
       /\ call' = [t \in Thread |->
            IF t \in Desktop \cup {Main} THEN Idle
            ELSE IF call[t].file \in stray THEN [call[t] EXCEPT !.file = Null]
            ELSE call[t]]
  /\ restore' = Null /\ cache' = <<>>
  /\ UNCHANGED <<live, next, acked, backups, restores, load>>

Next ==
  \/ \E t \in Appender : Appends(t)
  \/ load = Null /\ RestoreStep /\ UNCHANGED <<cache, load>>
  \/ LoadStep
  \/ Crash

Spec == Init /\ [][Next]_vars

-----------------------------------------------------------------------------

(* No database holds an event twice, however many callers find the legacy
   journal not imported yet, and whatever is restored meanwhile
   (ensure_legacy_jsonl_import). *)
NoEventTwice == \A f \in File : IsInjective(db[f].events)

(* A cached projection that the current stamp of the ledger hits is the
   projection of the current ledger, also when a restore has taken the ledger
   back and it has grown again in another way (load_engineering_projection). *)
CacheIsTrue ==
  live # Null =>
    \A i \in DOMAIN cache :
      cache[i].stamp = engineering_event_revision(Ledgered, i) =>
        cache[i].snapshot = InScope(Ledgered, i)

(* An event stored in the live database outside a restore is in the live
   database or in a backup for good, also when the desktop dies between the
   two renames of a restore (restore_state). *)
AcknowledgedSurvives ==
  \A e \in acked :
    \/ e \in ToSet(Ledgered)
    \/ \E b \in backups : e \in ToSet(b.events)

(* The database keeps the contract of backup and restore: its ledger only grows, until
   a restore that succeeds puts a saved one in its place at the check of the promoted
   file; a restore that fails changes nothing, whatever writers do in between, and what
   was acknowledged stays in the ledger or in a backup (restore_database_file). *)
RestoreKeepsContract == Contract!ContractSpec

(* A restore that returns, with success or with an error, leaves the old
   database or the restored one at the path, and not one that a call made in
   between has created (restore_database_file). *)
RestoreIsWhole ==
  [][ Restoring /\ restore' = Null /\ ~(Crash)
        => live' # Null
           /\ live' \in {restore.old, restore.candidate} \cup
                (IF restore.old = Null THEN {live} ELSE {}) ]_vars
=============================================================================
