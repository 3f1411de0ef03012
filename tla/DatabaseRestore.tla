-------------------------- MODULE DatabaseRestore --------------------------
(* Backup and restore of the database (persistence/db.rs, the commands of
   commands/backup.rs).  Both are synchronous commands: the main thread runs
   them, one at a time, while workers and CLI processes append. *)
EXTENDS EventJournal

CONSTANTS
  MaxBackups,  \* bound on the backups a user asks for
  MaxRestores  \* bound on the restores

ASSUME RestoreAssumption == MaxRestores \in Nat

(* The live file, one moved aside and a candidate can be there at once. *)
ASSUME FileAssumption == \A f, g \in File \cup {Null} : File \ {f, g} # {}

VARIABLES
  backups,   \* databases saved under backups/
  restore,   \* the restore under way, or Null
  restores,  \* restores begun
  fault      \* whether a file operation has failed or the desktop has died

restoreVars == <<backups, restore, restores, fault>>

Restoring == restore # Null

Restore ==
  [at : {"stage", "aside", "promote", "verify", "rollback", "cleanup"},
   src : Database, candidate : File \cup {Null}, old : File \cup {Null}]

ASSUME RestoreNullAssumption == Null \notin Restore

RestoreTypeOK ==
  /\ backups \subseteq Database
  /\ restore \in Restore \cup {Null}
  /\ Restoring => restore.src \in backups
  /\ restores \in 0 .. MaxRestores
  /\ fault \in {"none", "failed", "died"}

RestoreInit ==
  /\ backups = {} /\ restore = Null /\ restores = 0 /\ fault = "none"

(* Files that have no name: not at the path, not a file of the restore. *)
Spare ==
  File \ ({live} \cup (IF Restoring THEN {restore.candidate, restore.old} ELSE {}))

At(place) == Restoring /\ restore.at = place
Goes(place) == restore' = [restore EXCEPT !.at = place]
MainFree == restore = Null /\ call[Main].at = "idle"

(* The disk fails one operation of a run, or the desktop dies. *)
Faults(how) == fault = "none" /\ fault' = how
Fails == Faults("failed")

-----------------------------------------------------------------------------

(* backup_to: VACUUM INTO sees what is committed. *)
backup_to ==
  \E f \in File : OpensOver(f, Spare) /\ backups' = backups \cup {db[f]}

backup_state ==
  /\ MainFree /\ Cardinality(backups) < MaxBackups
  /\ backup_to
  /\ UNCHANGED <<call, next, acked, restore, restores, fault>>

(* Mutant: the restore goes on without its safety copy. *)
SafetyOptional(src) ==
  /\ MainFree /\ restores < MaxRestores
  /\ restore' = [at |-> "stage", src |-> src, candidate |-> Null, old |-> Null]
  /\ restores' = restores + 1
  /\ \/ backup_to /\ UNCHANGED fault
     \/ Fails /\ UNCHANGED <<live, db, backups>>
  /\ UNCHANGED <<call, next, acked>>

(* restore_state: no restore without a copy of what it replaces. *)
restore_state(src) ==
  /\ MainFree /\ restores < MaxRestores
  /\ backup_to
  /\ restore' = [at |-> "stage", src |-> src, candidate |-> Null, old |-> Null]
  /\ restores' = restores + 1
  /\ UNCHANGED <<call, next, acked, fault>>

(* The candidate beside the live file: copied, migrated, checked. *)
StageCandidate ==
  /\ At("stage")
  /\ LET f == CHOOSE g \in Spare : TRUE IN
       /\ db' = [db EXCEPT ![f] = restore.src]
       /\ restore' = [restore EXCEPT !.at = "aside", !.candidate = f]
  /\ UNCHANGED <<live, call, next, acked, backups, restores, fault>>

MoveAside ==
  /\ At("aside")
  /\ live' = Null
  /\ restore' = [restore EXCEPT !.at = "promote", !.old = live]
  /\ UNCHANGED <<db, call, next, acked, backups, restores, fault>>

(* rename replaces a file that a call has created at the path meanwhile. *)
Promote ==
  /\ At("promote")
  /\ live' = restore.candidate
  /\ Unlinks({live})
  /\ Goes("verify")
  /\ UNCHANGED <<next, acked, backups, restores, fault>>

PromotedIsGood ==
  /\ At("verify")
  /\ Goes("cleanup")
  /\ UNCHANGED <<journalVars, backups, restores, fault>>

(* Mutant: the bad database goes, the old one is not put back. *)
RemovesOnly ==
  /\ At("verify") /\ Fails
  /\ live' = Null
  /\ Unlinks({live, restore.old})
  /\ restore' = Null
  /\ UNCHANGED <<next, acked, backups, restores>>

(* The restored database does not open: it is removed, *)
PromotedIsBad ==
  /\ At("verify") /\ Fails
  /\ live' = Null
  /\ Unlinks({live})
  /\ restore' = [restore EXCEPT !.at = "rollback", !.candidate = Null]
  /\ UNCHANGED <<next, acked, backups, restores>>

(* and the old one is moved back. *)
RollBack ==
  /\ At("rollback")
  /\ live' = restore.old
  /\ Unlinks({live})
  /\ restore' = Null
  /\ UNCHANGED <<next, acked, backups, restores, fault>>

(* An operation before the promotion fails: nothing has been replaced yet, or
   the old file is moved back.  Nobody reads the candidate again. *)
RestoreFails ==
  /\ At("stage") \/ At("aside") \/ At("promote")
  /\ Fails
  /\ live' = IF At("promote") THEN restore.old ELSE live
  /\ Unlinks({restore.candidate} \cup IF At("promote") THEN {live} ELSE {})
  /\ restore' = Null
  /\ UNCHANGED <<next, acked, backups, restores>>

(* The old file goes; if that fails it stays behind under its temporary name,
   where nobody reads it. *)
RestoreEnds ==
  /\ At("cleanup")
  /\ Unlinks({restore.old})
  /\ restore' = Null
  /\ UNCHANGED <<live, next, acked, backups, restores, fault>>

RestoreStep ==
  \/ backup_state
  \/ \E src \in backups : restore_state(src)
  \/ StageCandidate \/ MoveAside \/ Promote \/ PromotedIsGood
  \/ PromotedIsBad \/ RollBack \/ RestoreFails \/ RestoreEnds

-----------------------------------------------------------------------------

(* From the rename of the live file to the check of the promoted one, the database
   is still the old one: that check decides what stays. *)
Replacing == Restoring /\ restore.at \in {"promote", "verify", "rollback"}

Standing == IF Replacing THEN restore.old ELSE live

StandingLedger == IF Standing = Null THEN Null ELSE db[Standing].events

SavedLedgers == {b.events : b \in backups}

(* Backup and restore as the single steps of their contract. *)
Contract == INSTANCE RestoreContract WITH
  Absent <- Null, ledger <- StandingLedger, saved <- SavedLedgers,
  promised <- acked, died <- (fault = "died")
=============================================================================
