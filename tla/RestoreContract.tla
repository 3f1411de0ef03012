-------------------------- MODULE RestoreContract --------------------------
(* What the database promises to those who write to it, with the backup and the
   restore as single steps (persistence/db.rs, commands/backup.rs): a ledger that
   only grows, but for a restore, which puts a saved one in its place once all that was
   promised is saved.  A restore that fails changes nothing; only the death of the
   desktop in the middle of one may leave another ledger. *)
EXTENDS Naturals, SequencesExt

CONSTANTS
  Event,
  Absent  \* there is no database

VARIABLES
  ledger,    \* the events of the database, or Absent
  saved,     \* the ledgers of the backups
  promised,  \* events promised to be kept
  died       \* the desktop has died during a restore

contractVars == <<ledger, saved, promised, died>>

ContractInit ==
  /\ ledger = <<>> /\ saved = {} /\ promised = {} /\ died = FALSE

(* A database that is absent is created empty. *)
Opened == IF ledger = Absent THEN <<>> ELSE ledger

SavedEvents == UNION {ToSet(s) : s \in saved}

(* A writer adds to the ledger, and can be promised what is in it. *)
Store ==
  /\ ledger' # Absent /\ ledger' \in Seq(Event)
  /\ IF ledger = Absent THEN ledger' = <<>> ELSE IsPrefix(ledger, ledger')
  /\ promised \subseteq promised' /\ promised' \subseteq promised \cup ToSet(ledger')
  /\ UNCHANGED <<saved, died>>

Save ==
  /\ ledger' = Opened
  /\ saved' = saved \cup {Opened}
  /\ UNCHANGED <<promised, died>>

(* What is restored was saved, with what writers have added since it was promoted. *)
Restore ==
  /\ promised \subseteq SavedEvents
  /\ ledger' # Absent /\ ledger' \in Seq(Event)
  /\ \E s \in saved : IsPrefix(s, ledger')
  /\ UNCHANGED <<saved, promised, died>>

(* The desktop dies: the ledger may be lost, what was promised is not. *)
Die ==
  /\ ~died /\ died'
  /\ ledger' = ledger \/ (promised \subseteq SavedEvents /\ ledger' \in Seq(Event) \cup {Absent})
  /\ UNCHANGED <<saved, promised>>

ContractNext == Store \/ Save \/ Restore \/ Die

ContractSpec == ContractInit /\ [][ContractNext]_contractVars

-----------------------------------------------------------------------------

(* An event whose writer was told that it is stored is in the database or in a backup. *)
PromisesKept == promised \subseteq SavedEvents \cup ToSet(Opened)
=============================================================================
