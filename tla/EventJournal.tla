---------------------------- MODULE EventJournal ----------------------------
(* The event journal (persistence/event_journal.rs): one append-only ledger in
   a SQLite file, written by every thread and process, with a one-off import
   of an older JSONL journal.  A call opens the file by its path, each time
   anew, and creates an empty one when none is there.

   An Immediate transaction is one step: SQLite lets one writer in.  The hash
   of an event covers the hash before it, so it stands for the whole ledger up
   to the event, and here it is that sequence. *)
EXTENDS Naturals, Sequences, SequencesExt, FiniteSets, Functions

CONSTANTS
  Null,
  Main,       \* the main thread of the desktop
  Appender,   \* worker threads of the desktop, and CLI processes
  Item,       \* Work Items
  Legacy,     \* the events of the JSONL journal
  File,       \* database files that have a name at a time
  MaxEvents   \* bound on the events appended

ASSUME MaxEventsAssumption == MaxEvents \in Nat

(* An event has an identity, which no event appended later shares.  The legacy
   journal, too, has each event once. *)
ASSUME LegacyAssumption ==
  /\ Legacy \in Seq([id : Nat \ (1 .. MaxEvents), item : Item])
  /\ IsInjective(Legacy)

ASSUME ThreadAssumption == Main \notin Appender

Thread == Appender \cup {Main}

VARIABLES
  live,  \* the file at the path of the database, or Null
  db,    \* what each file holds
  call,  \* where each thread is in a call of the journal
  next,  \* the identity of the next event
  acked  \* events acknowledged by the live file while no restore was under way

journalVars == <<live, db, call, next, acked>>

Event == ToSet(Legacy) \cup [id : 1 .. MaxEvents, item : Item]
Ledger == BoundedSeq(Event, MaxEvents + Len(Legacy))
Database == [marked : BOOLEAN, events : Ledger]
EmptyDatabase == [marked |-> FALSE, events |-> <<>>]

ASSUME JournalNullAssumption == Null \notin File /\ Null \notin Ledger

Idle == [at |-> "idle", file |-> Null]

JournalTypeOK ==
  /\ live \in File \cup {Null}
  /\ db \in [File -> Database]
  /\ call \in [Thread -> [at : {"idle", "import", "imported", "append"},
                          file : File \cup {Null}]]
  /\ next \in 1 .. MaxEvents + 1
  /\ acked \subseteq Event

(* The first start after the upgrade: a JSONL journal, an empty database. *)
JournalInit ==
  /\ live = CHOOSE f \in File : TRUE
  /\ db = [f \in File |-> EmptyDatabase]
  /\ call = [t \in Thread |-> Idle]
  /\ next = 1
  /\ acked = {}

-----------------------------------------------------------------------------

(* init_db: a call opens the live file, which it creates if need be, as one of
   the files "spare" that have no name. *)
OpensOver(f, spare) ==
  \/ live # Null /\ f = live /\ UNCHANGED <<live, db>>
  \/ /\ live = Null
     /\ f = CHOOSE g \in spare : TRUE
     /\ live' = f
     /\ UNCHANGED db

(* Files lose their name for good.  A call that has one open goes on writing to
   it, and nobody will read that. *)
Unlinks(files) ==
  /\ db' = [f \in File |-> IF f \in files THEN EmptyDatabase ELSE db[f]]
  /\ call' = [t \in Thread |->
       IF call[t].file \in files THEN [call[t] EXCEPT !.file = Null] ELSE call[t]]

Writes(t, d) ==
  IF call[t].file = Null THEN UNCHANGED db ELSE db' = [db EXCEPT ![call[t].file] = d]

(* The marker is read before the legacy file, outside any transaction. *)
ImportChecks(t, spare) ==
  /\ call[t].at = "idle"
  /\ \E f \in File :
       /\ OpensOver(f, spare)
       /\ call' = [call EXCEPT ![t] =
            [at |-> IF db[f].marked THEN "imported" ELSE "import",
             file |-> IF db[f].marked THEN Null ELSE f]]
  /\ UNCHANGED <<next, acked>>

(* Mutant: what was read before the transaction is imported in any case. *)
ImportedAgain(d) == [marked |-> TRUE, events |-> d.events \o Legacy]

(* The import transaction, with the marker read again under the lock. *)
Imported(d) ==
  IF d.marked THEN d ELSE [marked |-> TRUE, events |-> d.events \o Legacy]

ImportCommits(t) ==
  /\ call[t].at = "import"
  /\ Writes(t, Imported(db[call[t].file]))
  /\ call' = [call EXCEPT ![t] = [at |-> "imported", file |-> Null]]
  /\ UNCHANGED <<live, next, acked>>

(* append_engineering_event opens the database once more, *)
AppendOpens(t, spare) ==
  /\ call[t].at = "imported"
  /\ \E f \in File :
       /\ OpensOver(f, spare)
       /\ call' = [call EXCEPT ![t] = [at |-> "append", file |-> f]]
  /\ UNCHANGED <<next, acked>>

(* and appends in one transaction.  A file that is no longer live takes the
   event too, and the caller is told that it is stored. *)
append_pending(t, item, restoring) ==
  LET event == [id |-> next, item |-> item] IN
    /\ call[t].at = "append"
    /\ next <= MaxEvents
    /\ Writes(t, [db[call[t].file] EXCEPT !.events = Append(@, event)])
    /\ next' = next + 1
    /\ acked' = IF live # Null /\ call[t].file = live /\ ~restoring
                THEN acked \cup {event} ELSE acked
    /\ call' = [call EXCEPT ![t] = Idle]
    /\ UNCHANGED live

(* The lock is not free for five seconds, or the disk fails. *)
AppendFails(t) ==
  /\ call[t].at # "idle"
  /\ call' = [call EXCEPT ![t] = Idle]
  /\ UNCHANGED <<live, db, next, acked>>

-----------------------------------------------------------------------------
(* What readers derive from a ledger. *)

Ledgered == IF live = Null THEN <<>> ELSE db[live].events

Of(events, item) == {n \in DOMAIN events : events[n].item = item}

(* The events of the item, each with its sequence number. *)
InScope(events, item) == Restrict(events, Of(events, item))

(* The last event of the item, as its sequence number and its hash. *)
engineering_event_revision(events, item) ==
  IF Of(events, item) = {} THEN Null
  ELSE SubSeq(events, 1, CHOOSE n \in Of(events, item) : \A k \in Of(events, item) : k <= n)
=============================================================================
