------------------------------ MODULE MCDesktop ------------------------------
(* What the desktop keeps on disk for its user: the drafts of the editor, through a
   quit, and the database, through imports and a restore.  They share no state. *)
EXTENDS DesktopQuit, ProjectionCache

VARIABLE focus   \* a configuration: the specification that moves

\* One file, the debounce timer and one flush for each quit request.
Flushers == {Timer} \cup Request

\* A worker of the desktop and a CLI process append for two Work Items, the second of
\* which has the only event of the older journal.
Items == {1, 2}
OldJournal == <<[id |-> 0, item |-> 2]>>
Files == 1 .. 4

\* One quit while a first text is followed by two, or a draft meets one more;
\* two quits of an editor without text.
QuitMoves ==
  \/ next_request_id + 1 = MaxRequests /\ typed = IF draft # None THEN 2 ELSE 1
  \/ next_request_id + 2 = MaxRequests /\ typed = MaxText /\ draft = None

QuitRests == next_request_id = 0 /\ typed = MaxText /\ draft = None

MCInit ==
  /\ DesktopInit /\ Init
  /\ \/ focus = "quit" /\ QuitMoves
     \/ focus = "journal" /\ QuitRests

MCNext ==
  \/ focus = "quit" /\ DesktopNext /\ UNCHANGED <<vars, focus>>
  \/ focus = "journal" /\ Next /\ UNCHANGED <<desktopVars, focus>>

MCSpec == MCInit /\ [][MCNext]_<<desktopVars, vars, focus>>

\* Whichever moves keeps to its types: a flush waits for no more writes than there are,
\* and the cache never has more entries than its limit.
DesktopTypesOK == IF focus = "quit" THEN DesktopTypeOK ELSE TypeOK
=============================================================================
