--------------------------- MODULE LanguageSession ---------------------------
(***************************************************************************)
(* One started session of a language server (language_server.rs): its      *)
(* documents, its requests and its end.  Each command of the editor runs   *)
(* on a thread of its own; one more thread reads the server's stdout.  All *)
(* write to the server's stdin, a pipe: a write waits while it is full,    *)
(* and holds the writer's lock, so that no other goes ahead.  The lock of  *)
(* `documents` is held through the write of a notification; every other    *)
(* lock is taken for one step.  Diagnostics, and errors before any effect, *)
(* change nothing here.                                                    *)
(***************************************************************************)
EXTENDS Naturals, Sequences

CONSTANTS
  Caller,      \* threads of the editor's commands
  Document,
  Room,        \* bound: messages that fit in a pipe
  MaxCalls,    \* bound: commands
  MaxAsks      \* bound: requests and bad frames of the server

ASSUME SessionAssumption ==
  Room \in Nat \ {0} /\ MaxCalls \in Nat /\ MaxAsks \in Nat

VARIABLES
  registered,  \* does the manager's registry hold the session?
  state,       \* "Ready" or "Error"
  stopping,
  documents,   \* the version of each open document, 0 if it is not open
  pending,     \* the requests whose answer somebody is to be given
  command,     \* what each caller is doing
  calls,       \* the number of commands so far
  reader,      \* the stdout reader
  stdin, stdout,   \* messages written and not yet read
  server,      \* the process: "up" or "gone"
  view,        \* the versions it has read of
  asked,       \* the requests it has read and not answered
  asks

session == <<registered, state, stopping, documents, pending>>
commandVars == <<command, calls>>
process == <<server, view, asked, asks>>
sessionVars == <<session, commandVars, reader, stdin, stdout, process>>

RequestId == 1 .. MaxCalls
Version == 0 .. MaxCalls
Notice(kind, d, version) == [kind |-> kind, of |-> d, version |-> version]
Notification == [kind : {"didOpen", "didChange", "didClose"}, of : Document, version : Version]
NoNotice == [kind |-> "none", version |-> 0]
Told(m) == m.kind \in {"didOpen", "didChange", "didClose"}

\* A command makes one request at most; its number is the id.
Command ==
  [for : {"none", "sync", "query", "close", "shutdown"}, id : Version,
   at : {"idle", "document", "notify", "request", "write", "wait", "cancel", "stop",
         "exit", "kill"},
   message : Notification \cup {NoNotice}, answer : {"none", "ok", "error"}]
NoCommand == [for |-> "none", id |-> 0, at |-> "idle", message |-> NoNotice, answer |-> "none"]

SessionTypeOK ==
  /\ registered \in BOOLEAN /\ stopping \in BOOLEAN /\ state \in {"Ready", "Error"}
  /\ documents \in [Document -> Version] /\ view \in [Document -> Version]
  /\ pending \subseteq RequestId /\ asked \subseteq RequestId
  /\ command \in [Caller -> Command] /\ calls \in 0 .. MaxCalls /\ asks \in 0 .. MaxAsks
  /\ reader \in {"reading", "responding", "failing", "done"}
  /\ Len(stdin) <= Room /\ Len(stdout) <= Room
  /\ server \in {"up", "gone"}

\* After a start that worked; any part of the bounds is left.
SessionInit ==
  /\ registered = TRUE /\ state = "Ready" /\ stopping = FALSE
  /\ documents = [d \in Document |-> 0] /\ pending = {}
  /\ command = [c \in Caller |-> NoCommand] /\ calls \in 0 .. MaxCalls
  /\ reader = "reading" /\ stdin = <<>> /\ stdout = <<>>
  /\ server = "up" /\ view = [d \in Document |-> 0] /\ asked = {}
  /\ asks \in 0 .. MaxAsks

----------------------------------------------------------------------------
\* Commands

is_ready == state = "Ready"

At(c, place) == command[c].at = place
GoesTo(c, place) == command' = [command EXCEPT ![c].at = place]
Returns(c) == command' = [command EXCEPT ![c] = NoCommand]
\* After its request a shutdown goes on, any other command returns.
RequestEnds(c) == IF command[c].for = "shutdown" THEN GoesTo(c, "exit") ELSE Returns(c)

\* write_json waits for room, and fails when nobody will read.
Writes(m) == server = "up" /\ Len(stdin) < Room /\ stdin' = Append(stdin, m)
WriteFails == server = "gone" /\ UNCHANGED stdin

\* A command finds the session in the registry: ensure_session a ready one only,
\* close_document any; stop, restart and another project take it out.
Called(c, what) ==
  /\ registered /\ At(c, "idle")
  /\ what \in {"sync", "query"} => is_ready
  /\ calls < MaxCalls /\ calls' = calls + 1
  /\ command' = [command EXCEPT ![c] =
       [NoCommand EXCEPT !.for = what, !.id = calls',
                      !.at = IF what = "shutdown" THEN "stop" ELSE "document"]]
  /\ registered' = (what # "shutdown")
  /\ UNCHANGED <<state, stopping, documents, pending, reader, stdin, stdout, process>>

\* What the server is to be told of d.
News(c, d) ==
  CASE command[c].for = "close" -> Notice("didClose", d, 0)
    [] command[c].for # "close" /\ documents[d] > 0 -> Notice("didChange", d, documents[d] + 1)
    [] command[c].for # "close" /\ documents[d] = 0 -> Notice("didOpen", d, 1)

Locked == \E c \in Caller : At(c, "notify")

\* Mutant: the lock is let go before the notification is written.
UpdateUnlocked(c) ==
  /\ At(c, "document")
  /\ \E d \in Document :
       IF command[c].for = "close" /\ documents[d] = 0
       THEN Returns(c) /\ UNCHANGED documents
       ELSE /\ documents' = [documents EXCEPT ![d] = News(c, d).version]
            /\ command' = [command EXCEPT ![c].message = News(c, d), ![c].at = "notify"]
  /\ UNCHANGED <<registered, state, stopping, pending, calls, reader, stdin, stdout, process>>

\* sync_document and close_document up to notify.
UpdateDocument(c) ==
  /\ At(c, "document") /\ ~ Locked
  /\ \E d \in Document :
       IF command[c].for = "close" /\ documents[d] = 0
       THEN Returns(c) /\ UNCHANGED documents
       ELSE /\ documents' = [documents EXCEPT ![d] = News(c, d).version]
            /\ command' = [command EXCEPT ![c].message = News(c, d), ![c].at = "notify"]
  /\ UNCHANGED <<registered, state, stopping, pending, calls, reader, stdin, stdout, process>>

notify(c) ==
  /\ At(c, "notify")
  /\ \/ /\ Writes(command[c].message)
        /\ IF command[c].for = "query" THEN GoesTo(c, "request") ELSE Returns(c)
     \/ WriteFails /\ Returns(c)
  /\ UNCHANGED <<session, calls, reader, stdout, process>>

\* A request is refused unless the session is ready; before it a query may be, for
\* want of a capability or of the file.
RequestRefused(c) ==
  /\ At(c, "request")
  /\ ~ is_ready \/ command[c].for = "query"
  /\ RequestEnds(c)
  /\ UNCHANGED <<session, calls, reader, stdin, stdout, process>>

RegisterRequest(c) ==
  /\ At(c, "request") /\ is_ready
  /\ pending' = pending \cup {command[c].id}
  /\ GoesTo(c, "write")
  /\ UNCHANGED <<registered, state, stopping, documents, calls, reader, stdin, stdout, process>>

WriteRequest(c) ==
  /\ At(c, "write")
  /\ \/ /\ Writes([kind |-> "request", id |-> command[c].id])
        /\ GoesTo(c, "wait") /\ UNCHANGED pending
     \/ /\ WriteFails
        /\ RequestEnds(c) /\ pending' = pending \ {command[c].id}
  /\ UNCHANGED <<registered, state, stopping, documents, calls, reader, stdout, process>>

Receives(c) ==
  /\ At(c, "wait") /\ command[c].answer # "none"
  /\ RequestEnds(c)
  /\ UNCHANGED <<session, calls, reader, stdin, stdout, process>>

\* Mutant: a request waits for its answer as long as it takes.
WaitsForEver(c) == At(c, "none") /\ UNCHANGED sessionVars

TimesOut(c) ==
  /\ At(c, "wait") /\ command[c].answer = "none"
  /\ pending' = pending \ {command[c].id}
  /\ GoesTo(c, "cancel")
  /\ UNCHANGED <<registered, state, stopping, documents, calls, reader, stdin, stdout, process>>

CancelRequest(c) ==
  /\ At(c, "cancel")
  /\ Writes([kind |-> "$/cancelRequest"]) \/ WriteFails
  /\ RequestEnds(c)
  /\ UNCHANGED <<session, calls, reader, stdout, process>>

----------------------------------------------------------------------------
\* The end of the session

shutdown(c) ==
  /\ At(c, "stop")
  /\ stopping' = TRUE
  /\ GoesTo(c, IF is_ready THEN "request" ELSE "kill")
  /\ UNCHANGED <<registered, state, documents, pending, calls, reader, stdin, stdout, process>>

\* After a request the server is told to exit; the kill leaves it no time to.
Kill(c) ==
  /\ \/ At(c, "kill")
     \/ At(c, "exit") /\ (Len(stdin) < Room \/ server = "gone")
  /\ server' = "gone"
  /\ Returns(c)
  /\ UNCHANGED <<session, calls, reader, stdin, stdout, view, asked, asks>>

\* ensure_session and restart put a new session in the place of one in error.
Replaced ==
  /\ registered /\ ~ is_ready
  /\ registered' = FALSE
  /\ UNCHANGED <<state, stopping, documents, pending, commandVars, reader, stdin, stdout, process>>

\* SessionInner::drop, when nobody holds the session any more.
Dropped ==
  /\ ~ registered /\ server = "up"
  /\ \A c \in Caller : At(c, "idle")
  /\ reader \in {"reading", "done"}
  /\ stopping' = TRUE /\ server' = "gone"
  /\ UNCHANGED <<registered, state, documents, pending, commandVars, reader, stdin, stdout,
                 view, asked, asks>>

----------------------------------------------------------------------------
\* The stdout reader

Frame(kind) ==
  /\ reader = "reading"
  /\ stdout # <<>> /\ Head(stdout).kind = kind
  /\ stdout' = Tail(stdout)

Answered(ids, with) ==
  command' = [c \in Caller |-> IF command[c].id \in ids \cap pending
                               THEN [command[c] EXCEPT !.answer = with] ELSE command[c]]

\* handle_server_message: an answer nobody is waiting for is dropped.
TakesAnswer ==
  /\ Frame("answer")
  /\ Answered({Head(stdout).id}, "ok")
  /\ pending' = pending \ {Head(stdout).id}
  /\ UNCHANGED <<registered, state, stopping, documents, calls, reader, stdin, process>>

\* A request of the server is answered by the reader itself.
TakesRequest ==
  /\ Frame("ask")
  /\ reader' = "responding"
  /\ UNCHANGED <<session, commandVars, stdin, process>>

respond ==
  /\ reader = "responding"
  /\ Writes([kind |-> "response"]) \/ WriteFails
  /\ reader' = "reading"
  /\ UNCHANGED <<session, commandVars, stdout, process>>

\* The stream ends, or a frame cannot be read: an error, unless the session is
\* stopping.  set_error records it ...
StreamEnds ==
  /\ \/ /\ reader = "reading" /\ stdout = <<>> /\ server = "gone"
        /\ UNCHANGED stdout
     \/ Frame("malformed")
  /\ \/ stopping /\ reader' = "done" /\ UNCHANGED state
     \/ ~ stopping /\ reader' = "failing" /\ state' = "Error"
  /\ UNCHANGED <<registered, stopping, documents, pending, commandVars, stdin, process>>

\* ... and answers every request that is pending.
fail_pending ==
  /\ reader = "failing" /\ reader' = "done"
  /\ Answered(pending, "error")
  /\ pending' = {}
  /\ UNCHANGED <<registered, state, stopping, documents, calls, stdin, stdout, process>>

----------------------------------------------------------------------------
\* The server

\* May the server be sent m, after what it has read so far?
Allowed(m) ==
  CASE m.kind = "didOpen" -> view[m.of] = 0
    [] m.kind = "didChange" -> view[m.of] > 0 /\ m.version = view[m.of] + 1
    [] m.kind = "didClose" -> view[m.of] > 0
    [] OTHER -> TRUE

ServerReads ==
  /\ server = "up" /\ stdin # <<>> /\ stdin' = Tail(stdin)
  /\ LET m == Head(stdin) IN
     /\ view' = IF Told(m) THEN [view EXCEPT ![m.of] = m.version] ELSE view
     /\ asked' = IF m.kind = "request" THEN asked \cup {m.id} ELSE asked
  /\ UNCHANGED <<session, commandVars, reader, stdout, server, asks>>

ServerWrites(m) == server = "up" /\ Len(stdout) < Room /\ stdout' = Append(stdout, m)

ServerAnswers ==
  /\ \E id \in asked : ServerWrites([kind |-> "answer", id |-> id]) /\ asked' = asked \ {id}
  /\ UNCHANGED <<session, commandVars, reader, stdin, server, view, asks>>

ServerAsks ==
  /\ asks < MaxAsks /\ asks' = asks + 1
  /\ \E kind \in {"ask", "malformed"} : ServerWrites([kind |-> kind])
  /\ UNCHANGED <<session, commandVars, reader, stdin, server, view, asked>>

ServerEnds ==
  /\ server = "up" /\ server' = "gone"
  /\ UNCHANGED <<session, commandVars, reader, stdin, stdout, view, asked, asks>>

----------------------------------------------------------------------------
CommandStep(c) ==
  \/ UpdateDocument(c) \/ notify(c)
  \/ RequestRefused(c) \/ RegisterRequest(c) \/ WriteRequest(c)
  \/ Receives(c) \/ TimesOut(c) \/ CancelRequest(c)
  \/ shutdown(c) \/ Kill(c)

ReaderStep == TakesAnswer \/ TakesRequest \/ respond \/ StreamEnds \/ fail_pending

SessionNext ==
  \/ \E c \in Caller :
       \/ \E what \in {"sync", "query", "close", "shutdown"} : Called(c, what)
       \/ CommandStep(c)
  \/ Replaced \/ Dropped
  \/ ReaderStep
  \/ ServerReads \/ ServerAnswers \/ ServerAsks \/ ServerEnds

\* Threads that can go on do so, a request times out some day, and a session that
\* nobody holds is dropped.  The server owes nothing.
SessionSpec ==
  /\ SessionInit /\ [][SessionNext]_sessionVars
  /\ \A c \in Caller : WF_sessionVars(CommandStep(c))
  /\ WF_sessionVars(ReaderStep) /\ WF_sessionVars(Dropped)

----------------------------------------------------------------------------
\* Properties

\* The server never reads a message that the protocol forbids: a document is opened
\* once, its versions rise by one and only an open one is changed or closed, although
\* several threads synchronize and close the same one (sync_document, close_document).
DocumentsInStep ==
  [][ServerReads => Allowed(Head(stdin))]_sessionVars

\* Every command returns, whether or not the server answers, fails or ends, as long
\* as it reads what is written to it.
CallsReturn == \A c \in Caller : ~ At(c, "idle") ~> At(c, "idle")

\* A session that has been taken out of the registry ends its process, whatever that
\* process does (RD2-15: "child processes are killed/reaped on failure and shutdown").
ServerIsKilled == ~ registered ~> server = "gone"
=============================================================================
