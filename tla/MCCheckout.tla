----------------------------- MODULE MCCheckout -----------------------------
(* What is done in the checkout, side by side: AcceptTransaction on two paths, each
   of which a run may have changed in place or in isolation, or not at all; one run of
   a check whose processes may start two others; and the session of one language
   server on it, with one document and two threads of the editor. *)
EXTENDS AcceptTransaction, CheckExecution, LanguageSession

VARIABLE focus   \* a configuration: the specification that moves

\* The checkout beside a check or a server is fixed: neither model reads a file of it.
\* The session has three commands before it, or two and a message of the server's own.
MCInit ==
  /\ Init /\ CheckInit /\ SessionInit
  /\ focus \in {"review", "check", "session"}
  /\ focus # "review" => \A f \in Path : base[f] = BaseContent /\ worktree[f] = AgentContent
  /\ <<calls, asks>> \in IF focus = "session" THEN {<<0, MaxAsks>>, <<1, 0>>}
                         ELSE {<<MaxCalls, MaxAsks>>}

Reviews(step) == focus = "review" /\ step /\ UNCHANGED <<checkVars, sessionVars, focus>>
Checks(step) == focus = "check" /\ step /\ UNCHANGED <<vars, sessionVars, focus>>
Serves(step) == focus = "session" /\ step /\ UNCHANGED <<vars, checkVars, focus>>

MCNext == Reviews(Next) \/ Checks(CheckNext) \/ Serves(SessionNext)

\* The fairness of FairSpec, of CheckSpec and of SessionSpec, with a server that reads.
MCSpec ==
  /\ MCInit /\ [][MCNext]_<<vars, checkVars, sessionVars, focus>>
  /\ WF_vars(Reviews(ReviewStep))
  /\ WF_vars(Reviews(intent = "reject" /\ ReviewRun("reject")))
  /\ WF_checkVars(Checks(RunnerStep))
  /\ \A c \in Caller : WF_sessionVars(Serves(CommandStep(c)))
  /\ WF_sessionVars(Serves(ReaderStep)) /\ WF_sessionVars(Serves(Dropped))
  /\ WF_sessionVars(Serves(ServerReads))

\* All keep to their types.  In particular a check has one of the statuses of
\* CheckCommandResult, and an ended one never the exit of its leader instead.
CheckoutTypeOK == TypeOK /\ CheckTypeOK /\ SessionTypeOK
=============================================================================
