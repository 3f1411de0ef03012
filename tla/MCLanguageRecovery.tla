------------------------- MODULE MCLanguageRecovery -------------------------
(* The main thread, one thread that confirms repairs and one that installs. *)
EXTENDS LanguageRecovery
=============================================================================
