-------------------------- MODULE MCLanguageSession --------------------------
(* One language server that owes nothing: it may stop reading what is written to it. *)
EXTENDS LanguageSession
=============================================================================
