-------------------------- MODULE MCLanguageServer --------------------------
(* Instances of LanguageServer: a imports b and b imports c. *)
EXTENDS LanguageServer, TLC

CONSTANTS a, b, c

Chain == a :> {b} @@ b :> {c} @@ c :> {}
=============================================================================
