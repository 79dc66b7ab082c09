---------------------------- MODULE MCKeyThreads ----------------------------
(***************************************************************************)
(* One key for each thing a key can be: a letter bound to Qut, to another  *)
(* command and to a select plugin, Esc, and a key that is not a letter and *)
(* is bound to nothing.                                                    *)
(***************************************************************************)
EXTENDS KeyThreads, TLC

CONSTANTS q, r, s, Digit

MCBoundTo == (q :> "Qut") @@ (r :> "command") @@ (s :> "select")
=============================================================================
