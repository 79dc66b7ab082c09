---------------------------- MODULE MCPersistence ----------------------------
(***************************************************************************)
(* A variable of a single letter, which comes back empty and then swallows *)
(* the next line.  Three locations: m.c:1; _m.c:1, of which the reader     *)
(* leaves m.c:1; and ../error.c:1, of which it leaves a name the debugger  *)
(* finds but lists in full.  As the reader sees them one character stands  *)
(* for all that follow one another.                                        *)
(***************************************************************************)
EXTENDS Persistence, TLC

MCAlphanumeric == {"m", "e", "x", "w", "b", "/"}
MCCharacters == MCAlphanumeric \cup {"_", ".", ">", "[", Newline}
MCVariables == {<<"x">>}
MCLocated ==
  <<"m">> :> <<"m">> @@ <<"_", "m">> :> <<"_", "m">> @@ <<"e">> :> <<".", "e">>
MCMisread == {<<".", "e">>}
=============================================================================
