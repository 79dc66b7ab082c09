-------------------------- MODULE MCDebuggerChannel --------------------------
(***************************************************************************)
(* Scripts of the program: the start-up of both debuggers, the commands    *)
(* that run the program with what follows them, and the query of a window; *)
(* and answers with a line for every buffer, one that stays empty and one  *)
(* that each parser does not get past.                                     *)
(***************************************************************************)
EXTENDS DebuggerChannel, TLC

CONSTANTS confirm_off, info_file, exec_next, call_fflush, disassemble, print,
          code, stopped, output, place, value

MCCommands == {confirm_off, info_file, exec_next, call_fflush, disassemble, print}
MCTexts == {code, stopped, output, place, value}

L(begins, text) == [begins |-> begins, text |-> text]
Ok == L("^", Done)

(* info_file is what the binary's query gets, disassemble a query of a     *)
(* window ("where" under PDB); print shows a line with "\r" or a string.   *)
GdbAnswers ==
  (confirm_off :> <<Ok>>) @@ (info_file :> <<Ok>>) @@
  (exec_next :> <<L("*", stopped)>>) @@ (call_fflush :> <<L("program", output), Ok>>) @@
  (disassemble :> <<L("~", code), L("^", value)>>) @@ (print :> <<L("~", Escape)>>)

PdbAnswers ==
  (confirm_off :> <<>>) @@ (info_file :> <<>>) @@ (call_fflush :> <<>>) @@
  (exec_next :> <<L("program", output), L(Where, place), L(Arrow, code)>>) @@
  (disassemble :> <<>>) @@ (print :> <<L(Quote, value)>>)

MCAnswers == [d \in Debuggers |-> IF d = "GDB" THEN GdbAnswers ELSE PdbAnswers]

(* start_debugger.c:43-64, with send_setup_commands() (208-224) and        *)
(* get_binary_path_time.c:46; under PDB there are no set-up commands and   *)
(* no binary.                                                              *)
MCStartScript ==
  [d \in Debuggers |->
     IF d = "GDB"
     THEN <<Marker, confirm_off, Marker, Parse, Parse, info_file, Marker, Parse>>
     ELSE <<Marker, Parse>>]

SendDebuggerCommand(d) ==
  IF d = "GDB" THEN <<exec_next, call_fflush, Marker, Parse>> ELSE <<exec_next, Marker, Parse>>
SendCommandMp(c) == <<c, Marker, Parse>>

MCScripts ==
  [d \in Debuggers |-> [t \in Users |->
     IF t = send_key
     THEN {SendDebuggerCommand(d), SendCommandMp(disassemble), SendCommandMp(print)}
     ELSE {SendCommandMp(disassemble)}]]
=============================================================================
