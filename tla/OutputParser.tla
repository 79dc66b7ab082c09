---------------------------- MODULE OutputParser -----------------------------
(***************************************************************************)
(* parse_debugger_output_gdb() and parse_debugger_output_pdb(): what one   *)
(* chunk of a read() does to the output buffers.  A chunk is a sequence of *)
(* the pieces the two parsers branch on; anything else is a text, which    *)
(* begins with a letter.  Each parser is one function of a parser state and*)
(* the next piece; every chunk starts afresh, as if at the beginning of a  *)
(* line.  (Both also look for ">START", which nothing in src/ prints.)     *)
(***************************************************************************)
EXTENDS Naturals, Sequences

CONSTANT Texts              \* what debugger and program print, letter first

Newline == "\n"
Null == "\\0"               \* the end of the chunk, for a parser that runs past it

GdbPrompt == "(gdb) \n"    \* a line of its own
GdbEnd == ">END"
GdbPrefix == [c \in {"~", "^", "*"} |->    \* the first character of a line of GDB/MI
                CASE c = "~" -> "cli" [] c = "^" -> "data" [] c = "*" -> "async"]
Escape == "\\r"             \* a backslash and a letter that is neither n nor t
Done == "done"              \* the result record of a command that worked

PdbPrompt == "(Pdb) "
PdbEnd == "'>END'"
Arrow == "-> "
Where == "> /"              \* and the other strings that begin a line of PDB's own
Quote == "'"                \* the beginning of a string's value

Pieces == Texts \cup DOMAIN GdbPrefix \cup
  {Newline, Null, GdbPrompt, GdbEnd, Escape, Done, PdbPrompt, PdbEnd, Arrow, Where, Quote}

ASSUME TextsAssumption ==
  Texts \cap (DOMAIN GdbPrefix \cup {Newline, Null, GdbPrompt, GdbEnd, Escape, Done,
                                     PdbPrompt, PdbEnd, Arrow, Where, Quote}) = {}

Buffers == {"cli", "data", "async", "program"}
NoOutput == [b \in Buffers |-> <<>>]

(* cp_dchar(); what a line is for may be no buffer at all.                 *)
Copy(p, b, x) == IF b \in Buffers THEN [p EXCEPT !.out[b] = Append(@, x)] ELSE p

(* The parser state: what the rest of the line is for, the buffers so far, *)
(* and whether the parser goes on, has found the end marker or never       *)
(* advances again.                                                         *)
LineStates(d) ==
  IF d = "GDB" THEN {"start", "none", "cli", "data", "async", "program"}
  ELSE {"start", "cli", "arrow", "program", "prompt", "behind", "overwrite"}
ParserState(d) ==
  [line : LineStates(d), out : [Buffers -> Seq(Pieces)], status : {"RECEIVING", "DONE", "LOOPS"}]
AtStart(out) == [line |-> "start", out |-> out, status |-> "RECEIVING"]

-----------------------------------------------------------------------------
GdbPiece_MarkerWithoutPrefix(p, x) ==
  IF p.status # "RECEIVING" THEN p
  ELSE IF x \in {Newline, GdbPrompt} THEN [Copy(p, p.line, x) EXCEPT !.line = "start"]
  ELSE CASE p.line = "start" /\ x = GdbEnd -> [p EXCEPT !.status = "DONE"]
         [] p.line = "start" /\ x \in DOMAIN GdbPrefix -> [p EXCEPT !.line = GdbPrefix[x]]
         [] OTHER -> Copy(p, p.line, x)

(* GDB: the first character says where the line goes.                      *)
GdbPiece(p, x) ==
  IF p.status # "RECEIVING" THEN p
  ELSE IF x \in {Newline, GdbPrompt} THEN [Copy(p, p.line, x) EXCEPT !.line = "start"]
  ELSE IF p.line = "start" THEN
         CASE x \in DOMAIN GdbPrefix -> [p EXCEPT !.line = GdbPrefix[x]]
           [] x \in Texts \cup {Done} -> [Copy(p, "program", x) EXCEPT !.line = "program"]
           [] OTHER -> [p EXCEPT !.line = "none"]
  ELSE CASE p.line = "cli" /\ x = GdbEnd -> [p EXCEPT !.status = "DONE"]
         [] p.line = "cli" /\ x = Escape -> [p EXCEPT !.status = "LOOPS"]
         [] OTHER -> Copy(p, p.line, x)

-----------------------------------------------------------------------------
(* PDB at the beginning of a line.                                         *)
PdbLine(p, x) ==
  CASE x = Arrow -> [Copy(p, "cli", x) EXCEPT !.line = "arrow"]
    [] x = Where -> [Copy(p, "cli", x) EXCEPT !.line = "cli"]
    [] x = PdbPrompt -> [p EXCEPT !.line = "prompt"]
    [] x = PdbEnd -> [p EXCEPT !.status = "DONE"]
    [] x = Quote -> [p EXCEPT !.status = "LOOPS"]
    [] x = Newline -> Copy(p, "program", x)
    [] OTHER -> [Copy(p, "program", x) EXCEPT !.line = "program"]

(* Lines that begin a chunk or follow a newline are copied whole.  Behind a*)
(* prompt everything but the marker is copied character by character, until*)
(* a second prompt, where the character that follows it is overwritten by a*)
(* newline.                                                                *)
PdbPiece(p, x) ==
  IF p.status # "RECEIVING" THEN p
  ELSE CASE p.line = "start" -> PdbLine(p, x)
         [] p.line \in {"cli", "arrow", "program"} ->
              [Copy(p, IF p.line = "program" THEN "program" ELSE "cli", x)
                 EXCEPT !.line = IF x = Newline THEN "start" ELSE @]
         [] p.line \in {"prompt", "behind"} ->
              (CASE p.line = "prompt" /\ x = PdbEnd -> [p EXCEPT !.status = "DONE"]
                 [] x = PdbPrompt -> [p EXCEPT !.line = "overwrite"]
                 [] OTHER -> [Copy(p, "cli", x) EXCEPT !.line = IF x = Newline THEN "start"
                                                                ELSE "behind"])
         [] p.line = "overwrite" ->
              IF x \in {Newline, Null} THEN [p EXCEPT !.line = "start"]
              ELSE [Copy(p, "program", x) EXCEPT !.line = "program"]

-----------------------------------------------------------------------------
Piece(d, p, x) == IF d = "GDB" THEN GdbPiece(p, x) ELSE PdbPiece(p, x)
Parsed(d, chunk, out) ==
  LET from[i \in 1 .. Len(chunk) + 1] ==
        [p \in ParserState(d) |->
           IF i > Len(chunk) THEN p ELSE from[i + 1][Piece(d, p, chunk[i])]]
  IN from[1][AtStart(out)]

ParseGdb(chunk, out) == Parsed("GDB", chunk, out)
ParsePdb(chunk, out) == Parsed("PDB", chunk, out)

(* The loop over a "-> " line looks for a newline only, and the newline    *)
(* behind a second prompt may overwrite the null: PDB's parser goes on with*)
(* what earlier, longer reads left in reader_buffer.                       *)
RunsOver(chunk, out) ==
  LET p == ParsePdb(chunk, out)
  IN p.status = "RECEIVING" /\ p.line \in {"arrow", "overwrite"}

LeftBehind == {<<Null, Newline>>, <<Null, Newline, PdbEnd>>}

(* What parsing a chunk can come to.                                       *)
ParsePieces(d, chunk, out) ==
  IF d = "GDB" THEN {ParseGdb(chunk, out)}
  ELSE IF RunsOver(chunk, out) THEN {ParsePdb(chunk \o tail, out) : tail \in LeftBehind}
  ELSE {ParsePdb(chunk, out)}
=============================================================================
