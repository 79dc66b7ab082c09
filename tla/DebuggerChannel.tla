--------------------------- MODULE DebuggerChannel ---------------------------
(***************************************************************************)
(* The two pipes to the debugger process and the threads that talk over    *)
(* them: send_command(), insert_output_end_marker(), send_command_mp()     *)
(* (utilities.c), the sending part of send_debugger_command(),             *)
(* parse_debugger_output() and start_debugger().  A call of one of these   *)
(* is a script: commands and end markers to write, and Parse wherever      *)
(* parse_debugger_output() runs.  main runs the start-up script; send_key  *)
(* and the update thread run the scripts of the plugins and the windows,   *)
(* at the same time and with no lock, on one pair of pipes, one            *)
(* reader_buffer, one reader_state and one set of output buffers.  What    *)
(* comes back is the pieces OutputParser parses, cut anywhere by read().   *)
(***************************************************************************)
EXTENDS OutputParser, SequencesExt, FiniteSets

CONSTANTS Debuggers,        \* of {"GDB", "PDB"}
          Commands,         \* debugger commands
          Answers,          \* [Debuggers -> [Commands -> the lines of the answer]]
          Marker,           \* "echo >END" or p ">END"
          Parse,            \* a call of parse_debugger_output()
          main, send_key, update_thread,
          Users,            \* the threads of {send_key, update_thread} that are running
          StartScript,      \* [Debuggers -> what start_debugger() does]
          Scripts,          \* [Debuggers -> [Users -> sets of scripts]]
          MaxRestarts       \* bound on the restarts of the debugger

Threads == {main} \cup Users
Script == Seq(Commands \cup {Marker, Parse})

(* A line of an answer: how it begins ("program" for the program's own     *)
(* output) and what follows.                                               *)
LineBuffer == [k \in DOMAIN GdbPrefix \cup {Arrow, Where, Quote, "program"} |->
                 IF k \in DOMAIN GdbPrefix THEN GdbPrefix[k]
                 ELSE IF k \in {Arrow, Where} THEN "cli" ELSE "program"]
Line == [begins : DOMAIN LineBuffer, text : Texts \cup {Done, Escape}]

ASSUME ChannelAssumption ==
  /\ Debuggers \subseteq {"GDB", "PDB"} /\ Debuggers # {}
  /\ Users \subseteq {send_key, update_thread} /\ main \notin {send_key, update_thread}
  /\ {Marker, Parse} \cap Commands = {} /\ Marker # Parse
  /\ Answers \in [Debuggers -> [Commands -> Seq(Line)]]
  /\ StartScript \in [Debuggers -> Script]
  /\ Scripts \in [Debuggers -> [Users -> SUBSET Script]]
  /\ MaxRestarts \in Nat

Places(s, x) == {i \in 1 .. Len(s) : s[i] = x}

(* Whoever writes commands has them followed by an end marker, and parses  *)
(* as often as there are markers.                                          *)
ASSUME ScriptsAssumption ==
  \A d \in Debuggers :
    \A s \in {StartScript[d]} \cup UNION {Scripts[d][t] : t \in Users} :
      /\ Cardinality(Places(s, Marker)) = Cardinality(Places(s, Parse))
      /\ \A i \in 1 .. Len(s) : s[i] \in Commands => \E j \in i .. Len(s) : s[j] = Marker

(* The start-up waits for an answer.  A call sends its commands, one under *)
(* PDB, with an end marker behind them, and parses once.                   *)
ASSUME CallsAssumption ==
  \A d \in Debuggers :
    /\ Places(StartScript[d], Parse) # {}
    /\ \A t \in Users : \A s \in Scripts[d][t] :
         /\ Len(s) >= 2 /\ s[Len(s)] = Parse /\ s[Len(s) - 1] = Marker
         /\ \A i \in 1 .. Len(s) - 2 : s[i] \in Commands
         /\ d = "PDB" => Len(s) <= 3

(* A debugger begins its lines its own way.                                *)
ASSUME AnswersAssumption ==
  \A d \in Debuggers : \A c \in Commands : \A l \in ToSet(Answers[d][c]) :
    l.begins = "program" \/ (l.begins \in DOMAIN GdbPrefix <=> d = "GDB")

VARIABLES debugger,                  \* the one this process runs
          stdin, stdout,             \* the pipes: written and not yet read
          ready, reader_buffer, reader_state,
          buffers,                   \* cli_buffer, data_buffer, async_buffer, program_buffer
          script,                    \* the script each thread is executing
          left,                      \* and what is left of it
          step,                      \* where each thread is
          restarts,
          cut,                       \* history: a read() of this call, or the last one before
                                     \* it, ended inside an answer's line
          misread                    \* history: an end marker went with the rest of its chunk,
                                     \* or PDB's parser ran over the end of one

pipes == <<stdin, stdout>>
reader == <<reader_buffer, reader_state, buffers>>
history == <<cut, misread>>
vars == <<debugger, pipes, ready, reader, script, left, step, restarts, history>>

-----------------------------------------------------------------------------
(* GDB ends an answer with a result record; PDB writes an answer and the   *)
(* prompt behind it at once.                                               *)
PromptOf == IF debugger = "GDB" THEN GdbPrompt ELSE PdbPrompt
EndOf == IF debugger = "GDB" THEN GdbEnd ELSE PdbEnd

LinePieces(l) ==
  (IF l.begins = "program" THEN <<>> ELSE <<l.begins>>) \o <<l.text, Newline>>

AnswerPieces(c) ==
  (IF c # Marker
   THEN FlattenSeq([i \in DOMAIN Answers[debugger][c] |-> LinePieces(Answers[debugger][c][i])])
   ELSE IF debugger = "GDB" THEN <<"~", GdbEnd, Newline, "^", Done, Newline>>
   ELSE <<PdbEnd, Newline>>) \o <<PromptOf>>

WholeLines(chunk) ==
  chunk # <<>> => Last(chunk) \in IF debugger = "GDB" THEN {Newline, GdbPrompt} ELSE {PdbPrompt}

Init ==
  /\ debugger \in Debuggers
  /\ stdin = <<>> /\ stdout = <<PromptOf>>
  /\ ready = FALSE
  /\ reader_buffer = <<>> /\ reader_state = "DONE" /\ buffers = NoOutput
  /\ script = [t \in Threads |-> IF t = main THEN StartScript[debugger] ELSE <<>>]
  /\ left = script
  /\ step = [t \in Threads |-> IF t = main THEN "run" ELSE "idle"]
  /\ restarts = 0
  /\ cut = FALSE /\ misread = FALSE

Serving == step[main] = "idle"

-----------------------------------------------------------------------------
(* The debugger answers its commands one by one, each answer followed by a *)
(* prompt.                                                                 *)
Debugger ==
  /\ stdin # <<>>
  /\ stdin' = Tail(stdin)
  /\ stdout' = stdout \o AnswerPieces(Head(stdin))
  /\ UNCHANGED <<debugger, ready, reader, script, left, step, restarts, history>>

-----------------------------------------------------------------------------
(* A plugin or a window update calls.  send_key is created when the session*)
(* is up; so is the update thread, but only the first time.  A session     *)
(* that has lost count of its answers is followed no further (a bound).    *)
Call(t, s) ==
  /\ step[t] = "idle" /\ (Serving \/ (t = update_thread /\ restarts > 0)) /\ ~misread
  /\ script' = [script EXCEPT ![t] = s]
  /\ left' = [left EXCEPT ![t] = s]
  /\ step' = [step EXCEPT ![t] = "run"]
  /\ UNCHANGED <<debugger, pipes, ready, reader, restarts, history>>

(* send_command() and insert_output_end_marker()                           *)
Send(t) ==
  /\ step[t] = "run" /\ left[t] # <<>> /\ Head(left[t]) # Parse
  /\ stdin' = Append(stdin, Head(left[t]))
  /\ left' = [left EXCEPT ![t] = Tail(left[t])]
  /\ UNCHANGED <<debugger, stdout, ready, reader, script, step, restarts, history>>

Return(t) ==
  /\ step[t] = "run" /\ left[t] = <<>>
  /\ step' = [step EXCEPT ![t] = "idle"]
  /\ UNCHANGED <<debugger, pipes, ready, reader, script, left, restarts, history>>

BeginParse_KeepsBuffers(t) ==
  /\ step[t] = "run" /\ left[t] # <<>> /\ Head(left[t]) = Parse
  /\ reader_state' = "RECEIVING"
  /\ step' = [step EXCEPT ![t] = "read"]
  /\ cut' = (ready /\ ~WholeLines(reader_buffer))
  /\ UNCHANGED <<debugger, pipes, ready, reader_buffer, buffers, script, left, restarts, misread>>

(* The top of parse_debugger_output() empties the output buffers.          *)
BeginParse(t) ==
  /\ step[t] = "run" /\ left[t] # <<>> /\ Head(left[t]) = Parse
  /\ buffers' = NoOutput
  /\ reader_state' = "RECEIVING"
  /\ step' = [step EXCEPT ![t] = "read"]
  /\ cut' = (ready /\ ~WholeLines(reader_buffer))
  /\ UNCHANGED <<debugger, pipes, ready, reader_buffer, script, left, restarts, misread>>

(* read() blocks until there is output, and returns any part of it.  After *)
(* a restart a thread that is here reads the new pipe: every turn of the   *)
(* loop reads debugger->stdout_pipe again, and the old one is at its end.  *)
Read(t) ==
  /\ step[t] = "read"
  /\ \E n \in 1 .. Len(stdout) :
       /\ reader_buffer' = SubSeq(stdout, 1, n)
       /\ stdout' = SubSeq(stdout, n + 1, Len(stdout))
       /\ cut' = (cut \/ ~WholeLines(reader_buffer'))
  /\ step' = [step EXCEPT ![t] = "parse"]
  /\ UNCHANGED <<debugger, stdin, ready, reader_state, buffers, script, left, restarts, misread>>

EndMarkers(chunk) == Places(chunk, EndOf)

(* Until a prompt has been seen the whole chunk is misread.                *)
WaitReady(t) ==
  /\ step[t] = "parse" /\ ~ready
  /\ ready' = (PromptOf \in ToSet(reader_buffer))
  /\ step' = [step EXCEPT ![t] = "read"]
  /\ misread' = (misread \/ EndMarkers(reader_buffer) # {})
  /\ UNCHANGED <<debugger, pipes, reader, script, left, restarts, cut>>

ParseChunk_StateOfParser(t) ==
  /\ step[t] = "parse" /\ ready
  /\ \E p \in ParsePieces(debugger, reader_buffer, buffers) :
       buffers' = p.out /\ reader_state' = p.status
  /\ step' = [step EXCEPT ![t] = "state"]
  /\ UNCHANGED <<debugger, pipes, ready, reader_buffer, script, left, restarts, history>>

(* parse_debugger_output_gdb() or _pdb() on the shared reader_buffer.  A   *)
(* parser that does not advance keeps its thread.                          *)
ParseChunk(t) ==
  /\ step[t] = "parse" /\ ready
  /\ \E p \in ParsePieces(debugger, reader_buffer, buffers) :
       /\ buffers' = p.out
       /\ reader_state' = IF p.status = "DONE" THEN "DONE" ELSE reader_state
       /\ step' = [step EXCEPT ![t] = IF p.status = "LOOPS" THEN "loops" ELSE "state"]
  /\ misread' = \/ misread \/ Cardinality(EndMarkers(reader_buffer)) > 1
                \/ debugger = "PDB" /\ RunsOver(reader_buffer, buffers)
  /\ UNCHANGED <<debugger, pipes, ready, reader_buffer, script, left, restarts, cut>>

(* The switch on the shared reader_state: read on, or use the buffers.     *)
CheckState(t) ==
  /\ step[t] = "state"
  /\ step' = [step EXCEPT ![t] = IF reader_state = "DONE" THEN "use" ELSE "read"]
  /\ UNCHANGED <<debugger, pipes, ready, reader, script, left, restarts, history>>

(* The caller of parse_debugger_output() reads the buffers.                *)
Use(t) ==
  /\ step[t] = "use"
  /\ left' = [left EXCEPT ![t] = Tail(left[t])]
  /\ step' = [step EXCEPT ![t] = "run"]
  /\ UNCHANGED <<debugger, pipes, ready, reader, script, restarts, history>>

-----------------------------------------------------------------------------
Restart_KeepsPipes ==
  /\ Serving /\ send_key \in Users /\ step[send_key] # "idle" /\ restarts < MaxRestarts
  /\ restarts' = restarts + 1
  /\ ready' = FALSE
  /\ script' = [script EXCEPT ![main] = StartScript[debugger]]
  /\ left' = [left EXCEPT ![main] = StartScript[debugger]]
  /\ step' = [step EXCEPT ![main] = "run", ![send_key] = "idle"]
  /\ misread' = FALSE
  /\ UNCHANGED <<debugger, pipes, reader, cut>>

(* The user restarts while a plugin runs: send_key is cancelled wherever   *)
(* it is, the debugger is killed and start_debugger_proc() makes a new one *)
(* with new pipes.  The update thread is not told.                         *)
Restart ==
  /\ Serving /\ send_key \in Users /\ step[send_key] # "idle" /\ restarts < MaxRestarts
  /\ restarts' = restarts + 1
  /\ stdin' = <<>> /\ stdout' = <<PromptOf>>
  /\ ready' = FALSE
  /\ script' = [script EXCEPT ![main] = StartScript[debugger]]
  /\ left' = [left EXCEPT ![main] = StartScript[debugger]]
  /\ step' = [step EXCEPT ![main] = "run", ![send_key] = "idle"]
  /\ misread' = FALSE
  /\ UNCHANGED <<debugger, reader, cut>>

-----------------------------------------------------------------------------
ThreadStep(t) ==
  \/ Send(t) \/ Return(t) \/ BeginParse(t) \/ Read(t) \/ WaitReady(t) \/ ParseChunk(t)
  \/ CheckState(t) \/ Use(t)

Next ==
  \/ Debugger \/ Restart
  \/ \E t \in Threads : ThreadStep(t)
  \/ \E t \in Users : \E s \in Scripts[debugger][t] : Call(t, s)

Spec == Init /\ [][Next]_vars

(* The debugger answers every command, and a thread whose read() has data  *)
(* goes on.  Nobody is obliged to call or to restart.                      *)
FairSpec ==
  Spec /\ WF_vars(Debugger) /\ \A t \in Threads : WF_vars(ThreadStep(t))

-----------------------------------------------------------------------------
TypeOK ==
  /\ debugger \in Debuggers
  /\ stdin \in Seq(Commands \cup {Marker}) /\ stdout \in Seq(Pieces)
  /\ ready \in BOOLEAN
  /\ reader_buffer \in Seq(Pieces) /\ reader_state \in {"RECEIVING", "DONE"}
  /\ buffers \in [Buffers -> Seq(Pieces)]
  /\ script \in [Threads -> Script]
  /\ \A t \in Threads : IsSuffix(left[t], script[t])
  /\ step \in [Threads -> {"idle", "run", "read", "parse", "loops", "state", "use"}]
  /\ restarts \in 0 .. MaxRestarts
  /\ cut \in BOOLEAN /\ misread \in BOOLEAN

(* The lines a call's commands print, and whether the parsers get past     *)
(* them: a backslash sequence other than \n and \t in GDB's console output *)
(* and a quote at the beginning of a line of PDB's keep them for ever.     *)
OwnLines(t) ==
  FlattenSeq([i \in DOMAIN script[t] |->
    IF script[t][i] \in Commands THEN Answers[debugger][script[t][i]] ELSE <<>>])

Parseable(t) == \A l \in ToSet(OwnLines(t)) : l.text # Escape /\ l.begins # Quote

(* What lines put into a buffer, and the texts among the pieces.           *)
PrintedIn(b, lines) ==
  [i \in DOMAIN lines |-> IF LineBuffer[lines[i].begins] = b THEN lines[i].text ELSE Newline]
TextsOf(s) ==
  LET texts[i \in 0 .. Len(s)] ==
        IF i = 0 THEN <<>>
        ELSE IF s[i] \in Texts THEN Append(texts[i - 1], s[i])
        ELSE texts[i - 1]
  IN texts[Len(s)]

(* A caller finds in each buffer what its own commands printed for it, all *)
(* of it, in order and nothing else, however the output was cut into       *)
(* read()s, as long as none of them ended inside a line (under PDB: inside *)
(* an answer) and no end marker was lost before.  The result records of end*)
(* markers do not count.                                                   *)
OutputIsOwn ==
  \A t \in Users : step[t] = "use" /\ ~cut /\ ~misread =>
    \A b \in Buffers : TextsOf(buffers[b]) = TextsOf(PrintedIn(b, OwnLines(t)))

(* A session that is up and idle has a clean channel: no command without   *)
(* an answer, and neither output nor an end marker left to read.           *)
CleanWhenIdle ==
  (\A t \in Threads : step[t] = "idle") /\ ~misread =>
    stdin = <<>> /\ ToSet(stdout) \cap (Texts \cup {EndOf}) = {}

(* parse_debugger_output() returns to every caller whose answers the       *)
(* parsers get past, unless it is cancelled or a line was cut; and it waits*)
(* for the debugger to start, as parse_debugger_output.c:48 says, and then *)
(* start_debugger() returns, unless an end marker came in the chunk of the *)
(* first prompt or behind another marker.                                  *)
CallsReturn ==
  /\ \A t \in Users : (step[t] = "run" /\ Parseable(t)) ~> (step[t] = "idle" \/ cut)
  /\ step[main] = "run" ~> (step[main] = "idle" \/ cut \/ misread)
=============================================================================
