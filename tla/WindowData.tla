----------------------------- MODULE WindowData -----------------------------
(***************************************************************************)
(* From a key to what the windows show: send_debugger_command(), the       *)
(* plugins of get_form_input/, choose_layout() and the get_..._data()      *)
(* readers of update_window_data/, under GDB and under PDB.                *)
(*                                                                         *)
(* send_key lets the debugger move the program, parses the output into the *)
(* shared buffers and queues window updates; the update thread takes them  *)
(* in order, asks the debugger for each window's data over the same buffers*)
(* and copies what it then finds there.  The queue is the FIFO that        *)
(* UpdateQueue implements.  Writing a command and parsing its answer is    *)
(* exclusive here: what happens when two threads read the pipe at once is  *)
(* DebuggerChannel's subject.  Every place where the program stops has     *)
(* source and symbols, every window is in the layout, and one watchpoint is*)
(* set from the start, on a variable whose value takes one line; no key    *)
(* draws Wat before its first update does.                                 *)
(***************************************************************************)
EXTENDS Naturals, Sequences, SequencesExt

CONSTANTS Debuggers,          \* those of {"GDB", "PDB"} the program is started with
          Plugins,            \* those the user runs
          Places,             \* where the debugged program can stop
          File, Func,         \* [Places -> files], [Places -> functions]
          MainFile, MainFunc, None,
          ErrorWord,          \* those <<window, place>> whose data has the word "error"
                              \* in it: a local's name, a function, a file
          ModuleLevel,        \* places outside every function (PDB)
          Length,             \* [Places -> Nat]: length of the watched value there (PDB)
          Outputs,            \* pairs of what a command and the program print:
                              \* "output", or "error" for one with that word in it
          MaxCommands,        \* bound on the commands of a behaviour
          MaxQueuedUpdates    \* MAX_QUEUED_UPDATES (48 in the code)

Windows == {"Asm", "Brk", "Dbg", "LcV", "Prg", "Reg", "Src", "Stk", "Wat"}
Resumes == {"Con", "Fin", "Nxi", "Nxt", "Sti", "Stp", "Unt"}
Commands == Resumes \cup {"Kil", "Run", "Prm", "AtP"}

ASSUME DebuggerAssumption == Debuggers \subseteq {"GDB", "PDB"} /\ Plugins \subseteq Commands \cup {"Lay"}
ASSUME PlacesAssumption ==
  /\ None \notin Places /\ DOMAIN File = Places /\ DOMAIN Func = Places
  /\ \A p \in Places : File[p] # None /\ Func[p] # None
  /\ MainFile # None /\ MainFunc \notin {None, ""}
ASSUME DataAssumption ==
  ErrorWord \subseteq Windows \X (Places \cup {None}) /\ Length \in [Places -> Nat]
ASSUME OutputsAssumption == Outputs \subseteq {"output", "error"} \X {"output", "error"}
ASSUME BoundsAssumption ==       \* the five updates of the start fit
  MaxCommands \in Nat /\ MaxQueuedUpdates \in Nat /\ MaxQueuedUpdates >= 5

VARIABLES debugger,               \* debugger->index
          at,                     \* where the program is, None when it does not run
          said,                   \* what each command printed (history)
          key,                    \* send_key: "idle", "sent" or "parsed"
          queue,                  \* update_queue
          upd,                    \* the update the update thread is at
          buffers,                \* cli_buffer, program_buffer, data_buffer
          new_data, new_run,
          curr_plugin_index, curr_func,
          main_src_path,          \* main_src_path_buffer, None while first_run
          win,                    \* what the windows show
          wat_lines,              \* the text for which the lines of Wat were made, None
                                  \* while buff_data->changed is as it was set up (PDB)
          refreshed,              \* windows queued since the program moved (history)
          hurried                 \* a command came before the last one was shown (history)

program == <<debugger, at, said>>
sender == <<key, new_data, refreshed, hurried>>
reader == <<upd, curr_func, main_src_path, win, wat_lines>>
vars == <<program, sender, reader, queue, buffers, new_run, curr_plugin_index>>

-----------------------------------------------------------------------------
(* What the buffers and windows hold: the output of command id, a reply    *)
(* about the program at a place, an error message, or nothing.             *)
Text(of, place, id) == [of |-> of, at |-> place, id |-> id]
Nothing == Text("", None, 0)
Error == Text("error", None, 0)
NewRun == Text("<New run>", None, 0)

(* strstr (..., "error")                                                   *)
HasError(text) == text.of = "error" \/ <<text.of, text.at>> \in ErrorWord

Empty == [cli |-> Nothing, program |-> Nothing, data |-> Nothing]
Into(buffer, text) == [Empty EXCEPT ![buffer] = text]

Gdb == debugger = "GDB"
first_run == main_src_path = None
Crashed == upd.step = "crashed"
Quiet == queue = <<>> /\ upd.step = "idle"
AtRest == Quiet /\ key = "idle"

NoUpdate == [window |-> None, step |-> "idle", killing |-> FALSE]

(* start_program(): the debugger is up and its program does not run yet    *)
(* (PDB stops at the first line).  start_debugger() announces its output   *)
(* and queues Dbg; what follows it leaves its own output in the buffers.   *)
Init ==
  /\ debugger \in Debuggers
  /\ at \in IF Gdb THEN {None} ELSE Places
  /\ said = <<>> /\ key = "idle"
  /\ queue = <<"Dbg", "Wat", "Brk", "Src", "Asm">>
  /\ upd = NoUpdate
  /\ buffers \in {Empty, Into("cli", Text("start", None, 0))}
  /\ new_data = [w \in {"Dbg", "Prg"} |-> w = "Dbg"] /\ new_run = TRUE
  /\ curr_plugin_index = None /\ curr_func = None /\ main_src_path = None
  /\ win = [w \in Windows |-> IF w \in {"Dbg", "Prg"} THEN <<>> ELSE Nothing]
  /\ wat_lines = None
  /\ refreshed = {} /\ hurried = FALSE

-----------------------------------------------------------------------------
(* send_key                                                                *)

(* The arguments of the update_windows() call that ends each plugin.       *)
CommandBatch == <<"Dbg", "Prg", "Asm", "Brk", "LcV", "Reg", "Stk", "Wat", "Src">>
PromptBatch == <<"Dbg", "Prg", "Asm", "Brk", "LcV", "Reg", "Wat", "Src">>
UntilBatch == <<"Dbg", "Prg", "Src", "Asm", "Brk", "LcV", "Reg", "Wat">>
AttachBatch == <<"Dbg">>
LayoutBatch == <<"Dbg", "Prg", "Src", "Asm", "Brk", "LcV", "Reg", "Stk", "Wat">>

Batch(plugin) ==
  CASE plugin = "Prm" -> PromptBatch
    [] plugin = "Unt" -> UntilBatch
    [] plugin = "AtP" -> AttachBatch
    [] OTHER -> CommandBatch

(* Asm asks for the function that the last Src update found: it is up to   *)
(* date only where it comes after Src.                                     *)
UpToDate(batch) ==
  {w \in ToSet(batch) : w = "Asm" =>
     \E i, j \in DOMAIN batch : i < j /\ batch[i] = "Src" /\ batch[j] = "Asm"}

(* Where a command can leave the program; Kil restarts it under PDB.       *)
Moves(plugin) ==
  IF ~Gdb THEN IF plugin = "AtP" THEN {at} ELSE Places
  ELSE CASE plugin = "Kil" -> {None}
         [] plugin = "AtP" -> {at} \cup Places
         [] plugin \in Resumes /\ at = None -> {None}
         [] OTHER -> Places \cup {None}

(* get_form_input(): what was typed, or nothing if the form was left.      *)
FormInput == {"", "input"}

(* The command is written and the debugger carries it out.  Its output may *)
(* have the word "error" in it; the program need not run and print, and a  *)
(* process that was attached prints elsewhere.                             *)
Send(plugin, places) ==
  /\ plugin \in Plugins
  /\ key = "idle" /\ ~Crashed /\ Len(said) < MaxCommands
  /\ at' \in places
  /\ \E output \in Outputs :
       said' = Append(said,
                 [plugin |-> plugin,
                  cli |-> Text(output[1], None, Len(said) + 1),
                  program |-> IF plugin = "AtP" \/ (at = None /\ at' = None) THEN Nothing
                              ELSE Text(output[2], None, Len(said) + 1)])
  /\ new_run' = (new_run \/ (Gdb /\ plugin = "Run"))
  /\ curr_plugin_index' = plugin
  /\ hurried' = (hurried \/ ~Quiet)
  /\ refreshed' = {}
  /\ key' = "sent"
  /\ UNCHANGED <<debugger, new_data, reader, queue, buffers>>

(* PDB has no Nxi and no Sti.                                              *)
SendDebuggerCommand ==
  \E plugin \in Commands \ {"Prm", "Unt", "AtP"} :
    (Gdb \/ plugin \notin {"Nxi", "Sti"}) /\ Send(plugin, Moves(plugin))

(* Without an input Prm and Unt do nothing; AtP sends a command that fails.*)
RunCustomCommand == \E input \in FormInput : input # "" /\ Send("Prm", Moves("Prm"))
ExecuteUntil == \E input \in FormInput : input # "" /\ Send("Unt", Moves("Unt"))
AttachToProcess ==
  \E input \in FormInput : Send("AtP", IF input = "" THEN {at} ELSE Moves("AtP"))

(* parse_debugger_output(): the buffers are emptied, then filled.          *)
Parse ==
  /\ key = "sent" /\ ~Crashed
  /\ buffers' = [cli |-> Last(said).cli, program |-> Last(said).program, data |-> Nothing]
  /\ key' = "parsed"
  /\ UNCHANGED <<program, new_data, refreshed, hurried, reader, queue, new_run, curr_plugin_index>>

Fits(batch) == Len(queue) + Len(batch) <= MaxQueuedUpdates

Announce_NoWait ==
  LET plugin == Last(said).plugin IN
  /\ key = "parsed" /\ ~Crashed
  /\ new_data' = [w \in {"Dbg", "Prg"} |-> new_data[w] \/ w = "Dbg" \/ plugin # "AtP"]
  /\ queue' = queue \o Batch(plugin)
  /\ refreshed' = UpToDate(Batch(plugin))
  /\ key' = "idle"
  /\ UNCHANGED <<program, hurried, reader, buffers, new_run, curr_plugin_index>>

(* The output is announced to Dbg and, but for AtP, to Prg; the updates are*)
(* queued.                                                                 *)
Announce ==
  LET plugin == Last(said).plugin IN
  /\ key = "parsed" /\ ~Crashed /\ Fits(Batch(plugin))
  /\ new_data' = [w \in {"Dbg", "Prg"} |-> new_data[w] \/ w = "Dbg" \/ plugin # "AtP"]
  /\ queue' = queue \o Batch(plugin)
  /\ refreshed' = UpToDate(Batch(plugin))
  /\ key' = "idle"
  /\ UNCHANGED <<program, hurried, reader, buffers, new_run, curr_plugin_index>>

(* choose_layout() with one of the listed layouts chosen: every window is  *)
(* drawn again.                                                            *)
ChooseLayout ==
  /\ "Lay" \in Plugins /\ key = "idle" /\ ~Crashed /\ Fits(LayoutBatch)
  /\ queue' = queue \o LayoutBatch
  /\ refreshed' = refreshed \cup UpToDate(LayoutBatch)
  /\ curr_plugin_index' = "Lay"
  /\ UNCHANGED <<program, key, new_data, hurried, reader, buffers, new_run>>

-----------------------------------------------------------------------------
(* The update thread                                                       *)

Dequeue ==
  /\ upd.step = "idle" /\ queue # <<>>
  /\ upd' = [window |-> Head(queue), step |-> "ask", killing |-> FALSE]
  /\ queue' = Tail(queue)
  /\ curr_plugin_index' = Head(queue)
  /\ UNCHANGED <<program, sender, curr_func, main_src_path, win, wat_lines, buffers, new_run>>

(* Dbg and Prg take what is there; PDB knows no assembly and no registers. *)
Asks(w) == w \notin {"Dbg", "Prg"} /\ (Gdb \/ w \notin {"Asm", "Reg"})

(* disassemble <function>: the arrow is in it if the program is.           *)
Disassembly(func) == Text(func, IF at # None /\ Func[at] = func THEN at ELSE None, 0)

(* What the debugger answers to the query of each window, and to which of  *)
(* the buffers parse_debugger_output() copies it.                          *)
Answer(w) ==
  IF ~Gdb THEN Into(IF w \in {"Src", "Stk"} THEN "cli" ELSE "program", Text(w, at, 0))
  ELSE CASE w = "Asm" -> Into("cli", Disassembly(IF curr_func = None THEN MainFunc ELSE curr_func))
         [] w \in {"Reg", "Wat"} /\ at # None -> Into("cli", Text(w, at, 0))
         [] w \in {"LcV", "Stk"} /\ at # None -> Into("data", Text(w, at, 0))
         [] w \in {"LcV", "Stk", "Reg", "Wat"} /\ at = None -> Into("data", Error)
         [] w = "Brk" -> Into("data", Text(w, None, 0))
         [] OTHER -> Into("data", Text("threads", at, 0))

Ask ==
  /\ upd.step = "ask" /\ Asks(upd.window) /\ key # "sent"
  /\ buffers' = Answer(upd.window)
  /\ upd' = [upd EXCEPT !.step = "use", !.killing = (curr_plugin_index = "Kil")]
  /\ UNCHANGED <<program, sender, curr_func, main_src_path, win, wat_lines, queue, new_run, curr_plugin_index>>

(* The update thread is about to read the buffers for window w.            *)
Using(w) == upd.window = w /\ upd.step = IF Asks(w) THEN "use" ELSE "ask"

Show(w, text) == win' = [win EXCEPT ![w] = text] /\ upd' = NoUpdate
Crash == upd' = [NoUpdate EXCEPT !.step = "crashed"] /\ UNCHANGED win

Used == UNCHANGED <<program, key, refreshed, hurried, queue, curr_plugin_index>>
Looked == Used /\ UNCHANGED <<new_data, new_run, curr_func, main_src_path, wat_lines>>

(* An empty text adds nothing to a window.                                 *)
Appended(window, text) == IF text = Nothing THEN window ELSE Append(window, text)

UpdateDbg_KeepsNewData ==
  /\ Using("Dbg")
  /\ Show("Dbg", IF new_data["Dbg"] /\ ~(Gdb /\ HasError(buffers.cli))
                 THEN Appended(win["Dbg"], buffers.cli) ELSE win["Dbg"])
  /\ Looked /\ UNCHANGED buffers

UpdateDbg ==
  /\ Using("Dbg")
  /\ Show("Dbg", IF new_data["Dbg"] /\ ~(Gdb /\ HasError(buffers.cli))
                 THEN Appended(win["Dbg"], buffers.cli) ELSE win["Dbg"])
  /\ new_data' = [new_data EXCEPT !["Dbg"] = FALSE]
  /\ Used /\ UNCHANGED <<buffers, new_run, curr_func, main_src_path, wat_lines>>

UpdatePrg ==
  /\ Using("Prg")
  /\ LET copies == new_data["Prg"] /\ ~HasError(buffers.program)
         marked == IF Gdb /\ new_run THEN Append(win["Prg"], NewRun) ELSE win["Prg"]
     IN  /\ Show("Prg", IF copies THEN Appended(marked, buffers.program) ELSE win["Prg"])
         /\ new_run' = (new_run /\ ~(Gdb /\ copies))
  /\ new_data' = [new_data EXCEPT !["Prg"] = FALSE]
  /\ Used /\ UNCHANGED <<buffers, curr_func, main_src_path, wat_lines>>

(* Asm and Reg empty their buffer by its position only: with nothing to    *)
(* copy the old text stays.  So does it after an error, which Asm looks for*)
(* among the data and Reg in the text itself.                              *)
Replaced(w) ==
  LET checked == IF w = "Asm" THEN buffers.data ELSE buffers.cli
  IN  IF HasError(checked) \/ buffers.cli = Nothing THEN win[w] ELSE buffers.cli

UpdateAsmReg ==
  \E w \in {"Asm", "Reg"} :
    /\ Using(w)
    /\ Show(w, IF Gdb THEN Replaced(w) ELSE Text("no data", None, 0))
    /\ Looked /\ UNCHANGED buffers

(* What is found by its keys: in any other answer there is nothing.  The   *)
(* readers of GDB take one with the word "error" in it for an error, that  *)
(* of PDB's locals leaves out those of a script, which begin with __name__.*)
Found(w, text) ==
  IF text.of # w \/ (IF Gdb THEN HasError(text) ELSE w = "LcV" /\ text.at \in ModuleLevel)
  THEN Nothing ELSE text

UpdateLcV ==
  /\ Using("LcV")
  /\ Show("LcV", Found("LcV", IF Gdb THEN buffers.data ELSE buffers.program))
  /\ Looked /\ UNCHANGED buffers

UpdateStk ==
  /\ Using("Stk")
  /\ Show("Stk", IF Gdb THEN Found("Stk", buffers.data)
                 ELSE IF buffers.cli = Nothing THEN win["Stk"] ELSE buffers.cli)
  /\ buffers' = IF Gdb THEN buffers ELSE [buffers EXCEPT !.cli = Nothing]
  /\ Looked

(* What is left in a window whose lines were made for another text.        *)
Cut(text) == [text EXCEPT !.of = "cut"]

(* An answer without breakpoints has no rows to count, and the reader      *)
(* follows the NULL of strstr().  After one with the word "error" in it    *)
(* changed is not set: the buffer is empty and the old lines point into it.*)
UpdateBrk ==
  /\ Using("Brk")
  /\ IF ~Gdb THEN Show("Brk", Found("Brk", buffers.program))
     ELSE IF HasError(buffers.data) THEN Show("Brk", Cut(win["Brk"]))
     ELSE IF buffers.data.of # "Brk" THEN Crash
     ELSE Show("Brk", buffers.data)
  /\ Looked /\ UNCHANGED buffers

(* PDB's reader never sets changed: lines are made the first time only, and*)
(* a later text is shown through them, which end after the last character  *)
(* and the newline of the first one.                                       *)
Through(lines, text) ==
  IF \/ lines = None \/ text = lines
     \/ text.of = "Wat" /\ lines.of = "Wat" /\ Length[text.at] <= Length[lines.at] + 1
  THEN text ELSE Cut(text)

UpdateWat_IgnoresError ==
  /\ Using("Wat")
  /\ wat_lines' = IF ~Gdb /\ wat_lines = None THEN buffers.program ELSE wat_lines
  /\ IF ~Gdb THEN Show("Wat", Through(wat_lines, buffers.program))
     ELSE \/ Show("Wat", buffers.cli)
          \/ buffers.cli.of # "Wat" /\ Crash
  /\ buffers' = Empty
  /\ Used /\ UNCHANGED <<new_data, new_run, curr_func, main_src_path>>

(* Without an error the value is what follows "=", and an output with none *)
(* is followed past NULL.                                                  *)
UpdateWat ==
  /\ Using("Wat")
  /\ wat_lines' = IF ~Gdb /\ wat_lines = None THEN buffers.program ELSE wat_lines
  /\ IF ~Gdb THEN Show("Wat", Through(wat_lines, buffers.program))
     ELSE IF HasError(buffers.data) THEN Show("Wat", Text("none", None, 0))
     ELSE \/ Show("Wat", buffers.cli)
          \/ buffers.cli.of # "Wat" /\ Crash
  /\ buffers' = IF Gdb THEN [buffers EXCEPT !.cli = Nothing, !.data = Nothing]
                       ELSE [buffers EXCEPT !.cli = Nothing, !.program = Nothing]
  /\ Used /\ UNCHANGED <<new_data, new_run, curr_func, main_src_path>>

-----------------------------------------------------------------------------
(* The Src window: path, line and function.                                *)

(* The path that is shown, and the first one of all becomes the main path. *)
(* If the plugin index is Kil by now, the main path is shown, and on the   *)
(* first run the path to copy is NULL.                                     *)
ShowSource(path, line, is_running) ==
  IF upd.killing /\ first_run THEN Crash /\ UNCHANGED main_src_path
  ELSE /\ Show("Src", Text(IF ~upd.killing /\ (is_running \/ first_run) THEN path
                           ELSE main_src_path, line, 0))
       /\ main_src_path' = IF first_run THEN path ELSE main_src_path

Stopped == buffers.data.of = "threads" /\ buffers.data.at # None

UpdateSrcRunning_KeepsFunc ==
  /\ Gdb /\ Using("Src") /\ Stopped
  /\ curr_func' = IF curr_func = None THEN Func[buffers.data.at] ELSE curr_func
  /\ ShowSource(File[buffers.data.at], buffers.data.at, TRUE)
  /\ Used /\ UNCHANGED <<buffers, new_data, new_run, wat_lines>>

UpdateSrcRunning ==
  /\ Gdb /\ Using("Src") /\ Stopped
  /\ curr_func' = Func[buffers.data.at]
  /\ ShowSource(File[buffers.data.at], buffers.data.at, TRUE)
  /\ Used /\ UNCHANGED <<buffers, new_data, new_run, wat_lines>>

(* No threads, or no such answer: the list of source files is asked for.   *)
AskFiles ==
  /\ Gdb /\ Using("Src") /\ ~Stopped /\ key # "sent"
  /\ buffers' = Into("data", Text("files", None, 0))
  /\ upd' = [upd EXCEPT !.step = "files"]
  /\ Looked /\ UNCHANGED win

UpdateSrcNotRunning_KeepsFunc ==
  /\ upd.step = "files"
  /\ curr_func' = curr_func
  /\ IF buffers.data.of = "files" THEN ShowSource(MainFile, None, FALSE)
     ELSE Show("Src", win["Src"]) /\ UNCHANGED main_src_path
  /\ Used /\ UNCHANGED <<buffers, new_data, new_run, wat_lines>>

UpdateSrcNotRunning ==
  /\ upd.step = "files"
  /\ curr_func' = None
  /\ IF buffers.data.of = "files" THEN ShowSource(MainFile, None, FALSE)
     ELSE Show("Src", win["Src"]) /\ UNCHANGED main_src_path
  /\ Used /\ UNCHANGED <<buffers, new_data, new_run, wat_lines>>

(* PDB: a place is looked for in whatever was printed, "\n> " and all.     *)
UpdateSrcPdb ==
  /\ ~Gdb /\ Using("Src")
  /\ \/ Show("Src", Text(File[at], at, 0))
     \/ buffers.cli.of # "Src" /\ Crash
  /\ Looked /\ UNCHANGED buffers

-----------------------------------------------------------------------------
UpdateThread ==
  \/ Dequeue \/ Ask \/ UpdateDbg \/ UpdatePrg \/ UpdateAsmReg \/ UpdateLcV \/ UpdateStk
  \/ UpdateBrk \/ UpdateWat \/ UpdateSrcRunning \/ AskFiles \/ UpdateSrcNotRunning
  \/ UpdateSrcPdb

Next ==
  \/ SendDebuggerCommand \/ RunCustomCommand \/ ExecuteUntil \/ AttachToProcess
  \/ Parse \/ Announce \/ ChooseLayout
  \/ UpdateThread

Spec == Init /\ [][Next]_vars

-----------------------------------------------------------------------------
Origins ==
  Windows \cup {File[p] : p \in Places} \cup {Func[p] : p \in Places}
  \cup {MainFile, MainFunc, None, "", "start", "cut", "output", "error", "none", "no data", "threads",
        "files", "<New run>"}
Texts == [of : Origins, at : Places \cup {None}, id : 0 .. MaxCommands]

TypeOK ==
  /\ debugger \in Debuggers /\ at \in Places \cup {None}
  /\ said \in Seq([plugin : Commands, cli : Texts, program : Texts])
  /\ key \in {"idle", "sent", "parsed"}
  /\ queue \in Seq(Windows) /\ Len(queue) <= MaxQueuedUpdates
  /\ upd \in [window : Windows \cup {None}, killing : BOOLEAN,
              step : {"idle", "ask", "use", "files", "crashed"}]
  /\ buffers \in [cli : Texts, program : Texts, data : Texts]
  /\ new_data \in [{"Dbg", "Prg"} -> BOOLEAN] /\ new_run \in BOOLEAN
  /\ curr_plugin_index \in Windows \cup Plugins \cup {None}
  /\ curr_func \in {Func[p] : p \in Places} \cup {None}
  /\ main_src_path \in {File[p] : p \in Places} \cup {MainFile, None}
  /\ DOMAIN win = Windows /\ \A w \in {"Dbg", "Prg"} : win[w] \in Seq(Texts)
  /\ \A w \in Windows \ {"Dbg", "Prg"} : win[w] \in Texts
  /\ wat_lines \in Texts \cup {None}
  /\ refreshed \subseteq Windows /\ hurried \in BOOLEAN

(* What a window shows of a program that is stopped at a place: not the    *)
(* locals and frames that its reader takes for something else, and of a    *)
(* value under PDB as much as there is room for in the line of the first.  *)
Right(w) ==
  CASE w = "Asm" -> Disassembly(Func[at])
    [] w = "Src" -> Text(File[at], at, 0)
    [] w = "LcV" \/ (w = "Stk" /\ Gdb) -> Found(w, Text(w, at, 0))
    [] w = "Wat" /\ ~Gdb -> Through(wat_lines, Text(w, at, 0))
    [] OTHER -> Text(w, at, 0)

ShowsPlace ==
  {"LcV", "Stk", "Src", "Wat"} \cup
  (IF ~Gdb THEN {} ELSE IF <<"Reg", at>> \in ErrorWord THEN {"Asm"} ELSE {"Asm", "Reg"})

(* However fast the keys come: at rest, every window that was updated since*)
(* the program stopped shows the place where it stopped, also the assembly *)
(* if the source was updated before it.  It is not so under GDB of a place *)
(* whose data has the word "error" in it, where locals and stack are empty *)
(* and the registers are old ones; under PDB there are no locals of a      *)
(* script's own level, and a value more than one character longer than the *)
(* first one in Wat is cut.                                                *)
ShowsProgram ==
  AtRest /\ at # None => \A w \in refreshed \cap ShowsPlace : win[w] = Right(w)

(* When no program runs the windows do not show one: main's file and       *)
(* assembly, no locals, no stack, no value.  A user who started it before  *)
(* the first Src update has another main file, and Reg keeps its registers.*)
ShowsNoProgram ==
  AtRest /\ at = None =>
    /\ \A w \in refreshed \cap {"LcV", "Stk"} : win[w] = Nothing
    /\ "Wat" \in refreshed => win["Wat"].of = "none"
    /\ "Asm" \in refreshed => win["Asm"] = Disassembly(MainFunc)
    /\ "Src" \in refreshed /\ ~hurried => win["Src"] = Text(MainFile, None, 0)

(* What the first n commands are to leave in Dbg and in Prg.               *)
ConsoleShown(n) == {said[i].cli : i \in {j \in 1 .. n : ~Gdb \/ said[j].cli.of = "output"}}
ProgramShown(n) == {said[i].program : i \in {j \in 1 .. n : said[j].program.of = "output"}}

(* A window has these outputs of commands and no others, as they came.     *)
OnceInOrder(window, texts) ==
  LET shown == {i \in DOMAIN window : window[i].id # 0}
  IN  /\ {window[i] : i \in shown} = texts
      /\ \A i, j \in shown : i < j => window[i].id < window[j].id

(* Of a user who waits for the windows, every command's output is in Dbg   *)
(* and what the program printed in Prg, once and in order, whatever else   *)
(* went through the buffers, and between two outputs in Prg is a mark if   *)
(* and only if there was a Run; an output with "error" in it is left out.  *)
OutputShownOnce ==
  LET Runs(id) == {i \in 1 .. id : said[i].plugin = "Run"}
      Prg == win["Prg"]
  IN  ~hurried =>
        /\ AtRest => /\ OnceInOrder(win["Dbg"], ConsoleShown(Len(said)))
                     /\ OnceInOrder(win["Prg"], ProgramShown(Len(said)))
        /\ Gdb => \A i, j \in DOMAIN Prg : i < j /\ Prg[i].id # 0 /\ Prg[j].id # 0 =>
             (Runs(Prg[i].id) # Runs(Prg[j].id) <=> \E k \in i .. j : Prg[k] = NewRun)

(* No reader follows a NULL of strstr() unless a command's output replaced *)
(* the answer it asked for.                                                *)
ReadersFindAnswers == Crashed => hurried
=============================================================================
