--------------------------- MODULE WindowDataProofs ---------------------------
(***************************************************************************)
(* Proofs about WindowData for every program, every set of plugins, any    *)
(* number of commands and any order of keys and updates.                   *)
(***************************************************************************)
EXTENDS WindowData, SequenceTheorems, TLAPS

Active == upd.step \in {"ask", "use", "files"}
Queued(w) == w \in ToSet(queue)
SrcBeforeAsm(q) == \E i, j \in DOMAIN q : i < j /\ q[i] = "Src" /\ q[j] = "Asm"

(* The update of w is under way and the debugger's answer, if there is one *)
(* yet, is about the program as it is.                                     *)
Fresh(w) ==
  /\ upd.window = w
  /\ \/ upd.step = "ask" /\ curr_plugin_index # "Kil"
     \/ upd.step = "use" /\ ~upd.killing /\ buffers = Answer(w)
     \/ /\ upd.step = "files" /\ ~upd.killing
        /\ at = None /\ buffers = Into("data", Text("files", None, 0))

(* What a window shows of the program, running or not.                     *)
FuncHere == IF at = None THEN None ELSE Func[at]
Target(w) ==
  IF at # None THEN Right(w)
  ELSE CASE w = "Wat" -> Text("none", None, 0)
         [] w = "Asm" -> Disassembly(MainFunc)
         [] w = "Src" -> Text(MainFile, None, 0)
         [] OTHER -> Nothing
Told ==
  IF at # None THEN ShowsPlace
  ELSE {"LcV", "Stk", "Wat", "Asm"} \cup (IF hurried THEN {} ELSE {"Src"})

(* A user who waits finds nothing under way and disturbs no answer.        *)
Waited ==
  ~hurried => /\ ~Crashed
              /\ Active => Fresh(upd.window)
              /\ key # "idle" => Quiet

(* The first source to be shown is main's, if the user waits for it.       *)
MainFirst ==
  ~hurried /\ Gdb => IF first_run THEN at = None /\ (Queued("Src") \/ Fresh("Src"))
                     ELSE main_src_path = MainFile

(* Between two commands every window that was updated shows the program,   *)
(* is being brought up to date or is still queued ...                      *)
Refreshing ==
  /\ key # "idle" => refreshed = {}
  /\ ~Crashed => \A w \in refreshed \cap Told :
       \/ Queued(w) \/ Fresh(w)
       \/ win[w] = Target(w) /\ ~(Active /\ upd.window = w)

(* ... and the function whose assembly is asked for is the one where the   *)
(* program is, or the source that is queued before Asm will tell.          *)
FuncKnown ==
  ~Crashed /\ Gdb /\ "Asm" \in refreshed =>
    \/ SrcBeforeAsm(queue)
    \/ Queued("Asm") /\ Fresh("Src")
    \/ curr_func = FuncHere /\ (Active /\ upd.window = "Src" => Fresh("Src"))

(* What a command says carries its number, and AtP's program prints        *)
(* elsewhere.                                                              *)
SaidIs ==
  \A i \in DOMAIN said :
    /\ said[i].cli \in {Text("output", None, i), Text("error", None, i)}
    /\ said[i].program \in {Nothing, Text("output", None, i), Text("error", None, i)}
    /\ said[i].plugin = "AtP" => said[i].program = Nothing

(* The updates to come begin with Dbg, or with Prg behind it at most.      *)
DbgNext ==
  \/ Active /\ upd.window = "Dbg"
  \/ ~Active /\ Len(queue) >= 1 /\ queue[1] = "Dbg"
PrgNext ==
  \/ Active /\ upd.window = "Prg"
  \/ Active /\ upd.window = "Dbg" /\ Len(queue) >= 1 /\ queue[1] = "Prg"
  \/ ~Active /\ Len(queue) >= 1 /\ queue[1] = "Prg"
  \/ ~Active /\ Len(queue) >= 2 /\ queue[1] = "Dbg" /\ queue[2] = "Prg"

(* Until Dbg and Prg have taken the output, the buffers hold it, and no    *)
(* update that asks for another comes first.                               *)
OutputWaits ==
  ~hurried =>
    /\ key # "idle" => ~new_data["Dbg"] /\ ~new_data["Prg"]
    /\ new_data["Dbg"] => DbgNext
    /\ new_data["Prg"] => PrgNext /\ said # <<>>
    /\ key = "parsed" \/ new_data["Dbg"] \/ new_data["Prg"] =>
         IF said = <<>> THEN buffers.cli.id = 0 /\ buffers.program.id = 0
         ELSE /\ buffers.cli = said[Len(said)].cli
              /\ buffers.program = said[Len(said)].program

(* How many commands' outputs a window has.                                *)
Heard(w) == IF key # "idle" \/ new_data[w] THEN Len(said) - 1 ELSE Len(said)
OutputShown ==
  ~hurried => /\ OnceInOrder(win["Dbg"], ConsoleShown(Heard("Dbg")))
              /\ OnceInOrder(win["Prg"], ProgramShown(Heard("Prg")))

(* A Run since an output is marked behind it, or is still to be marked.    *)
RunIn(i, j) == \E r \in i + 1 .. j : said[r].plugin = "Run"
MarkIn(window, i, j) == \E k \in i .. j : window[k] = NewRun
Marked(window, still) ==
  LET outputs == {i \in DOMAIN window : window[i].id # 0}
  IN  /\ \A i, j \in outputs :
           i < j => (RunIn(window[i].id, window[j].id) <=> MarkIn(window, i, j))
      /\ \A i \in outputs :
           RunIn(window[i].id, Len(said)) <=> (still \/ MarkIn(window, i, Len(window)))
RunsMarked == ~hurried /\ Gdb => Marked(win["Prg"], new_run)

OutputInv == SaidIs /\ OutputWaits /\ OutputShown /\ RunsMarked

(* PDB's program always runs.                                              *)
PdbRuns == ~Gdb => at # None

(* What is parsed was said, what is updated is a window, and the files are *)
(* those of GDB for the source window.                                     *)
Begun ==
  /\ key # "idle" => said # <<>>
  /\ Active => upd.window \in Windows
  /\ upd.step = "files" => Gdb /\ upd.window = "Src"

(* The inductive invariant.                                                *)
WindowInv == TypeOK /\ PdbRuns /\ Begun /\ Waited /\ MainFirst /\ Refreshing /\ FuncKnown

-----------------------------------------------------------------------------
(* Texts, buffers and what the debugger answers                            *)

Buffers == [cli : Texts, program : Texts, data : Texts]

(* A text made of an origin, a place and the number of a command is one.   *)
LEMMA TextTyped ==
  ASSUME NEW of \in Origins, NEW place \in Places \cup {None}, NEW id \in 0 .. MaxCommands
  PROVE  Text(of, place, id) \in Texts
BY DEF Text, Texts

(* The parts of a text.                                                    *)
LEMMA TextIs ==
  ASSUME NEW of, NEW place, NEW id
  PROVE  Text(of, place, id).of = of /\ Text(of, place, id).at = place /\ Text(of, place, id).id = id
BY DEF Text

LEMMA NothingIs == Nothing.of = "" /\ Nothing.id = 0 /\ NewRun.of = "<New run>" /\ NewRun.id = 0
BY DEF Nothing, NewRun, Text

(* The words the program prints itself are origins, and so are windows,    *)
(* files and functions.                                                    *)
LEMMA OriginsAre ==
  /\ Windows \subseteq Origins
  /\ {"", "start", "cut", "output", "error", "none", "no data", "threads", "files", "<New run>"}
       \subseteq Origins
  /\ \A p \in Places : File[p] \in Origins /\ Func[p] \in Origins
  /\ MainFile \in Origins /\ MainFunc \in Origins /\ None \in Origins
<1>1. Windows \subseteq Origins
  BY DEF Origins
<1>2. {"", "start", "cut", "output", "error", "none", "no data", "threads", "files", "<New run>"}
        \subseteq Origins
  BY DEF Origins
<1>3. \A p \in Places : File[p] \in Origins /\ Func[p] \in Origins
  BY DEF Origins
<1>4. MainFile \in Origins /\ MainFunc \in Origins /\ None \in Origins
  BY DEF Origins
<1> QED BY <1>1, <1>2, <1>3, <1>4

(* The fixed texts are texts.                                              *)
LEMMA FixedTexts ==
  /\ Nothing \in Texts /\ Error \in Texts /\ NewRun \in Texts
  /\ Text("none", None, 0) \in Texts /\ Text("no data", None, 0) \in Texts
  /\ Text("files", None, 0) \in Texts /\ Text("start", None, 0) \in Texts
<1>1. 0 \in 0 .. MaxCommands /\ None \in Places \cup {None}
  BY BoundsAssumption
<1> QED BY <1>1, TextTyped, OriginsAre DEF Nothing, Error, NewRun

(* Only the answers about windows can hold the word "error" unnoticed.     *)
LEMMA PlainErrors ==
  ASSUME NEW text
  PROVE  /\ text.of = "" \/ text.of = "output" => ~HasError(text)
         /\ text.of = "error" => HasError(text)
<1>1. text.of = "" \/ text.of = "output" => <<text.of, text.at>> \notin ErrorWord
  BY DataAssumption DEF Windows
<1> QED BY <1>1 DEF HasError

(* What is left of a text is a text.                                       *)
LEMMA CutTyped ==
  /\ \A text \in Texts : Cut(text) \in Texts
  /\ \A text \in Texts : \A lines : Through(lines, text) \in Texts
  /\ \A text \in Texts : \A w : Found(w, text) \in Texts
<1>1. ASSUME NEW text \in Texts PROVE Cut(text) \in Texts
  BY OriginsAre DEF Cut, Texts
<1> QED BY <1>1, FixedTexts DEF Through, Found

(* One buffer is filled, the others are empty.                             *)
LEMMA IntoIs ==
  ASSUME NEW text
  PROVE  /\ Into("cli", text) = [cli |-> text, program |-> Nothing, data |-> Nothing]
         /\ Into("program", text) = [cli |-> Nothing, program |-> text, data |-> Nothing]
         /\ Into("data", text) = [cli |-> Nothing, program |-> Nothing, data |-> text]
<1>1. /\ Into("cli", text) = [Empty EXCEPT !.cli = text]
      /\ Into("program", text) = [Empty EXCEPT !.program = text]
      /\ Into("data", text) = [Empty EXCEPT !.data = text]
  BY DEF Into
<1>2. /\ [Empty EXCEPT !.cli = text] = [cli |-> text, program |-> Nothing, data |-> Nothing]
      /\ [Empty EXCEPT !.program = text]
           = [cli |-> Nothing, program |-> text, data |-> Nothing]
      /\ [Empty EXCEPT !.data = text] = [cli |-> Nothing, program |-> Nothing, data |-> text]
  BY DEF Empty
<1> QED BY <1>1, <1>2

(* Empty buffers, and buffers with one text in them, are buffers.          *)
LEMMA IntoTyped ==
  /\ Empty \in Buffers
  /\ \A buffer \in {"cli", "program", "data"}, text \in Texts :
       /\ Into(buffer, text) \in Buffers
       /\ Into(buffer, text) =
            [cli |-> IF buffer = "cli" THEN text ELSE Nothing,
             program |-> IF buffer = "program" THEN text ELSE Nothing,
             data |-> IF buffer = "data" THEN text ELSE Nothing]
<1>1. Empty \in Buffers
  BY FixedTexts DEF Empty, Buffers
<1>2. ASSUME NEW buffer \in {"cli", "program", "data"}, NEW text \in Texts
      PROVE  /\ Into(buffer, text) \in Buffers
             /\ Into(buffer, text) =
                  [cli |-> IF buffer = "cli" THEN text ELSE Nothing,
                   program |-> IF buffer = "program" THEN text ELSE Nothing,
                   data |-> IF buffer = "data" THEN text ELSE Nothing]
  <2>2. Into(buffer, text) =
          [cli |-> IF buffer = "cli" THEN text ELSE Nothing,
           program |-> IF buffer = "program" THEN text ELSE Nothing,
           data |-> IF buffer = "data" THEN text ELSE Nothing]
    BY <1>2, IntoIs
  <2>3. ASSUME NEW c \in Texts, NEW p \in Texts, NEW d \in Texts
        PROVE  [cli |-> c, program |-> p, data |-> d] \in Buffers
    BY DEF Buffers
  <2>4. /\ (IF buffer = "cli" THEN text ELSE Nothing) \in Texts
        /\ (IF buffer = "program" THEN text ELSE Nothing) \in Texts
        /\ (IF buffer = "data" THEN text ELSE Nothing) \in Texts
    BY <1>2, FixedTexts
  <2>5. Into(buffer, text) \in Buffers
    BY <2>2, <2>3, <2>4
  <2> QED BY <2>2, <2>5
<1> QED BY <1>1, <1>2

(* The debugger's answer to any window is typed.                           *)
LEMMA AnswerTyped ==
  ASSUME TypeOK, NEW w \in Windows
  PROVE  Answer(w) \in Buffers
<1> DEFINE func == IF curr_func = None THEN MainFunc ELSE curr_func
<1>1. 0 \in 0 .. MaxCommands /\ at \in Places \cup {None}
  BY BoundsAssumption DEF TypeOK
<1>2. func \in Origins
  BY ZenonT(30), OriginsAre DEF TypeOK
<1>3. Disassembly(func) \in Texts
  <2> HIDE DEF func
  <2> QED BY <1>1, <1>2, TextTyped DEF Disassembly
<1>4. Text(w, at, 0) \in Texts /\ Text("threads", at, 0) \in Texts /\ Text(w, None, 0) \in Texts
  BY <1>1, TextTyped, OriginsAre
<1>5. CASE ~Gdb
  <2>1. Answer(w) = Into(IF w \in {"Src", "Stk"} THEN "cli" ELSE "program", Text(w, at, 0))
    BY <1>5 DEF Answer
  <2>2. (IF w \in {"Src", "Stk"} THEN "cli" ELSE "program") \in {"cli", "program", "data"}
    OBVIOUS
  <2> QED BY ONLY <1>4, <2>1, <2>2, IntoTyped
<1>6. CASE Gdb /\ w = "Asm"
  BY <1>3, <1>6, IntoTyped DEF Answer
<1>7. CASE Gdb /\ w # "Asm"
  BY <1>4, <1>7, IntoTyped, FixedTexts DEF Answer
<1> QED BY <1>5, <1>6, <1>7

-----------------------------------------------------------------------------
(* Types                                                                   *)

Updates == [window : Windows \cup {None}, killing : BOOLEAN,
            step : {"idle", "ask", "use", "files", "crashed"}]
Shown(w) == IF w \in {"Dbg", "Prg"} THEN Seq(Texts) ELSE Texts
WinTyped == DOMAIN win = Windows /\ \A w \in Windows : win[w] \in Shown(w)

(* TypeOK in the words of the proofs.                                      *)
LEMMA TypesAre ==
  TypeOK <=>
    /\ debugger \in Debuggers /\ at \in Places \cup {None}
    /\ said \in Seq([plugin : Commands, cli : Texts, program : Texts])
    /\ key \in {"idle", "sent", "parsed"}
    /\ queue \in Seq(Windows) /\ Len(queue) <= MaxQueuedUpdates
    /\ upd \in Updates
    /\ buffers \in Buffers
    /\ new_data \in [{"Dbg", "Prg"} -> BOOLEAN] /\ new_run \in BOOLEAN
    /\ curr_plugin_index \in Windows \cup Plugins \cup {None}
    /\ curr_func \in {Func[p] : p \in Places} \cup {None}
    /\ main_src_path \in {File[p] : p \in Places} \cup {MainFile, None}
    /\ WinTyped
    /\ wat_lines \in Texts \cup {None}
    /\ refreshed \subseteq Windows /\ hurried \in BOOLEAN
<1>1. WinTyped <=> /\ DOMAIN win = Windows
                   /\ \A w \in {"Dbg", "Prg"} : win[w] \in Seq(Texts)
                   /\ \A w \in Windows \ {"Dbg", "Prg"} : win[w] \in Texts
  BY DEF WinTyped, Shown, Windows
<1> QED BY <1>1 DEF TypeOK, Updates, Buffers

(* A window that is shown is typed if what it shows is, and the update is  *)
(* over.                                                                   *)
LEMMA ShowTyped ==
  ASSUME TypeOK, NEW w \in Windows, NEW text \in Shown(w), Show(w, text)
  PROVE  WinTyped' /\ upd' \in Updates
<1>1. WinTyped
  BY TypesAre
<1>2. upd' \in Updates
  BY DEF Show, NoUpdate, Updates
<1>3. WinTyped'
  BY <1>1 DEF WinTyped, Show, Shown
<1> QED BY <1>2, <1>3

(* A reader that crashes leaves the windows alone.                         *)
LEMMA CrashTyped ==
  ASSUME TypeOK, Crash
  PROVE  WinTyped' /\ upd' \in Updates
<1>1. WinTyped
  BY TypesAre
<1>2. upd' \in Updates
  BY DEF Crash, NoUpdate, Updates
<1>3. WinTyped'
  BY <1>1 DEF WinTyped, Crash, Shown
<1> QED BY <1>2, <1>3

(* A window of texts with one more text is one.                            *)
LEMMA AppendedTyped ==
  ASSUME NEW window \in Seq(Texts), NEW text \in Texts
  PROVE  Appended(window, text) \in Seq(Texts)
BY DEF Appended

(* Each of the plugins that send a command sends one that leaves the       *)
(* program at a place or, under GDB, nowhere.                              *)
LEMMA PluginsSend ==
  ASSUME TypeOK, PdbRuns,
         SendDebuggerCommand \/ RunCustomCommand \/ ExecuteUntil \/ AttachToProcess
  PROVE  \E plugin \in Commands, places \in SUBSET (Places \cup {None}) :
           Send(plugin, places) /\ (~Gdb => places \subseteq Places)
<1>1. at \in Places \cup {None} /\ (~Gdb => at \in Places)
  BY DEF TypeOK, PdbRuns
<1>2. ASSUME NEW plugin \in Commands
      PROVE  /\ Moves(plugin) \in SUBSET (Places \cup {None})
             /\ ~Gdb => Moves(plugin) \subseteq Places
  <2>1. CASE ~Gdb
    BY <1>1, <2>1 DEF Moves
  <2>2. CASE Gdb
    BY <1>1, <2>2 DEF Moves, Resumes
  <2> QED BY <2>1, <2>2
<1>3. {"Prm", "Unt", "AtP"} \subseteq Commands
  BY DEF Commands, Resumes
<1>4. CASE SendDebuggerCommand
  BY <1>2, <1>4 DEF SendDebuggerCommand
<1>5. CASE RunCustomCommand
  BY <1>2, <1>3, <1>5 DEF RunCustomCommand
<1>6. CASE ExecuteUntil
  BY <1>2, <1>3, <1>6 DEF ExecuteUntil
<1>7. CASE AttachToProcess
  <2>1. PICK input \in FormInput : Send("AtP", IF input = "" THEN {at} ELSE Moves("AtP"))
    BY <1>7 DEF AttachToProcess
  <2>2. CASE input = ""
    <3>1. Send("AtP", {at})
      BY <2>1, <2>2
    <3>2. {at} \in SUBSET (Places \cup {None}) /\ (~Gdb => {at} \subseteq Places)
      BY <1>1
    <3> QED BY <1>3, <3>1, <3>2
  <2>3. CASE input # ""
    BY <1>2, <1>3, <2>1, <2>3
  <2> QED BY <2>2, <2>3
<1> QED BY <1>4, <1>5, <1>6, <1>7

(* What a plugin queues are updates of windows.                            *)
LEMMA BatchTyped ==
  ASSUME NEW plugin
  PROVE  Batch(plugin) \in Seq(Windows) /\ LayoutBatch \in Seq(Windows)
<1>1. /\ CommandBatch \in Seq(Windows) /\ PromptBatch \in Seq(Windows)
      /\ UntilBatch \in Seq(Windows) /\ AttachBatch \in Seq(Windows)
      /\ LayoutBatch \in Seq(Windows)
  BY DEF CommandBatch, PromptBatch, UntilBatch, AttachBatch, LayoutBatch, Windows
<1> QED BY <1>1 DEF Batch

(* A window that is up to date was queued, Asm behind a Src.               *)
LEMMA UpToDateIs ==
  ASSUME NEW batch \in Seq(Windows)
  PROVE  /\ UpToDate(batch) \subseteq ToSet(batch) /\ ToSet(batch) \subseteq Windows
         /\ "Asm" \in UpToDate(batch) => SrcBeforeAsm(batch)
<1>1. ToSet(batch) \subseteq Windows
  BY DEF ToSet
<1> QED BY <1>1 DEF UpToDate, SrcBeforeAsm

(* The source window shows a path or keeps the main one.                   *)
LEMMA SourceTyped ==
  ASSUME TypeOK, NEW path \in {File[p] : p \in Places} \cup {MainFile},
         NEW line \in Places \cup {None}, NEW is_running, ShowSource(path, line, is_running)
  PROVE  /\ WinTyped' /\ upd' \in Updates
         /\ main_src_path' \in {File[p] : p \in Places} \cup {MainFile, None}
<1>1. main_src_path \in {File[p] : p \in Places} \cup {MainFile, None}
  BY TypesAre
<1>2. CASE upd.killing /\ first_run
  BY <1>1, <1>2, CrashTyped DEF ShowSource
<1>3. CASE ~(upd.killing /\ first_run)
  <2> DEFINE shown == IF ~upd.killing /\ (is_running \/ first_run) THEN path ELSE main_src_path
  <2>1. shown \in Origins
    BY <1>1, OriginsAre
  <2>2. Show("Src", Text(shown, line, 0)) /\ main_src_path' = IF first_run THEN path ELSE main_src_path
    BY <1>3 DEF ShowSource
  <2> HIDE DEF shown
  <2>3. 0 \in 0 .. MaxCommands
    BY BoundsAssumption
  <2>4. Text(shown, line, 0) \in Texts
    BY <2>1, <2>3, TextTyped
  <2>5. "Src" \in Windows /\ Shown("Src") = Texts
    BY DEF Windows, Shown
  <2>6. WinTyped' /\ upd' \in Updates
    BY <2>2, <2>4, <2>5, ShowTyped
  <2> QED BY <1>1, <2>2, <2>6
<1> QED BY <1>2, <1>3

(* Taking an output or a text out of the buffers keeps types.              *)
LEMMA ReadersTyped ==
  ASSUME TypeOK, PdbRuns,
         UpdateDbg \/ UpdatePrg \/ UpdateAsmReg \/ UpdateLcV \/ UpdateStk \/ UpdateBrk \/ UpdateWat
         \/ UpdateSrcRunning \/ UpdateSrcNotRunning \/ UpdateSrcPdb
  PROVE  /\ WinTyped' /\ upd' \in Updates /\ buffers' \in Buffers
         /\ main_src_path' \in {File[p] : p \in Places} \cup {MainFile, None}
         /\ curr_func' \in {Func[p] : p \in Places} \cup {None}
         /\ wat_lines' \in Texts \cup {None}
         /\ new_data' \in [{"Dbg", "Prg"} -> BOOLEAN] /\ new_run' \in BOOLEAN
<1> DEFINE Paths == {File[p] : p \in Places} \cup {MainFile, None}
           Funcs == {Func[p] : p \in Places} \cup {None}
           Flags == new_data' \in [{"Dbg", "Prg"} -> BOOLEAN] /\ new_run' \in BOOLEAN
           Lines == wat_lines' \in Texts \cup {None}
<1> SUFFICES /\ WinTyped' /\ upd' \in Updates /\ buffers' \in Buffers
             /\ main_src_path' \in Paths /\ curr_func' \in Funcs /\ Lines /\ Flags
  OBVIOUS
<1>1. /\ WinTyped /\ upd \in Updates /\ buffers \in Buffers
      /\ main_src_path \in Paths /\ curr_func \in Funcs
      /\ new_data \in [{"Dbg", "Prg"} -> BOOLEAN] /\ new_run \in BOOLEAN
      /\ at \in Places \cup {None} /\ wat_lines \in Texts \cup {None}
  BY TypesAre
<1>2. /\ buffers.cli \in Texts /\ buffers.program \in Texts /\ buffers.data \in Texts
      /\ buffers.data.at \in Places \cup {None}
  <2>1. buffers.cli \in Texts /\ buffers.program \in Texts /\ buffers.data \in Texts
    BY <1>1 DEF Buffers
  <2> QED BY <2>1 DEF Texts
<1>3. \A w \in Windows : win[w] \in Shown(w)
  BY <1>1 DEF WinTyped
<1>4. {"Dbg", "Prg"} \subseteq Windows /\ Shown("Dbg") = Seq(Texts) /\ Shown("Prg") = Seq(Texts)
  BY DEF Windows, Shown
<1>5. {"Asm", "Reg", "LcV", "Stk", "Brk", "Wat", "Src"} \subseteq Windows
  BY DEF Windows
<1>6. \A w \in {"Asm", "Reg", "LcV", "Stk", "Brk", "Wat", "Src"} : Shown(w) = Texts
  BY DEF Shown
<1>7. ASSUME Looked PROVE main_src_path' \in Paths /\ curr_func' \in Funcs /\ Lines /\ Flags
  BY <1>1, <1>7 DEF Looked
<1>8. 0 \in 0 .. MaxCommands
  BY BoundsAssumption
<1>19. ASSUME UNCHANGED <<new_data, new_run>> PROVE Flags
  BY <1>1, <1>19
<1>20. UNCHANGED wat_lines => Lines
  BY <1>1
<1> HIDE DEF Paths, Funcs, Flags, Lines
<1>9. CASE UpdateDbg
  <2> DEFINE text == IF new_data["Dbg"] /\ ~(Gdb /\ HasError(buffers.cli))
                     THEN Appended(win["Dbg"], buffers.cli) ELSE win["Dbg"]
  <2>1. text \in Shown("Dbg")
    BY <1>2, <1>3, <1>4, AppendedTyped
  <2>2. Show("Dbg", text) /\ new_data' = [new_data EXCEPT !["Dbg"] = FALSE]
        /\ UNCHANGED <<buffers, new_run, curr_func, main_src_path, wat_lines>>
    BY <1>9 DEF UpdateDbg
  <2> HIDE DEF text
  <2>3. WinTyped' /\ upd' \in Updates
    BY <1>4, <2>1, <2>2, ShowTyped
  <2>4. Flags
    BY <1>1, <2>2 DEF Flags
  <2> QED BY <1>1, <1>20, <2>2, <2>3, <2>4
<1>10. CASE UpdatePrg
  <2> DEFINE copies == new_data["Prg"] /\ ~HasError(buffers.program)
             marked == IF Gdb /\ new_run THEN Append(win["Prg"], NewRun) ELSE win["Prg"]
             text == IF copies THEN Appended(marked, buffers.program) ELSE win["Prg"]
  <2>1. marked \in Seq(Texts)
    <3>1. win["Prg"] \in Seq(Texts) /\ NewRun \in Texts
      BY <1>3, <1>4, FixedTexts
    <3> QED BY <3>1
  <2>2. text \in Shown("Prg")
    <3> HIDE DEF marked, copies
    <3> QED BY <1>2, <1>3, <1>4, <2>1, AppendedTyped
  <2>3. Show("Prg", text) /\ new_data' = [new_data EXCEPT !["Prg"] = FALSE]
        /\ new_run' = (new_run /\ ~(Gdb /\ copies))
        /\ UNCHANGED <<buffers, curr_func, main_src_path, wat_lines>>
    BY <1>10 DEF UpdatePrg
  <2> HIDE DEF text
  <2>4. WinTyped' /\ upd' \in Updates
    BY <1>4, <2>2, <2>3, ShowTyped
  <2>5. new_run' \in BOOLEAN
    BY Zenon, <2>3
  <2>6. new_data' \in [{"Dbg", "Prg"} -> BOOLEAN]
    BY <1>1, <2>3
  <2> QED BY <1>1, <1>20, <2>3, <2>4, <2>5, <2>6 DEF Flags
<1>11. CASE UpdateAsmReg
  <2>1. PICK w \in {"Asm", "Reg"} :
          Show(w, IF Gdb THEN Replaced(w) ELSE Text("no data", None, 0))
          /\ Looked /\ UNCHANGED buffers
    BY <1>11 DEF UpdateAsmReg
  <2>2. Replaced(w) \in Texts
    BY <1>2, <1>3, <1>5, <1>6 DEF Replaced
  <2> DEFINE text == IF Gdb THEN Replaced(w) ELSE Text("no data", None, 0)
  <2>3. text \in Shown(w)
    BY <1>6, <2>2, FixedTexts
  <2>4. Show(w, text)
    BY <2>1
  <2> HIDE DEF text
  <2>5. WinTyped' /\ upd' \in Updates
    BY <1>5, <2>3, <2>4, ShowTyped
  <2> QED BY <1>1, <1>7, <2>1, <2>5
<1>12. CASE UpdateLcV
  <2> DEFINE text == Found("LcV", IF Gdb THEN buffers.data ELSE buffers.program)
  <2>1. text \in Shown("LcV")
    BY <1>2, <1>6, CutTyped
  <2>2. Show("LcV", text) /\ Looked /\ UNCHANGED buffers
    BY <1>12 DEF UpdateLcV
  <2> HIDE DEF text
  <2>3. WinTyped' /\ upd' \in Updates
    BY <1>5, <2>1, <2>2, ShowTyped
  <2> QED BY <1>1, <1>7, <2>2, <2>3
<1>13. CASE UpdateStk
  <2> DEFINE text == IF Gdb THEN Found("Stk", buffers.data)
                     ELSE IF buffers.cli = Nothing THEN win["Stk"] ELSE buffers.cli
  <2>1. text \in Shown("Stk")
    BY <1>2, <1>3, <1>5, <1>6, CutTyped
  <2>2. Show("Stk", text) /\ Looked
        /\ buffers' = IF Gdb THEN buffers ELSE [buffers EXCEPT !.cli = Nothing]
    BY <1>13 DEF UpdateStk
  <2> HIDE DEF text
  <2>3. WinTyped' /\ upd' \in Updates
    BY <1>5, <2>1, <2>2, ShowTyped
  <2>4. buffers' \in Buffers
    BY <1>1, <2>2, FixedTexts DEF Buffers
  <2> QED BY <1>7, <2>2, <2>3, <2>4
<1>14. CASE UpdateBrk
  <2>1. \A text \in {Found("Brk", buffers.program), Cut(win["Brk"]), buffers.data} :
          text \in Shown("Brk")
    BY <1>2, <1>3, <1>5, <1>6, CutTyped
  <2>2. /\ \/ Crash \/ Show("Brk", Found("Brk", buffers.program))
           \/ Show("Brk", Cut(win["Brk"])) \/ Show("Brk", buffers.data)
        /\ Looked /\ UNCHANGED buffers
    BY <1>14 DEF UpdateBrk
  <2>3. WinTyped' /\ upd' \in Updates
    BY <1>5, <2>1, <2>2, ShowTyped, CrashTyped
  <2> QED BY <1>1, <1>7, <2>2, <2>3
<1>15. CASE UpdateWat
  <2>1. /\ \/ Show("Wat", Through(wat_lines, buffers.program)) \/ Show("Wat", Text("none", None, 0))
           \/ Show("Wat", buffers.cli) \/ Crash
        /\ UNCHANGED <<new_data, new_run, curr_func, main_src_path>>
        /\ wat_lines' = IF ~Gdb /\ wat_lines = None THEN buffers.program ELSE wat_lines
    BY <1>15 DEF UpdateWat
  <2>2. WinTyped' /\ upd' \in Updates
    BY <1>2, <1>5, <1>6, <2>1, ShowTyped, CrashTyped, FixedTexts, CutTyped
  <2>3. buffers' \in Buffers
    BY <1>1, <1>15, FixedTexts DEF UpdateWat, Buffers
  <2>4. Lines
    BY <1>1, <1>2, <2>1 DEF Lines
  <2> QED BY <1>1, <1>19, <2>1, <2>2, <2>3, <2>4
<1>16. CASE UpdateSrcRunning
  <2>1. /\ buffers.data.at \in Places /\ curr_func' = Func[buffers.data.at]
        /\ ShowSource(File[buffers.data.at], buffers.data.at, TRUE)
        /\ UNCHANGED <<buffers, new_data, new_run, wat_lines>>
    BY <1>2, <1>16 DEF UpdateSrcRunning, Stopped
  <2>2. File[buffers.data.at] \in {File[p] : p \in Places} \cup {MainFile}
        /\ curr_func' \in Funcs
    BY <2>1 DEF Funcs
  <2>3. WinTyped' /\ upd' \in Updates /\ main_src_path' \in Paths
    BY <2>1, <2>2, SourceTyped DEF Paths
  <2> QED BY <1>1, <1>19, <1>20, <2>1, <2>2, <2>3
<1>17. CASE UpdateSrcNotRunning
  <2>1. /\ curr_func' = None /\ UNCHANGED <<buffers, new_data, new_run, wat_lines>>
        /\ \/ ShowSource(MainFile, None, FALSE)
           \/ Show("Src", win["Src"]) /\ UNCHANGED main_src_path
    BY <1>17 DEF UpdateSrcNotRunning
  <2>2. curr_func' \in Funcs
    BY <2>1 DEF Funcs
  <2>3. CASE ShowSource(MainFile, None, FALSE)
    <3>1. WinTyped' /\ upd' \in Updates /\ main_src_path' \in Paths
      BY <2>3, SourceTyped DEF Paths
    <3> QED BY <1>1, <1>19, <1>20, <2>1, <2>2, <3>1
  <2>4. CASE Show("Src", win["Src"]) /\ UNCHANGED main_src_path
    <3>1. WinTyped' /\ upd' \in Updates
      BY <1>3, <1>5, <2>4, ShowTyped
    <3> QED BY <1>1, <1>19, <1>20, <2>1, <2>2, <2>4, <3>1
  <2> QED BY <2>1, <2>3, <2>4
<1>18. CASE UpdateSrcPdb
  <2>1. at \in Places
    BY <1>1, <1>18 DEF UpdateSrcPdb, PdbRuns
  <2>2. Text(File[at], at, 0) \in Texts
    BY <1>8, <2>1, OriginsAre, TextTyped
  <2>3. (Show("Src", Text(File[at], at, 0)) \/ Crash) /\ Looked /\ UNCHANGED buffers
    BY <1>18 DEF UpdateSrcPdb
  <2>4. WinTyped' /\ upd' \in Updates
    BY <1>5, <1>6, <2>2, <2>3, ShowTyped, CrashTyped
  <2> QED BY <1>1, <1>7, <2>3, <2>4
<1> QED BY <1>9, <1>10, <1>11, <1>12, <1>13, <1>14, <1>15, <1>16, <1>17, <1>18

(* What is at the windows is one of the updates or nothing.                *)
LEMMA IndexTyped ==
  /\ Commands \cap Plugins \subseteq Windows \cup Plugins \cup {None}
  /\ "Kil" \notin Windows /\ "Kil" # "Lay"
BY DEF Windows

(* Every step keeps types.                                                 *)
LEMMA NextPreservesTypes ==
  ASSUME TypeOK, PdbRuns, Begun, [Next]_vars
  PROVE  TypeOK'
<1> DEFINE Said == [plugin : Commands, cli : Texts, program : Texts]
           Program == /\ debugger' \in Debuggers /\ at' \in Places \cup {None}
                      /\ said' \in Seq(Said)
           Sender == /\ key' \in {"idle", "sent", "parsed"}
                     /\ new_data' \in [{"Dbg", "Prg"} -> BOOLEAN]
                     /\ refreshed' \subseteq Windows /\ hurried' \in BOOLEAN
           Reader == /\ upd' \in Updates
                     /\ curr_func' \in {Func[p] : p \in Places} \cup {None}
                     /\ main_src_path' \in {File[p] : p \in Places} \cup {MainFile, None}
                     /\ WinTyped' /\ wat_lines' \in Texts \cup {None}
           Queue == queue' \in Seq(Windows) /\ Len(queue') <= MaxQueuedUpdates
           Between == /\ buffers' \in Buffers /\ new_run' \in BOOLEAN
                      /\ curr_plugin_index' \in Windows \cup Plugins \cup {None}
<1>1. /\ debugger \in Debuggers /\ at \in Places \cup {None}
      /\ said \in Seq(Said)
      /\ key \in {"idle", "sent", "parsed"}
      /\ queue \in Seq(Windows) /\ Len(queue) <= MaxQueuedUpdates
      /\ upd \in Updates
      /\ buffers \in Buffers
      /\ new_data \in [{"Dbg", "Prg"} -> BOOLEAN] /\ new_run \in BOOLEAN
      /\ curr_plugin_index \in Windows \cup Plugins \cup {None}
      /\ curr_func \in {Func[p] : p \in Places} \cup {None}
      /\ main_src_path \in {File[p] : p \in Places} \cup {MainFile, None}
      /\ WinTyped /\ wat_lines \in Texts \cup {None}
      /\ refreshed \subseteq Windows /\ hurried \in BOOLEAN
  BY TypesAre
<1>2. Program /\ Sender /\ Reader /\ Queue /\ Between => TypeOK'
  <2>1. WinTyped' => /\ DOMAIN win' = Windows
                     /\ \A w \in {"Dbg", "Prg"} : win'[w] \in Seq(Texts)
                     /\ \A w \in Windows \ {"Dbg", "Prg"} : win'[w] \in Texts
    BY DEF WinTyped, Shown, Windows
  <2> QED BY <2>1 DEF TypeOK, Updates, Buffers
<1>3. UNCHANGED program => Program
  BY <1>1 DEF program
<1>4. UNCHANGED sender => (key' \in {"idle", "sent", "parsed"} => Sender)
  BY <1>1 DEF sender
<1>5. UNCHANGED reader => Reader
  BY <1>1 DEF reader, WinTyped, Shown
<1>6. UNCHANGED queue => Queue
  BY <1>1
<1>7. UNCHANGED <<buffers, new_run, curr_plugin_index>> => Between
  BY <1>1
<1> HIDE DEF Program, Sender, Reader, Queue, Between
<1>8. CASE UNCHANGED vars
  BY <1>1, <1>2, <1>3, <1>4, <1>5, <1>6, <1>7, <1>8 DEF vars, sender
<1>9. ASSUME NEW plugin \in Commands, NEW places \in SUBSET (Places \cup {None}),
             Send(plugin, places)
      PROVE  TypeOK'
  <2>1. PICK output \in Outputs :
          said' = Append(said,
                    [plugin |-> plugin,
                     cli |-> Text(output[1], None, Len(said) + 1),
                     program |-> IF plugin = "AtP" \/ (at = None /\ at' = None) THEN Nothing
                                 ELSE Text(output[2], None, Len(said) + 1)])
    BY <1>9 DEF Send
  <2>2. output[1] \in Origins /\ output[2] \in Origins
    BY OutputsAssumption, OriginsAre
  <2>3. Len(said) + 1 \in 0 .. MaxCommands
    BY <1>1, <1>9, BoundsAssumption DEF Send
  <2> DEFINE console == Text(output[1], None, Len(said) + 1)
             printed == Text(output[2], None, Len(said) + 1)
             prints == IF plugin = "AtP" \/ (at = None /\ at' = None) THEN Nothing ELSE printed
  <2>4. console \in Texts /\ printed \in Texts
    BY <2>2, <2>3, TextTyped
  <2>5. prints \in Texts
    BY <2>4, FixedTexts
  <2>6. said' = Append(said, [plugin |-> plugin, cli |-> console, program |-> prints])
    BY <2>1
  <2> HIDE DEF console, printed, prints
  <2>7. [plugin |-> plugin, cli |-> console, program |-> prints] \in Said
    BY <2>4, <2>5
  <2>8. said' \in Seq(Said)
    BY <1>1, <2>6, <2>7
  <2>9. Program
    BY <1>1, <1>9, <2>8 DEF Send, Program
  <2>10. hurried' \in BOOLEAN /\ new_run' \in BOOLEAN
    BY Zenon, <1>9 DEF Send
  <2>11. Sender
    BY <1>1, <1>9, <2>10 DEF Send, Sender
  <2>12. Reader /\ Queue
    BY <1>5, <1>6, <1>9 DEF Send
  <2>13. Between
    BY <1>1, <1>9, <2>10 DEF Send, Between
  <2> QED BY <1>2, <2>9, <2>11, <2>12, <2>13
<1>10. CASE SendDebuggerCommand \/ RunCustomCommand \/ ExecuteUntil \/ AttachToProcess
  BY <1>9, <1>10, PluginsSend
<1>11. CASE Parse
  <2>1. said # <<>>
    BY <1>11 DEF Parse, Begun
  <2>2. Last(said) \in Said
    <3>1. Len(said) \in 1 .. Len(said)
      BY <1>1, <2>1, EmptySeq
    <3>2. said \in Seq(Said)
      BY <1>1
    <3> HIDE DEF Said
    <3>3. said[Len(said)] \in Said
      BY ONLY <3>1, <3>2
    <3> QED BY <3>3 DEF Last
  <2>3. Last(said).cli \in Texts /\ Last(said).program \in Texts
    BY <2>2
  <2>4. Between
    BY <1>1, <1>11, <2>3, FixedTexts DEF Parse, Between, Buffers
  <2>5. Sender
    BY <1>1, <1>11 DEF Parse, Sender
  <2> QED BY <1>2, <1>3, <1>5, <1>6, <1>11, <2>4, <2>5 DEF Parse
<1>12. CASE Announce
  <2>1. Batch(Last(said).plugin) \in Seq(Windows)
    BY BatchTyped
  <2>2. Queue
    BY <1>1, <1>12, <2>1 DEF Announce, Fits, Queue
  <2>3. new_data' \in [{"Dbg", "Prg"} -> BOOLEAN]
    <3> DEFINE flag(w) == new_data[w] \/ w = "Dbg" \/ Last(said).plugin # "AtP"
    <3>1. \A w : flag(w) \in BOOLEAN
      BY Zenon
    <3>2. new_data' = [w \in {"Dbg", "Prg"} |-> flag(w)]
      BY <1>12 DEF Announce
    <3> HIDE DEF flag
    <3> QED BY <3>1, <3>2
  <2>4. Sender
    BY <1>1, <1>12, <2>1, <2>3, UpToDateIs DEF Announce, Sender
  <2> QED BY <1>1, <1>2, <1>3, <1>5, <1>7, <1>12, <2>2, <2>4 DEF Announce
<1>13. CASE ChooseLayout
  <2>1. LayoutBatch \in Seq(Windows)
    BY BatchTyped
  <2>2. Queue
    BY <1>1, <1>13, <2>1 DEF ChooseLayout, Fits, Queue
  <2>3. Sender
    BY <1>1, <1>13, <2>1, UpToDateIs DEF ChooseLayout, Sender
  <2>4. Between
    BY <1>1, <1>13 DEF ChooseLayout, Between
  <2> QED BY <1>2, <1>3, <1>5, <1>13, <2>2, <2>3, <2>4 DEF ChooseLayout
<1>14. CASE Dequeue
  <2>1. Head(queue) \in Windows /\ Queue
    BY <1>1, <1>14, HeadTailProperties, BoundsAssumption DEF Dequeue, Queue
  <2>2. Reader
    BY <1>1, <1>14, <2>1 DEF Dequeue, Reader, Updates, WinTyped, Shown
  <2>3. Between
    BY <1>1, <1>14, <2>1 DEF Dequeue, Between
  <2> QED BY <1>1, <1>2, <1>3, <1>4, <1>14, <2>1, <2>2, <2>3 DEF Dequeue, sender
<1>15. CASE Ask
  <2>1. Answer(upd.window) \in Buffers
    BY <1>15, AnswerTyped DEF Ask, Begun, Active
  <2>2. Between
    BY <1>1, <1>15, <2>1 DEF Ask, Between
  <2>3. upd' \in Updates
    <3>1. (curr_plugin_index = "Kil") \in BOOLEAN
      BY Zenon
    <3> QED BY <1>1, <1>15, <3>1 DEF Ask, Updates
  <2>4. Reader
    BY <1>1, <1>15, <2>3 DEF Ask, Reader, WinTyped, Shown
  <2> QED BY <1>1, <1>2, <1>3, <1>4, <1>6, <1>15, <2>2, <2>4 DEF Ask, sender
<1>16. CASE AskFiles
  <2>1. upd' \in Updates
    BY <1>1, <1>16 DEF AskFiles, Updates
  <2>2. Reader
    BY <1>1, <1>16, <2>1 DEF AskFiles, Looked, Reader, WinTyped, Shown
  <2>3. Between
    BY <1>1, <1>16, FixedTexts, IntoTyped DEF AskFiles, Looked, Used, Between
  <2> QED BY <1>1, <1>2, <1>3, <1>4, <1>6, <1>16, <2>2, <2>3 DEF AskFiles, Looked, Used, sender
<1>17. CASE UpdateDbg \/ UpdatePrg \/ UpdateAsmReg \/ UpdateLcV \/ UpdateStk \/ UpdateBrk
            \/ UpdateWat \/ UpdateSrcRunning \/ UpdateSrcNotRunning \/ UpdateSrcPdb
  <2>1. Used
    BY <1>17 DEF UpdateDbg, UpdatePrg, UpdateAsmReg, UpdateLcV, UpdateStk, UpdateBrk, UpdateWat,
                 UpdateSrcRunning, UpdateSrcNotRunning, UpdateSrcPdb, Looked
  <2>2. Reader /\ Between /\ Sender
    BY <1>1, <1>17, <2>1, ReadersTyped DEF Used, Reader, Between, Sender
  <2> QED BY <1>1, <1>2, <1>3, <1>6, <2>1, <2>2 DEF Used
<1> QED BY <1>8, <1>10, <1>11, <1>12, <1>13, <1>14, <1>15, <1>16, <1>17 DEF Next, UpdateThread

-----------------------------------------------------------------------------
(* What a reader makes of a fresh answer                                   *)

(* The buffers after a query.                                              *)
LEMMA AnswersAre ==
  ASSUME NEW w \in Windows
  PROVE  /\ ~Gdb => Answer(w) = IF w \in {"Src", "Stk"}
                                THEN [cli |-> Text(w, at, 0), program |-> Nothing, data |-> Nothing]
                                ELSE [cli |-> Nothing, program |-> Text(w, at, 0), data |-> Nothing]
         /\ Gdb /\ w = "Asm" =>
              Answer(w) = [cli |-> Disassembly(IF curr_func = None THEN MainFunc ELSE curr_func),
                           program |-> Nothing, data |-> Nothing]
         /\ Gdb /\ w \in {"Reg", "Wat"} /\ at # None =>
              Answer(w) = [cli |-> Text(w, at, 0), program |-> Nothing, data |-> Nothing]
         /\ Gdb /\ w \in {"LcV", "Stk"} /\ at # None =>
              Answer(w) = [cli |-> Nothing, program |-> Nothing, data |-> Text(w, at, 0)]
         /\ Gdb /\ w \in {"LcV", "Stk", "Reg", "Wat"} /\ at = None =>
              Answer(w) = [cli |-> Nothing, program |-> Nothing, data |-> Error]
         /\ Gdb /\ w = "Brk" =>
              Answer(w) = [cli |-> Nothing, program |-> Nothing, data |-> Text(w, None, 0)]
         /\ Gdb /\ w = "Src" =>
              Answer(w) = [cli |-> Nothing, program |-> Nothing, data |-> Text("threads", at, 0)]
<1>1. ~Gdb => Answer(w) = IF w \in {"Src", "Stk"} THEN Into("cli", Text(w, at, 0))
                          ELSE Into("program", Text(w, at, 0))
  BY DEF Answer
<1>2. Gdb /\ w = "Asm" =>
        Answer(w) = Into("cli", Disassembly(IF curr_func = None THEN MainFunc ELSE curr_func))
  BY DEF Answer
<1>3. /\ Gdb /\ w \in {"Reg", "Wat"} /\ at # None => Answer(w) = Into("cli", Text(w, at, 0))
      /\ Gdb /\ w \in {"LcV", "Stk"} /\ at # None => Answer(w) = Into("data", Text(w, at, 0))
      /\ Gdb /\ w \in {"LcV", "Stk", "Reg", "Wat"} /\ at = None => Answer(w) = Into("data", Error)
      /\ Gdb /\ w = "Brk" => Answer(w) = Into("data", Text(w, None, 0))
      /\ Gdb /\ w = "Src" => Answer(w) = Into("data", Text("threads", at, 0))
  BY DEF Answer
<1> QED BY <1>1, <1>2, <1>3, IntoIs

(* A reader ends the update of its window and touches no other window.     *)
Finishes(w) ==
  /\ Active /\ upd.window = w /\ Used
  /\ upd' \in {NoUpdate, [NoUpdate EXCEPT !.step = "crashed"]}
  /\ \A v \in Windows \ {w} : win'[v] = win[v]
  /\ w # "Src" => UNCHANGED <<curr_func, main_src_path>>
  /\ w # "Wat" => UNCHANGED wat_lines

(* With a fresh answer it does not crash, it shows what the window is to   *)
(* show, and Src finds the function and the main file.                     *)
Tells(w) ==
  Fresh(w) =>
    /\ upd' = NoUpdate
    /\ w = "Src" /\ Gdb => /\ curr_func' = FuncHere
                           /\ ~first_run => UNCHANGED main_src_path
                           /\ first_run /\ at = None => main_src_path' = MainFile
    /\ w = "Wat" => Target(w)' = Target(w)
    /\ /\ w \in Told
       /\ w = "Asm" /\ Gdb => curr_func = FuncHere
       /\ w = "Src" /\ at = None => first_run \/ main_src_path = MainFile
       => win'[w] = Target(w)

(* Showing a text.                                                         *)
LEMMA Showing ==
  ASSUME TypeOK, NEW w \in Windows, NEW text, Show(w, text)
  PROVE  /\ upd' = NoUpdate /\ win'[w] = text
         /\ \A v \in Windows \ {w} : win'[v] = win[v]
<1>1. DOMAIN win = Windows
  BY TypesAre DEF WinTyped
<1> QED BY <1>1 DEF Show

(* The readers of outputs show nothing of the program.                     *)
LEMMA DbgFinishes == ASSUME TypeOK, UpdateDbg PROVE Finishes("Dbg") /\ Tells("Dbg")
<1>1. PICK text : Show("Dbg", text)
  BY DEF UpdateDbg
<1>2. "Dbg" \in Windows /\ "Dbg" \notin Told
  BY DEF Windows, Told, ShowsPlace
<1>3. Active /\ upd.window = "Dbg"
  BY DEF UpdateDbg, Using, Asks, Active
<1> QED BY <1>1, <1>2, <1>3, Showing DEF UpdateDbg, Finishes, Tells

(* So does Prg, whether it copies or not.                                  *)
LEMMA PrgFinishes == ASSUME TypeOK, UpdatePrg PROVE Finishes("Prg") /\ Tells("Prg")
<1>1. PICK text : Show("Prg", text)
  BY DEF UpdatePrg
<1>2. "Prg" \in Windows /\ "Prg" \notin Told
  BY DEF Windows, Told, ShowsPlace
<1>3. Active /\ upd.window = "Prg"
  BY DEF UpdatePrg, Using, Asks, Active
<1> QED BY <1>1, <1>2, <1>3, Showing DEF UpdatePrg, Finishes, Tells

(* Asm shows the function it asked for, Reg the registers; PDB has neither.*)
LEMMA AsmRegFinishes ==
  ASSUME TypeOK, PdbRuns, UpdateAsmReg
  PROVE  \E w \in {"Asm", "Reg"} : Finishes(w) /\ Tells(w)
<1>1. PICK w \in {"Asm", "Reg"} :
        /\ Using(w) /\ Looked /\ UNCHANGED buffers
        /\ Show(w, IF Gdb THEN Replaced(w) ELSE Text("no data", None, 0))
  BY DEF UpdateAsmReg
<1>2. w \in Windows
  BY DEF Windows
<1>3. Active /\ upd.window = w /\ (Fresh(w) /\ Gdb => buffers = Answer(w))
  BY <1>1 DEF Using, Asks, Active, Fresh
<1>4. upd' = NoUpdate /\ \A v \in Windows \ {w} : win'[v] = win[v]
  BY <1>1, <1>2, Showing
<1>5. Finishes(w)
  BY <1>1, <1>3, <1>4 DEF Finishes, Looked
<1>6. ASSUME Fresh(w), w \in Told, Gdb, w = "Asm", curr_func = FuncHere
      PROVE  win'[w] = Target(w)
  <2> DEFINE func == IF curr_func = None THEN MainFunc ELSE curr_func
  <2>1. win'[w] = Replaced(w)
    BY <1>1, <1>2, <1>6, Showing
  <2>2. buffers = [cli |-> Disassembly(func), program |-> Nothing, data |-> Nothing]
    BY <1>2, <1>3, <1>6, AnswersAre
  <2>3. at \in Places \cup {None}
    BY TypesAre
  <2>4. func = IF at = None THEN MainFunc ELSE Func[at]
    BY <1>6, <2>3, PlacesAssumption DEF FuncHere
  <2> HIDE DEF func
  <2>5. Disassembly(func) # Nothing
    BY <2>3, <2>4, PlacesAssumption DEF Disassembly, Nothing, Text
  <2>6. Replaced(w) = Disassembly(func)
    <3>1. ~HasError(buffers.data)
      BY <2>2, NothingIs, PlainErrors
    <3> QED BY <1>6, <2>2, <2>5, <3>1 DEF Replaced
  <2>7. Target(w) = Disassembly(func)
    BY <1>6, <2>4 DEF Target, Right
  <2> QED BY <2>1, <2>6, <2>7
<1>7. ASSUME Fresh(w), w \in Told, Gdb, w = "Reg"
      PROVE  win'[w] = Target(w)
  <2>1. win'[w] = Replaced(w)
    BY <1>1, <1>2, <1>7, Showing
  <2>2. at # None
    BY <1>7 DEF Told
  <2>3. buffers = [cli |-> Text(w, at, 0), program |-> Nothing, data |-> Nothing]
    BY <1>2, <1>3, <1>7, <2>2, AnswersAre
  <2>4. Replaced(w) = Text(w, at, 0)
    <3>1. ~HasError(Text(w, at, 0))
      BY <1>7, <2>2 DEF HasError, Text, Told, ShowsPlace
    <3>2. Text(w, at, 0) # Nothing
      BY <1>7 DEF Nothing, Text
    <3> QED BY <1>7, <2>3, <3>1, <3>2 DEF Replaced
  <2>5. Target(w) = Text(w, at, 0)
    BY <1>7, <2>2 DEF Target, Right
  <2> QED BY <2>1, <2>4, <2>5
<1>8. ~Gdb => w \notin Told
  BY DEF Told, ShowsPlace, PdbRuns
<1>9. Tells(w)
  BY <1>1, <1>4, <1>6, <1>7, <1>8 DEF Tells
<1> QED BY <1>2, <1>5, <1>9

(* LcV and Stk find their answers or, without a program, nothing.          *)
LEMMA LcVFinishes == ASSUME TypeOK, PdbRuns, UpdateLcV PROVE Finishes("LcV") /\ Tells("LcV")
<1> DEFINE text == Found("LcV", IF Gdb THEN buffers.data ELSE buffers.program)
<1>1. "LcV" \in Windows
  BY DEF Windows
<1>2. Show("LcV", text) /\ Using("LcV") /\ Looked
  BY DEF UpdateLcV
<1>3. Active /\ upd.window = "LcV" /\ (Fresh("LcV") => buffers = Answer("LcV"))
  BY <1>2 DEF Using, Asks, Active, Fresh
<1> HIDE DEF text
<1>4. upd' = NoUpdate /\ win'["LcV"] = text /\ \A v \in Windows \ {"LcV"} : win'[v] = win[v]
  BY <1>1, <1>2, Showing
<1>5. Finishes("LcV")
  BY <1>2, <1>3, <1>4 DEF Finishes, Looked
<1>6. ASSUME Fresh("LcV") PROVE text = Target("LcV")
  <2>1. CASE at # None
    <3>1. text = Found("LcV", Text("LcV", at, 0))
      BY <1>1, <1>3, <1>6, <2>1, AnswersAre DEF text
    <3> QED BY <2>1, <3>1 DEF Target, Right
  <2>2. CASE at = None
    <3>1. Gdb
      BY <2>2 DEF PdbRuns
    <3>2. text = Nothing
      BY <1>1, <1>3, <1>6, <2>2, <3>1, AnswersAre DEF text, Found, Error, Text
    <3> QED BY <2>2, <3>2 DEF Target
  <2> QED BY <2>1, <2>2
<1> QED BY <1>4, <1>5, <1>6 DEF Tells

(* Under PDB the stack comes with the console output.                      *)
LEMMA StkFinishes == ASSUME TypeOK, PdbRuns, UpdateStk PROVE Finishes("Stk") /\ Tells("Stk")
<1> DEFINE text == IF Gdb THEN Found("Stk", buffers.data)
                   ELSE IF buffers.cli = Nothing THEN win["Stk"] ELSE buffers.cli
<1>1. "Stk" \in Windows
  BY DEF Windows
<1>2. Show("Stk", text) /\ Using("Stk") /\ Looked
  BY DEF UpdateStk
<1>3. Active /\ upd.window = "Stk" /\ (Fresh("Stk") => buffers = Answer("Stk"))
  BY <1>2 DEF Using, Asks, Active, Fresh
<1> HIDE DEF text
<1>4. upd' = NoUpdate /\ win'["Stk"] = text /\ \A v \in Windows \ {"Stk"} : win'[v] = win[v]
  BY <1>1, <1>2, Showing
<1>5. Finishes("Stk")
  BY <1>2, <1>3, <1>4 DEF Finishes, Looked
<1>6. ASSUME Fresh("Stk") PROVE text = Target("Stk")
  <2>1. CASE at # None
    <3>1. CASE Gdb
      <4>1. text = Found("Stk", Text("Stk", at, 0))
        BY <1>1, <1>3, <1>6, <2>1, <3>1, AnswersAre DEF text
      <4> QED BY <2>1, <3>1, <4>1 DEF Target, Right
    <3>2. CASE ~Gdb
      <4>1. buffers.cli = Text("Stk", at, 0)
        BY <1>1, <1>3, <1>6, <3>2, AnswersAre
      <4>2. Text("Stk", at, 0).of = "Stk" /\ Nothing.of = ""
        BY DEF Nothing, Text
      <4>3. buffers.cli # Nothing
        BY ONLY <4>1, <4>2
      <4>4. text = Text("Stk", at, 0)
        BY <3>2, <4>1, <4>3 DEF text
      <4> QED BY <2>1, <3>2, <4>4 DEF Target, Right
    <3> QED BY <3>1, <3>2
  <2>2. CASE at = None
    <3>1. Gdb
      BY <2>2 DEF PdbRuns
    <3>2. text = Nothing
      BY <1>1, <1>3, <1>6, <2>2, <3>1, AnswersAre DEF text, Found, Error, Text
    <3> QED BY <2>2, <3>2 DEF Target
  <2> QED BY <2>1, <2>2
<1> QED BY <1>4, <1>5, <1>6 DEF Tells

(* Brk and Wat crash on a foreign answer only.                             *)
LEMMA BrkFinishes == ASSUME TypeOK, PdbRuns, UpdateBrk PROVE Finishes("Brk") /\ Tells("Brk")
<1>1. "Brk" \in Windows /\ "Brk" \notin Told
  BY DEF Windows, Told, ShowsPlace
<1>2. /\ \/ Gdb /\ buffers.data.of # "Brk" /\ Crash
         \/ \E text : Show("Brk", text)
      /\ Using("Brk") /\ Looked
  BY DEF UpdateBrk
<1>3. Active /\ upd.window = "Brk" /\ (Fresh("Brk") => buffers = Answer("Brk"))
  BY <1>2 DEF Using, Asks, Active, Fresh
<1>4. \A text : Show("Brk", text) =>
        upd' = NoUpdate /\ \A v \in Windows \ {"Brk"} : win'[v] = win[v]
  BY <1>1, Showing
<1>5. Finishes("Brk")
  BY <1>2, <1>3, <1>4 DEF Finishes, Looked, Crash
<1>6. Fresh("Brk") /\ Gdb => buffers.data.of = "Brk"
  BY <1>1, <1>3, AnswersAre DEF Text
<1> QED BY <1>1, <1>2, <1>4, <1>5, <1>6 DEF Tells

(* Wat shows the value, or none after an error, and empties the buffers.   *)
LEMMA WatFinishes == ASSUME TypeOK, PdbRuns, UpdateWat PROVE Finishes("Wat") /\ Tells("Wat")
<1>1. "Wat" \in Windows
  BY DEF Windows
<1>2. /\ IF ~Gdb THEN Show("Wat", Through(wat_lines, buffers.program))
         ELSE IF HasError(buffers.data) THEN Show("Wat", Text("none", None, 0))
         ELSE \/ Show("Wat", buffers.cli)
              \/ buffers.cli.of # "Wat" /\ Crash
      /\ wat_lines' = IF ~Gdb /\ wat_lines = None THEN buffers.program ELSE wat_lines
      /\ Using("Wat") /\ Used /\ UNCHANGED <<curr_func, main_src_path>>
  BY DEF UpdateWat
<1>3. Active /\ upd.window = "Wat" /\ (Fresh("Wat") => buffers = Answer("Wat"))
  BY <1>2 DEF Using, Asks, Active, Fresh
<1>4. \A text : Show("Wat", text) =>
        /\ upd' = NoUpdate /\ win'["Wat"] = text
        /\ \A v \in Windows \ {"Wat"} : win'[v] = win[v]
  BY <1>1, Showing
<1>5. Finishes("Wat")
  BY <1>2, <1>3, <1>4 DEF Finishes, Crash
<1>6. ASSUME Fresh("Wat") PROVE Show("Wat", Target("Wat")) /\ Target("Wat")' = Target("Wat")
  <2>0. UNCHANGED <<debugger, at, hurried>> /\ Gdb' = Gdb
    BY <1>2 DEF Used, program, Gdb
  <2>1. CASE ~Gdb
    <3>1. at # None /\ buffers.program = Text("Wat", at, 0)
      BY <1>1, <1>3, <1>6, <2>1, AnswersAre DEF PdbRuns
    <3>2. Target("Wat") = Through(wat_lines, Text("Wat", at, 0))
      BY <2>1, <3>1 DEF Target, Right
    <3>3. Target("Wat")' = Through(wat_lines', Text("Wat", at, 0))
      BY <2>0, <2>1, <3>1 DEF Target, Right, Through, Text, Cut
    <3>4. Through(wat_lines', Text("Wat", at, 0)) = Through(wat_lines, Text("Wat", at, 0))
      BY <1>2, <2>1, <3>1 DEF Through
    <3> QED BY <1>2, <2>1, <3>1, <3>2, <3>3, <3>4
  <2>2. CASE Gdb /\ at # None
    <3>1. buffers.cli = Text("Wat", at, 0) /\ buffers.data = Nothing
      BY <1>1, <1>3, <1>6, <2>2, AnswersAre
    <3>2. buffers.cli.of = "Wat" /\ ~HasError(buffers.data)
      <4>1. Text("Wat", at, 0).of = "Wat" /\ Nothing.of = ""
        BY DEF Nothing, Text
      <4> QED BY <3>1, <4>1, PlainErrors
    <3>3. Target("Wat") = Text("Wat", at, 0) /\ Target("Wat")' = Text("Wat", at, 0)
      BY <2>0, <2>2 DEF Target, Right, Text
    <3> QED BY <1>2, <2>2, <3>1, <3>2, <3>3
  <2>3. CASE Gdb /\ at = None
    <3>1. HasError(buffers.data)
      BY <1>1, <1>3, <1>6, <2>3, AnswersAre DEF Error, Text, HasError
    <3>2. Target("Wat") = Text("none", None, 0) /\ Target("Wat")' = Text("none", None, 0)
      BY <2>0, <2>3 DEF Target, Text
    <3> QED BY <1>2, <2>3, <3>1, <3>2
  <2> QED BY <2>1, <2>2, <2>3
<1> QED BY <1>4, <1>5, <1>6 DEF Tells

(* Src shows where the program is, or main's file if it does not run.      *)
LEMMA SrcRunningFinishes ==
  ASSUME TypeOK, PdbRuns, UpdateSrcRunning
  PROVE  Finishes("Src") /\ Tells("Src")
<1> DEFINE place == buffers.data.at
           path == IF ~upd.killing THEN File[place] ELSE main_src_path
<1>1. "Src" \in Windows
  BY DEF Windows
<1>2. /\ Gdb /\ Using("Src") /\ Stopped /\ Used /\ UNCHANGED wat_lines
      /\ curr_func' = Func[place]
      /\ ShowSource(File[place], place, TRUE)
  BY DEF UpdateSrcRunning
<1>3. Active /\ upd.window = "Src" /\ (Fresh("Src") => ~upd.killing /\ buffers = Answer("Src"))
  BY <1>2 DEF Using, Asks, Active, Fresh
<1>4. \/ Crash /\ upd.killing
      \/ /\ Show("Src", Text(path, place, 0))
         /\ main_src_path' = IF first_run THEN File[place] ELSE main_src_path
  BY <1>2 DEF ShowSource
<1> HIDE DEF path
<1>5. Show("Src", Text(path, place, 0)) =>
        /\ upd' = NoUpdate /\ win'["Src"] = Text(path, place, 0)
        /\ \A v \in Windows \ {"Src"} : win'[v] = win[v]
  BY <1>1, Showing
<1>6. Finishes("Src")
  BY <1>2, <1>3, <1>4, <1>5 DEF Finishes, Crash
<1>7. ASSUME Fresh("Src")
      PROVE  place = at /\ at # None /\ path = File[at]
  <2>1. buffers.data = Text("threads", at, 0)
    BY <1>1, <1>2, <1>3, <1>7, AnswersAre
  <2>2. place = at
    BY <2>1 DEF Text
  <2>3. at # None
    BY <1>2, <2>2 DEF Stopped
  <2> QED BY <1>3, <1>7, <2>2, <2>3 DEF path
<1>8. Fresh("Src") => Target("Src") = Text(path, place, 0)
  BY <1>7 DEF Target, Right
<1> HIDE DEF place
<1>9. Fresh("Src") => curr_func' = FuncHere
  BY <1>2, <1>7 DEF FuncHere
<1> QED BY <1>3, <1>4, <1>5, <1>6, <1>7, <1>8, <1>9 DEF Tells

(* Without threads Src shows main's file and forgets the function.         *)
LEMMA SrcNotRunningFinishes ==
  ASSUME TypeOK, PdbRuns, Begun, UpdateSrcNotRunning
  PROVE  Finishes("Src") /\ Tells("Src")
<1> DEFINE path == IF ~upd.killing /\ first_run THEN MainFile ELSE main_src_path
<1>1. "Src" \in Windows
  BY DEF Windows
<1>2. /\ upd.step = "files" /\ Used /\ UNCHANGED wat_lines
      /\ curr_func' = None
      /\ IF buffers.data.of = "files" THEN ShowSource(MainFile, None, FALSE)
         ELSE Show("Src", win["Src"]) /\ UNCHANGED main_src_path
  BY DEF UpdateSrcNotRunning
<1>3. Active /\ upd.window = "Src"
  BY <1>2 DEF Begun, Active
<1>4. Fresh("Src") => ~upd.killing /\ at = None /\ buffers.data.of = "files"
  BY <1>2, IntoIs DEF Fresh, Text
<1>5. ShowSource(MainFile, None, FALSE) =>
        \/ Crash /\ upd.killing
        \/ /\ Show("Src", Text(path, None, 0))
           /\ main_src_path' = IF first_run THEN MainFile ELSE main_src_path
  BY DEF ShowSource
<1> HIDE DEF path
<1>6. \A text : Show("Src", text) =>
        /\ upd' = NoUpdate /\ win'["Src"] = text
        /\ \A v \in Windows \ {"Src"} : win'[v] = win[v]
  BY <1>1, Showing
<1>7. Finishes("Src")
  BY <1>2, <1>3, <1>5, <1>6 DEF Finishes, Crash
<1>8. ASSUME Fresh("Src"), first_run \/ main_src_path = MainFile
      PROVE  Target("Src") = Text(path, None, 0)
  <2>1. path = MainFile
    BY <1>4, <1>8 DEF path
  <2> QED BY <1>4, <1>8, <2>1 DEF Target
<1>9. Fresh("Src") => curr_func' = FuncHere
  BY <1>2, <1>4 DEF FuncHere
<1> QED BY <1>2, <1>4, <1>5, <1>6, <1>7, <1>8, <1>9 DEF Tells

(* PDB's answer to Src names file and line.                                *)
LEMMA SrcPdbFinishes ==
  ASSUME TypeOK, PdbRuns, UpdateSrcPdb
  PROVE  Finishes("Src") /\ Tells("Src")
<1>1. "Src" \in Windows
  BY DEF Windows
<1>2. /\ ~Gdb /\ Using("Src") /\ Looked
      /\ \/ Show("Src", Text(File[at], at, 0))
         \/ buffers.cli.of # "Src" /\ Crash
  BY DEF UpdateSrcPdb
<1>3. Active /\ upd.window = "Src" /\ (Fresh("Src") => buffers = Answer("Src"))
  BY <1>2 DEF Using, Asks, Active, Fresh
<1>4. \A text : Show("Src", text) =>
        /\ upd' = NoUpdate /\ win'["Src"] = text
        /\ \A v \in Windows \ {"Src"} : win'[v] = win[v]
  BY <1>1, Showing
<1>5. Finishes("Src")
  BY <1>2, <1>3, <1>4 DEF Finishes, Looked, Crash
<1>6. Fresh("Src") => buffers.cli.of = "Src"
  BY <1>1, <1>2, <1>3, AnswersAre DEF Text
<1>7. Target("Src") = Text(File[at], at, 0)
  BY <1>2 DEF PdbRuns, Target, Right
<1> QED BY <1>2, <1>4, <1>5, <1>6, <1>7 DEF Tells

(* Every reader finishes the update of its window and tells the truth.     *)
LEMMA ReadersFinish ==
  ASSUME TypeOK, PdbRuns, Begun,
         UpdateDbg \/ UpdatePrg \/ UpdateAsmReg \/ UpdateLcV \/ UpdateStk \/ UpdateBrk \/ UpdateWat
         \/ UpdateSrcRunning \/ UpdateSrcNotRunning \/ UpdateSrcPdb
  PROVE  \E w \in Windows : Finishes(w) /\ Tells(w)
<1>1. {"Dbg", "Prg", "LcV", "Stk", "Brk", "Wat", "Src", "Asm", "Reg"} \subseteq Windows
  BY DEF Windows
<1> QED BY <1>1, DbgFinishes, PrgFinishes, AsmRegFinishes, LcVFinishes, StkFinishes, BrkFinishes,
           WatFinishes, SrcRunningFinishes, SrcNotRunningFinishes, SrcPdbFinishes

-----------------------------------------------------------------------------
(* The queue                                                               *)

(* What is queued behind a queue is queued, and keeps its order.           *)
LEMMA QueuedBehind ==
  ASSUME NEW q \in Seq(Windows), NEW batch \in Seq(Windows)
  PROVE  /\ ToSet(q) \subseteq ToSet(q \o batch) /\ ToSet(batch) \subseteq ToSet(q \o batch)
         /\ SrcBeforeAsm(q) \/ SrcBeforeAsm(batch) => SrcBeforeAsm(q \o batch)
<1> DEFINE both == q \o batch
<1>1. /\ Len(q) \in Nat /\ Len(batch) \in Nat
      /\ DOMAIN q = 1 .. Len(q) /\ DOMAIN batch = 1 .. Len(batch)
  OBVIOUS
<1>2. both \in Seq(Windows) /\ DOMAIN both = 1 .. Len(q) + Len(batch)
  OBVIOUS
<1>3. /\ \A i \in DOMAIN q : i \in DOMAIN both /\ both[i] = q[i]
      /\ \A i \in DOMAIN batch : Len(q) + i \in DOMAIN both /\ both[Len(q) + i] = batch[i]
  BY <1>1, <1>2
<1> HIDE DEF both
<1>4. ToSet(q) \subseteq ToSet(both) /\ ToSet(batch) \subseteq ToSet(both)
  BY <1>3 DEF ToSet
<1>5. SrcBeforeAsm(q) => SrcBeforeAsm(both)
  BY <1>3 DEF SrcBeforeAsm
<1>6. SrcBeforeAsm(batch) => SrcBeforeAsm(both)
  BY <1>1, <1>3 DEF SrcBeforeAsm
<1> QED BY <1>4, <1>5, <1>6 DEF both

(* Without its head a queue has the same updates but the first.            *)
LEMMA QueuedNext ==
  ASSUME NEW q \in Seq(Windows), q # <<>>
  PROVE  /\ Head(q) \in Windows /\ Tail(q) \in Seq(Windows)
         /\ ToSet(q) = {Head(q)} \cup ToSet(Tail(q))
         /\ SrcBeforeAsm(q) =>
              SrcBeforeAsm(Tail(q)) \/ (Head(q) = "Src" /\ "Asm" \in ToSet(Tail(q)))
<1> DEFINE rest == Tail(q)
<1>1. Len(q) \in Nat /\ Len(q) > 0 /\ DOMAIN q = 1 .. Len(q) /\ Head(q) = q[1] /\ Head(q) \in Windows
  BY EmptySeq
<1>2. /\ rest \in Seq(Windows) /\ DOMAIN rest = 1 .. Len(q) - 1
      /\ \A i \in 1 .. Len(q) - 1 : rest[i] = q[i + 1]
  BY <1>1
<1> HIDE DEF rest
<1>3. ASSUME NEW i \in DOMAIN q, i # 1
      PROVE  i - 1 \in DOMAIN rest /\ rest[i - 1] = q[i]
  <2>1. i \in Nat /\ i - 1 \in 1 .. Len(q) - 1 /\ (i - 1) + 1 = i
    BY <1>1, <1>3
  <2> QED BY <1>2, <2>1
<1>4. \A i \in DOMAIN rest : i + 1 \in DOMAIN q /\ q[i + 1] = rest[i]
  BY <1>1, <1>2
<1>5. ToSet(q) = {Head(q)} \cup ToSet(rest)
  BY <1>1, <1>3, <1>4 DEF ToSet
<1>6. ASSUME SrcBeforeAsm(q)
      PROVE  SrcBeforeAsm(rest) \/ (Head(q) = "Src" /\ "Asm" \in ToSet(rest))
  <2>1. PICK i, j \in DOMAIN q : i < j /\ q[i] = "Src" /\ q[j] = "Asm"
    BY <1>6 DEF SrcBeforeAsm
  <2>2. j - 1 \in DOMAIN rest /\ rest[j - 1] = "Asm"
    BY <1>1, <1>3, <2>1
  <2>3. CASE i = 1
    BY <1>1, <2>1, <2>2, <2>3 DEF ToSet
  <2>4. CASE i # 1
    <3> DEFINE k == i - 1
               l == j - 1
    <3>1. k \in DOMAIN rest /\ rest[k] = "Src" /\ k < l
      BY <1>1, <1>3, <2>1, <2>4
    <3>2. l \in DOMAIN rest /\ rest[l] = "Asm"
      BY <2>2
    <3> HIDE DEF k, l
    <3> QED BY <3>1, <3>2 DEF SrcBeforeAsm
  <2> QED BY <2>3, <2>4
<1> QED BY <1>1, <1>2, <1>5, <1>6 DEF rest

-----------------------------------------------------------------------------
(* The steps                                                               *)

(* A step is a command, its output, its announcement, a layout, an update  *)
(* that begins or asks, or a reader that finishes.                         *)
LEMMA StepsAre ==
  ASSUME TypeOK, PdbRuns, Begun, [Next]_vars
  PROVE  \/ UNCHANGED vars
         \/ \E plugin \in Commands, places \in SUBSET (Places \cup {None}) :
              Send(plugin, places) /\ (~Gdb => places \subseteq Places)
         \/ Parse \/ Announce \/ ChooseLayout
         \/ Dequeue \/ Ask \/ AskFiles
         \/ \E w \in Windows : Finishes(w) /\ Tells(w)
BY PluginsSend, ReadersFinish DEF Next, UpdateThread

(* While the debugger answers, an update that was fresh stays fresh.       *)
LEMMA AsksKeepFresh ==
  ASSUME TypeOK, Begun, Ask \/ AskFiles
  PROVE  /\ Active /\ Active' /\ upd'.window = upd.window /\ ~Crashed'
         /\ upd'.step = "files" => Gdb /\ upd.window = "Src"
         /\ \A w \in Windows : Fresh(w) => Fresh(w)'
<1>0. upd \in Updates
  BY TypesAre
<1>1. \A w \in Windows : UNCHANGED <<debugger, at, curr_func>> => Answer(w)' = Answer(w)
  BY DEF Answer, Gdb, Disassembly
<1>2. CASE Ask
  <2>1. /\ upd.step = "ask" /\ buffers' = Answer(upd.window)
        /\ upd' = [upd EXCEPT !.step = "use", !.killing = (curr_plugin_index = "Kil")]
        /\ UNCHANGED <<debugger, at, curr_func>>
    BY <1>2 DEF Ask, program, reader
  <2>2. upd'.window = upd.window /\ upd'.step = "use" /\ (curr_plugin_index # "Kil" => ~upd'.killing)
    BY <1>0, <2>1 DEF Updates
  <2>3. ASSUME NEW w \in Windows, Fresh(w) PROVE Fresh(w)'
    BY <1>1, <2>1, <2>2, <2>3 DEF Fresh
  <2> QED BY <2>1, <2>2, <2>3 DEF Active, Crashed
<1>3. CASE AskFiles
  <2>1. /\ Gdb /\ upd.window = "Src" /\ upd.step = "use" /\ ~Stopped
        /\ buffers' = Into("data", Text("files", None, 0))
        /\ upd' = [upd EXCEPT !.step = "files"]
        /\ UNCHANGED at
    BY <1>3 DEF AskFiles, Using, Asks, Looked, Used, program
  <2>2. upd'.window = upd.window /\ upd'.step = "files" /\ upd'.killing = upd.killing
    BY <1>0, <2>1 DEF Updates
  <2>3. ASSUME NEW w \in Windows, Fresh(w) PROVE Fresh(w)'
    <3>1. w = "Src" /\ ~upd.killing /\ buffers = Answer(w)
      BY <2>1, <2>3 DEF Fresh
    <3>2. buffers.data = Text("threads", at, 0)
      BY <2>1, <3>1, AnswersAre
    <3>3. at = None
      BY <2>1, <3>2 DEF Stopped, Text
    <3>4. Into("data", Text("files", None, 0))' = Into("data", Text("files", None, 0))
      BY DEF Into, Empty, Nothing, Text
    <3> QED BY <2>1, <2>2, <3>1, <3>3, <3>4 DEF Fresh
  <2> QED BY <2>1, <2>2, <2>3 DEF Active, Crashed
<1> QED BY <1>2, <1>3

-----------------------------------------------------------------------------
(* The parts of the invariant                                              *)

(* A step that leaves update and answers alone leaves them fresh.          *)
LEMMA FreshStays ==
  ASSUME UNCHANGED <<debugger, at, upd, curr_func, buffers>>,
         curr_plugin_index' = curr_plugin_index \/ curr_plugin_index' # "Kil"
  PROVE  \A w : Fresh(w) => Fresh(w)'
<1>1. \A w : Answer(w)' = Answer(w)
  BY DEF Answer, Gdb, Disassembly
<1>2. Into("data", Text("files", None, 0))' = Into("data", Text("files", None, 0))
  BY DEF Into, Empty, Nothing, Text
<1> QED BY <1>1, <1>2 DEF Fresh

(* PDB's program goes on running, and what is begun is in order.           *)
LEMMA NextKeepsBegun ==
  ASSUME TypeOK, PdbRuns, Begun, [Next]_vars
  PROVE  PdbRuns' /\ Begun'
<1>1. CASE UNCHANGED vars
  BY <1>1 DEF vars, program, sender, reader, PdbRuns, Begun, Gdb, Active
<1>2. ASSUME NEW plugin \in Commands, NEW places \in SUBSET (Places \cup {None}),
             Send(plugin, places), ~Gdb => places \subseteq Places
      PROVE  PdbRuns' /\ Begun'
  <2>1. PICK line : said' = Append(said, line)
    BY <1>2 DEF Send
  <2>2. said' # <<>>
    BY <2>1, TypesAre
  <2> QED BY <1>2, <2>2, PlacesAssumption DEF Send, reader, PdbRuns, Begun, Gdb, Active
<1>3. CASE Parse
  BY <1>3 DEF Parse, program, reader, PdbRuns, Begun, Gdb, Active
<1>4. CASE Announce
  BY <1>4 DEF Announce, program, reader, PdbRuns, Begun, Gdb, Active
<1>5. CASE ChooseLayout
  BY <1>5 DEF ChooseLayout, program, reader, PdbRuns, Begun, Gdb, Active
<1>6. CASE Dequeue
  <2>1. Head(queue) \in Windows
    BY <1>6, TypesAre, QueuedNext DEF Dequeue
  <2> QED BY <1>6, <2>1 DEF Dequeue, program, sender, PdbRuns, Begun, Gdb, Active
<1>7. CASE Ask \/ AskFiles
  <2>1. UNCHANGED <<program, key>>
    BY <1>7 DEF Ask, AskFiles, Looked, Used, sender
  <2> QED BY <1>7, <2>1, AsksKeepFresh DEF program, PdbRuns, Begun, Gdb, Active
<1>8. ASSUME NEW w \in Windows, Finishes(w) PROVE PdbRuns' /\ Begun'
  BY <1>8 DEF Finishes, Used, program, NoUpdate, PdbRuns, Begun, Gdb, Active
<1> QED BY <1>1, <1>2, <1>3, <1>4, <1>5, <1>6, <1>7, <1>8, StepsAre

(* An update that begins is fresh.                                         *)
LEMMA DequeueIsFresh ==
  ASSUME TypeOK, Dequeue
  PROVE  /\ ~Active /\ ~Crashed'
         /\ \E w \in Windows : w = Head(queue) /\ upd'.window = w /\ Fresh(w)'
BY TypesAre, QueuedNext, IndexTyped DEF Dequeue, Fresh, Active, Crashed

(* A user who waits disturbs no update.                                    *)
LEMMA NextKeepsWaited ==
  ASSUME WindowInv, [Next]_vars
  PROVE  Waited'
<1> SUFFICES ASSUME ~hurried'
             PROVE  ~Crashed' /\ (Active' => Fresh(upd.window)') /\ (key' # "idle" => Quiet')
  BY DEF Waited
<1> USE DEF WindowInv
<1>1. CASE UNCHANGED vars
  <2>1. UNCHANGED <<debugger, at, upd, curr_func, buffers, curr_plugin_index, hurried, key, queue>>
    BY <1>1 DEF vars, program, sender, reader
  <2> QED BY <2>1, FreshStays DEF Waited, Crashed, Active, Quiet
<1>2. ASSUME NEW plugin, NEW places, Send(plugin, places)
      PROVE  ~Crashed' /\ (Active' => Fresh(upd.window)') /\ (key' # "idle" => Quiet')
  <2>1. Quiet /\ UNCHANGED <<queue, upd>>
    BY <1>2 DEF Send, reader
  <2> QED BY <2>1 DEF Quiet, Crashed, Active
<1>3. CASE Parse
  <2>1. Quiet /\ UNCHANGED <<queue, upd>>
    BY <1>3 DEF Parse, reader, Waited
  <2> QED BY <2>1 DEF Quiet, Crashed, Active
<1>4. CASE Announce
  <2>1. Quiet /\ UNCHANGED upd /\ key' = "idle"
    BY <1>4 DEF Announce, reader, Waited
  <2> QED BY <2>1 DEF Quiet, Crashed, Active
<1>5. CASE ChooseLayout
  <2>1. /\ UNCHANGED <<debugger, at, upd, curr_func, buffers, hurried, key>>
        /\ curr_plugin_index' # "Kil" /\ key = "idle"
    BY <1>5, IndexTyped DEF ChooseLayout, program, reader
  <2> QED BY <2>1, FreshStays DEF Waited, Crashed, Active
<1>6. CASE Dequeue
  <2>1. key' = "idle"
    BY <1>6 DEF Dequeue, sender, Waited, Quiet
  <2> QED BY <1>6, <2>1, DequeueIsFresh
<1>7. CASE Ask \/ AskFiles
  <2>1. UNCHANGED <<key, hurried>>
    BY <1>7 DEF Ask, AskFiles, Looked, Used, sender
  <2>2. upd.window \in Windows /\ Fresh(upd.window) /\ key' = "idle"
    BY <1>7, <2>1, AsksKeepFresh DEF Begun, Waited, Quiet, Active
  <2> QED BY <1>7, <2>2, AsksKeepFresh
<1>8. ASSUME NEW w \in Windows, Finishes(w), Tells(w)
      PROVE  ~Crashed' /\ (Active' => Fresh(upd.window)') /\ (key' # "idle" => Quiet')
  <2>1. Fresh(w) /\ key' = "idle"
    BY <1>8 DEF Finishes, Used, Waited, Quiet, Active
  <2>2. upd' = NoUpdate
    BY <1>8, <2>1 DEF Tells
  <2> QED BY <2>1, <2>2 DEF NoUpdate, Crashed, Active
<1> QED BY <1>1, <1>2, <1>3, <1>4, <1>5, <1>6, <1>7, <1>8, StepsAre

(* Nothing is queued or fresh when all is quiet.                           *)
LEMMA QuietIs ==
  ASSUME Quiet
  PROVE  /\ \A w : ~Queued(w) /\ ~Fresh(w)
         /\ ~SrcBeforeAsm(queue) /\ ~Active /\ ~Crashed
<1>1. ToSet(queue) = {} /\ ~SrcBeforeAsm(queue)
  BY EmptySeq DEF Quiet, ToSet, SrcBeforeAsm
<1> QED BY <1>1 DEF Quiet, Queued, Fresh, Active, Crashed

(* What is queued stays queued when more is, and is begun in its turn.     *)
LEMMA QueuedStays ==
  ASSUME TypeOK
  PROVE  /\ Announce \/ ChooseLayout =>
              /\ \A w : Queued(w) => Queued(w)'
              /\ SrcBeforeAsm(queue) => SrcBeforeAsm(queue)'
         /\ Announce => /\ \A w \in refreshed' : Queued(w)'
                        /\ "Asm" \in refreshed' => SrcBeforeAsm(queue)'
         /\ ChooseLayout => /\ \A w \in refreshed' : Queued(w)' \/ w \in refreshed
                            /\ SrcBeforeAsm(queue)'
         /\ Dequeue =>
              /\ \A w : Queued(w) => Queued(w)' \/ w = Head(queue)
              /\ SrcBeforeAsm(queue) =>
                   SrcBeforeAsm(queue)' \/ (Head(queue) = "Src" /\ Queued("Asm")')
<1>1. queue \in Seq(Windows)
  BY TypesAre
<1>2. ASSUME Announce
      PROVE  /\ \A w : Queued(w) => Queued(w)'
             /\ SrcBeforeAsm(queue) => SrcBeforeAsm(queue)'
             /\ \A w \in refreshed' : Queued(w)'
             /\ "Asm" \in refreshed' => SrcBeforeAsm(queue)'
  <2> DEFINE batch == Batch(Last(said).plugin)
  <2>1. queue' = queue \o batch /\ refreshed' = UpToDate(batch)
    BY <1>2 DEF Announce
  <2>2. batch \in Seq(Windows)
    BY BatchTyped
  <2> HIDE DEF batch
  <2>3. /\ ToSet(queue) \subseteq ToSet(queue') /\ ToSet(batch) \subseteq ToSet(queue')
        /\ SrcBeforeAsm(queue) \/ SrcBeforeAsm(batch) => SrcBeforeAsm(queue')
    BY <1>1, <2>1, <2>2, QueuedBehind
  <2> QED BY <2>1, <2>2, <2>3, UpToDateIs DEF Queued
<1>3. ASSUME ChooseLayout
      PROVE  /\ \A w : Queued(w) => Queued(w)'
             /\ \A w \in refreshed' : Queued(w)' \/ w \in refreshed
             /\ SrcBeforeAsm(queue)'
  <2>1. queue' = queue \o LayoutBatch /\ refreshed' = refreshed \cup UpToDate(LayoutBatch)
    BY <1>3 DEF ChooseLayout
  <2>2. LayoutBatch \in Seq(Windows)
    BY BatchTyped
  <2>3. SrcBeforeAsm(LayoutBatch)
    <3>1. 3 \in DOMAIN LayoutBatch /\ 4 \in DOMAIN LayoutBatch
          /\ LayoutBatch[3] = "Src" /\ LayoutBatch[4] = "Asm"
      BY DEF LayoutBatch
    <3> QED BY <3>1 DEF SrcBeforeAsm
  <2>4. /\ ToSet(queue) \subseteq ToSet(queue') /\ ToSet(LayoutBatch) \subseteq ToSet(queue')
        /\ SrcBeforeAsm(queue')
    BY <1>1, <2>1, <2>2, <2>3, QueuedBehind
  <2> QED BY <2>1, <2>2, <2>4, UpToDateIs DEF Queued
<1>4. ASSUME Dequeue
      PROVE  /\ \A w : Queued(w) => Queued(w)' \/ w = Head(queue)
             /\ SrcBeforeAsm(queue) =>
                  SrcBeforeAsm(queue)' \/ (Head(queue) = "Src" /\ Queued("Asm")')
  <2>1. queue # <<>> /\ queue' = Tail(queue)
    BY <1>4 DEF Dequeue
  <2> QED BY <1>1, <2>1, QueuedNext DEF Queued
<1> QED BY <1>2, <1>3, <1>4

(* The first source that a waiting user is shown is main's.                *)
LEMMA NextKeepsMainFirst ==
  ASSUME WindowInv, [Next]_vars
  PROVE  MainFirst'
<1> USE DEF WindowInv
<1>1. ASSUME UNCHANGED <<hurried, debugger, at, main_src_path>>,
             Queued("Src") => Queued("Src")' \/ Fresh("Src")',
             Fresh("Src") => Fresh("Src")'
      PROVE  MainFirst'
  BY <1>1 DEF MainFirst, Gdb, first_run
<1>2. ASSUME Quiet, UNCHANGED <<debugger, main_src_path>>, ~hurried' => ~hurried
      PROVE  MainFirst'
  BY <1>2, QuietIs DEF MainFirst, Gdb, first_run
<1>3. CASE UNCHANGED vars
  <2>1. UNCHANGED <<debugger, at, upd, curr_func, buffers, curr_plugin_index, hurried,
                    main_src_path, queue>>
    BY <1>3 DEF vars, program, sender, reader
  <2>2. Queued("Src") => Queued("Src")'
    BY <2>1 DEF Queued
  <2> QED BY <1>1, <2>1, <2>2, FreshStays
<1>4. ASSUME NEW plugin, NEW places, Send(plugin, places) PROVE MainFirst'
  <2>1. UNCHANGED <<debugger, main_src_path>> /\ hurried' = (hurried \/ ~Quiet)
    BY <1>4 DEF Send, reader
  <2>2. CASE hurried'
    BY <2>2 DEF MainFirst
  <2>3. CASE ~hurried'
    BY <1>2, <2>1, <2>3
  <2> QED BY <2>2, <2>3
<1>5. CASE Parse \/ Announce
  <2>1. key # "idle" /\ UNCHANGED <<debugger, main_src_path, hurried>>
    BY <1>5 DEF Parse, Announce, program, reader
  <2>2. CASE hurried
    BY <2>1, <2>2 DEF MainFirst
  <2>3. CASE ~hurried
    BY <1>2, <2>1, <2>3 DEF Waited
  <2> QED BY <2>2, <2>3
<1>6. CASE ChooseLayout
  <2>1. /\ UNCHANGED <<debugger, at, upd, curr_func, buffers, hurried, main_src_path>>
        /\ curr_plugin_index' # "Kil"
    BY <1>6, IndexTyped DEF ChooseLayout, program, reader
  <2> QED BY <1>1, <1>6, <2>1, FreshStays, QueuedStays
<1>7. CASE Dequeue
  <2>1. UNCHANGED <<hurried, debugger, at, main_src_path>> /\ ~Fresh("Src")
    BY <1>7 DEF Dequeue, program, sender, Fresh
  <2> QED BY <1>1, <1>7, <2>1, DequeueIsFresh, QueuedStays
<1>8. CASE Ask \/ AskFiles
  <2>1. UNCHANGED <<hurried, debugger, at, main_src_path, queue>>
    BY <1>8 DEF Ask, AskFiles, Looked, Used, program, sender
  <2>2. (Queued("Src") => Queued("Src")') /\ "Src" \in Windows
    BY <2>1 DEF Queued, Windows
  <2> QED BY <1>1, <1>8, <2>1, <2>2, AsksKeepFresh
<1>9. ASSUME NEW w \in Windows, Finishes(w), Tells(w) PROVE MainFirst'
  <2>1. UNCHANGED <<hurried, debugger, at, queue>> /\ upd.window = w /\ Active
    BY <1>9 DEF Finishes, Used, program
  <2>2. Queued("Src") => Queued("Src")'
    BY <2>1 DEF Queued
  <2>3. CASE w # "Src"
    <3>1. ~Fresh("Src") /\ UNCHANGED main_src_path
      BY <1>9, <2>1, <2>3 DEF Fresh, Finishes
    <3> QED BY <1>1, <2>1, <2>2, <3>1
  <2>4. CASE w = "Src"
    <3> SUFFICES ASSUME ~hurried, Gdb PROVE main_src_path' = MainFile
      BY <2>1, PlacesAssumption DEF MainFirst, Gdb, first_run
    <3>1. Fresh("Src")
      BY <2>1, <2>4 DEF Waited
    <3>2. IF first_run THEN at = None ELSE main_src_path = MainFile
      BY DEF MainFirst
    <3> QED BY <1>9, <2>4, <3>1, <3>2 DEF Tells
  <2> QED BY <2>3, <2>4
<1> QED BY <1>3, <1>4, <1>5, <1>6, <1>7, <1>8, <1>9, StepsAre

(* What is to be told depends on the program and the user only.            *)
LEMMA ToldStays ==
  ASSUME UNCHANGED <<debugger, at, hurried>>
  PROVE  /\ Told' = Told /\ FuncHere' = FuncHere /\ Gdb' = Gdb
         /\ \A w : w # "Wat" \/ UNCHANGED wat_lines => Target(w)' = Target(w)
<1>1. Gdb' = Gdb
  BY DEF Gdb
<1>2. Told' = Told /\ FuncHere' = FuncHere
  BY <1>1 DEF Told, ShowsPlace, FuncHere
<1>3. ASSUME NEW w, w # "Wat" \/ UNCHANGED wat_lines PROVE Target(w)' = Target(w)
  BY <1>1, <1>3 DEF Target, Right, Disassembly, Text, Nothing, Found, HasError, Through, Cut
<1> QED BY <1>1, <1>2, <1>3

(* Between two commands every updated window shows the program, is being   *)
(* brought up to date or is queued.                                        *)
LEMMA NextKeepsRefreshing ==
  ASSUME WindowInv, [Next]_vars
  PROVE  Refreshing'
<1> USE DEF WindowInv
<1> DEFINE Good(w) == \/ Queued(w) \/ Fresh(w)
                      \/ win[w] = Target(w) /\ ~(Active /\ upd.window = w)
<1>0. /\ key # "idle" => refreshed = {}
      /\ ~Crashed => \A w \in refreshed \cap Told : Good(w)
      /\ refreshed \subseteq Windows /\ refreshed' \subseteq Windows
  BY TypesAre, NextPreservesTypes DEF Refreshing, TypeOK
<1>1. ASSUME key' # "idle" => refreshed' = {}, UNCHANGED <<debugger, at, hurried>>,
             ~Crashed' => \A w \in refreshed' \cap Told : Good(w)'
      PROVE  Refreshing'
  BY <1>1, ToldStays DEF Refreshing
<1>2. ASSUME refreshed' = {}
      PROVE  Refreshing'
  BY <1>2 DEF Refreshing
<1>3. CASE UNCHANGED vars
  <2>1. UNCHANGED <<debugger, at, upd, curr_func, buffers, curr_plugin_index, hurried,
                    queue, win, wat_lines, key, refreshed>>
    BY <1>3 DEF vars, program, sender, reader
  <2>2. \A w : (Queued(w) => Queued(w)') /\ (Fresh(w) => Fresh(w)') /\ Target(w)' = Target(w)
    BY <2>1, FreshStays, ToldStays DEF Queued
  <2> QED BY <1>0, <1>1, <2>1, <2>2 DEF Crashed, Active
<1>4. ASSUME NEW plugin, NEW places, Send(plugin, places) PROVE Refreshing'
  BY <1>2, <1>4 DEF Send
<1>5. CASE Parse
  BY <1>0, <1>2, <1>5 DEF Parse
<1>6. CASE Announce
  <2>1. UNCHANGED <<debugger, at, hurried>> /\ key' = "idle"
    BY <1>6 DEF Announce, program
  <2> QED BY <1>1, <1>6, <2>1, QueuedStays
<1>7. CASE ChooseLayout
  <2>1. /\ UNCHANGED <<debugger, at, upd, curr_func, buffers, hurried, win, wat_lines, key>>
        /\ curr_plugin_index' # "Kil" /\ key = "idle" /\ ~Crashed
    BY <1>7, IndexTyped DEF ChooseLayout, program, reader
  <2>2. \A w : (Fresh(w) => Fresh(w)') /\ Target(w)' = Target(w)
    BY <2>1, FreshStays, ToldStays
  <2>3. \A w \in refreshed \cap Told : Good(w)'
    BY <1>0, <1>7, <2>1, <2>2, QueuedStays DEF Active
  <2> QED BY <1>1, <1>7, <2>1, <2>3, QueuedStays
<1>8. CASE Dequeue
  <2>1. UNCHANGED <<debugger, at, hurried, win, wat_lines, key, refreshed>> /\ ~Crashed
    BY <1>8 DEF Dequeue, program, sender, Crashed
  <2>2. \A w : Target(w)' = Target(w) /\ ~Fresh(w)
    BY <1>8, <2>1, ToldStays DEF Dequeue, Fresh
  <2>3. ASSUME NEW w \in refreshed \cap Told PROVE Good(w)'
    <3>1. CASE w = Head(queue)
      BY <1>8, <3>1, DequeueIsFresh
    <3>2. CASE w # Head(queue)
      BY <1>0, <1>8, <2>1, <2>2, <2>3, <3>2, DequeueIsFresh, QueuedStays
    <3> QED BY <3>1, <3>2
  <2> QED BY <1>0, <1>1, <2>1, <2>3
<1>9. CASE Ask \/ AskFiles
  <2>1. UNCHANGED <<debugger, at, hurried, win, wat_lines, key, refreshed, queue>>
    BY <1>9 DEF Ask, AskFiles, Looked, Used, program, sender
  <2>2. ~Crashed
    BY <1>9, AsksKeepFresh DEF Active, Crashed
  <2>3. \A w \in Windows : /\ Queued(w) => Queued(w)'
                           /\ Fresh(w) => Fresh(w)'
                           /\ Target(w)' = Target(w)
    BY <1>9, <2>1, AsksKeepFresh, ToldStays DEF Queued
  <2>4. \A w \in refreshed \cap Told : Good(w)'
    BY <1>0, <1>9, <2>1, <2>2, <2>3, AsksKeepFresh
  <2> QED BY <1>0, <1>1, <2>1, <2>4
<1>10. ASSUME NEW v \in Windows, Finishes(v), Tells(v) PROVE Refreshing'
  <2>1. UNCHANGED <<debugger, at, hurried, key, refreshed, queue>> /\ upd.window = v /\ Active
    BY <1>10 DEF Finishes, Used, program
  <2>2. ~Active' /\ ~Crashed
    BY <1>10, <2>1 DEF Finishes, NoUpdate, Active, Crashed
  <2>3. \A w : /\ Queued(w) => Queued(w)'
               /\ w # v \/ Fresh(v) => Target(w)' = Target(w)
    BY <1>10, <2>1, ToldStays DEF Queued, Finishes, Tells
  <2>4. ASSUME NEW w \in refreshed \cap Told PROVE Good(w)'
    <3>1. CASE Queued(w)
      BY <2>3, <3>1
    <3>2. CASE w # v /\ ~Queued(w)
      <4>1. win[w] = Target(w)
        BY <1>0, <2>1, <2>2, <2>4, <3>2 DEF Fresh
      <4>2. win'[w] = win[w]
        BY <1>0, <1>10, <2>4, <3>2 DEF Finishes
      <4> QED BY <2>2, <2>3, <3>2, <4>1, <4>2
    <3>3. CASE w = v /\ ~Queued(w)
      <4>1. Fresh(v)
        BY <1>0, <2>1, <2>2, <2>4, <3>3
      <4>2. w = "Asm" /\ Gdb => curr_func = FuncHere
        <5>1. w = "Asm" => ~SrcBeforeAsm(queue)
          BY <3>3 DEF Queued, ToSet, SrcBeforeAsm
        <5> QED BY <2>2, <2>4, <3>3, <5>1 DEF FuncKnown
      <4>3. w = "Src" /\ at = None => first_run \/ main_src_path = MainFile
        BY <2>4 DEF Told, MainFirst, PdbRuns
      <4>4. win'[w] = Target(w)
        BY <1>10, <2>4, <3>3, <4>1, <4>2, <4>3 DEF Tells
      <4> QED BY <2>2, <2>3, <4>1, <4>4
    <3> QED BY <3>1, <3>2, <3>3
  <2> QED BY <1>0, <1>1, <2>1, <2>4
<1> QED BY <1>3, <1>4, <1>5, <1>6, <1>7, <1>8, <1>9, <1>10, StepsAre

(* When Asm was updated, the function is known or a source comes first.    *)
LEMMA NextKeepsFuncKnown ==
  ASSUME WindowInv, [Next]_vars
  PROVE  FuncKnown'
<1> USE DEF WindowInv
<1>0. refreshed \subseteq Windows /\ "Src" \in Windows
  BY TypesAre DEF Windows
<1>1. CASE UNCHANGED vars
  <2>1. UNCHANGED <<debugger, at, upd, curr_func, buffers, curr_plugin_index, hurried,
                    queue, refreshed>>
    BY <1>1 DEF vars, program, sender, reader
  <2>2. (Fresh("Src") => Fresh("Src")') /\ FuncHere' = FuncHere
    BY <2>1, FreshStays, ToldStays
  <2> QED BY <2>1, <2>2 DEF FuncKnown, Gdb, Crashed, Active, Queued
<1>2. ASSUME NEW plugin, NEW places, Send(plugin, places) PROVE FuncKnown'
  BY <1>2 DEF Send, FuncKnown
<1>3. CASE Parse
  BY <1>3 DEF Parse, sender, Refreshing, FuncKnown
<1>4. CASE Announce
  BY <1>4, QueuedStays DEF FuncKnown
<1>5. CASE ChooseLayout
  BY <1>5, QueuedStays DEF FuncKnown
<1>6. CASE Dequeue
  <2>1. UNCHANGED <<debugger, at, curr_func, refreshed, hurried>> /\ ~Crashed /\ ~Active
    BY <1>6 DEF Dequeue, program, sender, Crashed, Active
  <2>2. ~Fresh("Src") /\ FuncHere' = FuncHere
    BY <1>6, <2>1, ToldStays DEF Dequeue, Fresh
  <2>3. Active' /\ upd'.window = "Src" => Fresh("Src")'
    BY <1>6, DequeueIsFresh
  <2>4. Head(queue) = "Src" => Fresh("Src")'
    BY <1>6, DequeueIsFresh
  <2> QED BY <1>6, <2>1, <2>2, <2>3, <2>4, QueuedStays DEF FuncKnown, Gdb
<1>7. CASE Ask \/ AskFiles
  <2>1. UNCHANGED <<debugger, at, curr_func, refreshed, hurried, queue>>
    BY <1>7 DEF Ask, AskFiles, Looked, Used, program, sender
  <2>2. FuncHere' = FuncHere /\ ~Crashed
    BY <1>7, <2>1, ToldStays, AsksKeepFresh DEF Active, Crashed
  <2>3. (Queued("Asm") => Queued("Asm")') /\ (SrcBeforeAsm(queue) => SrcBeforeAsm(queue)')
    BY <2>1 DEF Queued, SrcBeforeAsm
  <2> QED BY <1>0, <1>7, <2>1, <2>2, <2>3, AsksKeepFresh DEF FuncKnown, Gdb
<1>8. ASSUME NEW v \in Windows, Finishes(v), Tells(v) PROVE FuncKnown'
  <2>1. UNCHANGED <<debugger, at, hurried, refreshed, queue>> /\ upd.window = v /\ Active
    BY <1>8 DEF Finishes, Used, program
  <2>2. ~Active' /\ ~Crashed /\ FuncHere' = FuncHere
    BY <1>8, <2>1, ToldStays DEF Finishes, NoUpdate, Active, Crashed
  <2>3. SrcBeforeAsm(queue) => SrcBeforeAsm(queue)'
    BY <2>1 DEF SrcBeforeAsm
  <2>4. CASE v # "Src"
    <3>1. UNCHANGED curr_func /\ ~Fresh("Src")
      BY <1>8, <2>1, <2>4 DEF Finishes, Fresh
    <3> QED BY <2>1, <2>2, <2>3, <3>1 DEF FuncKnown, Gdb
  <2>5. CASE v = "Src"
    <3>1. Fresh("Src") /\ Gdb => curr_func' = FuncHere
      BY <1>8, <2>5 DEF Tells
    <3> QED BY <2>1, <2>2, <2>3, <2>5, <3>1 DEF FuncKnown, Gdb
  <2> QED BY <2>4, <2>5
<1> QED BY <1>1, <1>2, <1>3, <1>4, <1>5, <1>6, <1>7, <1>8, StepsAre

-----------------------------------------------------------------------------
(* The theorems                                                            *)

(* The invariant holds when the debugger was started.                      *)
LEMMA InitEstablishesWindowInv ==
  ASSUME Init
  PROVE  WindowInv
<1>1. /\ queue = <<"Dbg", "Wat", "Brk", "Src", "Asm">> /\ upd = NoUpdate /\ key = "idle"
      /\ refreshed = {} /\ hurried = FALSE /\ main_src_path = None /\ debugger \in Debuggers
      /\ at \in IF Gdb THEN {None} ELSE Places
      /\ buffers \in {Empty, Into("cli", Text("start", None, 0))}
      /\ win = [w \in Windows |-> IF w \in {"Dbg", "Prg"} THEN <<>> ELSE Nothing]
  BY DEF Init
<1>2. at \in Places \cup {None} /\ (Gdb => at = None) /\ PdbRuns
  BY <1>1, PlacesAssumption DEF PdbRuns
<1>3. queue \in Seq(Windows) /\ Len(queue) <= MaxQueuedUpdates
  BY <1>1, BoundsAssumption DEF Windows
<1>4. WinTyped
  <2>1. \A w \in {"Dbg", "Prg"} : w \in Windows /\ Shown(w) = Seq(Texts)
    BY DEF Windows, Shown
  <2>2. \A w \in Windows \ {"Dbg", "Prg"} : Shown(w) = Texts
    BY DEF Shown
  <2>3. <<>> \in Seq(Texts) /\ Nothing \in Texts
    <3>1. <<>> \in Seq(Texts)
      OBVIOUS
    <3> QED BY <3>1, FixedTexts
  <2>4. ASSUME NEW w \in Windows PROVE win[w] \in Shown(w)
    <3>1. CASE w \in {"Dbg", "Prg"}
      BY <1>1, <2>1, <2>3, <2>4, <3>1
    <3>2. CASE w \notin {"Dbg", "Prg"}
      BY <1>1, <2>2, <2>3, <2>4, <3>2
    <3> QED BY <3>1, <3>2
  <2> QED BY <1>1, <2>4 DEF WinTyped
<1>5. buffers \in Buffers
  BY <1>1, FixedTexts, IntoTyped
<1>6. upd \in Updates
  BY <1>1 DEF NoUpdate, Updates
<1>7. new_data \in [{"Dbg", "Prg"} -> BOOLEAN]
  <2>1. new_data = [w \in {"Dbg", "Prg"} |-> w = "Dbg"]
    BY DEF Init
  <2>2. \A w : (w = "Dbg") \in BOOLEAN
    BY Zenon
  <2> QED BY <2>1, <2>2
<1>8. /\ said = <<>> /\ new_run = TRUE /\ wat_lines = None /\ curr_plugin_index = None /\ curr_func = None
  BY DEF Init
<1>9. TypeOK
  <2>1. /\ said \in Seq([plugin : Commands, cli : Texts, program : Texts])
        /\ key \in {"idle", "sent", "parsed"}
        /\ curr_plugin_index \in Windows \cup Plugins \cup {None}
        /\ curr_func \in {Func[p] : p \in Places} \cup {None}
        /\ main_src_path \in {File[p] : p \in Places} \cup {MainFile, None}
        /\ wat_lines \in Texts \cup {None}
        /\ refreshed \subseteq Windows
    BY <1>1, <1>8
  <2>2. hurried \in BOOLEAN /\ new_run \in BOOLEAN
    BY Zenon, <1>1, <1>8
  <2> QED BY <1>1, <1>2, <1>3, <1>4, <1>5, <1>6, <1>7, <2>1, <2>2, TypesAre
<1>10. Begun /\ Waited /\ ~Active /\ ~Crashed
  BY <1>1 DEF NoUpdate, Begun, Waited, Crashed, Active
<1>11. Queued("Src")
  <2>1. queue[4] = "Src" /\ 4 \in DOMAIN queue
    BY <1>1
  <2> QED BY <2>1 DEF Queued, ToSet
<1>12. MainFirst
  BY <1>1, <1>2, <1>11 DEF MainFirst, first_run
<1>13. Refreshing /\ FuncKnown
  BY <1>1 DEF Refreshing, FuncKnown
<1> QED BY <1>2, <1>9, <1>10, <1>12, <1>13 DEF WindowInv

(* The inductive invariant holds.                                          *)
THEOREM WindowInvariant == Spec => []WindowInv
<1>1. WindowInv /\ [Next]_vars => WindowInv'
  <2> SUFFICES ASSUME WindowInv, [Next]_vars PROVE WindowInv'
    OBVIOUS
  <2>1. TypeOK /\ PdbRuns /\ Begun
    BY DEF WindowInv
  <2>2. TypeOK' /\ PdbRuns' /\ Begun'
    BY <2>1, NextPreservesTypes, NextKeepsBegun
  <2>3. Waited' /\ MainFirst' /\ Refreshing' /\ FuncKnown'
    BY NextKeepsWaited, NextKeepsMainFirst, NextKeepsRefreshing, NextKeepsFuncKnown
  <2> QED BY <2>2, <2>3 DEF WindowInv
<1> QED BY <1>1, InitEstablishesWindowInv, PTL DEF Spec

(* Every variable has its type: no more updates are queued than fit, and   *)
(* windows and buffers hold texts that somebody printed or answered.       *)
THEOREM WindowTypeCorrect == Spec => []TypeOK
<1>1. WindowInv => TypeOK
  BY DEF WindowInv
<1> QED BY <1>1, WindowInvariant, PTL

(* A reader follows a NULL of strstr() (get_breakpoint_data.c,             *)
(* get_watchpoint_data.c, get_source_path_line_func.c)   only if a command *)
(* came before the windows had shown the last one.                         *)
THEOREM WaitingUsersAreSafe == Spec => []ReadersFindAnswers
<1>1. WindowInv => ReadersFindAnswers
  BY DEF WindowInv, Waited, ReadersFindAnswers
<1> QED BY <1>1, WindowInvariant, PTL

(* However fast the keys come, once the queue is empty every window that   *)
(* was updated since the program stopped shows where it stopped.           *)
THEOREM WindowsShowProgram == Spec => []ShowsProgram
<1>1. ASSUME WindowInv, AtRest, at # None, NEW w \in refreshed \cap ShowsPlace
      PROVE  win[w] = Right(w)
  <2>1. ~Queued(w) /\ ~Fresh(w) /\ ~Active /\ ~Crashed
    BY <1>1, QuietIs DEF AtRest
  <2>2. win[w] = Target(w)
    BY <1>1, <2>1 DEF WindowInv, Refreshing, Told
  <2> QED BY <1>1, <2>2 DEF Target
<1>2. WindowInv => ShowsProgram
  BY <1>1 DEF ShowsProgram
<1> QED BY <1>2, WindowInvariant, PTL

(* Without a running program no window that was updated shows one.         *)
THEOREM WindowsShowNoProgram == Spec => []ShowsNoProgram
<1>1. ASSUME WindowInv, AtRest, at = None, NEW w \in refreshed \cap Told
      PROVE  win[w] = Target(w)
  <2>1. ~Queued(w) /\ ~Fresh(w) /\ ~Active /\ ~Crashed
    BY <1>1, QuietIs DEF AtRest
  <2> QED BY <1>1, <2>1 DEF WindowInv, Refreshing
<1>2. ASSUME WindowInv, AtRest, at = None
      PROVE  /\ \A w \in refreshed \cap {"LcV", "Stk"} : win[w] = Nothing
             /\ "Wat" \in refreshed => win["Wat"].of = "none"
             /\ "Asm" \in refreshed => win["Asm"] = Disassembly(MainFunc)
             /\ "Src" \in refreshed /\ ~hurried => win["Src"] = Text(MainFile, None, 0)
  <2>1. /\ {"LcV", "Stk", "Wat", "Asm"} \subseteq Told
        /\ ~hurried => "Src" \in Told
    BY <1>2 DEF Told
  <2>2. /\ Target("LcV") = Nothing /\ Target("Stk") = Nothing
        /\ Target("Wat").of = "none"
        /\ Target("Asm") = Disassembly(MainFunc)
        /\ Target("Src") = Text(MainFile, None, 0)
    BY <1>2 DEF Target, Text
  <2> QED BY <1>1, <1>2, <2>1, <2>2
<1>3. WindowInv => ShowsNoProgram
  BY <1>2 DEF ShowsNoProgram
<1> QED BY <1>3, WindowInvariant, PTL

-----------------------------------------------------------------------------
(* Every output once                                                       *)

(* A step sends, parses, announces, lets Dbg or Prg take the output, or    *)
(* leaves the outputs and what the windows have of them alone.             *)
OutputsStay ==
  UNCHANGED <<debugger, said, key, new_data, new_run, hurried>>
  /\ \A w \in {"Dbg", "Prg"} : win'[w] = win[w]

LEMMA OutputStepsAre ==
  ASSUME TypeOK, PdbRuns, Begun, [Next]_vars
  PROVE  \/ \E plugin \in Commands : \E places : Send(plugin, places)
         \/ Parse \/ Announce \/ UpdateDbg \/ UpdatePrg
         \/ UNCHANGED vars /\ OutputsStay
         \/ (ChooseLayout \/ Dequeue \/ Ask \/ AskFiles) /\ OutputsStay
         \/ \E w \in Windows \ {"Dbg", "Prg"} : Finishes(w) /\ OutputsStay
<1>1. CASE SendDebuggerCommand \/ RunCustomCommand \/ ExecuteUntil \/ AttachToProcess
  BY <1>1, PluginsSend
<1>2. CASE Parse \/ Announce \/ UpdateDbg \/ UpdatePrg
  BY <1>2
<1>3. CASE UNCHANGED vars
  BY <1>3 DEF vars, program, sender, reader, OutputsStay
<1>4. CASE ChooseLayout \/ Dequeue \/ Ask \/ AskFiles
  BY <1>4 DEF ChooseLayout, Dequeue, Ask, AskFiles, Looked, Used, program, sender, reader,
              OutputsStay
<1>5. CASE UpdateAsmReg \/ UpdateLcV \/ UpdateStk \/ UpdateBrk \/ UpdateWat
           \/ UpdateSrcRunning \/ UpdateSrcNotRunning \/ UpdateSrcPdb
  <2>1. \E w \in {"LcV", "Stk", "Brk", "Wat", "Src", "Asm", "Reg"} : Finishes(w)
    BY <1>5, AsmRegFinishes, LcVFinishes, StkFinishes, BrkFinishes, WatFinishes,
       SrcRunningFinishes, SrcNotRunningFinishes, SrcPdbFinishes
  <2>2. PICK w \in Windows \ {"Dbg", "Prg"} : Finishes(w)
    BY <2>1 DEF Windows
  <2>3. UNCHANGED <<new_data, new_run>>
    BY <1>5 DEF UpdateAsmReg, UpdateLcV, UpdateStk, UpdateBrk, UpdateWat,
                UpdateSrcRunning, UpdateSrcNotRunning, UpdateSrcPdb, Looked
  <2>4. {"Dbg", "Prg"} \subseteq Windows
    BY DEF Windows
  <2>5. OutputsStay
    BY <2>2, <2>3, <2>4 DEF Finishes, Used, program, OutputsStay
  <2> QED BY <2>2, <2>5
<1> QED BY <1>1, <1>2, <1>3, <1>4, <1>5 DEF Next, UpdateThread

(* A command is said behind the others.                                    *)
LEMMA SendSays ==
  ASSUME TypeOK, NEW plugin \in Commands, NEW places, Send(plugin, places)
  PROVE  /\ Len(said) \in Nat /\ Len(said') = Len(said) + 1
         /\ \A i \in 1 .. Len(said) : said'[i] = said[i]
         /\ said'[Len(said) + 1].plugin = plugin
         /\ said'[Len(said) + 1].cli \in {Text("output", None, Len(said) + 1),
                                          Text("error", None, Len(said) + 1)}
         /\ said'[Len(said) + 1].program \in {Nothing, Text("output", None, Len(said) + 1),
                                              Text("error", None, Len(said) + 1)}
         /\ plugin = "AtP" => said'[Len(said) + 1].program = Nothing
<1> DEFINE line(output) ==
             [plugin |-> plugin,
              cli |-> Text(output[1], None, Len(said) + 1),
              program |-> IF plugin = "AtP" \/ (at = None /\ at' = None) THEN Nothing
                          ELSE Text(output[2], None, Len(said) + 1)]
<1>1. PICK output \in Outputs : said' = Append(said, line(output))
  BY DEF Send
<1>2. output[1] \in {"output", "error"} /\ output[2] \in {"output", "error"}
  BY OutputsAssumption
<1>3. said \in Seq([plugin : Commands, cli : Texts, program : Texts])
  BY TypesAre
<1>4. /\ line(output).plugin = plugin
      /\ line(output).cli = Text(output[1], None, Len(said) + 1)
      /\ line(output).program = IF plugin = "AtP" \/ (at = None /\ at' = None) THEN Nothing
                                ELSE Text(output[2], None, Len(said) + 1)
  OBVIOUS
<1> DEFINE last == line(output)
<1>5. /\ last.plugin = plugin
      /\ last.cli \in {Text("output", None, Len(said) + 1), Text("error", None, Len(said) + 1)}
      /\ last.program \in {Nothing, Text("output", None, Len(said) + 1),
                           Text("error", None, Len(said) + 1)}
      /\ plugin = "AtP" => last.program = Nothing
  BY <1>2, <1>4
<1>6. said' = Append(said, last)
  BY <1>1
<1> HIDE DEF last, line
<1>7. /\ Len(said) \in Nat /\ Len(said') = Len(said) + 1
      /\ \A i \in 1 .. Len(said) : said'[i] = said[i]
      /\ said'[Len(said) + 1] = last
  BY <1>3, <1>6, AppendProperties
<1> QED BY <1>5, <1>7

(* So what was said is numbered.                                           *)
LEMMA NextKeepsSaidIs ==
  ASSUME TypeOK, PdbRuns, Begun, SaidIs, [Next]_vars
  PROVE  SaidIs'
<1>1. ASSUME NEW plugin \in Commands, NEW places, Send(plugin, places) PROVE SaidIs'
  <2>1. said \in Seq([plugin : Commands, cli : Texts, program : Texts]) /\ said' \in Seq([plugin : Commands, cli : Texts, program : Texts])
    BY TypesAre, NextPreservesTypes DEF TypeOK
  <2>2. DOMAIN said = 1 .. Len(said) /\ DOMAIN said' = 1 .. Len(said) + 1 /\ Len(said) \in Nat
    BY <1>1, <2>1, SendSays
  <2>3. ASSUME NEW i \in DOMAIN said'
        PROVE  /\ said'[i].cli \in {Text("output", None, i), Text("error", None, i)}
               /\ said'[i].program \in {Nothing, Text("output", None, i), Text("error", None, i)}
               /\ said'[i].plugin = "AtP" => said'[i].program = Nothing
    <3>1. CASE i \in 1 .. Len(said)
      BY <1>1, <2>2, <3>1, SendSays DEF SaidIs
    <3>2. CASE i = Len(said) + 1
      BY <1>1, <3>2, SendSays
    <3> QED BY <2>2, <2>3, <3>1, <3>2
  <2> QED BY <2>3 DEF SaidIs, Text, Nothing
<1>2. CASE UNCHANGED said
  BY <1>2 DEF SaidIs, Text, Nothing
<1>3. CASE Parse \/ Announce \/ UpdateDbg \/ UpdatePrg \/ OutputsStay
  BY <1>2, <1>3 DEF Parse, Announce, UpdateDbg, UpdatePrg, Used, program, OutputsStay
<1> QED BY <1>1, <1>3, OutputStepsAre

(* What the buffers owe to Dbg and Prg waits for them.                     *)
LEMMA NextKeepsOutputWaits ==
  ASSUME WindowInv, SaidIs, OutputWaits, [Next]_vars
  PROVE  OutputWaits'
<1> USE DEF WindowInv
<1> DEFINE Holds == IF said = <<>> THEN buffers.cli.id = 0 /\ buffers.program.id = 0
                    ELSE /\ buffers.cli = said[Len(said)].cli
                         /\ buffers.program = said[Len(said)].program
<1>1. CASE hurried'
  BY <1>1 DEF OutputWaits
<1>2. CASE ~hurried' /\ hurried
  <2>1. hurried'
    BY <1>2, OutputStepsAre DEF Send, Parse, Announce, UpdateDbg, UpdatePrg, Used, OutputsStay
  <2> QED BY <1>2, <2>1
<1> SUFFICES ASSUME ~hurried', ~hurried PROVE OutputWaits'
  BY <1>1, <1>2
<1>3. /\ key # "idle" => ~new_data["Dbg"] /\ ~new_data["Prg"]
      /\ new_data["Dbg"] => DbgNext
      /\ new_data["Prg"] => PrgNext /\ said # <<>>
      /\ key = "parsed" \/ new_data["Dbg"] \/ new_data["Prg"] => Holds
      /\ ~Crashed /\ (key # "idle" => Quiet)
  BY DEF OutputWaits, Waited
<1>4. queue \in Seq(Windows) /\ Len(queue) \in Nat
  BY TypesAre
<1>5. ASSUME ~new_data'["Dbg"], ~new_data'["Prg"], key' # "parsed"
      PROVE  OutputWaits'
  BY <1>5 DEF OutputWaits
<1>6. ASSUME NEW plugin, NEW places, Send(plugin, places)
      PROVE  OutputWaits'
  <2>1. Quiet /\ key' = "sent" /\ UNCHANGED new_data
    BY <1>6 DEF Send
  <2>2. ~new_data["Dbg"] /\ ~new_data["Prg"]
    BY <1>3, <2>1, EmptySeq DEF Quiet, DbgNext, PrgNext, Active
  <2> QED BY <1>5, <2>1, <2>2
<1>7. CASE Parse
  <2>1. ~new_data'["Dbg"] /\ ~new_data'["Prg"] /\ said # <<>> /\ UNCHANGED said
    BY <1>3, <1>7 DEF Parse, Begun, program
  <2>2. buffers'.cli = said[Len(said)].cli /\ buffers'.program = said[Len(said)].program
    BY <1>7 DEF Parse, Last
  <2> QED BY <2>1, <2>2 DEF OutputWaits
<1>8. CASE Announce
  <2> DEFINE plugin == Last(said).plugin
  <2>1. /\ key' = "idle" /\ key = "parsed" /\ queue' = queue \o Batch(plugin)
        /\ new_data' = [w \in {"Dbg", "Prg"} |-> new_data[w] \/ w = "Dbg" \/ plugin # "AtP"]
        /\ UNCHANGED <<upd, buffers, said>>
    BY <1>8 DEF Announce, program, reader
  <2>2. queue = <<>> /\ ~Active /\ Holds /\ said # <<>>
    BY <1>3, <2>1 DEF Quiet, Active, Begun
  <2>3. queue' = Batch(plugin)
    BY <2>1, <2>2, BatchTyped, ConcatEmptySeq
  <2>4. /\ Len(Batch(plugin)) >= 1 /\ Batch(plugin)[1] = "Dbg"
        /\ plugin # "AtP" => Len(Batch(plugin)) >= 2 /\ Batch(plugin)[2] = "Prg"
    BY DEF Batch, CommandBatch, PromptBatch, UntilBatch, AttachBatch
  <2>5. ~Active' /\ DbgNext'
    BY <2>1, <2>2, <2>3, <2>4 DEF Active, DbgNext
  <2>6. new_data'["Prg"] => PrgNext'
    <3>1. new_data'["Prg"] => plugin # "AtP"
      BY <1>3, <2>1
    <3> QED BY <2>3, <2>4, <2>5, <3>1 DEF PrgNext
  <2> QED BY <2>1, <2>2, <2>5, <2>6 DEF OutputWaits
<1>9. CASE ChooseLayout
  <2>1. /\ queue' = queue \o LayoutBatch /\ UNCHANGED <<key, new_data, upd, buffers, said>>
        /\ key = "idle"
    BY <1>9 DEF ChooseLayout, program, reader
  <2>2. Len(queue') >= Len(queue) /\ \A i \in 1 .. Len(queue) : queue'[i] = queue[i]
    BY <1>4, <2>1, BatchTyped
  <2>3. (DbgNext => DbgNext') /\ (PrgNext => PrgNext')
    BY <1>4, <2>1, <2>2 DEF DbgNext, PrgNext, Active
  <2> QED BY <1>3, <2>1, <2>3 DEF OutputWaits
<1>10. CASE Dequeue
  <2>1. /\ queue # <<>> /\ queue' = Tail(queue) /\ ~Active /\ upd'.window = Head(queue) /\ Active'
        /\ UNCHANGED <<key, new_data, buffers, said>>
    BY <1>10 DEF Dequeue, program, sender, Active
  <2>2. /\ Head(queue) = queue[1]
        /\ Len(queue) >= 2 => Len(queue') >= 1 /\ queue'[1] = queue[2]
    BY <1>4, <2>1
  <2>3. (DbgNext => DbgNext') /\ (PrgNext => PrgNext')
    BY <1>4, <2>1, <2>2 DEF DbgNext, PrgNext
  <2> QED BY <1>3, <2>1, <2>3 DEF OutputWaits
<1>11. CASE Ask \/ AskFiles
  <2>1. /\ Active /\ upd.window \notin {"Dbg", "Prg"}
        /\ UNCHANGED <<key, new_data>>
    BY <1>11 DEF Ask, AskFiles, Asks, Using, Looked, Used, sender, Active
  <2>2. ~new_data["Dbg"] /\ ~new_data["Prg"] /\ key = "idle"
    BY <1>3, <2>1 DEF DbgNext, PrgNext, Quiet, Active
  <2> QED BY <1>5, <2>1, <2>2
<1>12. CASE UpdateDbg
  <2>1. /\ Active /\ upd.window = "Dbg" /\ UNCHANGED <<key, buffers, said, queue>>
        /\ new_data' = [new_data EXCEPT !["Dbg"] = FALSE] /\ upd' = NoUpdate
    BY <1>12 DEF UpdateDbg, Using, Asks, Active, Used, program, Show
  <2>2. key = "idle" /\ ~Active' /\ new_data \in [{"Dbg", "Prg"} -> BOOLEAN]
    BY <1>3, <2>1, TypesAre DEF Quiet, Active, NoUpdate
  <2>3. ~new_data'["Dbg"] /\ (new_data'["Prg"] => new_data["Prg"])
    BY <2>1, <2>2
  <2>4. new_data["Prg"] => PrgNext'
    BY <1>3, <2>1, <2>2 DEF PrgNext
  <2> QED BY <1>3, <2>1, <2>2, <2>3, <2>4 DEF OutputWaits
<1>13. CASE UpdatePrg
  <2>1. /\ Active /\ upd.window = "Prg" /\ UNCHANGED key
        /\ new_data' = [new_data EXCEPT !["Prg"] = FALSE]
    BY <1>13 DEF UpdatePrg, Using, Asks, Active, Used
  <2>2. key = "idle" /\ ~new_data["Dbg"] /\ new_data \in [{"Dbg", "Prg"} -> BOOLEAN]
    BY <1>3, <2>1, TypesAre DEF Quiet, Active, DbgNext
  <2> QED BY <1>5, <2>1, <2>2
<1>14. ASSUME NEW w \in Windows \ {"Dbg", "Prg"}, Finishes(w), OutputsStay
       PROVE  OutputWaits'
  <2>1. Active /\ upd.window = w /\ UNCHANGED <<key, new_data>>
    BY <1>14 DEF Finishes, OutputsStay
  <2>2. ~new_data["Dbg"] /\ ~new_data["Prg"] /\ key = "idle"
    BY <1>3, <2>1 DEF DbgNext, PrgNext, Quiet, Active
  <2> QED BY <1>5, <2>1, <2>2
<1>15. CASE UNCHANGED vars
  BY <1>3, <1>15 DEF vars, program, sender, reader, OutputWaits, DbgNext, PrgNext, Active
<1> QED BY <1>6, <1>7, <1>8, <1>9, <1>10, <1>11, <1>12, <1>13, <1>14, <1>15, OutputStepsAre

(* A text without a number leaves the outputs of a window as they are; the *)
(* next output comes behind the others.                                    *)
LEMMA AppendedOutput ==
  ASSUME NEW window \in Seq(Texts), NEW texts, OnceInOrder(window, texts), NEW text \in Texts,
         \A t \in texts : t.id \in Nat
  PROVE  /\ text.id = 0 => OnceInOrder(Append(window, text), texts)
         /\ text.id # 0 /\ (\A t \in texts : t.id < text.id) =>
              OnceInOrder(Append(window, text), texts \cup {text})
<1> DEFINE longer == Append(window, text)
           shown == {i \in DOMAIN window : window[i].id # 0}
           now == {i \in DOMAIN longer : longer[i].id # 0}
<1>1. /\ Len(window) \in Nat /\ DOMAIN window = 1 .. Len(window)
      /\ DOMAIN longer = 1 .. Len(window) + 1
      /\ \A i \in 1 .. Len(window) : longer[i] = window[i]
      /\ longer[Len(window) + 1] = text
  BY AppendProperties
<1>2. {window[i] : i \in shown} = texts /\ \A i, j \in shown : i < j => window[i].id < window[j].id
  BY DEF OnceInOrder
<1> SUFFICES /\ text.id = 0 => OnceInOrder(longer, texts)
             /\ text.id # 0 /\ (\A t \in texts : t.id < text.id) =>
                  OnceInOrder(longer, texts \cup {text})
  OBVIOUS
<1>3. now = IF text.id = 0 THEN shown ELSE shown \cup {Len(window) + 1}
  <2> HIDE DEF longer
  <2> QED BY <1>1
<1>4. \A i \in shown : i \in Nat /\ i < Len(window) + 1 /\ longer[i] = window[i] /\ window[i] \in texts
  <2>1. \A i \in shown : window[i] \in texts
    BY <1>2
  <2> HIDE DEF longer
  <2> QED BY <1>1, <2>1
<1> HIDE DEF longer, shown
<1>5. ASSUME text.id = 0 PROVE OnceInOrder(longer, texts)
  <2>1. now = shown
    BY <1>3, <1>5
  <2>2. {longer[i] : i \in now} = texts
    BY <1>2, <1>4, <2>1
  <2>3. \A i, j \in now : i < j => longer[i].id < longer[j].id
    BY <1>2, <1>4, <2>1
  <2> QED BY <2>2, <2>3 DEF OnceInOrder
<1>6. ASSUME text.id # 0, \A t \in texts : t.id < text.id
      PROVE  OnceInOrder(longer, texts \cup {text})
  <2>1. now = shown \cup {Len(window) + 1}
    BY <1>3, <1>6
  <2>2. {longer[i] : i \in now} = texts \cup {text}
    BY <1>1, <1>2, <1>4, <2>1
  <2>3. \A i, j \in now : i < j => longer[i].id < longer[j].id
    <3> SUFFICES ASSUME NEW i \in now, NEW j \in now, i < j PROVE longer[i].id < longer[j].id
      OBVIOUS
    <3>1. i \in shown
      BY <1>1, <1>4, <2>1
    <3>2. CASE j \in shown
      BY <1>2, <1>4, <3>1, <3>2
    <3>3. CASE j = Len(window) + 1
      BY <1>1, <1>4, <1>6, <3>1, <3>3
    <3> QED BY <2>1, <3>2, <3>3
  <2> QED BY <2>2, <2>3 DEF OnceInOrder
<1> QED BY <1>5, <1>6

(* The outputs of the first commands are texts with their numbers.         *)
LEMMA OutputsAre ==
  ASSUME TypeOK, SaidIs, NEW n \in Int, n <= Len(said)
  PROVE  /\ \A t \in ConsoleShown(n) \cup ProgramShown(n) : t.id \in 1 .. n
         /\ n < 1 => ConsoleShown(n) = {} /\ ProgramShown(n) = {}
         /\ n >= 1 =>
              /\ ConsoleShown(n) = IF Gdb /\ said[n].cli.of # "output" THEN ConsoleShown(n - 1)
                                   ELSE ConsoleShown(n - 1) \cup {said[n].cli}
              /\ ProgramShown(n) = IF said[n].program.of # "output" THEN ProgramShown(n - 1)
                                   ELSE ProgramShown(n - 1) \cup {said[n].program}
<1>1. DOMAIN said = 1 .. Len(said) /\ Len(said) \in Nat
  BY TypesAre
<1>2. \A i \in 1 .. n : /\ said[i].cli \in {Text("output", None, i), Text("error", None, i)}
                        /\ said[i].program \in {Nothing, Text("output", None, i), Text("error", None, i)}
  BY <1>1 DEF SaidIs
<1>3. \A i \in 1 .. n : said[i].cli.id = i /\ (said[i].program.of = "output" => said[i].program.id = i)
  <2>3. ASSUME NEW i \in 1 .. n
        PROVE  said[i].cli.id = i /\ (said[i].program.of = "output" => said[i].program.id = i)
    <3>1. said[i].cli = Text("output", None, i) \/ said[i].cli = Text("error", None, i)
      BY <1>2
    <3>2. \/ said[i].program = Nothing \/ said[i].program = Text("output", None, i)
          \/ said[i].program = Text("error", None, i)
      BY <1>2
    <3>3. said[i].cli.id = i
      BY <3>1, TextIs
    <3>4. CASE said[i].program = Nothing
      <4>1. said[i].program.of = ""
        BY <3>4, NothingIs
      <4> QED BY <3>3, <4>1
    <3>5. CASE said[i].program # Nothing
      <4>1. said[i].program.id = i
        BY <3>2, <3>5, TextIs
      <4> QED BY <3>3, <4>1
    <3> QED BY <3>4, <3>5
  <2> QED BY <2>3
<1>4. \A t \in ConsoleShown(n) \cup ProgramShown(n) : t.id \in 1 .. n
  BY <1>3 DEF ConsoleShown, ProgramShown
<1>5. n < 1 => ConsoleShown(n) = {} /\ ProgramShown(n) = {}
  BY DEF ConsoleShown, ProgramShown
<1>6. ASSUME n >= 1
      PROVE  /\ ConsoleShown(n) = IF Gdb /\ said[n].cli.of # "output" THEN ConsoleShown(n - 1)
                                  ELSE ConsoleShown(n - 1) \cup {said[n].cli}
             /\ ProgramShown(n) = IF said[n].program.of # "output" THEN ProgramShown(n - 1)
                                  ELSE ProgramShown(n - 1) \cup {said[n].program}
  <2>1. 1 .. n = (1 .. n - 1) \cup {n}
    BY <1>6
  <2>2. \A i \in 1 .. n - 1 : i \in 1 .. n
    BY <2>1
  <2> QED BY <2>1, <2>2 DEF ConsoleShown, ProgramShown
<1> QED BY <1>4, <1>5, <1>6

(* Dbg and Prg have the outputs of all commands but one they have yet to   *)
(* take.                                                                   *)
LEMMA NextKeepsOutputShown ==
  ASSUME WindowInv, SaidIs, OutputWaits, OutputShown, [Next]_vars
  PROVE  OutputShown'
<1> USE DEF WindowInv
<1> DEFINE n == Len(said)
<1>1. CASE hurried'
  BY <1>1 DEF OutputShown
<1>2. CASE ~hurried' /\ hurried
  <2>1. hurried'
    BY <1>2, OutputStepsAre DEF Send, Parse, Announce, UpdateDbg, UpdatePrg, Used, OutputsStay
  <2> QED BY <1>2, <2>1
<1> SUFFICES ASSUME ~hurried', ~hurried PROVE OutputShown'
  BY <1>1, <1>2
<1>3. /\ OnceInOrder(win["Dbg"], ConsoleShown(Heard("Dbg")))
      /\ OnceInOrder(win["Prg"], ProgramShown(Heard("Prg")))
  BY DEF OutputShown
<1>4. /\ key # "idle" => ~new_data["Dbg"] /\ ~new_data["Prg"]
      /\ new_data["Dbg"] \/ new_data["Prg"] =>
           IF said = <<>> THEN buffers.cli.id = 0 /\ buffers.program.id = 0
           ELSE buffers.cli = said[n].cli /\ buffers.program = said[n].program
      /\ new_data["Prg"] => said # <<>>
      /\ key # "idle" => Quiet
  BY DEF OutputWaits, Waited
<1>5. /\ said \in Seq([plugin : Commands, cli : Texts, program : Texts])
      /\ n \in Nat /\ (said = <<>> <=> n = 0)
      /\ win["Dbg"] \in Seq(Texts) /\ win["Prg"] \in Seq(Texts)
      /\ buffers.cli \in Texts /\ buffers.program \in Texts
      /\ new_data \in [{"Dbg", "Prg"} -> BOOLEAN]
  BY TypesAre, EmptySeq DEF WinTyped, Shown, Windows, Buffers
<1>6. \A m \in Int : m <= n => \A t \in ConsoleShown(m) \cup ProgramShown(m) : t.id \in 1 .. m
  BY OutputsAre
<1>7. ASSUME UNCHANGED <<debugger, said>>, \A w \in {"Dbg", "Prg"} : win'[w] = win[w],
             \A w \in {"Dbg", "Prg"} : Heard(w)' = Heard(w)
      PROVE  OutputShown'
  <2>1. \A m : ConsoleShown(m)' = ConsoleShown(m) /\ ProgramShown(m)' = ProgramShown(m)
    BY <1>7 DEF ConsoleShown, ProgramShown, Gdb
  <2>2. /\ OnceInOrder(win["Dbg"], ConsoleShown(Heard("Dbg")))'
        /\ OnceInOrder(win["Prg"], ProgramShown(Heard("Prg")))'
    BY <1>3, <1>7, <2>1 DEF OnceInOrder
  <2> QED BY <2>2 DEF OutputShown
<1>8. ASSUME NEW plugin \in Commands, NEW places, Send(plugin, places)
      PROVE  OutputShown'
  <2>1. Quiet /\ key = "idle" /\ key' = "sent" /\ UNCHANGED <<new_data, win, debugger>>
    BY <1>8 DEF Send, reader
  <2>2. ~new_data["Dbg"] /\ ~new_data["Prg"]
    BY <2>1, EmptySeq DEF Quiet, OutputWaits, DbgNext, PrgNext, Active
  <2>3. Len(said') = n + 1 /\ \A i \in 1 .. n : said'[i] = said[i]
    BY <1>8, SendSays
  <2>4. Heard("Dbg") = n /\ Heard("Prg") = n /\ Heard("Dbg")' = n /\ Heard("Prg")' = n
    BY <1>5, <2>1, <2>2, <2>3 DEF Heard
  <2>5. ConsoleShown(n) = ConsoleShown(Heard("Dbg"))' /\ ProgramShown(n) = ProgramShown(Heard("Prg"))'
    BY <2>1, <2>3, <2>4 DEF ConsoleShown, ProgramShown, Gdb
  <2> QED BY <1>3, <2>1, <2>4, <2>5 DEF OutputShown, OnceInOrder
<1>9. CASE Parse
  <2>1. key = "sent" /\ key' = "parsed" /\ UNCHANGED <<new_data, win, debugger, said>>
    BY <1>9 DEF Parse, program, reader
  <2> QED BY <1>7, <2>1 DEF Heard
<1>10. CASE Announce
  <2> DEFINE plugin == Last(said).plugin
  <2>1. /\ key = "parsed" /\ key' = "idle" /\ UNCHANGED <<win, debugger, said>>
        /\ new_data' = [w \in {"Dbg", "Prg"} |-> new_data[w] \/ w = "Dbg" \/ plugin # "AtP"]
    BY <1>10 DEF Announce, program, reader
  <2>2. said # <<>> /\ ~new_data["Prg"]
    BY <1>4, <2>1 DEF Begun
  <2>3. Heard("Dbg") = n - 1 /\ Heard("Prg") = n - 1 /\ Heard("Dbg")' = n - 1
    BY <2>1 DEF Heard
  <2>4. CASE plugin # "AtP"
    <3>1. Heard("Prg")' = n - 1
      BY <2>1, <2>4 DEF Heard
    <3> QED BY <1>7, <2>1, <2>3, <3>1
  <2>5. CASE plugin = "AtP"
    <3>1. Heard("Prg")' = n
      BY <2>1, <2>2, <2>5 DEF Heard
    <3>2. said[n].program = Nothing
      BY <1>5, <2>2, <2>5 DEF SaidIs, Last
    <3>3. said[n].program.of # "output"
      <4>1. said[n].program.of = ""
        BY <3>2, NothingIs
      <4> QED BY <4>1
    <3>4. ProgramShown(n) = ProgramShown(n - 1)
      BY <1>5, <2>2, <3>3, OutputsAre
    <3>5. ConsoleShown(Heard("Dbg"))' = ConsoleShown(n - 1)
          /\ ProgramShown(Heard("Prg"))' = ProgramShown(n)
      BY <2>1, <2>3, <3>1 DEF ConsoleShown, ProgramShown, Gdb
    <3> QED BY <1>3, <2>1, <2>3, <3>4, <3>5 DEF OutputShown, OnceInOrder
  <2> QED BY <2>4, <2>5
<1>11. CASE OutputsStay
  BY <1>7, <1>11 DEF OutputsStay, Heard
<1>12. CASE UpdateDbg
  <2> DEFINE takes == new_data["Dbg"] /\ ~(Gdb /\ HasError(buffers.cli))
  <2>1. /\ Active /\ UNCHANGED <<key, said, debugger>>
        /\ new_data' = [new_data EXCEPT !["Dbg"] = FALSE]
        /\ Show("Dbg", IF takes THEN Appended(win["Dbg"], buffers.cli) ELSE win["Dbg"])
    BY <1>12 DEF UpdateDbg, Using, Asks, Active, Used, program
  <2>2. /\ win'["Dbg"] = IF takes THEN Appended(win["Dbg"], buffers.cli) ELSE win["Dbg"]
        /\ win'["Prg"] = win["Prg"]
    <3>1. "Dbg" \in Windows /\ "Prg" \in Windows
      BY DEF Windows
    <3> QED BY <2>1, <3>1, Showing
  <2>3. key = "idle" /\ ~new_data'["Dbg"] /\ new_data'["Prg"] = new_data["Prg"]
    BY <1>4, <1>5, <2>1 DEF Quiet, Active
  <2>4. Heard("Dbg")' = n /\ Heard("Prg")' = Heard("Prg")
        /\ Heard("Dbg") = IF new_data["Dbg"] THEN n - 1 ELSE n
    BY <2>1, <2>3 DEF Heard
  <2>5. ConsoleShown(Heard("Dbg"))' = ConsoleShown(n)
        /\ ProgramShown(Heard("Prg"))' = ProgramShown(Heard("Prg"))
    BY <2>1, <2>4 DEF ConsoleShown, ProgramShown, Gdb
  <2>6. OnceInOrder(win["Prg"], ProgramShown(Heard("Prg")))'
    BY <1>3, <2>2, <2>5 DEF OnceInOrder
  <2> HIDE DEF takes
  <2>7. OnceInOrder(win'["Dbg"], ConsoleShown(n))
    <3>1. CASE ~new_data["Dbg"]
      BY <1>3, <2>2, <2>4, <3>1 DEF takes
    <3>2. CASE new_data["Dbg"] /\ said = <<>>
      <4>1. buffers.cli.id = 0 /\ Heard("Dbg") = n - 1 /\ n = 0
        BY <1>4, <1>5, <2>4, <3>2
      <4>2. ConsoleShown(n - 1) = {} /\ ConsoleShown(n) = {}
        BY <1>5, <4>1, OutputsAre
      <4>3. OnceInOrder(win["Dbg"], {})
        BY <1>3, <4>1, <4>2
      <4>4. OnceInOrder(Append(win["Dbg"], buffers.cli), {})
        BY <1>5, <4>1, <4>3, AppendedOutput
      <4> QED BY <2>2, <4>2, <4>3, <4>4 DEF Appended
    <3>3. CASE new_data["Dbg"] /\ said # <<>>
      <4>1. /\ buffers.cli = said[n].cli /\ Heard("Dbg") = n - 1 /\ n >= 1
            /\ n \in DOMAIN said
        BY <1>4, <1>5, <2>4, <3>3
      <4>2. buffers.cli \in {Text("output", None, n), Text("error", None, n)}
        BY <4>1 DEF SaidIs
      <4>3. buffers.cli.id = n /\ buffers.cli.of \in {"output", "error"}
        BY <4>2 DEF Text
      <4>4. takes <=> ~(Gdb /\ said[n].cli.of # "output")
        BY <3>3, <4>1, <4>3, PlainErrors DEF takes
      <4>5. OnceInOrder(win["Dbg"], ConsoleShown(n - 1))
        BY <1>3, <4>1
      <4>6. CASE ~takes
        BY <1>5, <2>2, <4>1, <4>4, <4>5, <4>6, OutputsAre
      <4>7. CASE takes
        <5>1. buffers.cli # Nothing
          <6>1. Nothing.of = ""
            BY DEF Nothing, Text
          <6> QED BY <4>3, <6>1
        <5>2. win'["Dbg"] = Append(win["Dbg"], buffers.cli)
          BY <2>2, <4>7, <5>1 DEF Appended
        <5>3. \A t \in ConsoleShown(n - 1) : t.id \in Nat /\ t.id < buffers.cli.id
          BY <1>5, <1>6, <4>3
        <5>4. OnceInOrder(Append(win["Dbg"], buffers.cli), ConsoleShown(n - 1) \cup {buffers.cli})
          BY <1>5, <4>1, <4>3, <4>5, <5>3, AppendedOutput
        <5>5. ConsoleShown(n) = ConsoleShown(n - 1) \cup {buffers.cli}
          BY <1>5, <4>1, <4>4, <4>7, OutputsAre
        <5> QED BY <5>2, <5>4, <5>5
      <4> QED BY <4>6, <4>7
    <3> QED BY <3>1, <3>2, <3>3
  <2>8. OnceInOrder(win["Dbg"], ConsoleShown(Heard("Dbg")))'
    BY <2>5, <2>7 DEF OnceInOrder
  <2> QED BY <2>6, <2>8 DEF OutputShown
<1>13. CASE UpdatePrg
  <2> DEFINE takes == new_data["Prg"] /\ ~HasError(buffers.program)
             marked == IF Gdb /\ new_run THEN Append(win["Prg"], NewRun) ELSE win["Prg"]
  <2>1. /\ Active /\ UNCHANGED <<key, said, debugger>>
        /\ new_data' = [new_data EXCEPT !["Prg"] = FALSE]
        /\ Show("Prg", IF takes THEN Appended(marked, buffers.program) ELSE win["Prg"])
    BY <1>13 DEF UpdatePrg, Using, Asks, Active, Used, program
  <2>2. /\ win'["Prg"] = IF takes THEN Appended(marked, buffers.program) ELSE win["Prg"]
        /\ win'["Dbg"] = win["Dbg"]
    <3>1. "Dbg" \in Windows /\ "Prg" \in Windows
      BY DEF Windows
    <3> QED BY <2>1, <3>1, Showing
  <2>3. key = "idle" /\ ~new_data'["Prg"] /\ new_data'["Dbg"] = new_data["Dbg"]
    BY <1>4, <1>5, <2>1 DEF Quiet, Active
  <2>4. Heard("Prg")' = n /\ Heard("Dbg")' = Heard("Dbg")
        /\ Heard("Prg") = IF new_data["Prg"] THEN n - 1 ELSE n
    BY <2>1, <2>3 DEF Heard
  <2>5. ProgramShown(Heard("Prg"))' = ProgramShown(n)
        /\ ConsoleShown(Heard("Dbg"))' = ConsoleShown(Heard("Dbg"))
    BY <2>1, <2>4 DEF ConsoleShown, ProgramShown, Gdb
  <2>6. OnceInOrder(win["Dbg"], ConsoleShown(Heard("Dbg")))'
    BY <1>3, <2>2, <2>5 DEF OnceInOrder
  <2>7. /\ marked \in Seq(Texts)
        /\ \A texts : OnceInOrder(win["Prg"], texts) /\ (\A t \in texts : t.id \in Nat)
                       => OnceInOrder(marked, texts)
    <3>1. NewRun \in Texts /\ NewRun.id = 0
      BY FixedTexts, NothingIs
    <3>2. marked \in Seq(Texts)
      BY <1>5, <3>1
    <3>3. ASSUME NEW texts, OnceInOrder(win["Prg"], texts), \A t \in texts : t.id \in Nat
          PROVE  OnceInOrder(marked, texts)
      BY <1>5, <3>1, <3>3, AppendedOutput
    <3> QED BY <3>2, <3>3
  <2> HIDE DEF takes, marked
  <2>8. OnceInOrder(win'["Prg"], ProgramShown(n))
    <3>1. CASE ~new_data["Prg"]
      BY <1>3, <2>2, <2>4, <3>1 DEF takes
    <3>2. CASE new_data["Prg"]
      <4>1. /\ buffers.program = said[n].program /\ Heard("Prg") = n - 1 /\ n >= 1
            /\ n \in DOMAIN said
        BY <1>4, <1>5, <2>4, <3>2
      <4>2. buffers.program \in {Nothing, Text("output", None, n), Text("error", None, n)}
        BY <4>1 DEF SaidIs
      <4>3. \A t \in ProgramShown(n - 1) : t.id \in Nat /\ t.id < n
        BY <1>5, <1>6, <4>1
      <4>4. OnceInOrder(win["Prg"], ProgramShown(n - 1)) /\ OnceInOrder(marked, ProgramShown(n - 1))
        BY <1>3, <2>7, <4>1, <4>3
      <4>5. CASE buffers.program = Text("error", None, n)
        <5>1. ~takes /\ said[n].program.of # "output"
          <6>1. buffers.program.of = "error"
            BY <4>5, TextIs
          <6> QED BY <4>1, <6>1, PlainErrors DEF takes
        <5> QED BY <1>5, <2>2, <4>1, <4>4, <5>1, OutputsAre
      <4>6. CASE buffers.program = Nothing
        <5>1. takes /\ said[n].program.of # "output"
          <6>1. buffers.program.of = ""
            BY <4>6, NothingIs
          <6> QED BY <3>2, <4>1, <6>1, PlainErrors DEF takes
        <5>2. Appended(marked, buffers.program) = marked
          BY <4>6 DEF Appended
        <5>3. ProgramShown(n) = ProgramShown(n - 1)
          BY <1>5, <4>1, <5>1, OutputsAre
        <5> QED BY <2>2, <4>4, <5>1, <5>2, <5>3
      <4>7. CASE buffers.program = Text("output", None, n)
        <5>1. buffers.program.of = "output" /\ buffers.program.id = n
          BY <4>7 DEF Text
        <5>2. buffers.program # Nothing
          <6>1. Nothing.of = ""
            BY DEF Nothing, Text
          <6> QED BY <5>1, <6>1
        <5>3. win'["Prg"] = Append(marked, buffers.program)
          BY <2>2, <3>2, <5>1, <5>2, PlainErrors DEF takes, Appended
        <5>4. OnceInOrder(Append(marked, buffers.program),
                          ProgramShown(n - 1) \cup {buffers.program})
          BY <1>5, <2>7, <4>1, <4>3, <4>4, <5>1, AppendedOutput
        <5>5. ProgramShown(n) = ProgramShown(n - 1) \cup {buffers.program}
          BY <1>5, <4>1, <5>1, OutputsAre
        <5> QED BY <5>3, <5>4, <5>5
      <4> QED BY <4>2, <4>5, <4>6, <4>7
    <3> QED BY <3>1, <3>2
  <2>9. OnceInOrder(win["Prg"], ProgramShown(Heard("Prg")))'
    BY <2>5, <2>8 DEF OnceInOrder
  <2> QED BY <2>6, <2>9 DEF OutputShown
<1> QED BY <1>8, <1>9, <1>10, <1>11, <1>12, <1>13, OutputStepsAre

(* A mark accounts for the Runs before it, and an output behind it for     *)
(* none of them.                                                           *)
LEMMA MarkAppended ==
  ASSUME NEW window \in Seq(Texts), Marked(window, TRUE)
  PROVE  /\ Marked(Append(window, NewRun), FALSE)
         /\ Append(window, NewRun) \in Seq(Texts)
<1> DEFINE longer == Append(window, NewRun)
           outputs == {i \in DOMAIN window : window[i].id # 0}
           now == {i \in DOMAIN longer : longer[i].id # 0}
<1>1. /\ Len(window) \in Nat /\ DOMAIN window = 1 .. Len(window)
      /\ DOMAIN longer = 1 .. Len(window) + 1 /\ Len(longer) = Len(window) + 1
      /\ \A i \in 1 .. Len(window) : longer[i] = window[i]
      /\ longer[Len(window) + 1] = NewRun
  <2>1. NewRun \in Texts
    BY FixedTexts
  <2> HIDE DEF outputs, now
  <2> QED BY <2>1, AppendProperties
<1> HIDE DEF longer
<1>2. now = outputs /\ \A i \in outputs : i \in 1 .. Len(window) /\ longer[i] = window[i]
  <2>1. \A i \in 1 .. Len(window) + 1 : i \in 1 .. Len(window) \/ i = Len(window) + 1
    BY <1>1
  <2>2. \A i \in 1 .. Len(window) : i \in 1 .. Len(window) + 1
    BY <1>1
  <2>3. longer[Len(window) + 1].id = 0
    BY <1>1, NothingIs
  <2> QED BY <1>1, <2>1, <2>2, <2>3
<1>3. \A i, j \in outputs : MarkIn(longer, i, j) <=> MarkIn(window, i, j)
  BY <1>1, <1>2 DEF MarkIn
<1>4. \A i \in outputs : MarkIn(longer, i, Len(longer))
  BY <1>1, <1>2 DEF MarkIn
<1>5. /\ \A i, j \in outputs :
           i < j => (RunIn(window[i].id, window[j].id) <=> MarkIn(window, i, j))
      /\ \A i \in outputs : RunIn(window[i].id, Len(said))
  BY DEF Marked
<1>6. /\ \A i, j \in now :
           i < j => (RunIn(longer[i].id, longer[j].id) <=> MarkIn(longer, i, j))
      /\ \A i \in now : RunIn(longer[i].id, Len(said)) <=> (FALSE \/ MarkIn(longer, i, Len(longer)))
  BY <1>2, <1>3, <1>4, <1>5
<1>7. Marked(longer, FALSE)
  BY <1>6 DEF Marked
<1>8. Append(window, NewRun) \in Seq(Texts)
  <2>1. NewRun \in Texts
    BY FixedTexts
  <2> HIDE DEF now, outputs
  <2> QED BY <2>1, AppendProperties
<1> QED BY <1>7, <1>8 DEF longer

(* The output that comes next has no Run between it and the last command.  *)
LEMMA OutputMarked ==
  ASSUME NEW window \in Seq(Texts), Marked(window, FALSE), Len(said) \in Nat, Len(said) # 0,
         NEW text \in Texts, text.id = Len(said)
  PROVE  Marked(Append(window, text), FALSE)
<1> DEFINE longer == Append(window, text)
           outputs == {i \in DOMAIN window : window[i].id # 0}
           now == {i \in DOMAIN longer : longer[i].id # 0}
           last == Len(window) + 1
<1>1. /\ Len(window) \in Nat /\ DOMAIN window = 1 .. Len(window)
      /\ DOMAIN longer = 1 .. last /\ Len(longer) = last
      /\ \A i \in 1 .. Len(window) : longer[i] = window[i]
      /\ longer[last] = text
  BY AppendProperties
<1> HIDE DEF longer
<1>2. now = outputs \cup {last} /\ \A i \in outputs : i \in 1 .. Len(window) /\ longer[i] = window[i]
  BY <1>1
<1>3. text # NewRun
  BY NothingIs
<1>4. \A i, j \in outputs : MarkIn(longer, i, j) <=> MarkIn(window, i, j)
  BY <1>1, <1>2 DEF MarkIn
<1>5. \A i \in outputs : MarkIn(longer, i, last) <=> MarkIn(window, i, Len(window))
  <2> SUFFICES ASSUME NEW i \in outputs
               PROVE  MarkIn(longer, i, last) <=> MarkIn(window, i, Len(window))
    OBVIOUS
  <2>1. \A k \in i .. last : k \in i .. Len(window) \/ k = last
    BY <1>1, <1>2
  <2>2. \A k \in i .. Len(window) : k \in i .. last /\ longer[k] = window[k]
    BY <1>1, <1>2
  <2> QED BY <1>1, <1>3, <2>1, <2>2 DEF MarkIn
<1>6. ~MarkIn(longer, last, last) /\ ~RunIn(Len(said), Len(said))
  BY <1>1, <1>3 DEF MarkIn, RunIn
<1>7. /\ \A i, j \in outputs :
           i < j => (RunIn(window[i].id, window[j].id) <=> MarkIn(window, i, j))
      /\ \A i \in outputs : RunIn(window[i].id, Len(said)) <=> MarkIn(window, i, Len(window))
  BY DEF Marked
<1>8. ASSUME NEW i \in now, NEW j \in now, i < j
      PROVE  RunIn(longer[i].id, longer[j].id) <=> MarkIn(longer, i, j)
  <2>1. i \in outputs
    BY <1>1, <1>2, <1>8
  <2>2. CASE j \in outputs
    BY <1>2, <1>4, <1>7, <1>8, <2>1, <2>2
  <2>3. CASE j = last
    BY <1>1, <1>2, <1>5, <1>7, <2>1, <2>3
  <2> QED BY <1>2, <2>2, <2>3
<1>9. ASSUME NEW i \in now
      PROVE  RunIn(longer[i].id, Len(said)) <=> (FALSE \/ MarkIn(longer, i, Len(longer)))
  <2>1. CASE i \in outputs
    BY <1>1, <1>2, <1>5, <1>7, <2>1
  <2>2. CASE i = last
    BY <1>1, <1>6, <2>2
  <2> QED BY <1>2, <2>1, <2>2
<1>10. Marked(longer, FALSE)
  BY <1>8, <1>9 DEF Marked
<1> QED BY <1>10 DEF longer

(* A Run since an output in Prg is marked or still to be marked.           *)
LEMMA NextKeepsRunsMarked ==
  ASSUME WindowInv, SaidIs, OutputWaits, OutputShown, RunsMarked, [Next]_vars
  PROVE  RunsMarked'
<1> USE DEF WindowInv
<1> DEFINE n == Len(said)
           Prg == win["Prg"]
           outputs == {i \in DOMAIN Prg : Prg[i].id # 0}
<1>1. CASE hurried'
  BY <1>1 DEF RunsMarked
<1>2. CASE ~hurried' /\ hurried
  <2>1. hurried'
    BY <1>2, OutputStepsAre DEF Send, Parse, Announce, UpdateDbg, UpdatePrg, Used, OutputsStay
  <2> QED BY <1>2, <2>1
<1>3. CASE ~Gdb'
  BY <1>3 DEF RunsMarked
<1>4. CASE Gdb' /\ ~Gdb
  <2>1. UNCHANGED debugger
    BY OutputStepsAre DEF Send, Parse, Announce, UpdateDbg, UpdatePrg, Used, program, OutputsStay
  <2> QED BY <1>4, <2>1 DEF Gdb
<1> SUFFICES ASSUME ~hurried', ~hurried, Gdb PROVE Marked(Prg, new_run)'
  BY <1>1, <1>2, <1>3, <1>4 DEF RunsMarked
<1>5. /\ said \in Seq([plugin : Commands, cli : Texts, program : Texts])
      /\ n \in Nat /\ DOMAIN said = 1 .. n /\ (said = <<>> <=> n = 0)
      /\ Prg \in Seq(Texts) /\ buffers.program \in Texts
      /\ new_data \in [{"Dbg", "Prg"} -> BOOLEAN] /\ new_run \in BOOLEAN
  BY TypesAre, EmptySeq DEF WinTyped, Shown, Windows, Buffers
<1>6. Marked(Prg, new_run)
  BY DEF RunsMarked
<1>7. CASE UNCHANGED <<said, new_run>> /\ win'["Prg"] = win["Prg"]
  BY <1>6, <1>7 DEF Marked, RunIn, MarkIn
<1>8. CASE Parse \/ Announce \/ UpdateDbg \/ OutputsStay
  <2>1. UNCHANGED <<said, new_run>> /\ win'["Prg"] = win["Prg"]
    <3>1. CASE UpdateDbg
      <4>1. "Dbg" \in Windows /\ "Prg" \in Windows
        BY DEF Windows
      <4> QED BY <3>1, <4>1, Showing DEF UpdateDbg, Used, program
    <3>2. CASE Parse \/ Announce \/ OutputsStay
      BY <3>2 DEF Parse, Announce, OutputsStay, program, reader
    <3> QED BY <1>8, <3>1, <3>2
  <2> QED BY <1>7, <2>1
<1>9. ASSUME NEW plugin \in Commands, NEW places, Send(plugin, places)
      PROVE  Marked(Prg, new_run)'
  <2>1. UNCHANGED win /\ (new_run' <=> new_run \/ plugin = "Run")
    BY <1>9 DEF Send, reader
  <2>2. Len(said') = n + 1 /\ (\A i \in 1 .. n : said'[i] = said[i]) /\ said'[n + 1].plugin = plugin
    BY <1>9, SendSays
  <2>3. \A i \in outputs : Prg[i].id \in 1 .. n
    <3>1. Heard("Prg") \in Int /\ Heard("Prg") <= n
      BY <1>5 DEF Heard
    <3>2. \A t \in ProgramShown(Heard("Prg")) : t.id \in 1 .. Heard("Prg")
      BY <3>1, OutputsAre
    <3>3. \A i \in outputs : Prg[i] \in ProgramShown(Heard("Prg"))
      BY DEF OutputShown, OnceInOrder
    <3> QED BY <1>5, <3>1, <3>2, <3>3
  <2>4. \A a, b \in 1 .. n : RunIn(a, b)' <=> RunIn(a, b)
    BY <1>5, <2>2 DEF RunIn
  <2>5. \A a \in 1 .. n : RunIn(a, Len(said))' <=> (RunIn(a, Len(said)) \/ plugin = "Run")
    <3> SUFFICES ASSUME NEW a \in 1 .. n
                 PROVE  RunIn(a, Len(said))' <=> (RunIn(a, Len(said)) \/ plugin = "Run")
      OBVIOUS
    <3>1. \A r : r \in a + 1 .. n + 1 <=> (r \in a + 1 .. n \/ r = n + 1)
      <4>1. n \in Nat /\ a \in Nat /\ a <= n
        BY <1>5
      <4> HIDE DEF n, Prg, outputs
      <4> QED BY <4>1
    <3>2. \A r \in a + 1 .. n : said'[r] = said[r]
      BY <1>5, <2>2
    <3>3. RunIn(a, Len(said))' <=> \E r \in a + 1 .. n + 1 : said'[r].plugin = "Run"
      BY <2>2 DEF RunIn
    <3> QED BY <2>2, <3>1, <3>2, <3>3 DEF RunIn
  <2> QED BY <1>6, <2>1, <2>3, <2>4, <2>5 DEF Marked, MarkIn
<1>10. CASE UpdatePrg
  <2> DEFINE takes == new_data["Prg"] /\ ~HasError(buffers.program)
             marked == IF new_run THEN Append(Prg, NewRun) ELSE Prg
  <2>1. /\ UNCHANGED said /\ new_run' = (new_run /\ ~takes)
        /\ Show("Prg", IF takes THEN Appended(marked, buffers.program) ELSE Prg)
    BY <1>10 DEF UpdatePrg, Used, program
  <2>2. win'["Prg"] = IF takes THEN Appended(marked, buffers.program) ELSE Prg
    <3>1. "Prg" \in Windows
      BY DEF Windows
    <3> QED BY <2>1, <3>1, Showing
  <2>3. CASE ~takes
    <3>1. new_run' = new_run
      BY Zenon, <1>5, <2>1, <2>3
    <3> QED BY <1>7, <2>1, <2>2, <2>3, <3>1
  <2>4. CASE takes
    <3>1. new_run' = FALSE
      BY Zenon, <2>1, <2>4
    <3>2. marked \in Seq(Texts) /\ Marked(marked, FALSE)
      <4>1. CASE new_run
        <5>1. Marked(Prg, TRUE)
          BY <1>6, <4>1 DEF Marked
        <5> QED BY <1>5, <4>1, <5>1, MarkAppended
      <4>2. CASE ~new_run
        <5>1. Marked(Prg, FALSE)
          BY <1>6, <4>2 DEF Marked
        <5> QED BY <1>5, <4>2, <5>1
      <4> QED BY <4>1, <4>2
    <3> HIDE DEF marked
    <3>3. n # 0 /\ n \in DOMAIN said /\ buffers.program = said[n].program
      BY <1>5, <2>4 DEF OutputWaits
    <3>4. Marked(win'["Prg"], FALSE)
      <4>1. CASE buffers.program = Nothing
        BY <2>2, <2>4, <3>2, <4>1 DEF Appended
      <4>2. CASE buffers.program # Nothing
        <5>1. buffers.program \in {Text("output", None, n), Text("error", None, n)}
          BY <3>3, <4>2 DEF SaidIs
        <5>2. buffers.program.id = n
          BY <5>1, TextIs
        <5>3. win'["Prg"] = Append(marked, buffers.program)
          BY <2>2, <2>4, <4>2 DEF Appended
        <5> QED BY <1>5, <3>2, <3>3, <5>2, <5>3, OutputMarked
      <4> QED BY <4>1, <4>2
    <3> QED BY <2>1, <3>1, <3>4 DEF Marked, RunIn, MarkIn
  <2> QED BY <2>3, <2>4
<1> QED BY <1>8, <1>9, <1>10, OutputStepsAre


(* Only the start has been said, and it is for Dbg.                        *)
LEMMA InitEstablishesOutputInv ==
  ASSUME Init, TypeOK
  PROVE  OutputInv
<1>1. /\ said = <<>> /\ key = "idle" /\ upd = NoUpdate /\ queue[1] = "Dbg" /\ Len(queue) = 5
      /\ buffers.cli.id = 0 /\ buffers.program.id = 0
      /\ new_data["Dbg"] /\ ~new_data["Prg"]
      /\ win["Dbg"] = <<>> /\ win["Prg"] = <<>>
  <2>1. "Dbg" \in Windows /\ "Prg" \in Windows
    BY DEF Windows
  <2>2. buffers \in {Empty, Into("cli", Text("start", None, 0))}
    BY DEF Init
  <2>3. buffers.cli.id = 0 /\ buffers.program.id = 0
    <3>1. CASE buffers = Empty
      BY <3>1 DEF Empty, Nothing, Text
    <3>2. CASE buffers = Into("cli", Text("start", None, 0))
      <4>1. /\ Into("cli", Text("start", None, 0)).cli = Text("start", None, 0)
            /\ Into("cli", Text("start", None, 0)).program = Nothing
        BY DEF Into, Empty
      <4>2. Text("start", None, 0).id = 0 /\ Nothing.id = 0
        BY DEF Text, Nothing
      <4> QED BY <3>2, <4>1, <4>2
    <3> QED BY <2>2, <3>1, <3>2
  <2> QED BY <2>1, <2>3 DEF Init
<1>2. SaidIs
  BY <1>1 DEF SaidIs
<1>3. OutputWaits
  BY <1>1 DEF OutputWaits, DbgNext, Active, NoUpdate
<1>4. \A n \in Int : n < 1 => ConsoleShown(n) = {} /\ ProgramShown(n) = {}
  BY DEF ConsoleShown, ProgramShown
<1>5. Heard("Dbg") \in Int /\ Heard("Dbg") < 1 /\ Heard("Prg") \in Int /\ Heard("Prg") < 1
  BY <1>1 DEF Heard
<1>6. OnceInOrder(<<>>, {})
  BY DEF OnceInOrder
<1>7. OutputShown
  BY <1>1, <1>4, <1>5, <1>6 DEF OutputShown
<1>8. RunsMarked
  BY <1>1 DEF RunsMarked, Marked
<1> QED BY <1>2, <1>3, <1>7, <1>8 DEF OutputInv

(* Both inductive invariants hold.                                         *)
THEOREM OutputInvariant == Spec => [](WindowInv /\ OutputInv)
<1>1. Init => OutputInv
  BY InitEstablishesOutputInv, InitEstablishesWindowInv DEF WindowInv
<1>2. WindowInv /\ OutputInv /\ [Next]_vars => OutputInv'
  <2> SUFFICES ASSUME WindowInv, OutputInv, [Next]_vars PROVE OutputInv'
    OBVIOUS
  <2>1. SaidIs'
    BY NextKeepsSaidIs DEF WindowInv, OutputInv
  <2>2. OutputWaits' /\ OutputShown' /\ RunsMarked'
    BY NextKeepsOutputWaits, NextKeepsOutputShown, NextKeepsRunsMarked DEF OutputInv
  <2> QED BY <2>1, <2>2 DEF OutputInv
<1> QED BY <1>1, <1>2, WindowInvariant, PTL DEF Spec

(* Of a user who waits for the windows, every output of a command and of   *)
(* the program is shown once and in order, and a Run is marked between two *)
(* outputs of the program that it parts (get_cli_data.c, get_program_      *)
(* data.c), although all queries go through the same buffers.              *)
THEOREM EveryOutputShownOnce == Spec => []OutputShownOnce
<1> DEFINE Runs(id) == {i \in 1 .. id : said[i].plugin = "Run"}
<1>1. ASSUME WindowInv, OutputInv, ~hurried, AtRest
      PROVE  /\ OnceInOrder(win["Dbg"], ConsoleShown(Len(said)))
             /\ OnceInOrder(win["Prg"], ProgramShown(Len(said)))
  <2>1. ~new_data["Dbg"] /\ ~new_data["Prg"] /\ key = "idle"
    BY <1>1, EmptySeq DEF OutputInv, OutputWaits, AtRest, Quiet, DbgNext, PrgNext, Active
  <2>2. Heard("Dbg") = Len(said) /\ Heard("Prg") = Len(said)
    BY <2>1 DEF Heard
  <2> QED BY <1>1, <2>2 DEF OutputInv, OutputShown
<1>2. ASSUME NEW a \in Nat, NEW b \in Nat, a < b PROVE Runs(a) # Runs(b) <=> RunIn(a, b)
  <2>1. \A r : r \in 1 .. b <=> (r \in 1 .. a \/ r \in a + 1 .. b)
    BY <1>2
  <2>2. \A r : ~(r \in 1 .. a /\ r \in a + 1 .. b)
    BY <1>2
  <2> QED BY <2>1, <2>2 DEF RunIn
<1>3. ASSUME WindowInv, OutputInv, ~hurried, Gdb,
             NEW i \in DOMAIN win["Prg"], NEW j \in DOMAIN win["Prg"],
             i < j, win["Prg"][i].id # 0, win["Prg"][j].id # 0
      PROVE  Runs(win["Prg"][i].id) # Runs(win["Prg"][j].id)
               <=> \E k \in i .. j : win["Prg"][k] = NewRun
  <2> DEFINE a == win["Prg"][i].id
             b == win["Prg"][j].id
  <2>1. RunIn(a, b) <=> MarkIn(win["Prg"], i, j)
    BY <1>3 DEF OutputInv, RunsMarked, Marked
  <2>2. a < b
    BY <1>3 DEF OutputInv, OutputShown, OnceInOrder
  <2>3. a \in Nat /\ b \in Nat
    <3>1. win["Prg"] \in Seq(Texts)
      BY <1>3 DEF WindowInv, TypeOK
    <3>2. win["Prg"][i] \in Texts /\ win["Prg"][j] \in Texts
      BY <1>3, <3>1
    <3> QED BY <3>2, BoundsAssumption DEF Texts
  <2> HIDE DEF a, b, Runs
  <2>4. Runs(a) # Runs(b) <=> RunIn(a, b)
    BY <1>2, <2>2, <2>3
  <2> QED BY <2>1, <2>4 DEF a, b, MarkIn
<1>4. WindowInv /\ OutputInv => OutputShownOnce
  BY <1>1, <1>3 DEF OutputShownOnce
<1> QED BY <1>4, OutputInvariant, PTL
=============================================================================
