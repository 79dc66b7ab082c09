----------------------------- MODULE KeyThreads -----------------------------
(***************************************************************************)
(* src/src/main.c: main(), the get_key thread and the send_key thread,     *)
(* with run_plugin() reduced to what the three of them see of it.          *)
(* get_key reads the terminal and passes keys to send_key through a pipe;  *)
(* send_key runs the plugin bound to the key.  A plugin that reads the     *)
(* terminal itself (a select plugin) makes get_key wait on a condition     *)
(* variable.  Either thread may end the session and cancel the other, and  *)
(* main() joins both and restarts the debugger or exits.  Every shared     *)
(* variable is a plain global: each action reads or writes one of them.    *)
(***************************************************************************)
EXTENDS Naturals, Sequences

CONSTANTS Keys, Letters, Esc,
          BoundKeys,       \* keys the [plugins] section of the configuration binds
          BoundTo,         \* what it binds them to: [BoundKeys -> PluginKinds]
          UnboundIndex,    \* what an entry of plugin_key_index nobody wrote may hold
          KeyPipeSize      \* keys the pipe holds before write() blocks

(* The plugins as these threads tell them apart.  "select" stands for the  *)
(* thirteen plugins of the two switch statements: they take the terminal.  *)
PluginKinds == {"Kil", "Qut", "command", "select", "none"}

ASSUME KeysAssumption ==
  /\ Letters \subseteq Keys /\ Esc \in Keys \ Letters
  /\ BoundKeys \subseteq Letters
  /\ BoundTo \in [BoundKeys -> PluginKinds]
  /\ UnboundIndex \subseteq PluginKinds /\ UnboundIndex # {}
  /\ KeyPipeSize \in Nat \ {0}

VARIABLES plugin_key_index, in_select_window, running_plugin,
          restart_prog, running, key_pipe,
          mutex_held,                      \* get_key holds the mutex
          asleep,                          \* get_key sleeps in pthread_cond_wait()
          main_pc, gk_pc, sk_pc,
          gk_key, sk_key,                  \* the threads' local key
          gk_cancelled, sk_cancelled       \* pthread_cancel() called, not yet acted on

flags == <<in_select_window, running_plugin, restart_prog, running>>
gkVars == <<gk_pc, gk_key>>
skVars == <<sk_pc, sk_key>>
sync == <<mutex_held, asleep>>
cancels == <<gk_cancelled, sk_cancelled>>
vars == <<plugin_key_index, in_select_window, running_plugin, restart_prog, running, key_pipe,
          mutex_held, asleep, main_pc, gk_pc, sk_pc, gk_key, sk_key, gk_cancelled, sk_cancelled>>

Index(k) == plugin_key_index[k]

(* parse_config_file() allocates the table with malloc() and create_plugins*)
(* writes the entries of the bound keys only.                              *)
Init ==
  /\ plugin_key_index \in {f \in [Keys -> PluginKinds] :
       \A k \in Keys : IF k \in BoundKeys THEN f[k] = BoundTo[k] ELSE f[k] \in UnboundIndex}
  /\ in_select_window = FALSE /\ running_plugin = FALSE
  /\ restart_prog = FALSE /\ running = TRUE
  /\ key_pipe = <<>>
  /\ mutex_held = FALSE /\ asleep = FALSE
  /\ main_pc = "loop" /\ gk_pc = "unborn" /\ sk_pc = "unborn"
  /\ gk_key = Esc /\ sk_key = Esc
  /\ gk_cancelled = FALSE /\ sk_cancelled = FALSE

-----------------------------------------------------------------------------
(* get_key()                                                               *)

GkStart_KeepsFlag ==
  /\ gk_pc = "start"
  /\ in_select_window' = FALSE
  /\ gk_pc' = "check"
  /\ UNCHANGED <<plugin_key_index, running_plugin, restart_prog, running, key_pipe, sync,
                 main_pc, skVars, gk_key, cancels>>

GkStart ==
  /\ gk_pc = "start"
  /\ in_select_window' = FALSE
  /\ running_plugin' = FALSE
  /\ gk_pc' = "check"
  /\ UNCHANGED <<plugin_key_index, restart_prog, running, key_pipe, sync, main_pc, skVars,
                 gk_key, cancels>>

(* while (in_select_window == true), and the unlock after the loop.        *)
GkCheck ==
  /\ gk_pc = "check"
  /\ \/ in_select_window /\ gk_pc' = "wait" /\ UNCHANGED mutex_held
     \/ ~in_select_window /\ gk_pc' = "getch" /\ mutex_held' = FALSE
  /\ UNCHANGED <<plugin_key_index, flags, key_pipe, asleep, main_pc, skVars, gk_key, cancels>>

(* pthread_cond_wait(): release the mutex and sleep ...                    *)
GkSleep ==
  /\ gk_pc = "wait" /\ ~asleep
  /\ asleep' = TRUE /\ mutex_held' = FALSE
  /\ gk_pc' = "asleep"
  /\ UNCHANGED <<plugin_key_index, flags, key_pipe, main_pc, skVars, gk_key, cancels>>

(* ... until signalled or for no reason, then take the mutex again.        *)
GkWake ==
  /\ gk_pc = "asleep" /\ ~asleep
  /\ mutex_held' = TRUE
  /\ gk_pc' = "check"
  /\ UNCHANGED <<plugin_key_index, flags, key_pipe, asleep, main_pc, skVars, gk_key, cancels>>

GkWakeSpuriously ==
  /\ asleep
  /\ asleep' = FALSE
  /\ UNCHANGED <<plugin_key_index, flags, key_pipe, mutex_held, main_pc, gkVars, skVars, cancels>>

(* The user presses a key while get_key is in getch().                     *)
GkGetch(k) ==
  /\ gk_pc = "getch"
  /\ gk_key' = k
  /\ gk_pc' = "hung?"
  /\ UNCHANGED <<plugin_key_index, flags, key_pipe, sync, main_pc, skVars, cancels>>

RestartKey(k) == Index(k) \in {"Kil", "Qut"} \/ k = Esc

GkIsHung ==
  /\ gk_pc = "hung?"
  /\ IF running_plugin /\ RestartKey(gk_key)
     THEN gk_pc' = "cancel" /\ restart_prog' = TRUE
     ELSE gk_pc' = "idle?" /\ UNCHANGED restart_prog
  /\ UNCHANGED <<plugin_key_index, in_select_window, running_plugin, running, key_pipe, sync,
                 main_pc, skVars, gk_key, cancels>>

GkCancelSendKey_Forgotten ==
  /\ gk_pc = "cancel"
  /\ gk_pc' = "dead"
  /\ UNCHANGED <<plugin_key_index, flags, key_pipe, sync, main_pc, skVars, gk_key, cancels>>

(* pthread_cancel() and pthread_exit().                                    *)
GkCancelSendKey ==
  /\ gk_pc = "cancel"
  /\ sk_cancelled' = (sk_pc # "dead")
  /\ gk_pc' = "dead"
  /\ UNCHANGED <<plugin_key_index, flags, key_pipe, sync, main_pc, skVars, gk_key, gk_cancelled>>

GkIsIdle_NoMark ==
  /\ gk_pc = "idle?"
  /\ gk_pc' = IF running_plugin THEN "check" ELSE "write"
  /\ UNCHANGED <<plugin_key_index, flags, key_pipe, sync, main_pc, skVars, gk_key, cancels>>

(* The key is dropped while a plugin runs.                                 *)
GkIsIdle ==
  /\ gk_pc = "idle?"
  /\ gk_pc' = IF running_plugin THEN "check"
              ELSE IF Index(gk_key) = "select" THEN "mark" ELSE "write"
  /\ UNCHANGED <<plugin_key_index, flags, key_pipe, sync, main_pc, skVars, gk_key, cancels>>

GkMarkSelect ==
  /\ gk_pc = "mark"
  /\ in_select_window' = TRUE
  /\ gk_pc' = "lock"
  /\ UNCHANGED <<plugin_key_index, running_plugin, restart_prog, running, key_pipe, sync,
                 main_pc, skVars, gk_key, cancels>>

(* Nobody but get_key ever locks the mutex, so it never blocks here.       *)
GkLock ==
  /\ gk_pc = "lock"
  /\ mutex_held' = TRUE
  /\ gk_pc' = "write"
  /\ UNCHANGED <<plugin_key_index, flags, key_pipe, asleep, main_pc, skVars, gk_key, cancels>>

GkWrite_NoLimit ==
  /\ gk_pc = "write"
  /\ key_pipe' = Append(key_pipe, gk_key)
  /\ gk_pc' = "check"
  /\ UNCHANGED <<plugin_key_index, flags, sync, main_pc, skVars, gk_key, cancels>>

(* write() blocks while the pipe is full.                                  *)
GkWrite ==
  /\ gk_pc = "write" /\ Len(key_pipe) < KeyPipeSize
  /\ key_pipe' = Append(key_pipe, gk_key)
  /\ gk_pc' = "check"
  /\ UNCHANGED <<plugin_key_index, flags, sync, main_pc, skVars, gk_key, cancels>>

(* PTHREAD_CANCEL_ASYNCHRONOUS: between any two steps.                     *)
GkDie ==
  /\ gk_cancelled /\ gk_pc # "dead"
  /\ gk_pc' = "dead" /\ gk_cancelled' = FALSE
  /\ asleep' = FALSE
  /\ mutex_held' = (mutex_held \/ gk_pc = "asleep")
  /\ UNCHANGED <<plugin_key_index, flags, key_pipe, main_pc, skVars, gk_key, sk_cancelled>>

GetKeyStep ==
  \/ GkStart \/ GkCheck \/ GkSleep \/ GkWake \/ GkIsHung \/ GkCancelSendKey \/ GkIsIdle
  \/ GkMarkSelect \/ GkLock \/ GkWrite \/ GkDie

-----------------------------------------------------------------------------
(* send_key() and run_plugin()                                             *)

(* read(), and Esc quits.                                                  *)
SkRead ==
  /\ sk_pc = "read" /\ key_pipe # <<>>
  /\ sk_key' = Head(key_pipe)
  /\ key_pipe' = Tail(key_pipe)
  /\ running' = (running /\ Head(key_pipe) # Esc)
  /\ sk_pc' = IF Head(key_pipe) \in Letters THEN "run" ELSE "quit?"
  /\ UNCHANGED <<plugin_key_index, in_select_window, running_plugin, restart_prog, sync, main_pc,
                 gkVars, cancels>>

SkRunPlugin ==
  /\ sk_pc = "run"
  /\ running_plugin' = TRUE
  /\ sk_pc' = "plugin"
  /\ UNCHANGED <<plugin_key_index, in_select_window, restart_prog, running, key_pipe, sync,
                 main_pc, gkVars, sk_key, cancels>>

(* A select plugin whose window exists, or a form or menu, takes the       *)
(* terminal; a window that is in no layout (has_window) is skipped.        *)
SkTakeTerminal ==
  /\ sk_pc = "plugin" /\ Index(sk_key) = "select"
  /\ sk_pc' = "select"
  /\ UNCHANGED <<plugin_key_index, flags, key_pipe, sync, main_pc, gkVars, sk_key, cancels>>

(* The Qut key inside select_window() ends the session without the         *)
(* debugger being told.                                                    *)
SkQuitInSelect ==
  /\ sk_pc = "select"
  /\ running' = FALSE
  /\ sk_pc' = "return"
  /\ UNCHANGED <<plugin_key_index, in_select_window, running_plugin, restart_prog, key_pipe, sync,
                 main_pc, gkVars, sk_key, cancels>>

SkLeaveSelect ==
  /\ sk_pc = "select"
  /\ sk_pc' = "return"
  /\ UNCHANGED <<plugin_key_index, flags, key_pipe, sync, main_pc, gkVars, sk_key, cancels>>

(* The other plugins, and select plugins with nothing to select.           *)
(* Qut sends the debugger its exit command and clears running.             *)
SkFinishPlugin ==
  /\ sk_pc = "plugin"
  /\ running' = (running /\ Index(sk_key) # "Qut")
  /\ sk_pc' = "return"
  /\ UNCHANGED <<plugin_key_index, in_select_window, running_plugin, restart_prog, key_pipe, sync,
                 main_pc, gkVars, sk_key, cancels>>

SkReturn ==
  /\ sk_pc = "return"
  /\ running_plugin' = FALSE
  /\ sk_pc' = "clear"
  /\ UNCHANGED <<plugin_key_index, in_select_window, restart_prog, running, key_pipe, sync,
                 main_pc, gkVars, sk_key, cancels>>

(* run_plugin() returns FAIL: running_plugin stays set, send_key quits.    *)
SkFailPlugin ==
  /\ sk_pc \in {"plugin", "select"} /\ Index(sk_key) # "none"
  /\ running' = FALSE
  /\ sk_pc' = "clear"
  /\ UNCHANGED <<plugin_key_index, in_select_window, running_plugin, restart_prog, key_pipe, sync,
                 main_pc, gkVars, sk_key, cancels>>

SkClear ==
  /\ sk_pc = "clear"
  /\ IF Index(sk_key) = "select"
     THEN in_select_window' = FALSE /\ sk_pc' = "signal"
     ELSE UNCHANGED in_select_window /\ sk_pc' = "quit?"
  /\ UNCHANGED <<plugin_key_index, running_plugin, restart_prog, running, key_pipe, sync, main_pc,
                 gkVars, sk_key, cancels>>

(* send_key holds no mutex when it signals.                                *)
SkSignal ==
  /\ sk_pc = "signal"
  /\ asleep' = FALSE
  /\ sk_pc' = "unlock"
  /\ UNCHANGED <<plugin_key_index, flags, key_pipe, mutex_held, main_pc, gkVars, sk_key, cancels>>

(* Unlocking a mutex of another thread frees it (a default mutex).         *)
SkUnlock ==
  /\ sk_pc = "unlock"
  /\ mutex_held' = FALSE
  /\ sk_pc' = "quit?"
  /\ UNCHANGED <<plugin_key_index, flags, key_pipe, asleep, main_pc, gkVars, sk_key, cancels>>

SkQuit_NoCancel ==
  /\ sk_pc = "quit?"
  /\ sk_pc' = IF running THEN "read" ELSE "dead"
  /\ UNCHANGED <<plugin_key_index, flags, key_pipe, sync, main_pc, gkVars, sk_key, cancels>>

SkQuit ==
  /\ sk_pc = "quit?"
  /\ sk_pc' = IF running THEN "read" ELSE "dead"
  /\ gk_cancelled' = (~running /\ gk_pc # "dead")
  /\ UNCHANGED <<plugin_key_index, flags, key_pipe, sync, main_pc, gkVars, sk_key, sk_cancelled>>

SkDie ==
  /\ sk_cancelled /\ sk_pc # "dead"
  /\ sk_pc' = "dead" /\ sk_cancelled' = FALSE
  /\ UNCHANGED <<plugin_key_index, flags, key_pipe, sync, main_pc, gkVars, sk_key, gk_cancelled>>

(* What send_key does without waiting for the user or the debugger.        *)
SendKeyStep ==
  \/ SkRead \/ SkRunPlugin \/ SkReturn \/ SkClear \/ SkSignal \/ SkUnlock \/ SkQuit \/ SkDie

PluginStep == SkTakeTerminal \/ SkQuitInSelect \/ SkLeaveSelect \/ SkFinishPlugin \/ SkFailPlugin

-----------------------------------------------------------------------------
(* main(), from the loop on.                                               *)

MainCreateGetKey ==
  /\ main_pc = "loop" /\ running
  /\ key_pipe' = <<>>
  /\ gk_pc' = "start" /\ gk_cancelled' = FALSE
  /\ main_pc' = "create"
  /\ UNCHANGED <<plugin_key_index, flags, sync, skVars, gk_key, sk_cancelled>>

MainCreateSendKey ==
  /\ main_pc = "create"
  /\ sk_pc' = "read" /\ sk_cancelled' = FALSE
  /\ main_pc' = "join"
  /\ UNCHANGED <<plugin_key_index, flags, key_pipe, sync, gkVars, sk_key, gk_cancelled>>

(* Both pthread_join() calls, then restart or quit.  start_debugger_proc() *)
(* sets running; restart_prog is cleared only after start_program().       *)
MainJoin ==
  /\ main_pc = "join" /\ gk_pc = "dead" /\ sk_pc = "dead"
  /\ IF restart_prog
     THEN main_pc' = "start_program" /\ UNCHANGED running
     ELSE main_pc' = "loop" /\ running' = FALSE
  /\ UNCHANGED <<plugin_key_index, in_select_window, running_plugin, restart_prog, key_pipe, sync,
                 gkVars, skVars, cancels>>

MainRestart ==
  /\ main_pc = "start_program"
  /\ running' = TRUE
  /\ restart_prog' = FALSE
  /\ main_pc' = "loop"
  /\ UNCHANGED <<plugin_key_index, in_select_window, running_plugin, key_pipe, sync, gkVars,
                 skVars, cancels>>

(* The end of the process ends its threads.                                *)
ExitProcess ==
  /\ main_pc' = "exited"
  /\ gk_pc' = "dead" /\ sk_pc' = "dead"
  /\ gk_cancelled' = FALSE /\ sk_cancelled' = FALSE
  /\ asleep' = FALSE
  /\ UNCHANGED <<plugin_key_index, flags, key_pipe, mutex_held, gk_key, sk_key>>

MainExit == main_pc = "loop" /\ ~running /\ ExitProcess

MainStep == MainCreateGetKey \/ MainCreateSendKey \/ MainJoin \/ MainRestart \/ MainExit

(* sigint_handler() cleans up and exits the process, at any time.          *)
Sigint == main_pc # "exited" /\ ExitProcess

Terminated == main_pc = "exited" /\ UNCHANGED vars

Next ==
  \/ MainStep \/ GetKeyStep \/ SendKeyStep \/ PluginStep
  \/ GkWakeSpuriously \/ Sigint \/ Terminated
  \/ \E k \in Keys : GkGetch(k)

Spec == Init /\ [][Next]_vars

(* The threads keep running; the user and the debugged program need not do *)
(* anything, and nothing needs to wake a condition variable but a signal.  *)
FairSpec ==
  /\ Spec
  /\ WF_vars(MainStep)
  /\ WF_vars(GetKeyStep) /\ WF_vars(GkDie)
  /\ WF_vars(SendKeyStep) /\ WF_vars(SkDie)

-----------------------------------------------------------------------------
TypeOK ==
  /\ plugin_key_index \in [Keys -> PluginKinds]
  /\ in_select_window \in BOOLEAN /\ running_plugin \in BOOLEAN
  /\ restart_prog \in BOOLEAN /\ running \in BOOLEAN
  /\ key_pipe \in Seq(Keys) /\ Len(key_pipe) <= KeyPipeSize
  /\ mutex_held \in BOOLEAN /\ asleep \in BOOLEAN
  /\ main_pc \in {"loop", "create", "join", "start_program", "exited"}
  /\ gk_pc \in {"unborn", "start", "check", "wait", "asleep", "getch", "hung?", "idle?", "cancel",
                "mark", "lock", "write", "dead"}
  /\ sk_pc \in {"unborn", "read", "run", "plugin", "select", "return", "clear", "signal",
                "unlock", "quit?", "dead"}
  /\ gk_key \in Keys /\ sk_key \in Keys
  /\ gk_cancelled \in BOOLEAN /\ sk_cancelled \in BOOLEAN

(* The terminal has one reader: get_key is never in getch() while a select *)
(* plugin is, although nothing but in_select_window, written by both       *)
(* threads with no lock, keeps them apart.                                 *)
OneTerminalReader == ~(gk_pc = "getch" /\ sk_pc = "select")

(* running_plugin can be trusted: it is set whenever a plugin runs, so a   *)
(* hung plugin can be abandoned, and clear when the user can start one, so *)
(* no session begins with get_key dropping every key.                      *)
RunningPluginFlag ==
  /\ sk_pc \in {"plugin", "select"} /\ gk_pc # "dead" => running_plugin
  /\ gk_pc = "getch" /\ sk_pc = "read" => ~running_plugin

(* get_key waits for a plugin that is running or on its way, unless the    *)
(* last key is bound to nothing and its entry names a select plugin.       *)
WaitsOnlyForSelect ==
  gk_pc = "asleep" /\ in_select_window /\ gk_key \in BoundKeys =>
    sk_pc # "read" \/ key_pipe # <<>>

(* The two flags, written by both threads with no lock, tell the truth     *)
(* about send_key wherever get_key acts on them.                           *)
FlagsTellTruth == RunningPluginFlag /\ WaitsOnlyForSelect

(* main.c:368: the end of a select plugin wakes get_key.  It does not sleep *)
(* on with the flag down while send_key is back at waiting for a key.      *)
SelectExitWakesGetKey ==
  ~(asleep /\ ~in_select_window /\ sk_pc = "read")

(* The session ends once either thread has ended it: the other is          *)
(* cancelled wherever it is, and main() gets past both joins.              *)
SessionEnds ==
  main_pc = "join" /\ (gk_pc = "dead" \/ sk_pc = "dead") ~> main_pc # "join"
=============================================================================
