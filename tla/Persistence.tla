----------------------------- MODULE Persistence -----------------------------
(***************************************************************************)
(* Breakpoints and watchpoints across sessions: persist_data.c,            *)
(* get_form_input/breakpoints.c and watchpoints.c, the part of the update  *)
(* thread that queries the breakpoints and saves both lists, and the ways  *)
(* a session ends.  The watchpoints live in state->watchpoints; the        *)
(* breakpoints live in the debugger, state->breakpoints is the update      *)
(* thread's copy, and the copy is what is saved.  Names, locations and the *)
(* file are sequences of characters: the reader of the file drops and      *)
(* joins some.                                                             *)
(***************************************************************************)
EXTENDS Naturals, SequencesExt, Functions

CONSTANTS Characters,
          Alphanumeric,        \* isalnum(), and '/'
          Variables,           \* what the user watches
          Located,             \* name -> the <file>:<line> the debugger lists for it;
                               \* a name not in the domain it refuses
          Misread,             \* listed by GDB with the word "error"; none by PDB
          MaxQueuedUpdates,    \* capacity of the update queue
          MaxWatchpoints,      \* bound: the user watches no more
          MaxBreakpoints,      \* bound: the user sets no more in one session
          MaxSessions          \* bound on starts and restarts

Newline == "\n"
Locations == Range(Located)

ASSUME CharactersAssumption ==
  /\ Alphanumeric \subseteq Characters \ {Newline, ">", "["}
  /\ {Newline, ">", "[", "w", "b"} \subseteq Characters
ASSUME NamesAssumption ==
  /\ \A name \in Variables \cup DOMAIN Located \cup Locations :
       name \in Seq(Characters \ {Newline}) /\ name # <<>>
  /\ Misread \subseteq Locations
ASSUME BoundsAssumption ==
  /\ MaxQueuedUpdates \in Nat /\ MaxWatchpoints \in Nat /\ MaxBreakpoints \in Nat
  /\ MaxSessions \in Nat

VARIABLES file,                \* the characters of the persistence file
          watchpoints,         \* state->watchpoints, without the index and the value
          breakpoints,         \* state->breakpoints
          debugger_breaks,     \* the debugger's own, in order, with their numbers
          numbered,            \* numbers the debugger has given
          updates,             \* queued updates of the Wat and Brk windows
          update_pc,           \* the update thread
          phase,               \* "off", "start_program" or "up"
          sessions,
          wanted,              \* history: set by a careful user and not deleted
          careful              \* history: the user set breakpoints at reloadable locations
                               \* only, never cleared them or ended a session with updates
                               \* still to be done, and never had more than one watchpoint

debugger == <<debugger_breaks, numbered>>
lists == <<watchpoints, breakpoints>>
updating == <<updates, update_pc>>
session == <<phase, sessions>>
history == <<wanted, careful>>
vars == <<file, watchpoints, breakpoints, debugger_breaks, numbered, updates, update_pc, phase,
          sessions, wanted, careful>>

Enqueue_NoWait(windows) == updates' = updates \o windows

(* update_windows() returns once the queue has taken all of them.          *)
Enqueue(windows) ==
  /\ Len(updates) + Len(windows) <= MaxQueuedUpdates
  /\ updates' = updates \o windows

Quiet == phase = "up" /\ updates = <<>> /\ update_pc = "wait"

Remember(care, locations) ==
  /\ careful' = (careful /\ care)
  /\ wanted' = IF careful' THEN locations ELSE {}

-----------------------------------------------------------------------------
(* The file.                                                               *)

(* Each line and its end.                                                  *)
Text(lines) ==
  LET upto[i \in 0 .. Len(lines)] ==
        IF i = 0 THEN <<>> ELSE upto[i - 1] \o Append(lines[i], Newline)
  IN upto[Len(lines)]

Places(breaks) == [i \in DOMAIN breaks |-> breaks[i].location]

(* persist_data()                                                          *)
Lines(watches, breaks) ==
  (IF watches = <<>> THEN <<>> ELSE <<">", "w", Newline>> \o Text(watches)) \o
  (IF breaks = <<>> THEN <<>> ELSE <<">", "b", Newline>> \o Text(Places(breaks)))

(* get_persisted_data() reads the file character by character: reader.at   *)
(* is the loop that takes the next one.                                    *)
Longer(lines, ch) == [lines EXCEPT ![Len(lines)] = Append(@, ch)]

Outside(reader, ch) == [reader EXCEPT !.at = IF ch = ">" THEN "header" ELSE "outside"]

Header(reader, ch) ==
  [reader EXCEPT !.at = CASE ch = "w" -> "watchpoints"
                          [] ch = "b" -> "breakpoints"
                          [] OTHER -> "outside"]

(* The character that shows that this is no new section is lost.           *)
Watchpoint(reader, ch) ==
  [at |-> "variable", watches |-> Append(reader.watches, <<>>), breaks |-> reader.breaks]

EndOfWatchpoints_NoUngetc(reader) == [reader EXCEPT !.at = "outside"]

(* ungetc() puts the ">" back.                                             *)
EndOfWatchpoints(reader) == [reader EXCEPT !.at = "header"]

Variable(reader, ch) ==
  IF ch = Newline THEN [reader EXCEPT !.at = "watchpoints"]
  ELSE [reader EXCEPT !.watches = Longer(@, ch)]

(* Whatever comes before the first letter, digit or '/' of a line is lost. *)
Breakpoint(reader, ch) ==
  CASE ch = "[" -> [reader EXCEPT !.at = "outside"]
    [] ch \in Alphanumeric -> [at |-> "location", watches |-> reader.watches,
                               breaks |-> Append(reader.breaks, <<ch>>)]
    [] OTHER -> reader

Location(reader, ch) ==
  IF ch = Newline THEN [reader EXCEPT !.at = "breakpoints"]
  ELSE [reader EXCEPT !.breaks = Longer(@, ch)]

Character(reader, ch) ==
  CASE reader.at = "outside" -> Outside(reader, ch)
    [] reader.at = "header" -> Header(reader, ch)
    [] reader.at = "watchpoints" -> IF ch = ">" THEN EndOfWatchpoints(reader)
                                    ELSE Watchpoint(reader, ch)
    [] reader.at = "variable" -> Variable(reader, ch)
    [] reader.at = "breakpoints" -> Breakpoint(reader, ch)
    [] reader.at = "location" -> Location(reader, ch)

NewReader == [at |-> "outside", watches |-> <<>>, breaks |-> <<>>]

Parsed(chars) ==
  LET after[i \in 0 .. Len(chars)] ==
        IF i = 0 THEN NewReader ELSE Character(after[i - 1], chars[i])
  IN after[Len(chars)]

(* The elements of s that are in set, in order.                            *)
Only(s, set) ==
  LET kept[i \in 0 .. Len(s)] ==
        IF i = 0 THEN <<>>
        ELSE IF s[i] \in set THEN Append(kept[i - 1], s[i]) ELSE kept[i - 1]
  IN kept[Len(s)]

Init ==
  /\ file = <<>>
  /\ watchpoints = <<>> /\ breakpoints = <<>> /\ debugger_breaks = <<>> /\ numbered = 0
  /\ updates = <<>> /\ update_pc = "wait"
  /\ phase = "off" /\ sessions = 0
  /\ wanted = {} /\ careful = TRUE

-----------------------------------------------------------------------------
(* The debugger.  It numbers the breakpoints of a session, and deletes by  *)
(* number.                                                                 *)

SetAll(names) ==
  LET known == Only(names, DOMAIN Located) IN
  /\ debugger_breaks' = [i \in DOMAIN known |-> [number |-> i, location |-> Located[known[i]]]]
  /\ numbered' = Len(known)

Set(name) ==
  /\ debugger_breaks' = Append(debugger_breaks, [number |-> numbered + 1, location |-> Located[name]])
  /\ numbered' = numbered + 1

Numbers(breaks) == {b.number : b \in ToSet(breaks)}

Without(breaks, numbers) == Only(breaks, {b \in ToSet(breaks) : b.number \notin numbers})

ProgramEnds == debugger_breaks' = <<>> /\ numbered' = 0

-----------------------------------------------------------------------------
(* main: a new process, and a restart of the debugger in the same process. *)
Start ==
  /\ phase = "off" /\ sessions < MaxSessions
  /\ phase' = "start_program" /\ sessions' = sessions + 1
  /\ UNCHANGED <<file, lists, debugger, updating, history>>

(* The lists and the queue stay as they are.                               *)
Restart ==
  /\ phase = "up" /\ sessions < MaxSessions
  /\ phase' = "start_program" /\ sessions' = sessions + 1
  /\ ProgramEnds
  /\ Remember(Quiet, wanted)
  /\ UNCHANGED <<file, lists, updating>>

Load_NoBreakpoints ==
  /\ phase = "start_program"
  /\ watchpoints' = watchpoints \o Parsed(file).watches
  /\ Enqueue(<<"Wat", "Brk">>)
  /\ Remember(Len(watchpoints') <= 1, wanted)
  /\ phase' = "up"
  /\ UNCHANGED <<file, breakpoints, debugger, update_pc, sessions>>

(* The saved watchpoints are appended to the ones there are, the saved     *)
(* breakpoints are set in the debugger, which refuses what it cannot find. *)
Load ==
  /\ phase = "start_program"
  /\ watchpoints' = watchpoints \o Parsed(file).watches
  /\ SetAll(Parsed(file).breaks)
  /\ Enqueue(<<"Wat", "Brk">>)
  /\ Remember(Len(watchpoints') <= 1, wanted)
  /\ phase' = "up"
  /\ UNCHANGED <<file, breakpoints, update_pc, sessions>>

EndProcess ==
  /\ watchpoints' = <<>> /\ breakpoints' = <<>>
  /\ ProgramEnds
  /\ updates' = <<>> /\ update_pc' = "wait"
  /\ phase' = "off"
  /\ Remember(Quiet, wanted)
  /\ UNCHANGED sessions

(* clean_up(), after Qut, on an error and on SIGINT, at any time.          *)
CleanUp ==
  /\ phase # "off"
  /\ file' = Lines(watchpoints, breakpoints)
  /\ EndProcess

(* The process dies with no clean_up().                                    *)
Crash ==
  /\ phase # "off"
  /\ EndProcess
  /\ UNCHANGED file

-----------------------------------------------------------------------------
(* send_key: the plugins.                                                  *)

(* What is written for these is read back, and found again.                *)
Reloadable ==
  {l \in Locations \ Misread : l[1] \in Alphanumeric /\ l \in DOMAIN Located /\ Located[l] = l}

InsertBreakpoint_NoUpdate(name) ==
  /\ phase = "up" /\ numbered < MaxBreakpoints
  /\ Set(name)
  /\ Remember(Located[name] \in Reloadable, wanted \cup {Located[name]})
  /\ UNCHANGED <<file, lists, updating, session>>

InsertBreakpoint(name) ==
  /\ phase = "up" /\ numbered < MaxBreakpoints
  /\ Set(name)
  /\ Enqueue(<<"Brk">>)
  /\ Remember(Located[name] \in Reloadable, wanted \cup {Located[name]})
  /\ UNCHANGED <<file, lists, update_pc, session>>

DeleteBreakpoint(number) ==
  LET left == Without(debugger_breaks, {number}) IN
  /\ phase = "up"
  /\ debugger_breaks' = left
  /\ Enqueue(<<"Brk">>)
  /\ Remember(TRUE, wanted \ (Range(Places(debugger_breaks)) \ Range(Places(left))))
  /\ UNCHANGED <<file, lists, numbered, update_pc, session>>

(* Deletes what the copy lists, whatever the debugger has.                 *)
ClearAllBreakpoints ==
  /\ phase = "up"
  /\ debugger_breaks' = Without(debugger_breaks, Numbers(breakpoints))
  /\ breakpoints' = <<>>
  /\ Enqueue(<<"Brk">>)
  /\ Remember(Quiet, {})
  /\ UNCHANGED <<file, watchpoints, numbered, update_pc, session>>

InsertWatchpoint(variable) ==
  /\ phase = "up" /\ Len(watchpoints) < MaxWatchpoints
  /\ watchpoints' = Append(watchpoints, variable)
  /\ Enqueue(<<"Wat">>)
  /\ Remember(watchpoints = <<>>, wanted)
  /\ UNCHANGED <<file, breakpoints, debugger, update_pc, session>>

DeleteWatchpoint(i) ==
  /\ phase = "up"
  /\ watchpoints' = RemoveAt(watchpoints, i)
  /\ Enqueue(<<"Wat">>)
  /\ UNCHANGED <<file, breakpoints, debugger, update_pc, session, history>>

ClearAllWatchpoints ==
  /\ phase = "up"
  /\ watchpoints' = <<>>
  /\ Enqueue(<<"Wat">>)
  /\ UNCHANGED <<file, breakpoints, debugger, update_pc, session, history>>

-----------------------------------------------------------------------------
(* update_window_thread().                                                 *)
UpdateWat ==
  /\ update_pc = "wait" /\ updates # <<>> /\ Head(updates) = "Wat"
  /\ updates' = Tail(updates)
  /\ update_pc' = "open"
  /\ UNCHANGED <<file, lists, debugger, session, history>>

(* The copy is freed before the debugger is asked ...                      *)
UpdateBrk ==
  /\ update_pc = "wait" /\ updates # <<>> /\ Head(updates) = "Brk"
  /\ updates' = Tail(updates)
  /\ breakpoints' = <<>>
  /\ update_pc' = "query"
  /\ UNCHANGED <<file, watchpoints, debugger, session, history>>

(* ... and made anew from the answer, unless the answer to GDB's query     *)
(* holds the word "error" anywhere.                                        *)
QueryBreakpoints ==
  /\ update_pc = "query"
  /\ breakpoints' = IF Range(Places(debugger_breaks)) \cap Misread = {} THEN debugger_breaks
                    ELSE <<>>
  /\ update_pc' = "open"
  /\ UNCHANGED <<file, watchpoints, debugger, updates, session, history>>

(* fopen() empties the file, fclose() writes it.                           *)
OpenFile ==
  /\ update_pc = "open"
  /\ file' = <<>>
  /\ update_pc' = "write"
  /\ UNCHANGED <<lists, debugger, updates, session, history>>

WriteFile ==
  /\ update_pc = "write"
  /\ file' = Lines(watchpoints, breakpoints)
  /\ update_pc' = "wait"
  /\ UNCHANGED <<lists, debugger, updates, session, history>>

-----------------------------------------------------------------------------
Next ==
  \/ Start \/ Restart \/ Load \/ CleanUp \/ Crash
  \/ \E name \in DOMAIN Located : InsertBreakpoint(name)
  \/ \E number \in Numbers(debugger_breaks) : DeleteBreakpoint(number)
  \/ ClearAllBreakpoints
  \/ \E variable \in Variables : InsertWatchpoint(variable)
  \/ \E i \in DOMAIN watchpoints : DeleteWatchpoint(i)
  \/ ClearAllWatchpoints
  \/ UpdateWat \/ UpdateBrk \/ QueryBreakpoints \/ OpenFile \/ WriteFile

Spec == Init /\ [][Next]_vars

-----------------------------------------------------------------------------
Breaks == [number : Nat, location : Locations]

TypeOK ==
  /\ file \in Seq(Characters)
  /\ watchpoints \in Seq(Seq(Characters \ {Newline}))
  /\ breakpoints \in Seq(Breaks) /\ debugger_breaks \in Seq(Breaks)
  /\ numbered \in Nat
  /\ updates \in Seq({"Wat", "Brk"}) /\ Len(updates) <= MaxQueuedUpdates
  /\ update_pc \in {"wait", "query", "open", "write"}
  /\ phase \in {"off", "start_program", "up"} /\ sessions \in 0 .. MaxSessions
  /\ wanted \subseteq Locations /\ careful \in BOOLEAN

(* The file catches up: once the queued updates are done, it holds the     *)
(* watchpoints and the breakpoints of the debugger, whoever changed them,  *)
(* in whatever order the updates overlapped with the changes.  With GDB    *)
(* and a breakpoint in whose entry the word "error" appears (a file        *)
(* error.c), it holds no breakpoint at all.                                *)
FileCatchesUp ==
  Quiet => LET misread == \E b \in ToSet(debugger_breaks) : b.location \in Misread IN
           file = Lines(watchpoints, IF misread THEN <<>> ELSE debugger_breaks)

(* The debugger of every later session has the breakpoints the user set    *)
(* and did not delete, if the user leaves the updates their time, has no   *)
(* second watchpoint, which in the file may swallow the breakpoints, and   *)
(* sets breakpoints only at locations that begin with a letter, a digit or *)
(* '/', that the debugger finds by the name it lists them by, and whose    *)
(* entry in GDB's list does not hold the word "error".                     *)
BreakpointsKept ==
  Quiet /\ careful => wanted = Range(Places(debugger_breaks))

(* What is saved with at most one watchpoint, and with locations that      *)
(* begin with a letter, a digit or '/', is what the next session will read.*)
OneWatchpointReloads ==
  Quiet /\ Len(watchpoints) <= 1
        /\ (\A l \in Range(Places(breakpoints)) : l[1] \in Alphanumeric) =>
    /\ Parsed(file).watches = watchpoints
    /\ Parsed(file).breaks = Places(breakpoints)

(* README.md:11: watchpoints persist: the next session will read what this *)
(* one has.                                                                *)
WatchpointsPersist == Quiet => Parsed(file).watches = watchpoints
=============================================================================
