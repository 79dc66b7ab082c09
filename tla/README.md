# termfu: a TLA+ model

termfu is a terminal front end for GDB and PDB: it runs the debugger as a child
process, sends it commands over a pipe, parses what comes back and shows it in
ncurses windows that the user scrolls, rearranges and types commands for. This
directory models the parts of it in which the order of events matters, checks
them with TLC and proves the most important results with TLAPS.

Paths below are relative to `src/src/` of the repository unless they say otherwise.

## The system

| Component | Code | State | Operations | Hard behaviour | What makes it correct |
|---|---|---|---|---|---|
| Window update queue | `update_window_data/_update_window_data.c` | the ring `update_queue_t`, a mutex, two condition variables | `update_window(s)`, `enqueue_update`, `dequeue_update`, `update_window_thread` | several threads, full and empty queue, a caller cancelled asynchronously, updates queued before the consumer exists | a bounded FIFO; no lost wake-up; calls return |
| Key and plugin threads | `main.c`, `run_plugin.c` | `in_select_window`, `running_plugin`, `restart_prog`, `running`, the key pipe, `plugin_key_index` | `get_key`, `send_key`, `run_plugin`, create, cancel, join, restart, SIGINT | flags shared with no lock, a signal sent with no mutex, both threads may cancel the other | one reader of the terminal; a session that is ended ends; keys go where they should |
| Debugger channel | `utilities.c`, `send_debugger_command.c`, `parse_debugger_output.c`, `start_debugger.c` | two pipes, `reader_buffer`, `reader_state`, the output buffers, `ready` | send a command, insert the end marker, read and parse, start, restart | `read()` cuts anywhere; two threads on one channel; restart under a call | a caller gets its own output, all of it, and returns |
| Growing text buffers | `cp_wchar`, `cp_dchar` in `utilities.c` | `buff`, `buff_pos`, `buff_len`, `times_doubled` | copy a character, reset | the last cell, doubling, looping back | inside the allocation; what was copied is there |
| Scrolling windows | `display_lines.c`, the keys of `select_window.c` | the list of lines, `scroll_row`, `curr_line`, `scroll_col_offset` | keys, updates, new data, new layout | pointer and number must move together; short data; resized windows | they agree until a page up; no step off the list; the number stops at the last page |
| Persistence | `persist_data.c`, `get_form_input/breakpoints.c`, `watchpoints.c`, `get_breakpoint_data.c` | the file, two lists, the debugger's breakpoints, queued updates | insert, delete, clear, query, save, load, exit, crash, restart | the saved list is a lagging copy; the file is emptied before it is written | the file catches up; what was saved comes back |
| Output parsers | `parse_debugger_output_gdb`, `_pdb` | position in the line, the buffers | one chunk | a chunk may end anywhere; a line may not advance the parser, or run it past the chunk | each line reaches its buffer, whatever the chunks, if they end between lines |
| Configuration parser | `parse_config_file.c` | the command's words, `plugin_key_index`, the list of layouts | one section, one line, one character | blanks, comments, unended lines and art; buffers counted once and filled by another count | what is configured is what runs; art becomes its matrix |
| Plugin table | `plugins.c` | the sorted codes, the windows | code to index | both ends of the binary search, codes that are not there | every code is found and no other |
| Layouts | `render_layout.c`, `choose_layout.c`, `select_window.c`, `pulse_header_title_color.c` | sizes and positions, ncurses windows, `curr_layout` | calculate, render, choose, free, find a title | remainders, overlaps, small screens, errors half way, titles that were not printed | windows tile the screen, the chosen layout is the one shown, exactly its windows exist, keys find their titles |
| Window data readers | the other files of `update_window_data/` | `new_data`, `new_run`, `curr_func`, `main_src_path_buffer`, `first_run`, the windows' buffers | one reader per window | answers that fail, are empty or were overwritten by the next command; one reader uses what another found | at rest every window shows where the program is; an output is shown once |
| Forms and popups | `get_form_input/` | `input_buffer` | one line of input, and the command it goes into | an empty input | - |
| Drawing | `format_window_data.c`, `pulse_header_title_color.c` | none | colours | - | - |

How they interact. `main` configures, starts the debugger (`start_program`) and
creates the update thread once and the pair `get_key`/`send_key` for every
session. `get_key` writes keys to a pipe, `send_key` reads them and runs the
plugin. A plugin sends debugger commands over the channel and calls
`update_windows`; the update thread takes each update from the queue, queries
the debugger over *the same* channel, fills the window's buffer, displays it and,
for the `Brk` and `Wat` windows, saves the persistence file. A plugin that
scrolls a window calls the same `display_lines`.

## Modules

| Module | Models | Extends |
|---|---|---|
| `UpdateFifo` | the abstract promise of the queue: accept up to a bound, hand over in order | |
| `UpdateQueue` | the queue, statement by statement, and its refinement of `UpdateFifo` | |
| `UpdateQueueProofs` | TLAPS proofs about `UpdateQueue` | `UpdateQueue` |
| `KeyThreads` | `main`'s loop, `get_key`, `send_key`, `run_plugin` as they see each other | |
| `KeyThreadsProofs` | TLAPS proofs about `KeyThreads` | `KeyThreads` |
| `OutputParser` | both parsers, as a function of a parser state and the next piece of a chunk | |
| `DebuggerChannel` | pipes, markers, chunked reading, start and restart, under GDB and PDB | `OutputParser` |
| `DebuggerChannelProofs` | TLAPS proofs about `OutputParser` and `DebuggerChannel` | `DebuggerChannel` |
| `CharBuffer` | `cp_wchar` with the reset of its callers | |
| `CharBufferProofs` | TLAPS proofs about `CharBuffer` | `CharBuffer` |
| `ScrollWindow` | how text is split into lines, and the position of one window in them | |
| `ScrollWindowProofs` | TLAPS proofs about `ScrollWindow` | `ScrollWindow` |
| `Persistence` | the file, the lists and the sessions | |
| `PersistenceProofs` | TLAPS proofs about `Persistence` | `Persistence` |
| `WindowData` | commands, what they print, the batches of updates they queue, and the reader of every window under GDB and PDB | |
| `WindowDataProofs` | TLAPS proofs about `WindowData` | `WindowData` |
| `Layouts` | from the configuration file to the windows on the screen, the choice of a layout, the titles that keys look for, the clean-up | |
| `LayoutsProofs` | TLAPS proofs about `Layouts` | `Layouts` |
| `MC...` | small instances for TLC, one per module | the module |

An action is one step after which a thread can be preempted, or one whole
operation where only one thread is involved. In detail:

* `UpdateQueue`: every statement between lock and unlock is an action, `pc` is
  the statement a thread is at. `Acquire` is both `pthread_mutex_lock()` and the
  return from `pthread_cond_wait()`. `Cancel` is asynchronous cancellation
  (`send_key` sets `PTHREAD_CANCEL_ASYNCHRONOUS`): a mutex held at that moment is
  `Abandoned`, because the code installs no cleanup handler. `StartUpdateThread`
  leaves the ring alone since `init_update_queue` initialises a copy.
* `KeyThreads`: each action reads or writes one shared global, so every order of
  two threads is explored. `plugin_key_index` entries of unbound keys are whatever
  `malloc()` returned, restricted to `UnboundIndex`. The thirteen plugins of the
  two `switch` statements that hand over the terminal are the one kind `select`;
  the mutex is a flag because only `get_key` ever locks it.
* `OutputParser`: a chunk is a sequence of pieces: the strings the two parsers
  branch on (line prefixes, prompts, end markers, a backslash sequence, a quote,
  newlines) and texts. `GdbPiece` and `PdbPiece` are one turn of the parsers' loops;
  a turn that does not advance ends in `LOOPS`. PDB's parser can run past the null of
  a chunk into what an earlier read left in `reader_buffer` (`RunsOver`).
* `DebuggerChannel`: a call is a script of commands, end markers and `Parse`. `Read`
  takes any number of the pieces in the pipe, so a chunk may end inside a line, and
  `ParseChunk` starts every chunk as if at the beginning of one, as the code does.
  `WaitReady` drops the chunk with the first prompt; what follows an end marker in
  its chunk is dropped too. Two history variables name what goes wrong then: `cut`
  (a read of this call, or the last one before it, ended inside a line) and
  `misread` (an end marker went with the rest of its chunk).
* `CharBuffer`: the function `buff` has one cell more than the allocation, which is
  the cell the code writes its null to when the last one is filled.
  `DoubleBuffer` keeps what `realloc()` keeps and does not move `buff_pos`.
* `ScrollWindow`: a text is the lengths of its lines. `Lines` is the list that
  `create_scroll_buffer_llist()` makes of it: in a window that wraps, a row ends one
  column early and the next begins with its last character. A line is its number in
  the list; following `next` or `prev` past an end gives NULL, and from NULL a crash.
  `display_lines` is one action for every key and for an update, with the rebuild of
  the list inside it. Colours are left out; a window has at least one row and one
  column, and in a single column the split never ends (`SplitForever`).
* `Persistence`: the file is a sequence of characters, because its reader drops and
  joins some; names are as short as still lets it do so. `Character` is one `fgetc()` of
  `get_persisted_data()`, with one operator for each of its loops, and `Parsed` runs it
  over the file: the first character of every watchpoint but the first is lost, and
  whatever a location has before its first letter, digit or `/`. `Located` is the
  `<file>:<line>` the debugger lists for a name it is given; a name outside its domain it
  refuses when the file is loaded (an insert that is refused only queues an update and is left out). `Misread` are the locations that GDB lists with the
  word "error" in the entry: `get_breakpoint_data_gdb()` takes such an answer for a failure and
  leaves the list empty. One command to the debugger, and all that `Load` sends, is atomic here
  (the channel has its own module; nothing else runs while a session starts but the update
  thread's last update). `send_key`'s changes interleave with the update thread's
  steps, and a session can end between any two of them, by `CleanUp` (quit, error, SIGINT) or
  `Crash`.
* `WindowData`: `Send`, `Parse` and `Announce` are the three parts of a command as
  the update thread can see them (the pulse of the header and the flush of the
  program's output change nothing here). `Ask` is one `send_command_mp()`, and the
  reader's action that follows it copies what the buffers hold *by then*: a command
  may have come in between. A text is where it comes from, the place it speaks of
  and, for a command's output, its number. `ErrorWord` names the windows and places whose data
  holds the word "error" (a variable, a function, a file): the readers take such an answer for a
  failed one (`HasError`), each in its own way, and Dbg and Prg leave such an output out. PDB's reader of
  the locals leaves out a script's own level (`ModuleLevel`), and its reader of Wat never sets
  `changed`, so the lines made for the first text stay: `wat_lines` is that text, and a later
  one is shown through them, cut behind as many characters and one more (`Through`, by the
  `Length` of the value). `upd.killing` is the value of
  `curr_plugin_index` that the source reader takes on entry. Queue and channel are
  abstract: a sequence (what `UpdateQueue` implements) and exclusive exchanges
  (which is exact for a user who waits, and where `channel_mixed` shows the
  rest for one who does not).

* `Layouts`: one thread does all of it, so an action is a section or line of the
  file, one probe of the binary search, one stage of `render_layout()`, or one key.
  `phase` says which comes next; it ends in `closed`, in `dirty` (a window could not
  be deleted), in `loops` (a command line is looked for behind the end of the file)
  or in `undefined`, where the code reads or writes outside an object: what happens
  then is not followed. An ncurses window is a pointer that is null, live, dead or,
  where `allocate_plugin_windows()` writes nothing, garbage. `Matrix` keeps the loop
  that steps over one character at the end of each row, whatever it is. A title is
  its length. `find_window_string()` goes on with the next cell after a mismatch, without trying
  that cell again as the first of the title, so it may miss a title that stands there, if the
  cells before it match its beginning: `Elusive` are the plugins whose title that can happen to
  (one that begins with a letter that borders are stored as, one with a blank, an empty one). Every other title is found
  if it was printed whole and the terminal was never smaller than the layout since it was made
  (`cut`): ncurses cuts its windows to a smaller terminal, and a larger one does not bring back
  what was cut.

## What TLC checks

Passing runs.

| Run | Bounds | Shows |
|---|---|---|
| `queue` | 2 callers, one cancellable, ring of 2, requests of 2 and 1 updates | `LockDiscipline`, `RingWhole`, `NoLostWakeUp`, the refinement `ImplementsFifo`, and that calls return (`EveryCallReturns`) unless a cancelled caller took the mutex with it |
| `threads` | one key of each kind, a pipe of 2 keys, unbound keys bound to nothing or to a select plugin | `OneTerminalReader`, `FlagsTellTruth` (`RunningPluginFlag` and `WaitsOnlyForSelect`), `SessionEnds` |
| `channel` | one user of the channel, GDB and PDB with their start-up scripts, six commands with a line for every buffer, any cut between two pieces, one restart | `OutputIsOwn`, `CleanWhenIdle`, `CallsReturn` |
| `buffer` | a buffer of 2 that doubles twice, texts of up to 11 characters over 2 letters | `PrefixDefined`, `LossAccounted`, `CopiesText` |
| `scroll` | four windows, layouts of 3x4, 5x6 and 4x1, up to 10 lines, some wider than the window | `NeverCrashes`, `RowMatchesLine`, `WrapsText`, `StopsAtEnds` |
| `persistence` | a variable of one letter, of which up to 2 are watched, 3 names of locations (as they are listed, beginning with another character, listed under another name with "error" in it), 2 breakpoints a session, 3 starts, a queue of 2 | `FileCatchesUp`, `BreakpointsKept`, `OneWatchpointReloads` |
| `windows` | GDB and PDB, 2 places in different files and functions, one whose locals, stack and registers have the word "error" in them and one at a script's own level, values of lengths 1 and 3, 2 commands of five kinds and any number of layout changes, a queue of one batch | `ShowsProgram`, `ShowsNoProgram`, `OutputShownOnce`, `ReadersFindAnswers` |
| `layouts` | a table of five codes, four of whose plugins have a window; files with any command line of up to 5 characters, any two lines of bindings, any art of up to 5 characters and some as long as the buffer, matrices of up to 3x2 and 2x3 segments, two or three layouts to switch between; terminals of 6x13 and 15x20, each resized to the other and back; a title that the search may miss; 3 renders | `CommandFits`, `LastBindingWins`, `ArtIsMatrix`, `Tiling`, `ShowsChosenLayout`, `TitlesFound`, `CleansUp` |

Why the bounds suffice. A ring of 2 wraps, fills and empties within one call of
two updates. Two keys in the pipe are one more than the code means to put there.
A buffer of 2 that doubles twice and 11 characters reach both doublings and the
loop back, from a fresh buffer and from one that has already grown. Ten lines are
three pages of the smaller window and reach a two-digit line number. Three starts
let the damage of one reload go through the file again; a variable of one letter comes back
empty and then swallows the next line. Lengths 1 and 3 are one more than fits in the line of the other. Two commands behind the
start-up give every pair of a batch under way and a command that overtakes it, a
second run, and a program that stops in another function, ends, or is killed. The
answers have a line for every buffer of both debuggers and one that each parser does
not get past; a pipe holds the answers of a whole script, so that markers meet in one
chunk. A line of 3, 4, 6 or 7 is just not split, split once and split twice in a
window of four columns. Five codes have probes left and right of every place. Three
segments per direction give a window both neighbours, 13 and 20 columns leave every
remainder of a division by two and three, the smaller terminal refuses some layouts
and loses some titles, and three renders are a switch, a switch back and a restart.

Runs in which TLC finds a statement of the code's comments or of the README
violated. Each is listed in `PROJECT.json` with the line it quotes.

| Run | What the code does |
|---|---|
| `queue_cancel` | killing a hung program cancels `send_key` between lock and unlock; the next session blocks in its first `update_window()` |
| `threads_signal` | the end of a select plugin is signalled between `get_key`'s check and its wait, and `get_key` sleeps on |
| `channel_mixed` | `send_key` and the update thread read each other's output |
| `persistence_watch` | a second watchpoint is reloaded without its first character |

Where the code departs from what one would like without a run of its own, the
passing property says so in its condition: `EveryCallReturns` excludes an
abandoned mutex, `WaitsOnlyForSelect` excludes keys that are bound to nothing,
`NeverCrashes`, `RowMatchesLine` and what `StopsAtEnds` says of the line that is shown
exclude a window that was paged up (page up counts its rows twice, after which down goes
past the last page), and the first the free of a `head_line` that was never written and a window of one column,
`OutputIsOwn` and `CallsReturn` exclude a call whose output was cut
inside a line or whose end marker was dropped with its chunk (`cut`, `misread`: the
start is lost when its marker comes with the first prompt), and `CallsReturn` a line
that a parser never gets past (`Parseable`: a backslash sequence in GDB's console
output, a string at the beginning of PDB's), `Tiling` speaks of layouts whose windows
are drawn as rectangles and of one key per plugin (`Blocks`, `OneKeyEach`), and of
shared borders where a segment has two rows and columns (`Roomy`), `ArtIsMatrix` of
art that is drawn in lines of equal length and ended (`WellDrawn`),
`ShowsChosenLayout` (of which layout is rendered) of layouts with different labels,
`CleansUp` leaves out a render that failed or was
interrupted half way and a topbar pointer that `malloc()` returned with something in
it, `TitlesFound` says which keys end a session (a command that the header of the
current layout does not name, a window hardly wider than its title, any title once the
terminal was smaller than the layout on it, an `Elusive` one),
`LossAccounted` counts the character each doubling swallows, `ShowsProgram` speaks of `Asm` only where its update comes
after that of `Src` (after a step into another function `Asm` shows the function
before) and of windows a plugin queues (`Unt` and `Prm` leave `Stk` as it was, `AtP`
everything but `Dbg`), and not of what the readers leave out (under GDB the locals and the stack where
they have the word "error" in them, and the registers, which then stay the old ones; under PDB
the locals of a script's own level and the end of a value more than one character longer than the first one
in `Wat`, which is the empty text if the watchpoint was set later), `ShowsNoProgram` leaves out the registers, `OutputShownOnce`
an output with the word "error" in it and, with `ReadersFindAnswers`, a user who does
not wait (outputs are then lost or doubled, and a reader may follow NULL), `FileCatchesUp`
speaks of an empty list where GDB lists a breakpoint with the word "error" in its entry, `OneWatchpointReloads` of locations that begin with a letter, a digit
or `/`, and `BreakpointsKept` of locations like these that the debugger finds under the name
it lists and lists without that word (`Reloadable`: of `../m.c:3` and `_m.c:3` the reader leaves
`m.c:3`); it also excludes clearing, restarting and quitting with updates still queued
(the saved copy lags, and is empty during a query) and a second watchpoint (one of a single
letter swallows the `>b` header after two reloads). Also visible in the models and stated by no property: the byte
past the allocation in `cp_wchar`, keys written to the pipe while a plugin runs, a
restart that overrides a quit, and watchpoints duplicated by a restart.

`CHECK_DEADLOCK FALSE` is set where the system may stop: a process that
has exited or waits on an abandoned mutex (queue), a debugger waiting
for a command (channel), a text at its bound (buffer), a crash (scroll), the last
session (persistence), the last command (windows), and a program that is closed or
that the model does not follow (layouts). `KeyThreads` is checked for deadlock.

## Fairness

* `UpdateQueue`: weak fairness of each thread's steps, and strong fairness of
  taking the mutex. The mutex is free again and again, since the update thread
  works on each update for as long as the debugger takes with the mutex free. No
  one is obliged to call, to cancel, or to wake spuriously.
* `KeyThreads`: weak fairness of the three threads' own steps and of acting on a
  cancellation. The user, a plugin that waits for the debugger and spurious
  wake-ups get none.
* `DebuggerChannel`: the debugger answers, and a thread with data to read goes on.
  `read()` is enabled only when there is data, as it blocks otherwise. `CallsReturn`
  needs no more: nobody is obliged to call or to restart.

## What is proved

`UpdateQueueProofs`, for every capacity, every set of callers and updates and every request:

* `TypeCorrect`, `MutualExclusion`, `RingWholeWhenFree` from the inductive invariant
  `QueueInv`. `TypeOK` and `RingWhole` are not inductive: inside the critical
  section `rear` runs ahead of `count` (enqueue) or `front` ahead of it (dequeue), so
  `QueueInv` says by how much (`Used`), that a caller past the check still has room,
  that the update thread past it still has something to take, and that the stored
  slot is an update. `LockDiscipline` is what lets the check of one thread survive the
  steps of the others.
* `QueueImplementsFifo`: the refinement, with `Pending` as the mapping. An update
  is accepted when `count` is incremented and handed over when its slot is read;
  every other step is shown to stutter. It rests on arithmetic of the ring
  (`SlotSkip`, `SlotsDistinct`): two offsets of less than a lap are different slots.
* `NoWakeUpIsLost` (the property `NoLostWakeUp`) from `QueueInv` and `WakeUpInv`: once
  `count` has left the value a sleeper sleeps on, the thread that moved it is on its way to
  the signal, or was cancelled there and has taken the mutex with it. That the callers take
  turns is part of it: one signal then reaches the only caller that can sleep.

`KeyThreadsProofs`, for every set of keys and any number of sessions:

* `KeyThreadsTypeCorrect`, `TerminalHasOneReader` and `FlagsAreTrue` from `KeyInv`. It says
  where the one select key is: nowhere, read by `get_key` and not yet written, in the
  pipe, or in `send_key`; `get_key` does not read the terminal in the last two. The rest
  ties `in_select_window`, `running_plugin` and `restart_prog` to the statement each thread
  is at, across the cancellation of either thread by `main` or by the other.

`ScrollWindowProofs`, for every window size, every text and every order of keys, updates and layouts:

* `ScrollTypeCorrect`, `NoDisplayCrashes`, `RowIsLine` and `ScrollingStopsAtEnds` from
  `ScrollInv`. The key clause, `Positioned`, is that the node pointer and the row number
  move together, and that NULL is reached only after a page up.
  `ScrollingStopsAtEnds` needs it for the line: as long as the window was not paged up, what
  bounds the number bounds the line.
* `SplittingLosesNothing` (the property `WrapsText`): the splitting of a text into rows
  keeps every character and lets consecutive rows of a line overlap in one.

`PersistenceProofs`, for every set of variables and locations and any number of sessions:

* `PersistenceTypeCorrect`, `FileIsUpToDate`, `BreakpointsSurvive` and
  `OneWatchpointSurvives` from `PersistenceInv`. What is out of date is about to be brought up to date (`Pending`):
  breakpoints that differ from the debugger's have an update queued or under way, and so
  has a file that differs from the lists. `Kept` says where the breakpoints of a careful
  user are: in the debugger while it runs, in the file until the next one has loaded them.
  It needs that the file reloads as what was saved (`WrittenIsRead`): the reader's state after n
  characters follows a recurrence (`ParsedRecurrence`), so a file can be read in parts
  (`Further`), a header, one watchpoint and any number of locations (`HeaderRead`,
  `OneWatchpointRead`, `LocationsRead`), each by induction over its characters. This is where the
  conditions on the first character and on a second watchpoint come in.

`WindowDataProofs`, for every set of plugins and places, GDB and PDB, and any number of commands and layouts:

* `WindowTypeCorrect`, `WaitingUsersAreSafe`, `WindowsShowProgram` and
  `WindowsShowNoProgram` from `WindowInv`. `Refreshing` is the heart: between two commands
  every window that was announced is queued, is being brought up to date by an answer
  about the program as it is (`Fresh`), or shows it already (`Right`, which names what a reader
  leaves out; that of Wat under PDB follows `wat_lines`, which never changes once it is set). `FuncKnown` does the same for
  `curr_func`, which the assembly is asked for by and only the source reader sets;
  `MainFirst` keeps the main file the one of a program that does not run yet; `Waited` says
  that nothing is under way when a user who waits sends a command. `Begun` and `PdbRuns` say
  what has been said and where the program is.
* `EveryOutputShownOnce` (the property `OutputShownOnce`) from `WindowInv` and `OutputInv`.
  `OutputWaits`: until `Dbg` and `Prg` have taken an output no update that asks the
  debugger can come first, so the buffers still hold it; this is where the order of the
  arguments of `update_windows()` matters. `OutputShown`: the two windows have what all
  commands said but the last one's, or that too. `RunsMarked`: a Run since the last output
  is marked behind it or `new_run` is still set. `SaidIs` numbers the commands.

`CharBufferProofs`, for every initial size, number of doublings and text:

* `BufferTypeCorrect`, `PrefixAlwaysDefined`, `LossIsOnePerDoubling` and `TextIsCopied` from
  `BufferInv` and `CopyInv`. A cell before `buff_pos` survives `realloc()` only because
  `buff_pos` is inside, so the parts of `BufferInv` need each other. `CopyInv` adds that the
  length is the one its doublings account for (`LengthAfter`), and that `buff_pos` stays
  behind every cell that lost a character until the next reset.

`LayoutsProofs`, for every plugin table, configuration file, terminal and order of keys:

* `KeysAreBound` (the property `LastBindingWins`) from `BindingInv`: while `si .. ei` is being
  narrowed it keeps every place where the code can still be, and what is narrowed to nothing
  has no place. It needs only that the table is sorted.
* `OnlyWindowsAreDeleted` (`CleansUp`) from `WindowsInv`: wherever `free_nc_window_data()` may come
  next, every window it looks at can be deleted, unless a render was left half way or a topbar
  pointer holds what `malloc()` returned.
* `ChosenLayoutIsShown` (`ShowsChosenLayout`) from `ScreenInv`: only layouts that were read are
  looked up, the label that is looked up is the chosen one's (`Choice`), a plugin has a window
  exactly if its key is in the art (`ShownAreDrawn`), and while a layout is rendered no window is
  left (`ShownExist`). `ShownAreDrawn` rests on `WindowsTakeAllCells`: every cell is taken by the
  window of one visited cell, and of that one only.
* `WindowsTile` (`Tiling`) from `ScreenInv` and `Placed`, which says that every window on the
  screen was measured at one of its own cells. `EdgesAre` gives the closed form of `Begin`; so
  the segments cover the screen (`SegmentsCover`), a window is a span of whole segments that
  begins on its neighbour's border (`PlacesAreSpans`, `SpansFit`), and a key that is drawn as
  a rectangle has exactly the cells of its window (`WindowIsRectangle`). Two windows then differ
  in their rows or in their columns of segments (`WindowsStandApart`), which `SpansMeet` turns
  into borders that are shared and insides that are not.
* `NamedTitlesAreFound` (`TitlesFound`): a header that was accepted has room for every title of a
  row, each counted with the two blanks that `render_header_titles()` puts there (`RowsFit`), so
  each is printed at a column inside the terminal (`TitlesArePrinted`); a window at least two columns
  wider than its title has it on its border (`BorderHasRoom`). That a title printed whole is
  found, unless it is `Elusive` or the terminal was smaller (`cut`), is the model's reading of
  `find_window_string()`, not a result.
* `CommandIsTheLine` (`CommandFits`): the words are as many as the places where one begins
  (`WordsAreCounted`), a blank stands before every such place but the first
  (`BlanksDivideWords`), so the words are at most one more than the blanks, and the null has room.
* `LayoutsTypeCorrect` from the invariants above, the lemma that the scan puts a window into
  integers (`WindowIsTyped`), and that only a plugin of the table can be missing.
* `WellDrawnArtIsMatrix` (`ArtIsMatrix`) from `ArtsAreRead`: while the file is read there is one
  layout for every layout section that was finished (`LayoutsAreCounted`). The string keeps exactly the
  letters and the newlines that end a line of letters, in their order (`KeysAreKept`); before a
  letter of row r stand r - 1 whole lines, each with its newline (`LettersHavePlaces`). So
  `row_ratio` and `col_ratio` count lines and columns (`ArtIsRead`), and the loop that fills the
  matrix, which skips one newline per row, finds every letter at its place (`DrawnIsMatrix`).

`DebuggerChannelProofs`, for every answer, every cut of the output by `read()`, every script and
any number of restarts, under GDB and PDB:

* `ChannelTypeCorrect` from `TypeInv`, for any threads on the channel. It needs that both
  parsers return a parser state for every chunk (`PieceKeeps`, `ParsedIs`).
* `OneUserLeavesNothing` (the property `CleanWhenIdle`), if `send_key` and the update thread do
  not both use the channel (`OneUser`; with both of them `channel_mixed` shows
  output given to the wrong caller). `ChannelInv` counts: the end markers that are still to be
  written, in the pipes or in the chunk being parsed (`Coming`) are never more than the calls
  of `parse_debugger_output()` that still wait for one (`Owed`), and behind every command and
  every text there is such a marker (`Followed`). A call cannot return without an end
  marker in its chunk (`ChunkIs`), unless one was misread.
* `OneUserReadsOwn` (the property `OutputIsOwn`), if one of them uses the channel, from `ChannelInv`
  and `OwnInv`. `OwnComing` is the heart: until the caller has its output, what is in the chunk, in
  the pipe and still to be answered is a `Stream` that, parsed from here on, puts the lines of the
  caller's commands into the buffers (`Promise`). Under GDB that is true at the end of every line,
  since the parser is then where it began (`GdbChunk`); under PDB only before an answer, or
  behind it with the end marker to come (`PdbCuts`). A chunk keeps the promise (`ChunkKeepsPromise`), a
  command's lines show wherever they are parsed (`LinesShow`), and the answer to the end marker ends
  the reading and shows nothing (`MarkerEnds`). What a call finds in the pipe is part of its stream:
  `Settled` says that the pipe ends as the answer to the last end marker does (`EndTrail`), so it
  holds no more than GDB's result record and prompt (`LeftoverIs`), which show nothing
  (`LeftoverShows`). `Started` says that no thread but `main` calls before the prompt was seen.

The matrix, the scan, the parse of a chunk and the flattening of answers are recursive functions of inputs of any length. What they return is
proved from the general facts that a function defined by recursion satisfies its equations
(`Iteration`) and that a property without a least counterexample holds (`Induction`).

The assumptions are the named `ASSUME`s of the modules: the capacity is positive,
`NoUpdate` is no update, the update thread is no caller, requests are non-empty
sequences of updates; `Nul` and `Undefined` are no characters, the size is positive; newline, `>`
and `[` are neither letters nor digits, and no name is empty or holds a newline; no path and no function name is the value that stands for NULL,
and main's name is not empty; the queue holds the five updates that a start announces
(`MAX_QUEUED_UPDATES` is 48); the plugin table is sorted, as `plugin_codes` is; a file is a
sequence of `Sections` with a layout among them; a terminal has a row and a column; an empty title is `Elusive`; the names in the
header take at least a column (`PROGRAM_NAME` and `"  :   "` do); the bound on the calls of
`render_layout()` allows one; a script
parses as often as it writes an end marker and has every command followed by one
(`ScriptsAssumption`: so do `send_command_mp()`, `send_debugger_command()` and `start_debugger()`);
the first two send their commands, one at most under PDB (`call ... fflush` is GDB's), then one end
marker, and parse once (`CallsAssumption`); a debugger begins its lines its own way, with GDB's
record prefixes or without (`AnswersAssumption`).

Only model-checked: liveness (`EveryCallReturns`, `SessionEnds`, `CallsReturn`), which is
beyond the prover. Every invariant and action property of a passing run is a theorem, those of the
channel beyond its types for one user of it.

## Not modelled

ncurses drawing (`format_window_data.c`, `fix_corners()`, colours) and the editing
keys of forms, the clipboard, logging, `scripts/`, `tests/` and the sample
configurations: output or development tools with no state another part reads. The
command line and ncurses set-up of `initial_configure` run before any thread exists.
Of the configuration file, the recognition of section labels
(`get_category_and_label()`) and the reading of a plugin's title are given; a title
is only its length. Every layout has a `>h` part: without one `num_hdr_key_rows`, which
places every window, is never written. The debugger of the channel lives until a
restart; when it dies, `read()` returns 0 and the reader spins until it is cancelled.
The characters of answers are only present as pieces, tokens and texts. The models
start with `state->watchpoints` and `state->breakpoints` NULL, which nothing in
`main` ensures.

## Plan

1. Done: queue with FIFO, threads, channel with both parsers, buffers, scrolling with
   the splitting of lines, persistence, window data, and layouts with the
   configuration file, the plugin table and the titles.
2. Done: a theorem for every invariant and action property of the passing runs, and for the
   refinement.
3. `Session`: threads, queue and channel composed: the update thread across a
   restart, display of one window by two threads, the change of a layout while the
   update thread draws, buffers read through pointers taken before they are
   reallocated. Each is a data race that a run can only show violated; the
   conditions of the properties above (a user who waits, one user of the channel)
   are what keeps the parts apart.
