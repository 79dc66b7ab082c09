------------------------------ MODULE Layouts -------------------------------
(***************************************************************************)
(* From the configuration file to the windows on the screen:               *)
(* parse_config_file() with create_command(), create_plugins(),            *)
(* get_plugin_code_index() and create_layout(); render_layout() with       *)
(* calculate_layout(), render_header() and render_windows();               *)
(* choose_layout(); the restart, which renders the first layout again;     *)
(* free_nc_window_data() and clean_up().  One thread does all of it.  The  *)
(* file is read section by section, the art of a layout character by       *)
(* character; the ncurses windows are pointers that are null, live, dead or*)
(* whatever malloc() returned.                                             *)
(***************************************************************************)
EXTENDS Integers, Sequences, FiniteSets

CONSTANTS Table,            \* plugin_codes: a code is its place in the order of strcmp()
          WinPlugins,       \* win_plugins, the indices of the plugins with a window
          TopbarPlugins,    \* win_topbar_plugins
          Keys,             \* letters that plugins are bound to
          CommandLetters,   \* letters of the debugger's command line
          Debuggers,        \* debuggers[], the words that name a supported debugger
          WordLen,          \* what create_command() has for a word
          TitleLength,      \* [indices -> length of the title]
          Elusive,          \* plugins whose title the search may miss although it is there
          NameWidth,        \* what the program's name and the layout's take of the header
          KeyStrLen,        \* LAYOUT_KEY_STR_LEN
          Segments,         \* LAYOUT_ROW_SEGMENTS and LAYOUT_COL_SEGMENTS
          Files,            \* configuration files
          Screens,          \* sizes of the terminal
          Fresh,            \* what a pointer of a new window_t holds: of {"null", "garbage"}
          MaxRenders        \* bound on the calls of render_layout()

Plugins == 1 .. Len(Table)
Newline == "\n"
Blank == " "
Unwritten == "?"            \* a cell of a matrix that was allocated and not written
Cells == Keys \cup {Newline, Unwritten}

(* A file is a sequence of sections.  [command] is a line of text.         *)
(* [plugins] binds codes to keys, one line each.  A [layouts] section has a*)
(* label, the rows of its header and the characters of its window art (of  *)
(* its >h and >w parts); only the characters the parser looks at are       *)
(* letters, newlines and a "#".                                            *)
Chars == Keys \cup {Newline, Blank, "#"}
Sections ==
  [section : {"command"}, text : Seq(STRING)]
  \cup [section : {"plugins"}, bindings : Seq([code : Int, key : Keys])]
  \cup [section : {"layout"}, label : STRING, header : Seq(Chars), art : Seq(Chars)]

ASSUME TableAssumption ==
  /\ Table \in Seq(Int) /\ Table # <<>>
  /\ \A i, j \in Plugins : i < j => Table[i] < Table[j]

ASSUME LayoutsAssumption ==
  /\ TopbarPlugins \subseteq WinPlugins /\ WinPlugins \subseteq Plugins
  /\ Keys \cap {Newline, Unwritten, Blank, "#"} = {}
  /\ TitleLength \in [Plugins -> Nat]
  /\ Elusive \subseteq Plugins /\ \A p \in Plugins : TitleLength[p] = 0 => p \in Elusive
  /\ {NameWidth, KeyStrLen, Segments, MaxRenders, WordLen} \subseteq Nat
  /\ NameWidth > 0 /\ MaxRenders > 0
  /\ CommandLetters \cap {Newline, Blank, "#"} = {} /\ Debuggers \in Seq(Seq(CommandLetters))
  /\ Screens \subseteq [rows : Nat \ {0}, cols : Nat \ {0}]
  /\ Fresh \subseteq {"null", "garbage"}
  /\ Files \subseteq Seq(Sections)
  /\ \A f \in Files : \E s \in 1 .. Len(f) : f[s].section = "layout"

VARIABLES file, at,                  \* the file, and the section and line that is read
          si, ei,                    \* get_plugin_code_index(): what is left of the table
          command,                   \* state->command, its space and the debugger's index
          plugin_key_index,          \* [Keys -> plugin, 0 where nothing was written]
          layouts,                   \* state->layouts
          screen,                    \* the terminal
          scr,                       \* scr_rows, scr_cols, header_offset of the last layout
          curr_layout,               \* its place in the list, 0 for NULL
          has_window, win,           \* of the plugins
          pointer,                   \* WIN, TWIN and DWIN of the windows
          curr_option,               \* the highlighted line of the popup
          target,                    \* the layout that is to be rendered
          phase, renders,
          cut,                       \* the terminal was smaller than the layout since it was made
          missing,                   \* the plugin whose title was not found on the screen
          broken                     \* history: a render failed or was interrupted

parsing == <<file, at, si, ei, command, plugin_key_index, layouts>>
geometry == <<scr, curr_layout, has_window, win>>
history == <<cut, missing, broken>>
vars == <<parsing, screen, geometry, pointer, curr_option, target, phase, renders, history>>

-----------------------------------------------------------------------------
(* create_layout(): the string of keys of one section.  Only letters and   *)
(* the newlines behind letters are kept, up to a comment or to one more    *)
(* than the buffer holds.                                                  *)
Readable(chars) ==
  LET comments == {i \in 1 .. Len(chars) : chars[i] = "#"}
  IN IF comments = {} THEN chars
     ELSE SubSeq(chars, 1, (CHOOSE i \in comments : \A j \in comments : i <= j) - 1)

KeyString(chars) ==
  LET text == Readable(chars)
      keeps(keys, ch) ==
        \/ ch \in Keys
        \/ ch = Newline /\ keys # <<>> /\ keys[Len(keys)] # Newline
      read[i \in 0 .. Len(text)] ==
        IF i = 0 THEN <<>>
        ELSE LET keys == read[i - 1]
             IN IF Len(keys) <= KeyStrLen /\ keeps(keys, text[i]) THEN Append(keys, text[i]) ELSE keys
  IN read[Len(text)]

Overflows(chars) == Len(KeyString(chars)) >= KeyStrLen

Newlines(s) == {i \in 1 .. Len(s) : s[i] = Newline}
RowRatio(s) == Cardinality(Newlines(s))
ColRatio(s) ==
  Cardinality({i \in 1 .. Len(s) : s[i] \in Keys /\ \A j \in Newlines(s) : i < j})

Matrix_NoSkip(s) ==
  [r \in 1 .. RowRatio(s) |-> [c \in 1 .. ColRatio(s) |->
    LET m == (r - 1) * ColRatio(s) + c IN IF m <= Len(s) THEN s[m] ELSE Unwritten]]

(* The loop that fills the matrix steps over one character, whatever it is,*)
(* at the end of every row of cells.                                       *)
Matrix(s) ==
  [r \in 1 .. RowRatio(s) |-> [c \in 1 .. ColRatio(s) |->
    LET m == (r - 1) * (ColRatio(s) + 1) + c IN IF m <= Len(s) THEN s[m] ELSE Unwritten]]

(* It writes on as long as there are characters.                           *)
WritesOutside(s) == Len(s) > RowRatio(s) * (ColRatio(s) + 1)

-----------------------------------------------------------------------------
Share_Floor(total, n, i) == total \div n

(* calculate_layout(): a segment's share of the rows or columns, and where *)
(* it begins.                                                              *)
Share(total, n, i) == total \div n + (IF i <= total % n THEN 1 ELSE 0)
Begin(total, n, i) ==
  LET sum[j \in 1 .. n] == IF j = 1 THEN 0 ELSE sum[j - 1] + Share(total, n, j - 1) IN sum[i]

(* From cell (y, x) on: how far down the column, and along the row, the    *)
(* key goes without a break.                                               *)
LastRow(m, y, x) ==
  CHOOSE i \in y .. Len(m) :
    /\ \A k \in y .. i : m[k][x] = m[y][x]
    /\ i < Len(m) => m[i + 1][x] # m[y][x]
LastCol(m, y, x) ==
  CHOOSE j \in x .. Len(m[1]) :
    /\ \A k \in x .. j : m[y][k] = m[y][x]
    /\ j < Len(m[1]) => m[y][j + 1] # m[y][x]

Area(measured) == [rows |-> measured.rows - measured.offset, cols |-> measured.cols]

(* The window of the key at a cell, which overlaps its upper and left      *)
(* neighbours by a border.                                                 *)
WindowAt(m, area, y, x) ==
  LET ys(i) == Begin(area.rows, Len(m), i)
      xs(j) == Begin(area.cols, Len(m[1]), j)
      up   == IF y > 1 THEN 1 ELSE 0
      left == IF x > 1 THEN 1 ELSE 0
  IN [y |-> ys(y) - up, x |-> xs(x) - left,
      rows |-> ys(LastRow(m, y, x)) + Share(area.rows, Len(m), LastRow(m, y, x)) - ys(y) + up,
      cols |-> xs(LastCol(m, y, x)) + Share(area.cols, Len(m[1]), LastCol(m, y, x)) - xs(x) + left]

(* The cells in the order of the scan, row by row, and those that the      *)
(* window at a cell takes.                                                 *)
CellsIn(m) == (1 .. Len(m)) \X (1 .. Len(m[1]))
Cell(m, k) == <<((k - 1) \div Len(m[1])) + 1, ((k - 1) % Len(m[1])) + 1>>
Behind(c, d) == c[1] > d[1] \/ (c[1] = d[1] /\ c[2] > d[2])
Block(m, c) == (c[1] .. LastRow(m, c[1], c[2])) \X (c[2] .. LastCol(m, c[1], c[2]))

(* A cell that no window has used yet sets the window of its plugin, again *)
(* if it had one.                                                          *)
WindowCells(m) ==
  LET used[k \in 0 .. Len(m) * Len(m[1])] ==
        IF k = 0 THEN {}
        ELSE LET before == used[k - 1]
             IN IF Cell(m, k) \in before THEN before ELSE before \cup Block(m, Cell(m, k))
  IN {Cell(m, k) : k \in {n \in 1 .. Len(m) * Len(m[1]) : Cell(m, n) \notin used[n - 1]}}

HeaderFits_NoPadding(keys, cols) ==
  LET room == cols - NameWidth
      left[i \in 0 .. Len(keys)] ==
        IF i = 0 \/ keys[i] = Newline THEN room
        ELSE left[i - 1] - TitleLength[plugin_key_index[keys[i]]]
  IN room + 1 >= 0 /\ \A i \in 1 .. Len(keys) : keys[i] = Newline \/ left[i] >= 1

(* render_header_titles(): the titles of a row, each with two blanks, must *)
(* leave a column, and malloc() refuses a negative size.                   *)
HeaderFits(keys, cols) ==
  LET room == cols - NameWidth
      left[i \in 0 .. Len(keys)] ==
        IF i = 0 \/ keys[i] = Newline THEN room
        ELSE left[i - 1] - (TitleLength[plugin_key_index[keys[i]]] + 2)
  IN room + 1 >= 0 /\ \A i \in 1 .. Len(keys) : keys[i] = Newline \/ left[i] >= 1

(* render_window(): the size of the data window; derwin() refuses one that *)
(* is negative.                                                            *)
TopbarRows(p) == IF p \in TopbarPlugins THEN 1 ELSE 0
DataRows(p) == win[p].rows - TopbarRows(p) - 2
DataCols(p) == win[p].cols - 2
Renderable(p) == DataRows(p) >= 0 /\ DataCols(p) >= 0

-----------------------------------------------------------------------------
NoWindow == [y |-> 0, x |-> 0, rows |-> 0, cols |-> 0]
FirstLayout == "FiRsT_lAyOuT"

Init ==
  /\ file \in Files /\ at = [section |-> 1, line |-> 1]
  /\ si = 0 /\ ei = 0
  /\ command = [words |-> <<>>, size |-> 0, debugger |-> 0]
  /\ plugin_key_index = [k \in Keys |-> 0]
  /\ layouts = <<>>
  /\ screen \in Screens /\ scr = [rows |-> 0, cols |-> 0, offset |-> 0]
  /\ curr_layout = 0
  /\ has_window = [p \in Plugins |-> FALSE] /\ win = [p \in WinPlugins |-> NoWindow]
  /\ \E f \in Fresh : pointer = [p \in WinPlugins |-> [WIN |-> f, TWIN |-> f, DWIN |-> f]]
  /\ curr_option = 0 /\ target = FirstLayout
  /\ phase = "parse" /\ renders = 0
  /\ cut = FALSE /\ missing = 0 /\ broken = FALSE

Reading(kind) ==
  /\ phase = "parse" /\ at.section <= Len(file) /\ file[at.section].section = kind
NextSection == at' = [section |-> at.section + 1, line |-> 1]
Section == file[at.section]

-----------------------------------------------------------------------------
(* create_command(): from the first letter that is in no comment to the end*)
(* of that line.                                                           *)
InComment(chars, i) ==
  \E j \in 1 .. i - 1 : chars[j] = "#" /\ \A k \in j .. i - 1 : chars[k] # Newline
Starts(chars) == {i \in 1 .. Len(chars) : chars[i] \in CommandLetters /\ ~InComment(chars, i)}
Ends(chars) ==
  {i \in 1 .. Len(chars) : chars[i] = Newline /\ \E j \in Starts(chars) : j < i}
First(S) == CHOOSE i \in S : \A j \in S : i <= j
CommandLine(chars) == SubSeq(chars, First(Starts(chars)), First(Ends(chars)) - 1)

Blanks(line) == Cardinality({i \in 1 .. Len(line) : line[i] = Blank})
Room_NoNull(line) == Blanks(line) + 1

(* What is allocated: a pointer more than there are blanks, and the null.  *)
Room(line) == Blanks(line) + 2

Closed(word, done) == IF word = <<>> THEN done ELSE Append(done, word)
Words(line) ==
  LET read[i \in 0 .. Len(line)] ==
        IF i = 0 THEN [word |-> <<>>, done |-> <<>>]
        ELSE LET before == read[i - 1]
             IN IF line[i] = Blank THEN [word |-> <<>>, done |-> Closed(before.word, before.done)]
                ELSE [before EXCEPT !.word = Append(@, line[i])]
  IN Closed(read[Len(line)].word, read[Len(line)].done)

Supported(words) == {i \in 1 .. Len(words) : \E d \in 1 .. Len(Debuggers) : Debuggers[d] = words[i]}

(* A line that does not end, or does not begin, is looked for behind the   *)
(* end of the file; a word may be longer than its buffer.                  *)
ReadCommand ==
  /\ Reading("command")
  /\ NextSection
  /\ IF Ends(Section.text) = {} THEN phase' = "loops" /\ UNCHANGED command
     ELSE LET line  == CommandLine(Section.text)
              words == Words(line)
          IN IF \E i \in 1 .. Len(words) : Len(words[i]) >= WordLen
             THEN phase' = "undefined" /\ UNCHANGED command
             ELSE IF Supported(words) = {} THEN phase' = "failed" /\ UNCHANGED command
             ELSE /\ command' = [words |-> words, size |-> Room(line),
                       debugger |-> CHOOSE d \in 1 .. Len(Debuggers) :
                                      Debuggers[d] = words[First(Supported(words))]]
                  /\ UNCHANGED phase
  /\ UNCHANGED <<file, si, ei, plugin_key_index, layouts, screen, geometry, pointer, curr_option,
                 target, renders, history>>

(* create_plugins(), one line at a time.                                   *)
ReadBinding ==
  /\ Reading("plugins")
  /\ IF at.line > Len(Section.bindings)
     THEN NextSection /\ UNCHANGED <<si, ei, phase>>
     ELSE si' = 1 /\ ei' = Len(Table) /\ phase' = "search" /\ UNCHANGED at
  /\ UNCHANGED <<file, command, plugin_key_index, layouts, screen, geometry, pointer, curr_option, target,
                 renders, history>>

(* get_plugin_code_index(): one turn of the loop, and the key that is bound*)
(* to what was found.                                                      *)
Middle == si + (ei - si) \div 2
Binding == Section.bindings[at.line]

Probe_DropsMiddle ==
  /\ phase = "search" /\ si <= ei
  /\ \/ /\ Table[Middle] = Binding.code
        /\ plugin_key_index' = [plugin_key_index EXCEPT ![Binding.key] = Middle]
        /\ at' = [at EXCEPT !.line = @ + 1] /\ phase' = "parse" /\ UNCHANGED <<si, ei>>
     \/ /\ Table[Middle] < Binding.code /\ si' = Middle + 1
        /\ UNCHANGED <<at, ei, plugin_key_index, phase>>
     \/ /\ Table[Middle] > Binding.code /\ ei' = Middle - 2
        /\ UNCHANGED <<at, si, plugin_key_index, phase>>
  /\ UNCHANGED <<file, command, layouts, screen, geometry, pointer, curr_option, target, renders, history>>

Probe ==
  /\ phase = "search" /\ si <= ei
  /\ \/ /\ Table[Middle] = Binding.code
        /\ plugin_key_index' = [plugin_key_index EXCEPT ![Binding.key] = Middle]
        /\ at' = [at EXCEPT !.line = @ + 1] /\ phase' = "parse" /\ UNCHANGED <<si, ei>>
     \/ /\ Table[Middle] < Binding.code /\ si' = Middle + 1
        /\ UNCHANGED <<at, ei, plugin_key_index, phase>>
     \/ /\ Table[Middle] > Binding.code /\ ei' = Middle - 1
        /\ UNCHANGED <<at, si, plugin_key_index, phase>>
  /\ UNCHANGED <<file, command, layouts, screen, geometry, pointer, curr_option, target, renders, history>>

NotFound ==
  /\ phase = "search" /\ si > ei
  /\ phase' = "failed"
  /\ UNCHANGED <<parsing, screen, geometry, pointer, curr_option, target, renders, history>>

(* create_layout(): a layout without a row or a column fails, and a string *)
(* or a matrix that is written past its end leaves what the code decides.  *)
ReadLayout ==
  /\ Reading("layout")
  /\ NextSection
  /\ LET header == KeyString(Section.header)
         art    == KeyString(Section.art)
     IN IF Overflows(Section.header) \/ Overflows(Section.art)
        THEN phase' = "undefined" /\ UNCHANGED layouts
        ELSE IF RowRatio(art) = 0 \/ ColRatio(art) = 0
        THEN phase' = "failed" /\ UNCHANGED layouts
        ELSE IF WritesOutside(art) THEN phase' = "undefined" /\ UNCHANGED layouts
        ELSE /\ layouts' = Append(layouts,
                  [label |-> Section.label, header |-> header,
                   header_rows |-> RowRatio(header), matrix |-> Matrix(art)])
             /\ UNCHANGED phase
  /\ UNCHANGED <<file, si, ei, command, plugin_key_index, screen, geometry, pointer, curr_option, target,
                 renders, history>>

(* start_program() renders the first layout.                               *)
Start ==
  /\ phase = "parse" /\ at.section > Len(file)
  /\ target' = FirstLayout /\ phase' = "render" /\ renders' = renders + 1
  /\ UNCHANGED <<parsing, screen, geometry, pointer, curr_option, history>>

-----------------------------------------------------------------------------
(* delwin() refuses a pointer that is not a window.                        *)
Deletable(p) == \A k \in {"WIN", "TWIN", "DWIN"} : pointer[p][k] \in {"null", "live"}
Deleted_KeepsTopbar(ps) ==
  [p \in WinPlugins |->
     IF p \notin ps THEN pointer[p]
     ELSE [k \in {"WIN", "TWIN", "DWIN"} |->
             IF pointer[p][k] = "live" /\ k # "TWIN" THEN "dead" ELSE pointer[p][k]]]
Deleted(ps) ==
  [p \in WinPlugins |->
     IF p \notin ps THEN pointer[p]
     ELSE [k \in {"WIN", "TWIN", "DWIN"} |->
             IF pointer[p][k] = "live" THEN "dead" ELSE pointer[p][k]]]

FreeNcWindowData_All(next) ==
  LET freed == {p \in WinPlugins : \A q \in WinPlugins : q <= p => Deletable(q)}
  IN /\ pointer' = Deleted(freed)
     /\ phase' = IF freed = WinPlugins THEN next ELSE "dirty"

(* free_nc_window_data(): the windows of the last layout, in the order of  *)
(* the plugins, up to one that cannot be deleted.                          *)
FreeNcWindowData(next) ==
  LET shown == {p \in WinPlugins : has_window[p]}
      freed == {p \in shown : \A q \in shown : q <= p => Deletable(q)}
  IN /\ pointer' = Deleted(freed)
     /\ phase' = IF freed = shown THEN next ELSE "dirty"

(* render_layout(): the old windows are freed,                             *)
Free ==
  /\ phase = "render"
  /\ IF curr_layout # 0 THEN FreeNcWindowData("find") ELSE phase' = "find" /\ UNCHANGED pointer
  /\ UNCHANGED <<parsing, screen, geometry, curr_option, target, renders, history>>

(* get_label_layout(): the first layout with the label,                    *)
LabelLayout(label) ==
  CHOOSE i \in 1 .. Len(layouts) :
    /\ label \in {FirstLayout, layouts[i].label}
    /\ \A j \in 1 .. i - 1 : label \notin {FirstLayout, layouts[j].label}

Find ==
  /\ phase = "find"
  /\ curr_layout' = LabelLayout(target) /\ phase' = "calculate"
  /\ UNCHANGED <<parsing, screen, scr, has_window, win, pointer, curr_option, target, renders,
                 history>>

(* its windows are calculated for the terminal of the moment, and will be  *)
(* new,                                                                    *)
Measured == [rows |-> screen.rows, cols |-> screen.cols, offset |-> layouts[curr_layout].header_rows + 1]
Bound(key) == key \in Keys /\ plugin_key_index[key] \in WinPlugins

Calculate ==
  /\ phase = "calculate"
  /\ scr' = Measured
  /\ LET m == layouts[curr_layout].matrix
         mine(p) == {c \in WindowCells(m) : plugin_key_index[m[c[1]][c[2]]] = p}
         last(p) == CHOOSE c \in mine(p) : \A d \in mine(p) \ {c} : Behind(c, d)
     IN IF /\ Len(m) <= Segments /\ Len(m[1]) <= Segments
           /\ \A c \in CellsIn(m) : Bound(m[c[1]][c[2]])
        THEN /\ has_window' = [p \in Plugins |-> mine(p) # {}]
             /\ win' = [p \in WinPlugins |-> IF mine(p) = {} THEN win[p]
                                            ELSE WindowAt(m, Area(Measured), last(p)[1], last(p)[2])]
             /\ phase' = "header"
        ELSE phase' = "undefined" /\ UNCHANGED <<has_window, win>>
  /\ cut' = FALSE
  /\ UNCHANGED <<parsing, screen, curr_layout, pointer, curr_option, target, renders, missing,
                 broken>>

(* the header is written,                                                  *)
RenderHeader ==
  /\ phase = "header"
  /\ LET keys == layouts[curr_layout].header
     IN phase' = IF \E i \in 1 .. Len(keys) : keys[i] \in Keys /\ plugin_key_index[keys[i]] = 0
                 THEN "undefined"
                 ELSE IF HeaderFits(keys, scr.cols) THEN "windows" ELSE "failed"
  /\ broken' = (broken \/ phase' = "failed")
  /\ UNCHANGED <<parsing, screen, geometry, pointer, curr_option, target, renders, cut, missing>>

(* and the windows are made, in the order of the plugins, up to one that   *)
(* is too small.                                                           *)
RenderWindows ==
  /\ phase = "windows"
  /\ LET shown == {p \in WinPlugins : has_window[p]}
         done  == {p \in shown : \A q \in shown : q <= p => Renderable(q)}
         made(p) == [WIN |-> "live", DWIN |-> "live",
                     TWIN |-> IF p \in TopbarPlugins THEN "live" ELSE pointer[p].TWIN]
         noTopbar(p) == p \in TopbarPlugins /\ (win[p].cols < 2 \/ win[p].rows < 2)
         half(p) == IF noTopbar(p) THEN [pointer[p] EXCEPT !.WIN = "live", !.TWIN = "null"]
                    ELSE [made(p) EXCEPT !.DWIN = "null"]
     IN /\ pointer' = [p \in WinPlugins |->
             IF p \in done THEN made(p)
             ELSE IF p \in shown /\ \A q \in shown \ done : p <= q THEN half(p)
             ELSE pointer[p]]
        /\ phase' = IF done = shown THEN "run" ELSE "failed"
        /\ broken' = (broken \/ done # shown)
  /\ UNCHANGED <<parsing, screen, geometry, curr_option, target, renders, cut, missing>>

-----------------------------------------------------------------------------
(* render_header_titles() prints the titles of every ended line of keys at *)
(* the right end of a row, render_window_titles() the title of a window in *)
(* the middle of its upper border; a column outside is not printed.        *)
HalfTowardsZero(n) == IF n < 0 THEN -((-n) \div 2) ELSE n \div 2
Printed(column, length, cols) == 0 <= column /\ column + length <= cols

Titles(keys) == {i \in 1 .. Len(keys) : keys[i] \in Keys /\ \E n \in Newlines(keys) : i < n}

(* Right of a row are the titles up to its end and two columns.            *)
HeaderColumn(keys, i) ==
  LET width[j \in 1 .. Len(keys) + 1] ==
        IF j > Len(keys) \/ keys[j] = Newline THEN 0
        ELSE TitleLength[plugin_key_index[keys[j]]] + 2 + width[j + 1]
  IN scr.cols - 2 - width[i]

InHeader(p) ==
  LET keys == layouts[curr_layout].header
  IN \E i \in Titles(keys) : /\ plugin_key_index[keys[i]] = p
                             /\ Printed(HeaderColumn(keys, i), TitleLength[p], scr.cols)

OnBorder(p) ==
  Printed(HalfTowardsZero(win[p].cols - TitleLength[p]) - 1, TitleLength[p], win[p].cols)

(* find_window_string() goes over the cells of a window and of the string  *)
(* at once and, where they differ, on with the next cell and the first     *)
(* character.  An empty title is found nowhere.  One that stands there is  *)
(* missed if the cells before it match its first characters: on a border if*)
(* it begins with one that borders are stored as (ACS_HLINE and the corners*)
(* are letters), in the header, where blanks stand before it, if it has a  *)
(* blank.  These are Elusive; others are found where they are printed,     *)
(* unless the terminal has been too small in the meantime: ncurses cuts its*)
(* windows to it, and what was cut does not come back with a larger one.   *)
(* Where a title is not printed another text of the window may hold it.  If*)
(* it is not found the plugin fails, and with it the session.              *)
FindTitle(p, printed) ==
  /\ \/ UNCHANGED <<phase, missing>>
     \/ (cut \/ p \in Elusive \/ ~printed) /\ phase' = "failed" /\ missing' = p
  /\ UNCHANGED <<parsing, screen, geometry, pointer, curr_option, target, renders, cut, broken>>

(* A debugger command, whose title pulses,                                 *)
SendCommand(p) ==
  /\ phase = "run" /\ p \notin WinPlugins
  /\ FindTitle(p, InHeader(p))

(* and the selection of a window, whose title is coloured and, in the end, *)
(* coloured back.                                                          *)
SelectWindow(p) ==
  /\ phase = "run" /\ p \in WinPlugins /\ has_window[p]
  /\ FindTitle(p, OnBorder(p))

(* run_plugin() for a letter; it does nothing for a window that is not     *)
(* shown.                                                                  *)
RunPlugin ==
  \E k \in Keys : LET p == plugin_key_index[k] IN p # 0 /\ (SendCommand(p) \/ SelectWindow(p))

-----------------------------------------------------------------------------
(* choose_layout(): the popup opens on the current layout's label,         *)
OpenPopup ==
  /\ phase = "run" /\ renders < MaxRenders
  /\ curr_option' = CHOOSE i \in 1 .. Len(layouts) :
       /\ layouts[i].label = layouts[curr_layout].label
       /\ \A j \in i + 1 .. Len(layouts) : layouts[j].label # layouts[curr_layout].label
  /\ phase' = "choose"
  /\ UNCHANGED <<parsing, screen, geometry, pointer, target, renders, history>>

Highlight_NoBound ==
  /\ phase = "choose"
  /\ curr_option' \in {curr_option - 1, curr_option + 1} \cap Nat
  /\ UNCHANGED <<parsing, screen, geometry, pointer, target, phase, renders, history>>

(* k, j, and any other key; the highlight may go one past the last label,  *)
Highlight ==
  /\ phase = "choose"
  /\ curr_option' \in {curr_option - 1, curr_option + 1} \cap 1 .. Len(layouts) + 1
  /\ UNCHANGED <<parsing, screen, geometry, pointer, target, phase, renders, history>>

(* where Enter finds no layout,                                            *)
Enter ==
  /\ phase = "choose"
  /\ IF curr_option <= Len(layouts)
     THEN /\ curr_layout' = curr_option /\ target' = layouts[curr_option].label
          /\ phase' = "render" /\ renders' = renders + 1
     ELSE phase' = "run" /\ UNCHANGED <<curr_layout, target, renders>>
  /\ UNCHANGED <<parsing, screen, scr, has_window, win, pointer, curr_option, history>>

(* and q or ESC close it.                                                  *)
Leave ==
  /\ phase = "choose"
  /\ phase' = "run"
  /\ UNCHANGED <<parsing, screen, geometry, pointer, curr_option, target, renders, history>>

(* A restart of the session calls start_program() again.                   *)
Restart ==
  /\ phase = "run" /\ renders < MaxRenders
  /\ target' = FirstLayout /\ phase' = "render" /\ renders' = renders + 1
  /\ UNCHANGED <<parsing, screen, geometry, pointer, curr_option, history>>

Shrunk == screen.rows < scr.rows \/ screen.cols < scr.cols

(* The terminal changes its size; nothing is drawn again before the next   *)
(* layout.                                                                 *)
Resize ==
  /\ phase = "run"
  /\ screen' \in Screens
  /\ UNCHANGED <<parsing, geometry, pointer, curr_option, target, phase, renders, missing, broken>>
  /\ cut' = (cut \/ Shrunk')

(* clean_up(), at the end, from SIGINT or from the first error message.    *)
(* Before the first layout has_window is what malloc() returned.           *)
CleanUp ==
  /\ phase \notin {"closed", "dirty", "undefined"}
  /\ IF scr.offset = 0 THEN phase' = "undefined" /\ UNCHANGED pointer ELSE FreeNcWindowData("closed")
  /\ broken' = (broken \/ phase \in {"find", "calculate", "header", "windows"})
  /\ UNCHANGED <<parsing, screen, geometry, curr_option, target, renders, cut, missing>>

Next ==
  \/ ReadCommand \/ ReadBinding \/ Probe \/ NotFound \/ ReadLayout \/ Start
  \/ Free \/ Find \/ Calculate \/ RenderHeader \/ RenderWindows
  \/ RunPlugin \/ OpenPopup \/ Highlight \/ Enter \/ Leave \/ Restart \/ Resize \/ CleanUp

Spec == Init /\ [][Next]_vars

-----------------------------------------------------------------------------
TypeOK ==
  /\ at \in [section : Nat \ {0}, line : Nat \ {0}]
  /\ si \in Nat /\ ei \in 0 .. Len(Table)
  /\ plugin_key_index \in [Keys -> 0 .. Len(Table)]
  /\ command \in [words : Seq(Seq(STRING)), size : Nat, debugger : 0 .. Len(Debuggers)]
  /\ \A i \in 1 .. Len(layouts) :
       /\ layouts[i].header \in Seq(Keys \cup {Newline}) /\ layouts[i].header_rows \in Nat
       /\ layouts[i].matrix \in Seq(Seq(Cells))
  /\ screen \in Screens /\ scr \in [rows : Nat, cols : Nat, offset : Nat]
  /\ curr_layout \in 0 .. Len(layouts)
  /\ has_window \in [Plugins -> BOOLEAN]
  /\ win \in [WinPlugins -> [y : Int, x : Int, rows : Int, cols : Int]]
  /\ pointer \in [WinPlugins -> [{"WIN", "TWIN", "DWIN"} -> {"null", "live", "dead", "garbage"}]]
  /\ curr_option \in 0 .. Len(layouts) + 1 /\ (phase = "choose" => curr_option > 0)
  /\ phase \in {"parse", "search", "render", "find", "calculate", "header", "windows", "run",
                "choose", "failed", "loops", "closed", "dirty", "undefined"}
  /\ renders \in 0 .. MaxRenders /\ missing \in 0 .. Len(Table)
  /\ cut \in BOOLEAN /\ broken \in BOOLEAN

(* Where the words of a line begin, and how many do up to a character.     *)
Begins(line) == {k \in 1 .. Len(line) : line[k] # Blank /\ (k > 1 => line[k - 1] = Blank)}
Nth(line, k) == Cardinality({j \in Begins(line) : j <= k})

CommandIs(line) ==
  /\ Len(command.words) + 1 <= command.size
  /\ Len(command.words) = Cardinality(Begins(line))
  /\ \A k \in 1 .. Len(line) : line[k] # Blank =>
       LET b == CHOOSE j \in Begins(line) : j <= k /\ Nth(line, j) = Nth(line, k)
       IN command.words[Nth(line, k)][k - b + 1] = line[k]
  /\ \E n \in 1 .. Len(command.words) :
       /\ command.words[n] = Debuggers[command.debugger]
       /\ \A m \in 1 .. n - 1 : \A d \in 1 .. Len(Debuggers) : command.words[m] # Debuggers[d]

(* What is given to execvp(), its null included, is inside what was        *)
(* allocated for it: the words of the line in their order, however many    *)
(* blanks stand between them; and the debugger is the first that is named. *)
CommandFits ==
  phase = "parse" =>
    \A i \in {at.section - 1} \ {0} :
      file[i].section = "command" => CommandIs(CommandLine(file[i].text))

(* The lines of all [plugins] sections, in the order of the file.          *)
BindingLines ==
  UNION {{<<i, j>> : j \in 1 .. Len(file[i].bindings)} :
           i \in {n \in 1 .. Len(file) : file[n].section = "plugins"}}
IsRead(l) == l[1] < at.section \/ (l[1] = at.section /\ l[2] < at.line)
CodeOf(l) == file[l[1]].bindings[l[2]].code
KeyOf(l) == file[l[1]].bindings[l[2]].key
Before(l, n) == l[1] < n[1] \/ (l[1] = n[1] /\ l[2] < n[2])

(* While the file is read every key is bound to the plugin whose code      *)
(* stands in the last line for it, and to none where there is no line: the *)
(* binary search finds every code of the table, and nothing for another.   *)
LastBindingWins ==
  /\ \A l \in BindingLines : IsRead(l) => CodeOf(l) \in {Table[p] : p \in Plugins}
  /\ \A k \in Keys :
       LET lines == {l \in BindingLines : IsRead(l) /\ KeyOf(l) = k}
       IN IF lines = {} THEN plugin_key_index[k] = 0
          ELSE \E l \in lines :
                 /\ \A n \in lines : n = l \/ Before(n, l)
                 /\ plugin_key_index[k] \in Plugins /\ Table[plugin_key_index[k]] = CodeOf(l)
  /\ phase = "search" => \A p \in Plugins : Table[p] = Binding.code => p \in si .. ei

(* The art as it is drawn: letters in lines.  It is well drawn if its lines*)
(* are equally long, the last one is ended, it has no comment and it is    *)
(* shorter than the buffer.                                                *)
LettersAt(chars) == {i \in 1 .. Len(chars) : chars[i] \in Keys}
LineEnds(chars) ==
  {i \in 1 .. Len(chars) : /\ chars[i] = Newline
     /\ \E j \in LettersAt(chars) : j < i /\ \A k \in j .. i - 1 : chars[k] # Newline}
LineOf(chars, i) == 1 + Cardinality({n \in LineEnds(chars) : n < i})
ColumnOf(chars, i) ==
  Cardinality({j \in LettersAt(chars) : j <= i /\ LineOf(chars, j) = LineOf(chars, i)})
Lines(chars) == Cardinality(LineEnds(chars))
Width(chars) == Cardinality({i \in LettersAt(chars) : LineOf(chars, i) = 1})

WellDrawn(chars) ==
  /\ "#" \notin {chars[i] : i \in 1 .. Len(chars)}
  /\ LettersAt(chars) # {} /\ \A i \in LettersAt(chars) : \E n \in LineEnds(chars) : i < n
  /\ \A n \in 1 .. Lines(chars) :
       Cardinality({i \in LettersAt(chars) : LineOf(chars, i) = n}) = Width(chars)
  /\ Cardinality(LettersAt(chars)) + Lines(chars) < KeyStrLen

(* What is well drawn becomes a layout, and its matrix has every letter in *)
(* the line and column where it was drawn, and nothing else.               *)
ArtIsMatrix ==
  \A i \in 1 .. at.section - 1 :
    file[i].section = "layout" /\ WellDrawn(file[i].art) /\ ~Overflows(file[i].header) =>
      LET art == file[i].art
          n == Cardinality({j \in 1 .. i : file[j].section = "layout"})
      IN /\ n <= Len(layouts) /\ Len(layouts[n].matrix) = Lines(art)
         /\ \A r \in 1 .. Lines(art) : Len(layouts[n].matrix[r]) = Width(art)
         /\ \A j \in LettersAt(art) :
              layouts[n].matrix[LineOf(art, j)][ColumnOf(art, j)] = art[j]

(* The layout on the screen, once it is calculated.                        *)
Calculated == phase \in {"header", "windows", "run", "choose"}
Shown == {p \in WinPlugins : has_window[p]}
Art == layouts[curr_layout].matrix
CellsOf(p) == {c \in CellsIn(Art) : plugin_key_index[Art[c[1]][c[2]]] = p}
Blocks ==                    \* every plugin's cells are a rectangle
  \A p \in Shown : \A c, d \in CellsOf(p) :
    /\ <<c[1], d[2]>> \in CellsOf(p)
    /\ \A k \in c[1] .. d[1] : <<k, c[2]>> \in CellsOf(p)
    /\ \A k \in c[2] .. d[2] : <<c[1], k>> \in CellsOf(p)
OneKeyEach == \A k, l \in Keys : plugin_key_index[k] = plugin_key_index[l] =>
                k = l \/ plugin_key_index[k] = 0

Place(p) == (win[p].y .. win[p].y + win[p].rows - 1) \X (win[p].x .. win[p].x + win[p].cols - 1)
Inside(p) ==
  (win[p].y + 1 .. win[p].y + win[p].rows - 2) \X (win[p].x + 1 .. win[p].x + win[p].cols - 2)

Roomy(n) == Area(scr).rows >= n * Len(Art) /\ scr.cols >= n * Len(Art[1])

(* If each window's keys are drawn as a rectangle, the windows cover the   *)
(* area below the header and nothing else, no window reaches inside        *)
(* another, and where two meet they share a border instead of having two,  *)
(* unless a segment has a single row or column.  Where the layout leaves   *)
(* every segment four rows and three columns each window has a row and a   *)
(* column of data, which display_lines() and the keys take for granted.    *)
Tiling ==
  /\ Calculated /\ Blocks /\ OneKeyEach /\ scr.rows > scr.offset =>
       /\ UNION {Place(p) : p \in Shown} = (0 .. Area(scr).rows - 1) \X (0 .. scr.cols - 1)
       /\ \A p \in Shown : \A q \in Shown \ {p} :
            /\ Inside(p) \cap Place(q) = {}
            /\ Roomy(2) => \A c \in Place(p) \ Place(q) :
                 {<<c[1], c[2] + 1>>, <<c[1] + 1, c[2]>>} \cap Place(q) \subseteq Place(p)
  /\ phase = "run" /\ Area(scr).rows >= 4 * Len(Art) /\ scr.cols >= 3 * Len(Art[1]) =>
       \A p \in Shown : DataRows(p) >= 1 /\ DataCols(p) >= 1

(* A key ends a session only for a title that is not there to be found: of *)
(* a command that no ended line of the layout's header names, of a window  *)
(* that is less than two columns wider than its title, or any title once   *)
(* the terminal was smaller than the layout on it; or for one that the     *)
(* search can miss although it is printed whole.                           *)
TitlesFound ==
  missing # 0 =>
    \/ cut \/ missing \in Elusive
    \/ missing \in WinPlugins /\ win[missing].cols < TitleLength[missing] + 2
    \/ /\ missing \notin WinPlugins
       /\ LET keys == layouts[curr_layout].header
          IN \A i, n \in 1 .. Len(keys) :
               i < n /\ keys[n] = Newline /\ keys[i] \in Keys => plugin_key_index[keys[i]] # missing

(* The layout that was highlighted when Enter was pressed is the one that  *)
(* is rendered, although it is looked up again by its label, unless another*)
(* has the same label; a start and a restart render the first.  In a       *)
(* session that is up exactly its windows exist, whichever layouts came    *)
(* before, each with a topbar if it is to have one; a window that is not   *)
(* drawn as a rectangle may hide another.                                  *)
DistinctLabels == \A i, j \in 1 .. Len(layouts) : layouts[i].label = layouts[j].label => i = j
ShowsChosenLayout ==
  /\ phase \in {"calculate", "header", "windows"} /\ DistinctLabels =>
       curr_layout = IF target = FirstLayout THEN 1 ELSE curr_option
  /\ phase = "run" => \A p \in WinPlugins :
       /\ has_window[p] => CellsOf(p) # {}
       /\ Blocks /\ CellsOf(p) # {} => has_window[p]
       /\ \A k \in {"WIN", "DWIN"} : pointer[p][k] = "live" <=> has_window[p]
       /\ pointer[p].TWIN = "live" <=> has_window[p] /\ p \in TopbarPlugins

(* Only windows that exist are deleted, by a change of the layout or at the*)
(* end, unless a render failed or was interrupted half way or a new        *)
(* window_t held garbage where its topbar goes.                            *)
CleansUp ==
  phase = "dirty" => broken \/ \E p \in WinPlugins : pointer[p].TWIN = "garbage"
=============================================================================
