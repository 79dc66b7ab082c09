---------------------------- MODULE ScrollWindow ----------------------------
(***************************************************************************)
(* src/src/display_lines.c: the position of one window in its data.        *)
(* display_lines() rebuilds the linked list of lines when the buffer has   *)
(* changed and then moves curr_line, a pointer into the list, and          *)
(* scroll_row, the number the pointer is supposed to have.  A line is its  *)
(* number in the list; moving from one line to another follows next or     *)
(* prev, to NULL past either end and to a crash from there.                *)
(***************************************************************************)
EXTENDS Integers, Sequences, FiniteSets, FiniteSetsExt

CONSTANTS Windows,          \* codes of the plugins whose windows are considered
          Keys,             \* the keys the user presses in the window
          Texts,                           \* the data: the lengths of its lines
          MaxLine,                         \* bound on the line the program is at
          WindowSizes,                     \* data_win_rows and data_win_cols of the layouts
          FreshHeadLine                    \* what head_line may hold before it is ever written

ScrollKeys == {"home", "end", "ppage", "npage", "down", "up", "left", "right"}
PluginCodes == {"Asm", "Brk", "Dbg", "LcV", "Prg", "Reg", "Src", "Stk", "Wat"}

ASSUME WindowAssumption ==
  /\ Windows \subseteq PluginCodes /\ Windows # {} /\ Keys \subseteq ScrollKeys
  /\ Texts \subseteq Seq(Nat) \ {<<>>} /\ Texts # {} /\ MaxLine \in Nat
  /\ WindowSizes \subseteq (Nat \ {0}) \X (Nat \ {0}) /\ WindowSizes # {}
  /\ FreshHeadLine \subseteq {"NULL", "garbage"} /\ FreshHeadLine # {}

NULL == 0

VARIABLES code,                            \* which plugin's window it is
          text, lines,                     \* the data, and the list of what is shown in a row
          rows, max_chars,                 \* of the list; rows = 0: not built yet
          head_line,                       \* NULL, garbage or the list
          scroll_row, curr_line, scroll_col_offset,
          changed,                         \* the buffer holds other data than the list
          data_win_rows, data_win_cols,
          crashed,                         \* the program followed NULL or garbage
          paged_up                         \* history: a page up, and both still count from it

list == <<text, lines, rows, max_chars, head_line>>
position == <<scroll_row, curr_line, scroll_col_offset>>
window == <<data_win_rows, data_win_cols>>
vars == <<code, text, lines, rows, max_chars, head_line, scroll_row, curr_line, scroll_col_offset, changed,
          data_win_rows, data_win_cols, crashed, paged_up>>

(* What allocate_plugin_windows() sets for good: where an update shows the *)
(* data and whether long lines wrap; and Src alone numbers its lines.      *)
DataPos ==
  IF code \in {"Asm", "Src"} THEN "ROW_DATA"
  ELSE IF code \in {"Dbg", "Prg"} THEN "END_DATA" ELSE "BEG_DATA"
TextWrapped == code \notin {"Asm", "Reg", "Src"}
NumbersLines == code = "Src"

(* allocate_plugin_windows() does not write head_line.                     *)
Init ==
  /\ code \in Windows
  /\ text = <<>> /\ lines = {} /\ rows = 0 /\ max_chars = 0
  /\ head_line \in FreshHeadLine
  /\ scroll_row = 1 /\ curr_line = NULL /\ scroll_col_offset = 0
  /\ changed = TRUE
  /\ \E size \in WindowSizes : data_win_rows = size[1] /\ data_win_cols = size[2]
  /\ crashed = FALSE /\ paged_up = FALSE

-----------------------------------------------------------------------------
(* Following next or prev k times from line l of a list of n lines.        *)
Crashes(n, l, k) == l + k > n + 1 \/ l + k < 0
Follow(n, l, k) == IF l + k \in 1 .. n THEN l + k ELSE NULL

-----------------------------------------------------------------------------
(* create_scroll_buffer_llist(): where data wraps, a line ends when it and *)
(* its newline would be wider than the window, and the next begins one     *)
(* column before that.  Every len counts one character behind the line: its*)
(* newline, or the first character of the next row.  A line of the list is *)
(* where it begins, and its place in the list is its place in the text.    *)
Step_FullRow == data_win_cols

Step == data_win_cols - 1

Part(t, i, k) == [of |-> i, from |-> k * Step, len |-> Min({Step, t[i] - k * Step}) + 1]
Lines(t) ==
  IF TextWrapped
  THEN UNION {{Part(t, i, k) : k \in {n \in 0 .. t[i] : n = 0 \/ n * Step < t[i]}} : i \in 1 .. Len(t)}
  ELSE {[of |-> i, from |-> 0, len |-> t[i] + 1] : i \in 1 .. Len(t)}

(* In a single column no character is ever taken from a line.              *)
NeverAdvances(t) == TextWrapped /\ Step = 0 /\ \E i \in 1 .. Len(t) : t[i] > 0

(* The list, built if the data has changed, with the position that leaves. *)
List(t) ==
  IF changed
  THEN [lines |-> Lines(t), rows |-> Cardinality(Lines(t)), max |-> Max({l.len : l \in Lines(t)}),
        row |-> 1, line |-> NULL, col |-> 0]
  ELSE [lines |-> lines, rows |-> rows, max |-> max_chars, row |-> scroll_row, line |-> curr_line,
        col |-> scroll_col_offset]

(* display_scroll_buff_lines() first sets a missing curr_line.             *)
Placed(b) == IF b.line = NULL THEN [b EXCEPT !.line = 1] ELSE b

(* The digits of the last line number, and one.                            *)
LineNumLen(b) ==
  IF NumbersLines THEN 1 + Cardinality({d \in 0 .. 6 : 10 ^ d <= b.rows}) ELSE 0

(* b.line moved k lines, and b.row set.                                    *)
Moved(b, k, row) == [b EXCEPT !.line = Follow(b.rows, b.line, k), !.row = row]
HeadLine(b) == [b EXCEPT !.line = 1, !.row = 1]
Show(b) == /\ lines' = b.lines /\ rows' = b.rows /\ max_chars' = b.max
           /\ scroll_row' = b.row /\ curr_line' = b.line /\ scroll_col_offset' = b.col

(* One display of list b, k lines on: what every case of the switch does.  *)
Scroll(b, k, row) ==
  /\ crashed' = Crashes(b.rows, b.line, k)
  /\ Show(Moved(b, k, row))

ToHead(b) == Show(HeadLine(b)) /\ crashed' = FALSE

ToEnd_OffByOne(b) ==
  LET last == [b EXCEPT !.line = b.rows] IN
  IF b.rows < data_win_rows THEN ToHead(b)
  ELSE Scroll(last, -(data_win_rows - 1), b.rows - data_win_rows)

ToEnd_NoShortData(b) ==
  LET last == [b EXCEPT !.line = b.rows] IN
  Scroll(last, -(data_win_rows - 1), b.rows - (data_win_rows - 1))

ToEnd(b) ==
  LET last == [b EXCEPT !.line = b.rows] IN
  IF b.rows < data_win_rows THEN ToHead(b)
  ELSE Scroll(last, -(data_win_rows - 1), b.rows - (data_win_rows - 1))

(* ROW_DATA: the line the program is at in the middle.  print_row is in    *)
(* the list, and curr_line is walked to it.                                *)
ToRow(b, curr) ==
  LET print_row == IF b.rows <= data_win_rows THEN 1
                   ELSE Max({1, Min({curr - data_win_rows \div 2, b.rows - data_win_rows + 1})})
  IN Scroll(b, print_row - b.line, print_row)

PageUp(b) ==
  IF b.row - data_win_rows <= 0 THEN ToHead(b)
  ELSE Scroll(b, -(data_win_rows - 1), b.row - 2 * (data_win_rows - 1))

(* Both loops stop when scroll_row shows the last page.                    *)
PageDown(b) ==
  LET max_scroll_row == b.rows - (data_win_rows - 1)
      rem_lines == b.rows - b.row
      k == IF rem_lines >= data_win_rows THEN Min({data_win_rows - 1, max_scroll_row - b.row})
           ELSE Max({0, max_scroll_row - b.row})
  IN Scroll(b, k, b.row + k)

Down_NoPage(b) == LET k == IF b.rows > b.row THEN 1 ELSE 0 IN Scroll(b, k, b.row + k)

Down(b) == LET k == IF b.rows - b.row >= data_win_rows THEN 1 ELSE 0 IN Scroll(b, k, b.row + k)

Up(b) == LET k == IF b.row > 1 THEN -1 ELSE 0 IN Scroll(b, k, b.row + k)

Left_NoLimit(b) ==
  /\ Show([b EXCEPT !.col = IF ~TextWrapped THEN b.col - 1 ELSE b.col])
  /\ crashed' = FALSE

Left(b) ==
  /\ Show([b EXCEPT !.col = IF ~TextWrapped /\ b.col > 0 THEN b.col - 1 ELSE b.col])
  /\ crashed' = FALSE

Right(b) ==
  /\ Show([b EXCEPT !.col = IF ~TextWrapped /\ b.max - b.col > data_win_cols - LineNumLen(b)
                            THEN b.col + 1 ELSE b.col])
  /\ crashed' = FALSE

Switch(b, key) ==
  \/ key \in {"home", "BEG_DATA"} /\ ToHead(b)
  \/ key \in {"end", "END_DATA"} /\ ToEnd(b)
  \/ key = "ROW_DATA" /\ \E curr \in 0 .. MaxLine : ToRow(b, curr)
  \/ key = "ppage" /\ PageUp(b)
  \/ key = "npage" /\ PageDown(b)
  \/ key = "down" /\ Down(b)
  \/ key = "up" /\ Up(b)
  \/ key = "left" /\ Left(b)
  \/ key = "right" /\ Right(b)

(* The keys and updates that set scroll_row and curr_line anew.            *)
Places(key) == key \in {"home", "end", "BEG_DATA", "END_DATA", "ROW_DATA"}

(* create_scroll_buffer_llist() first frees the list that head_line heads. *)
display_lines(key) ==
  /\ ~crashed /\ (changed => head_line # "garbage")
  /\ text' \in (IF changed THEN Texts ELSE {text}) /\ ~(changed /\ NeverAdvances(text'))
  /\ \E b \in {List(text')} : Switch(Placed(b), key)
  /\ head_line' = "list" /\ changed' = FALSE
  /\ paged_up' = (key = "ppage" \/ (paged_up /\ ~changed /\ ~Places(key)))
  /\ UNCHANGED <<code, window>>

FreeGarbage ==
  /\ ~crashed /\ changed /\ head_line = "garbage"
  /\ crashed' = TRUE
  /\ UNCHANGED <<code, list, position, changed, window, paged_up>>

(* The list of a line grows until there is no memory.                      *)
SplitForever ==
  /\ ~crashed /\ changed /\ head_line # "garbage" /\ \E t \in Texts : NeverAdvances(t)
  /\ crashed' = TRUE
  /\ UNCHANGED <<code, list, position, changed, window, paged_up>>

-----------------------------------------------------------------------------
(* select_window() displays a key, the update thread an update.            *)
SelectKey(key) == display_lines(key)
UpdateWindow == display_lines(DataPos)

(* get_<window>_data() has put new data in the buffer.                     *)
NewData ==
  /\ ~crashed /\ ~changed /\ changed' = TRUE
  /\ UNCHANGED <<code, list, position, window, crashed, paged_up>>

(* render_layout(): the same data in a window of another size.             *)
RenderLayout ==
  /\ ~crashed
  /\ \E size \in WindowSizes : data_win_rows' = size[1] /\ data_win_cols' = size[2]
  /\ UNCHANGED <<code, list, position, changed, crashed, paged_up>>

Next ==
  \/ \E key \in Keys : SelectKey(key)
  \/ UpdateWindow \/ FreeGarbage \/ SplitForever \/ NewData \/ RenderLayout

Spec == Init /\ [][Next]_vars

-----------------------------------------------------------------------------
TypeOK ==
  /\ code \in Windows
  /\ text \in Texts \cup {<<>>} /\ lines \subseteq [of : Nat \ {0}, from : Nat, len : Nat \ {0}]
  /\ rows \in Nat /\ max_chars \in Nat
  /\ head_line \in {"NULL", "garbage", "list"}
  /\ scroll_row \in Int /\ curr_line \in 0 .. rows
  /\ scroll_col_offset \in Nat
  /\ changed \in BOOLEAN /\ crashed \in BOOLEAN /\ paged_up \in BOOLEAN
  /\ <<data_win_rows, data_win_cols>> \in WindowSizes

(* No key and no update follows a pointer off the list, as long as the     *)
(* list existed, page up has not been used since the position was set and  *)
(* a window that wraps has two columns.                                    *)
NeverCrashes == crashed => paged_up \/ head_line = "garbage" \/ (TextWrapped /\ data_win_cols = 1)

(* Splitting long lines loses no character: a new list shows every one, in *)
(* rows no wider than a window that wraps, and begins each row where the   *)
(* one before ends, or with that row's last character shown a second time. *)
Follows(l, m) ==
  \/ m.of = l.of + 1 /\ m.from = 0 /\ l.from + l.len = text'[l.of] + 1
  \/ m.of = l.of /\ m.from = l.from + l.len - 1
WrapsText ==
  [][changed /\ ~changed' =>
       /\ \A i \in 1 .. Len(text') : \A j \in 1 .. text'[i] :
            \E l \in lines' : l.of = i /\ l.from < j /\ j <= l.from + l.len
       /\ \A l \in lines' : TextWrapped => l.len <= data_win_cols
       /\ \A l \in lines' : l = [of |-> Len(text'), from |-> l.from, len |-> text'[Len(text')] - l.from + 1]
                             \/ \E m \in lines' : Follows(l, m)]_vars

(* scroll_row is the number of curr_line, once there is one: every move    *)
(* but page up adds to both or sets both, whatever the data and the layout *)
(* have become in between.                                                 *)
RowMatchesLine == ~crashed /\ ~paged_up /\ rows # 0 => scroll_row = curr_line

(* Going forward stops at the end of the data, in whatever layout: no key  *)
(* takes scroll_row past the last full page, nor right past where the end  *)
(* of the longest line is in view.  The line that is shown stops at the    *)
(* last full page as well, as long as page up has not been used since the  *)
(* position was set: after it curr_line is ahead of scroll_row, and down   *)
(* may leave the window half empty with more data above.                   *)
StopsAtEnds ==
  [][/\ rows' = rows /\ data_win_rows' = data_win_rows =>
          LET last_page == Max({1, rows - data_win_rows + 1}) IN
          /\ scroll_row' > scroll_row => scroll_row' <= last_page
          /\ curr_line' > curr_line /\ ~paged_up => curr_line' <= last_page
     /\ scroll_col_offset' > scroll_col_offset =>
          /\ ~TextWrapped
          /\ scroll_col_offset' + data_win_cols - LineNumLen([rows |-> rows']) <= max_chars']_vars
=============================================================================
