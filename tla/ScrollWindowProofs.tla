-------------------------- MODULE ScrollWindowProofs --------------------------
(***************************************************************************)
(* Proofs about ScrollWindow for every text, every window of every size    *)
(* and every sequence of keys, updates, new data and changes of layout.    *)
(***************************************************************************)
EXTENDS ScrollWindow, FiniteSetTheorems, SequenceTheorems, WellFoundedInduction, TLAPS

(* Where the window stands while nobody has paged up: on a line of the     *)
(* list, the one scroll_row names.                                         *)
Positioned ==
  ~crashed /\ ~paged_up /\ rows # 0 => scroll_row = curr_line /\ curr_line \in 1 .. rows

(* The inductive invariant.  NULL, the line past either end, is reached    *)
(* only after a page up; and a list, once built, is never empty.           *)
ScrollInv ==
  /\ TypeOK
  /\ Positioned
  /\ ~changed /\ ~crashed => rows # 0
  /\ NeverCrashes

-----------------------------------------------------------------------------
(* Numbers and sets of them.                                               *)

(* Max of two numbers.                                                     *)
LEMMA MaxOfTwo ==
  ASSUME NEW a \in Int, NEW b \in Int
  PROVE  Max({a, b}) = IF a >= b THEN a ELSE b
BY DEF Max

(* Min of two numbers.                                                     *)
LEMMA MinOfTwo ==
  ASSUME NEW a \in Int, NEW b \in Int
  PROVE  Min({a, b}) = IF a <= b THEN a ELSE b
BY DEF Min

(* Every non-empty set of natural numbers has a least element.             *)
LEMMA LeastNumber ==
  ASSUME NEW T \in SUBSET Nat, T # {}
  PROVE  \E x \in T : \A y \in T : x <= y
<1> DEFINE Less == {pair \in Nat \X Nat : pair[1] < pair[2]}
<1>1. IsWellFoundedOn(Less, Nat)
  BY NatLessThanWellFounded DEF OpToRel
<1> HIDE DEF Less
<1>2. PICK x \in T : \A y \in T : <<y, x>> \notin Less
  BY <1>1, WFMin
<1>3. \A y \in T : ~ (y < x)
  BY <1>2 DEF Less
<1>4. QED BY <1>3

(* A finite, non-empty set of natural numbers has a greatest element: the  *)
(* one with the fewest elements above it.                                  *)
LEMMA MaxOfFinite ==
  ASSUME NEW S \in SUBSET Nat, IsFiniteSet(S), S # {}
  PROVE  Max(S) \in S /\ \A y \in S : y <= Max(S)
<1> DEFINE Above(x) == {y \in S : y > x}
           Counts == {Cardinality(Above(x)) : x \in S}
<1>1. ASSUME NEW x \in S PROVE IsFiniteSet(Above(x)) /\ Cardinality(Above(x)) \in Nat
  BY FS_Subset, FS_CardinalityType
<1>2. PICK x \in S : \A y \in S : Cardinality(Above(x)) <= Cardinality(Above(y))
  <2>1. Counts \in SUBSET Nat /\ Counts # {}
    BY <1>1
  <2>2. PICK n \in Counts : \A m \in Counts : n <= m
    BY <2>1, LeastNumber
  <2>3. QED BY <2>2
<1>3. ASSUME NEW y \in S, y > x PROVE FALSE
  <2>1. Above(y) \subseteq Above(x) /\ y \in Above(x) /\ y \notin Above(y)
    <3>1. x \in Nat /\ y \in Nat /\ \A z \in Above(y) : z \in S /\ z \in Nat /\ z > y
      OBVIOUS
    <3>2. \A z \in Above(y) : z > x
      BY <1>3, <3>1
    <3>3. Above(y) \subseteq Above(x)
      BY <3>1, <3>2
    <3>4. y \in Above(x)
      BY <1>3
    <3>5. y \notin Above(y)
      BY <3>1
    <3>6. QED BY <3>3, <3>4, <3>5
  <2>2. Cardinality(Above(y)) <= Cardinality(Above(x)) /\ Cardinality(Above(y)) # Cardinality(Above(x))
    BY <1>1, <2>1, FS_Subset
  <2>3. QED BY <1>1, <1>2, <2>2
<1>4. \A y \in S : x >= y
  BY <1>3
<1>5. QED BY <1>4 DEF Max

(* What a function takes on over a finite set is finite.                   *)
LEMMA FiniteImage ==
  ASSUME NEW S, IsFiniteSet(S), NEW f
  PROVE  IsFiniteSet({f[x] : x \in S})
<1> DEFINE T == {f[x] : x \in S}
           g == [x \in S |-> f[x]]
<1>1. g \in Surjection(S, T)
  BY DEF Surjection
<1>2. QED BY <1>1, FS_Surjection

-----------------------------------------------------------------------------
(* The list of lines.                                                      *)

(* The sizes of the window, and the columns one row takes from a line.     *)
LEMMA WindowSize ==
  ASSUME TypeOK
  PROVE  data_win_rows \in Nat \ {0} /\ data_win_cols \in Nat \ {0} /\ Step \in Nat
<1>1. <<data_win_rows, data_win_cols>> \in (Nat \ {0}) \X (Nat \ {0})
  BY WindowAssumption DEF TypeOK
<1>2. QED BY <1>1 DEF Step

(* A row begins where its turn of the loop does, and ends with the line or *)
(* one column early.                                                       *)
LEMMA PartOfLine ==
  ASSUME NEW t \in Seq(Nat), NEW i \in 1 .. Len(t), NEW k \in Nat, Step \in Nat,
         k = 0 \/ k * Step < t[i]
  PROVE  /\ Part(t, i, k).of = i
         /\ Part(t, i, k).from = k * Step /\ k * Step \in Nat
         /\ Part(t, i, k).len = IF Step <= t[i] - k * Step THEN Step + 1 ELSE t[i] - k * Step + 1
         /\ Part(t, i, k) \in [of : Nat \ {0}, from : Nat, len : Nat \ {0}]
<1> DEFINE from == k * Step
<1>1. from \in Nat /\ t[i] \in Nat /\ i \in Nat \ {0}
  OBVIOUS
<1>2. from <= t[i]
  <2>1. CASE k = 0
    <3>1. from = 0
      BY <2>1
    <3>2. QED BY <1>1, <3>1
  <2>2. QED BY <1>1, <2>1
<1> HIDE DEF from
<1>3. Min({Step, t[i] - from}) = IF Step <= t[i] - from THEN Step ELSE t[i] - from
  BY <1>1, MinOfTwo
<1>4. Part(t, i, k) = [of |-> i, from |-> from, len |-> Min({Step, t[i] - from}) + 1]
  BY DEF Part, from
<1>5. QED BY <1>1, <1>2, <1>3, <1>4 DEF from

(* The turns of the loop for line i.                                       *)
Turns(t, i) == {n \in 0 .. t[i] : n = 0 \/ n * Step < t[i]}

(* The list is finite and never empty.                                     *)
LEMMA ListOfLines ==
  ASSUME NEW t \in Seq(Nat) \ {<<>>}, Step \in Nat
  PROVE  /\ Lines(t) \subseteq [of : Nat \ {0}, from : Nat, len : Nat \ {0}]
         /\ IsFiniteSet(Lines(t)) /\ Lines(t) # {}
<1>1. 1 \in 1 .. Len(t) /\ Len(t) \in Nat
  BY EmptySeq, LenProperties
<1>0. IsFiniteSet(1 .. Len(t))
  BY <1>1, FS_Interval
<1>2. ASSUME NEW i \in 1 .. Len(t) PROVE t[i] \in Nat
  OBVIOUS
<1>3. CASE TextWrapped
  <2> DEFINE Parts(i) == {Part(t, i, k) : k \in Turns(t, i)}
             parts == [i \in 1 .. Len(t) |-> Parts(i)]
  <2>1. Lines(t) = UNION {parts[i] : i \in 1 .. Len(t)}
    BY <1>3 DEF Lines, Turns
  <2>2. ASSUME NEW i \in 1 .. Len(t)
        PROVE  /\ IsFiniteSet(parts[i])
               /\ parts[i] \subseteq [of : Nat \ {0}, from : Nat, len : Nat \ {0}]
    <3> DEFINE f == [k \in Turns(t, i) |-> Part(t, i, k)]
    <3>1. IsFiniteSet(Turns(t, i))
      <4>1. t[i] \in Int /\ IsFiniteSet(0 .. t[i])
        <5>1. t[i] \in Int /\ 0 \in Int
          BY <1>2
        <5>2. QED BY <5>1, FS_Interval
      <4>2. Turns(t, i) \subseteq 0 .. t[i]
        BY DEF Turns
      <4>3. QED BY <4>1, <4>2, FS_Subset
    <3>2. IsFiniteSet({f[k] : k \in Turns(t, i)})
      BY <3>1, FiniteImage
    <3>3. parts[i] = {f[k] : k \in Turns(t, i)}
      OBVIOUS
    <3>4. \A k \in Turns(t, i) : k \in Nat /\ (k = 0 \/ k * Step < t[i])
      BY DEF Turns
    <3>5. \A k \in Turns(t, i) : Part(t, i, k) \in [of : Nat \ {0}, from : Nat, len : Nat \ {0}]
      BY <3>4, PartOfLine
    <3>6. QED BY <3>2, <3>3, <3>5
  <2>3. Part(t, 1, 0) \in parts[1]
    BY <1>1, <1>2 DEF Turns
  <2> HIDE DEF parts
  <2>4. IsFiniteSet({parts[i] : i \in 1 .. Len(t)})
    BY <1>0, FiniteImage
  <2>5. IsFiniteSet(Lines(t))
    BY <2>1, <2>2, <2>4, FS_UNION
  <2>6. QED BY <1>1, <2>1, <2>2, <2>3, <2>5
<1>4. CASE ~TextWrapped
  <2> DEFINE f == [i \in 1 .. Len(t) |-> [of |-> i, from |-> 0, len |-> t[i] + 1]]
  <2>1. Lines(t) = {f[i] : i \in 1 .. Len(t)}
    BY <1>4 DEF Lines
  <2>2. IsFiniteSet({f[i] : i \in 1 .. Len(t)})
    <3> HIDE DEF f
    <3> QED BY <1>0, FiniteImage
  <2>3. \A i \in 1 .. Len(t) : f[i] \in [of : Nat \ {0}, from : Nat, len : Nat \ {0}]
    BY <1>2
  <2>4. Lines(t) \subseteq [of : Nat \ {0}, from : Nat, len : Nat \ {0}]
    BY <2>1, <2>3
  <2>5. Lines(t) # {}
    BY <1>1, <2>1
  <2>6. QED BY <2>1, <2>2, <2>4, <2>5
<1>5. QED BY <1>3, <1>4

-----------------------------------------------------------------------------
(* One display.                                                            *)

(* A list in front of the window, and the position in it.                  *)
Displays ==
  [lines : SUBSET [of : Nat \ {0}, from : Nat, len : Nat \ {0}],
   rows : Nat \ {0}, max : Nat, row : Int, line : Nat, col : Nat]

(* What a display starts from: the list, new or kept, and a curr_line that *)
(* is on it; it is the line scroll_row names unless a page up came between.*)
LEMMA PlacedOnList ==
  ASSUME ScrollInv, ~crashed, NEW t, changed => t \in Seq(Nat) \ {<<>>}
  PROVE  LET b == Placed(List(t)) IN
         /\ b \in Displays
         /\ b.line \in 1 .. b.rows
         /\ changed => b.lines = Lines(t) /\ b.line = 1 /\ b.row = 1 /\ b.col = 0
         /\ ~changed => b.rows = rows /\ b.max = max_chars /\ b.col = scroll_col_offset
         /\ ~changed => b.row = scroll_row
         /\ ~changed /\ ~paged_up => b.line = curr_line
         /\ changed \/ ~paged_up => b.row = b.line
<1> DEFINE L == List(t)
<1>1. Step \in Nat
  BY WindowSize DEF ScrollInv
<1>2. CASE changed
  <2>0. /\ Lines(t) \subseteq [of : Nat \ {0}, from : Nat, len : Nat \ {0}]
        /\ IsFiniteSet(Lines(t)) /\ Lines(t) # {}
    BY <1>1, <1>2, ListOfLines
  <2>1. Cardinality(Lines(t)) \in Nat \ {0}
    BY <2>0, FS_EmptySet, FS_CardinalityType
  <2>2. Max({l.len : l \in Lines(t)}) \in Nat
    <3> DEFINE lens == {l.len : l \in Lines(t)}
               f == [l \in Lines(t) |-> l.len]
    <3>1. IsFiniteSet({f[l] : l \in Lines(t)})
      <4> HIDE DEF f
      <4> QED BY <2>0, FiniteImage
    <3>2. lens = {f[l] : l \in Lines(t)}
      OBVIOUS
    <3>3. lens \in SUBSET Nat /\ lens # {}
      BY <2>0
    <3> HIDE DEF lens
    <3>4. Max(lens) \in lens
      BY <3>1, <3>2, <3>3, MaxOfFinite
    <3>5. QED BY <3>3, <3>4 DEF lens
  <2>3. L = [lines |-> Lines(t), rows |-> Cardinality(Lines(t)), max |-> Max({l.len : l \in Lines(t)}),
             row |-> 1, line |-> NULL, col |-> 0]
    BY <1>2 DEF List
  <2>4. Lines(t) \in SUBSET [of : Nat \ {0}, from : Nat, len : Nat \ {0}]
    BY <2>0
  <2> HIDE DEF L
  <2>5. L \in Displays /\ L.line = NULL
    BY <2>1, <2>2, <2>3, <2>4 DEF Displays, NULL
  <2>6. Placed(L) = [L EXCEPT !.line = 1]
    BY <2>5 DEF Placed
  <2>7. /\ Placed(L) \in Displays /\ Placed(L).lines = Lines(t)
        /\ Placed(L).line = 1 /\ Placed(L).row = 1 /\ Placed(L).col = 0
    BY <2>3, <2>5, <2>6 DEF Displays
  <2>8. Placed(L).rows \in Nat \ {0}
    BY <2>7 DEF Displays
  <2>9. QED BY <1>2, <2>7, <2>8 DEF L
<1>3. CASE ~changed
  <2>1. L = [lines |-> lines, rows |-> rows, max |-> max_chars, row |-> scroll_row,
             line |-> curr_line, col |-> scroll_col_offset]
    BY <1>3 DEF List
  <2>2. /\ lines \in SUBSET [of : Nat \ {0}, from : Nat, len : Nat \ {0}]
        /\ rows \in Nat \ {0} /\ max_chars \in Nat /\ scroll_row \in Int
        /\ curr_line \in 0 .. rows /\ scroll_col_offset \in Nat
    BY <1>3 DEF ScrollInv, TypeOK
  <2>3. ~paged_up => scroll_row = curr_line /\ curr_line # NULL
    BY <2>2 DEF ScrollInv, Positioned, NULL
  <2> HIDE DEF L
  <2>4. L \in Displays
    BY <2>1, <2>2 DEF Displays
  <2>5. CASE curr_line = NULL
    <3>1. Placed(L) = [L EXCEPT !.line = 1]
      BY <2>1, <2>5 DEF Placed
    <3>2. /\ Placed(L) \in Displays /\ Placed(L).line = 1 /\ Placed(L).rows = rows
          /\ Placed(L).max = max_chars /\ Placed(L).col = scroll_col_offset
          /\ Placed(L).row = scroll_row
      BY <2>1, <2>4, <3>1 DEF Displays
    <3>3. QED BY <1>3, <2>2, <2>3, <2>5, <3>2 DEF L
  <2>6. CASE curr_line # NULL
    <3>1. Placed(L) = L
      BY <2>1, <2>6 DEF Placed
    <3>2. curr_line \in 1 .. rows
      BY <2>2, <2>6 DEF NULL
    <3>3. QED BY <1>3, <2>1, <2>3, <2>4, <3>1, <3>2 DEF L
  <2>7. QED BY <2>5, <2>6
<1>4. QED BY <1>2, <1>3

(* What every display shows.                                               *)
Shown(b) ==
  /\ lines' = b.lines /\ rows' = b.rows /\ max_chars' = b.max
  /\ scroll_row' \in Int /\ curr_line' \in 0 .. b.rows /\ scroll_col_offset' \in Nat
  /\ crashed' \in BOOLEAN

(* What a display shows whose position is right, or set anew: a line of    *)
(* the list, named by scroll_row.                                          *)
OnLine(b) == ~crashed' /\ scroll_row' = curr_line' /\ curr_line' \in 1 .. b.rows

(* How far a display goes: forward no further than to the last full page,  *)
(* by the number and by the line, and right no further than where the      *)
(* longest line ends in the last column.                                   *)
LastPage(b) == IF b.rows - data_win_rows + 1 >= 1 THEN b.rows - data_win_rows + 1 ELSE 1
NumberToLastPage(b) == scroll_row' > b.row => scroll_row' <= LastPage(b)
DownToLastPage(b) == curr_line' > b.line => curr_line' <= LastPage(b)
RightToLineEnd(b) ==
  scroll_col_offset' > b.col =>
    ~TextWrapped /\ scroll_col_offset' + data_win_cols - LineNumLen(b) <= b.max

(* Following a pointer, and where it leads.                                *)
LEMMA ScrollShows ==
  ASSUME NEW b \in Displays, b.line \in 1 .. b.rows, NEW k \in Int, NEW row \in Int,
         Scroll(b, k, row)
  PROVE  /\ Shown(b)
         /\ scroll_row' = row /\ scroll_col_offset' = b.col
         /\ b.line + k \in 1 .. b.rows => ~crashed' /\ curr_line' = b.line + k
         /\ b.line + k \notin 1 .. b.rows => curr_line' = 0
<1>1. b.rows \in Nat \ {0} /\ b.col \in Nat /\ b.line \in Nat
  BY DEF Displays
<1> DEFINE m == [b EXCEPT !.line = Follow(b.rows, b.line, k), !.row = row]
<1>2. /\ m.lines = b.lines /\ m.rows = b.rows /\ m.max = b.max /\ m.row = row
      /\ m.line = Follow(b.rows, b.line, k) /\ m.col = b.col
  BY DEF Displays
<1>3. /\ lines' = b.lines /\ rows' = b.rows /\ max_chars' = b.max /\ scroll_row' = row
      /\ curr_line' = Follow(b.rows, b.line, k) /\ scroll_col_offset' = b.col
  BY <1>2 DEF Scroll, Moved, Show
<1>4. crashed' = Crashes(b.rows, b.line, k)
  BY DEF Scroll
<1>5. crashed' \in BOOLEAN
  BY <1>4 DEF Crashes
<1>6. b.line + k \in 1 .. b.rows => ~crashed'
  <2>1. b.line + k \in 1 .. b.rows => ~Crashes(b.rows, b.line, k)
    BY <1>1 DEF Crashes
  <2>2. QED BY <1>4, <2>1, Zenon
<1>7. QED BY <1>1, <1>3, <1>5, <1>6 DEF Shown, Follow, NULL

(* Back to the first line.                                                 *)
LEMMA ToHeadShows ==
  ASSUME NEW b \in Displays, ToHead(b)
  PROVE  /\ Shown(b) /\ OnLine(b)
         /\ curr_line' = 1 /\ scroll_col_offset' = b.col
<1>1. b.rows \in Nat \ {0} /\ b.col \in Nat
  BY DEF Displays
<1> DEFINE h == [b EXCEPT !.line = 1, !.row = 1]
<1>2. h.lines = b.lines /\ h.rows = b.rows /\ h.max = b.max /\ h.row = 1 /\ h.line = 1 /\ h.col = b.col
  BY DEF Displays
<1>3. /\ lines' = b.lines /\ rows' = b.rows /\ max_chars' = b.max /\ scroll_row' = 1
      /\ curr_line' = 1 /\ scroll_col_offset' = b.col
  BY <1>2 DEF ToHead, Show, HeadLine
<1>4. crashed' \in BOOLEAN /\ ~crashed'
  BY Zenon DEF ToHead
<1>5. QED BY <1>1, <1>3, <1>4 DEF Shown, OnLine

(* To the last page.                                                       *)
LEMMA ToEndShows ==
  ASSUME NEW b \in Displays, data_win_rows \in Nat \ {0}, ToEnd(b)
  PROVE  /\ Shown(b) /\ OnLine(b)
         /\ curr_line' = LastPage(b) /\ scroll_col_offset' = b.col
<1>1. b.rows \in Nat \ {0} /\ b.col \in Nat
  BY DEF Displays
<1>2. CASE b.rows < data_win_rows
  <2>1. ToHead(b)
    BY <1>2 DEF ToEnd
  <2>2. QED BY <1>1, <1>2, <2>1, ToHeadShows DEF LastPage
<1>3. CASE ~(b.rows < data_win_rows)
  <2> DEFINE last == [b EXCEPT !.line = b.rows]
  <2>1. last \in Displays /\ last.line = b.rows
    BY <1>1 DEF Displays
  <2>2. last.rows = b.rows /\ last.lines = b.lines /\ last.max = b.max /\ last.col = b.col
    BY DEF Displays
  <2>3. Scroll(last, -(data_win_rows - 1), b.rows - (data_win_rows - 1))
    BY <1>3 DEF ToEnd
  <2> HIDE DEF last
  <2>4. last.line \in 1 .. last.rows /\ last.line + (-(data_win_rows - 1)) \in 1 .. last.rows
    BY <1>1, <1>3, <2>1, <2>2
  <2>5. -(data_win_rows - 1) \in Int /\ b.rows - (data_win_rows - 1) \in Int
    BY <1>1
  <2>6. /\ Shown(last) /\ scroll_row' = b.rows - (data_win_rows - 1) /\ scroll_col_offset' = last.col
        /\ ~crashed' /\ curr_line' = last.line + (-(data_win_rows - 1))
    BY <2>1, <2>3, <2>4, <2>5, ScrollShows
  <2>7. QED BY <1>1, <1>3, <2>1, <2>2, <2>4, <2>6 DEF Shown, OnLine, LastPage
<1>4. QED BY <1>2, <1>3

(* To the line the program is at.                                          *)
LEMMA ToRowShows ==
  ASSUME NEW b \in Displays, b.line \in 1 .. b.rows, data_win_rows \in Nat \ {0},
         NEW curr \in Nat, ToRow(b, curr)
  PROVE  /\ Shown(b) /\ OnLine(b)
         /\ curr_line' <= LastPage(b) /\ scroll_col_offset' = b.col
<1>1. b.rows \in Nat \ {0} /\ b.col \in Nat
  BY DEF Displays
<1> DEFINE a == curr - data_win_rows \div 2
           z == b.rows - data_win_rows + 1
           print_row == IF b.rows <= data_win_rows THEN 1 ELSE Max({1, Min({a, z})})
<1>2. Scroll(b, print_row - b.line, print_row)
  BY DEF ToRow
<1>3. a \in Int /\ z \in Int
  BY <1>1
<1> HIDE DEF a
<1>4. print_row \in 1 .. b.rows /\ print_row <= LastPage(b)
  <2>1. Min({a, z}) = IF a <= z THEN a ELSE z
    BY <1>3, MinOfTwo
  <2>2. Max({1, Min({a, z})}) = IF 1 >= Min({a, z}) THEN 1 ELSE Min({a, z})
    BY <1>3, <2>1, MaxOfTwo
  <2>3. QED BY <1>1, <1>3, <2>1, <2>2 DEF LastPage
<1> HIDE DEF print_row
<1>5. b.line + (print_row - b.line) = print_row /\ print_row - b.line \in Int /\ print_row \in Int
  BY <1>1, <1>4
<1>6. Shown(b) /\ scroll_row' = print_row /\ ~crashed' /\ curr_line' = print_row
      /\ scroll_col_offset' = b.col
  BY <1>2, <1>4, <1>5, ScrollShows
<1>7. QED BY <1>4, <1>6 DEF OnLine

(* A page up only goes back.                                               *)
LEMMA PageUpShows ==
  ASSUME NEW b \in Displays, b.line \in 1 .. b.rows, data_win_rows \in Nat \ {0}, PageUp(b)
  PROVE  /\ Shown(b) /\ curr_line' <= b.line /\ scroll_col_offset' = b.col
         /\ NumberToLastPage(b)
<1>1. b.rows \in Nat \ {0} /\ b.col \in Nat /\ b.line \in Nat /\ b.row \in Int
  BY DEF Displays
<1>2. CASE ToHead(b)
  BY <1>1, <1>2, ToHeadShows DEF OnLine, NumberToLastPage, LastPage
<1>3. CASE Scroll(b, -(data_win_rows - 1), b.row - 2 * (data_win_rows - 1))
  <2>1. -(data_win_rows - 1) \in Int /\ b.row - 2 * (data_win_rows - 1) \in Int
    BY <1>1
  <2>2. /\ Shown(b) /\ scroll_col_offset' = b.col
        /\ curr_line' = b.line + (-(data_win_rows - 1)) \/ curr_line' = 0
        /\ scroll_row' = b.row - 2 * (data_win_rows - 1)
    BY <1>3, <2>1, ScrollShows
  <2>3. QED BY <1>1, <2>2 DEF NumberToLastPage
<1>4. QED BY <1>2, <1>3 DEF PageUp

(* A page down, to the last page at most.                                  *)
LEMMA PageDownShows ==
  ASSUME NEW b \in Displays, b.line \in 1 .. b.rows, data_win_rows \in Nat \ {0}, PageDown(b)
  PROVE  /\ Shown(b) /\ scroll_col_offset' = b.col /\ NumberToLastPage(b)
         /\ b.row = b.line => OnLine(b) /\ (curr_line' > b.line => curr_line' <= LastPage(b))
<1>1. b.rows \in Nat \ {0} /\ b.col \in Nat /\ b.line \in Nat /\ b.row \in Int
  BY DEF Displays
<1> DEFINE max_scroll_row == b.rows - (data_win_rows - 1)
           rem_lines == b.rows - b.row
           k == IF rem_lines >= data_win_rows
                THEN Min({data_win_rows - 1, max_scroll_row - b.row})
                ELSE Max({0, max_scroll_row - b.row})
<1>2. Scroll(b, k, b.row + k)
  BY DEF PageDown
<1>3. /\ k \in Nat /\ (b.row + k <= b.rows \/ k = 0)
      /\ k # 0 => b.row + k <= max_scroll_row
  <2>1. Min({data_win_rows - 1, max_scroll_row - b.row}) =
          IF data_win_rows - 1 <= max_scroll_row - b.row THEN data_win_rows - 1
          ELSE max_scroll_row - b.row
    BY <1>1, MinOfTwo
  <2>2. Max({0, max_scroll_row - b.row}) =
          IF 0 >= max_scroll_row - b.row THEN 0 ELSE max_scroll_row - b.row
    BY <1>1, MaxOfTwo
  <2>3. QED BY <1>1, <2>1, <2>2
<1> HIDE DEF k
<1>4. k \in Int /\ b.row + k \in Int
  BY <1>1, <1>3
<1>5. /\ Shown(b) /\ scroll_row' = b.row + k /\ scroll_col_offset' = b.col
      /\ b.line + k \in 1 .. b.rows => ~crashed' /\ curr_line' = b.line + k
  BY <1>2, <1>4, ScrollShows
<1>6. ASSUME b.row = b.line PROVE OnLine(b) /\ (curr_line' > b.line => curr_line' <= LastPage(b))
  <2>1. b.line + k \in 1 .. b.rows
    BY <1>1, <1>3, <1>6
  <2>2. QED BY <1>1, <1>3, <1>5, <1>6, <2>1 DEF OnLine, LastPage
<1>7. NumberToLastPage(b)
  BY <1>1, <1>3, <1>5 DEF NumberToLastPage, LastPage
<1>8. QED BY <1>5, <1>6, <1>7

(* One line down, unless the last page is shown, and one line up.          *)
LEMMA LineShows ==
  ASSUME NEW b \in Displays, b.line \in 1 .. b.rows, data_win_rows \in Nat \ {0}, Down(b) \/ Up(b)
  PROVE  /\ Shown(b) /\ scroll_col_offset' = b.col /\ NumberToLastPage(b)
         /\ b.row = b.line => OnLine(b) /\ (curr_line' > b.line => curr_line' <= LastPage(b))
<1>1. b.rows \in Nat \ {0} /\ b.col \in Nat /\ b.line \in Nat /\ b.row \in Int
  BY DEF Displays
<1>2. PICK k \in {-1, 0, 1} :
        /\ Scroll(b, k, b.row + k)
        /\ k = 1 => b.rows - b.row >= data_win_rows
        /\ k = -1 => b.row > 1
  <2>1. CASE Down(b)
    BY <2>1 DEF Down
  <2>2. CASE Up(b)
    BY <2>2 DEF Up
  <2>3. QED BY <2>1, <2>2
<1>3. k \in Int /\ b.row + k \in Int
  BY <1>1
<1>4. /\ Shown(b) /\ scroll_row' = b.row + k /\ scroll_col_offset' = b.col
      /\ b.line + k \in 1 .. b.rows => ~crashed' /\ curr_line' = b.line + k
  BY <1>2, <1>3, ScrollShows
<1>5. ASSUME b.row = b.line PROVE OnLine(b) /\ (curr_line' > b.line => curr_line' <= LastPage(b))
  <2>1. b.line + k \in 1 .. b.rows
    BY <1>1, <1>2, <1>5
  <2>2. QED BY <1>1, <1>2, <1>4, <1>5, <2>1 DEF OnLine, LastPage
<1>6. NumberToLastPage(b)
  BY <1>1, <1>2, <1>4 DEF NumberToLastPage, LastPage
<1>7. QED BY <1>4, <1>5, <1>6

(* The digits of a line number are a number.                               *)
LEMMA LineNumLenType == ASSUME NEW b PROVE LineNumLen(b) \in Nat
<1> DEFINE D == {d \in 0 .. 6 : 10 ^ d <= b.rows}
<1>1. Cardinality(D) \in Nat
  <2>1. IsFiniteSet(0 .. 6)
    <3>1. 0 \in Int /\ 6 \in Int
      OBVIOUS
    <3>2. QED BY <3>1, FS_Interval
  <2>2. D \subseteq 0 .. 6
    OBVIOUS
  <2> HIDE DEF D
  <2>3. QED BY <2>1, <2>2, FS_Subset, FS_CardinalityType
<1>2. LineNumLen(b) = IF NumbersLines THEN 1 + Cardinality(D) ELSE 0
  BY DEF LineNumLen
<1> HIDE DEF D
<1>3. QED BY <1>1, <1>2

(* Sideways, only the column moves.                                        *)
LEMMA ColumnShows ==
  ASSUME NEW b \in Displays, b.line \in 1 .. b.rows, data_win_cols \in Nat \ {0}, Left(b) \/ Right(b)
  PROVE  /\ Shown(b) /\ scroll_row' = b.row /\ curr_line' = b.line /\ RightToLineEnd(b)
         /\ b.row = b.line => OnLine(b)
<1>1. /\ b.rows \in Nat \ {0} /\ b.col \in Nat /\ b.line \in Nat /\ b.row \in Int /\ b.max \in Nat
      /\ LineNumLen(b) \in Nat
  BY LineNumLenType DEF Displays
<1>2. PICK col \in Nat :
        /\ Show([b EXCEPT !.col = col])
        /\ col > b.col =>
             ~TextWrapped /\ b.max - b.col > data_win_cols - LineNumLen(b) /\ col = b.col + 1
  <2>1. CASE Left(b)
    <3>1. \/ Show([b EXCEPT !.col = b.col])
          \/ b.col > 0 /\ Show([b EXCEPT !.col = b.col - 1])
      BY <2>1 DEF Left
    <3>2. QED BY <1>1, <3>1
  <2>2. CASE Right(b)
    <3>1. \/ Show([b EXCEPT !.col = b.col])
          \/ /\ ~TextWrapped /\ b.max - b.col > data_win_cols - LineNumLen(b)
             /\ Show([b EXCEPT !.col = b.col + 1])
      BY <2>2 DEF Right
    <3>2. QED BY <1>1, <3>1
  <2>3. QED BY <2>1, <2>2
<1>3. /\ lines' = b.lines /\ rows' = b.rows /\ max_chars' = b.max
      /\ scroll_row' = b.row /\ curr_line' = b.line /\ scroll_col_offset' = col
  <2> DEFINE c == [b EXCEPT !.col = col]
  <2>1. /\ c.lines = b.lines /\ c.rows = b.rows /\ c.max = b.max
        /\ c.row = b.row /\ c.line = b.line /\ c.col = col
    BY DEF Displays
  <2>2. QED BY <1>2, <2>1 DEF Show
<1>4. crashed' \in BOOLEAN /\ ~crashed'
  BY Zenon DEF Left, Right
<1>5. QED BY <1>1, <1>2, <1>3, <1>4 DEF Shown, OnLine, RightToLineEnd

(* Every key and every update.                                             *)
LEMMA SwitchShows ==
  ASSUME NEW b \in Displays, b.line \in 1 .. b.rows,
         data_win_rows \in Nat \ {0}, data_win_cols \in Nat \ {0}, NEW key, Switch(b, key)
  PROVE  /\ Shown(b) /\ RightToLineEnd(b) /\ NumberToLastPage(b)
         /\ Places(key) \/ (b.row = b.line /\ key # "ppage") => OnLine(b)
         /\ b.row = b.line => DownToLastPage(b)
<1> USE DEF DownToLastPage
<1>1. /\ b.rows \in Nat \ {0} /\ b.col \in Nat /\ b.line \in Nat /\ b.row \in Int
      /\ LastPage(b) \in Nat \ {0}
  BY DEF Displays, LastPage
<1>n. ASSUME OnLine(b), curr_line' <= LastPage(b) PROVE NumberToLastPage(b)
  BY <1>n DEF OnLine, NumberToLastPage
<1>2. CASE ToHead(b)
  BY <1>1, <1>n, <1>2, ToHeadShows DEF RightToLineEnd
<1>3. CASE ToEnd(b)
  BY <1>1, <1>n, <1>3, ToEndShows DEF RightToLineEnd
<1>4. ASSUME NEW curr \in 0 .. MaxLine, ToRow(b, curr)
      PROVE  /\ Shown(b) /\ OnLine(b) /\ RightToLineEnd(b) /\ DownToLastPage(b)
             /\ NumberToLastPage(b)
  <2>1. curr \in Nat
    BY WindowAssumption
  <2>2. QED BY <1>1, <1>n, <1>4, <2>1, ToRowShows DEF RightToLineEnd
<1>5. CASE key = "ppage" /\ PageUp(b)
  BY <1>1, <1>5, PageUpShows DEF RightToLineEnd, Places, Shown
<1>6. CASE key = "npage" /\ PageDown(b)
  BY <1>1, <1>6, PageDownShows DEF RightToLineEnd, Places
<1>7. CASE key \in {"down", "up"} /\ (Down(b) \/ Up(b))
  BY <1>1, <1>7, LineShows DEF RightToLineEnd, Places
<1>8. CASE key \in {"left", "right"} /\ (Left(b) \/ Right(b))
  BY <1>1, <1>8, ColumnShows DEF Places, NumberToLastPage
<1>9. QED BY <1>2, <1>3, <1>4, <1>5, <1>6, <1>7, <1>8 DEF Switch

-----------------------------------------------------------------------------
(* The invariant.                                                          *)

(* A window that was just allocated shows nothing yet.                     *)
LEMMA InitEstablishesScrollInv == Init => ScrollInv
<1> SUFFICES ASSUME Init PROVE ScrollInv
  OBVIOUS
<1>1. <<data_win_rows, data_win_cols>> \in WindowSizes
  <2>1. PICK size \in WindowSizes : data_win_rows = size[1] /\ data_win_cols = size[2]
    BY DEF Init
  <2>2. <<size[1], size[2]>> = size
    BY WindowAssumption
  <2>3. QED BY <2>1, <2>2
<1>2. changed \in BOOLEAN /\ crashed \in BOOLEAN /\ paged_up \in BOOLEAN /\ changed /\ ~crashed
  BY Zenon DEF Init
<1>3. QED
  BY <1>1, <1>2, WindowAssumption DEF Init, ScrollInv, TypeOK, Positioned, NeverCrashes, NULL

(* What one display starts from and what it shows, together.               *)
LEMMA DisplayShows ==
  ASSUME ScrollInv, NEW key, display_lines(key)
  PROVE  \E b \in Displays :
           /\ Shown(b) /\ RightToLineEnd(b) /\ NumberToLastPage(b)
           /\ ~changed => b.row = scroll_row
           /\ changed => b.lines = Lines(text') /\ b.line = 1 /\ b.row = 1 /\ b.col = 0
           /\ ~changed => b.rows = rows /\ b.max = max_chars /\ b.col = scroll_col_offset
           /\ ~changed /\ ~paged_up => b.line = curr_line
           /\ changed \/ ~paged_up => DownToLastPage(b)
           /\ ~paged_up' => OnLine(b)
<1> DEFINE b == Placed(List(text'))
<1>1. ~crashed /\ Switch(b, key)
  BY DEF display_lines
<1>2. changed => text' \in Seq(Nat) \ {<<>>}
  BY WindowAssumption DEF display_lines
<1>3. /\ b \in Displays
      /\ b.line \in 1 .. b.rows
      /\ changed => b.lines = Lines(text') /\ b.line = 1 /\ b.row = 1 /\ b.col = 0
      /\ ~changed => b.rows = rows /\ b.max = max_chars /\ b.col = scroll_col_offset
      /\ ~changed => b.row = scroll_row
      /\ ~changed /\ ~paged_up => b.line = curr_line
      /\ changed \/ ~paged_up => b.row = b.line
  BY <1>1, <1>2, PlacedOnList
<1> HIDE DEF b
<1>4. /\ Shown(b) /\ RightToLineEnd(b) /\ NumberToLastPage(b)
      /\ Places(key) \/ (b.row = b.line /\ key # "ppage") => OnLine(b)
      /\ b.row = b.line => DownToLastPage(b)
  BY <1>1, <1>3, SwitchShows, WindowSize DEF ScrollInv
<1>5. ~paged_up' => key # "ppage" /\ (~paged_up \/ changed \/ Places(key))
  BY DEF display_lines
<1>6. QED BY <1>3, <1>4, <1>5

(* Every step preserves ScrollInv.                                         *)
LEMMA NextPreservesScrollInv == ScrollInv /\ [Next]_vars => ScrollInv'
<1> SUFFICES ASSUME ScrollInv, [Next]_vars PROVE ScrollInv'
  OBVIOUS
<1> USE DEF ScrollInv, TypeOK, Positioned, NeverCrashes, TextWrapped, list, position, window
<1>1. ASSUME NEW key, display_lines(key) PROVE ScrollInv'
  <2>1. PICK b \in Displays : Shown(b) /\ (~paged_up' => OnLine(b))
    BY <1>1, DisplayShows
  <2>2. b.lines \in SUBSET [of : Nat \ {0}, from : Nat, len : Nat \ {0}] /\ b.rows \in Nat \ {0} /\ b.max \in Nat
    BY DEF Displays
  <2>3. text' \in Texts \cup {<<>>} /\ head_line' = "list"
    BY <1>1 DEF display_lines
  <2>4. paged_up' \in BOOLEAN /\ changed' \in BOOLEAN /\ ~changed'
    BY <1>1, Zenon DEF display_lines
  <2>5. UNCHANGED <<code, data_win_rows, data_win_cols>>
    BY <1>1 DEF display_lines
  <2>6. QED BY <2>1, <2>2, <2>3, <2>4, <2>5 DEF Shown, OnLine
<1>2. CASE FreeGarbage
  <2>1. crashed' \in BOOLEAN
    BY <1>2, Zenon DEF FreeGarbage
  <2>2. QED BY <1>2, <2>1 DEF FreeGarbage
<1>3. CASE SplitForever
  <2>1. crashed' \in BOOLEAN
    BY <1>3, Zenon DEF SplitForever
  <2>2. TextWrapped /\ data_win_cols = 1
    BY <1>3, WindowSize DEF SplitForever, NeverAdvances, Step
  <2>3. QED BY <1>3, <2>1, <2>2 DEF SplitForever
<1>4. CASE NewData
  <2>1. changed' \in BOOLEAN
    BY <1>4, Zenon DEF NewData
  <2>2. QED BY <1>4, <2>1 DEF NewData
<1>5. CASE RenderLayout
  <2>1. <<data_win_rows, data_win_cols>>' \in WindowSizes
    <3>1. PICK size \in WindowSizes : data_win_rows' = size[1] /\ data_win_cols' = size[2]
      BY <1>5 DEF RenderLayout
    <3>2. <<size[1], size[2]>> = size
      BY WindowAssumption
    <3>3. QED BY <3>1, <3>2
  <2>2. QED BY <1>5, <2>1 DEF RenderLayout
<1>6. CASE UNCHANGED vars
  BY <1>6 DEF vars
<1>7. QED
  BY <1>1, <1>2, <1>3, <1>4, <1>5, <1>6 DEF Next, SelectKey, UpdateWindow

(* The invariant holds in every reachable state of a window.               *)
THEOREM ScrollInvariant == Spec => []ScrollInv
BY InitEstablishesScrollInv, NextPreservesScrollInv, PTL DEF Spec

(* The types: the position stays within the list, whatever it holds.       *)
THEOREM ScrollTypeCorrect == Spec => []TypeOK
BY ScrollInvariant, PTL DEF ScrollInv

(* No display follows a pointer off the list, for every text, key sequence *)
(* and change of layout, but after a page up, from a head_line never       *)
(* written, or in a window of one column that wraps.                       *)
THEOREM NoDisplayCrashes == Spec => []NeverCrashes
BY ScrollInvariant, PTL DEF ScrollInv

(* scroll_row is the number of the line curr_line points to.               *)
THEOREM RowIsLine == Spec => []RowMatchesLine
<1>1. ScrollInv => RowMatchesLine
  BY DEF ScrollInv, Positioned, RowMatchesLine
<1>2. QED BY <1>1, ScrollInvariant, PTL

-----------------------------------------------------------------------------
(* What a step may not do.                                                 *)

(* One step.                                                               *)
LEMMA StepStopsAtEnds ==
  ASSUME ScrollInv, [Next]_vars
  PROVE  /\ rows' = rows /\ data_win_rows' = data_win_rows =>
              LET last_page == Max({1, rows - data_win_rows + 1}) IN
              /\ scroll_row' > scroll_row => scroll_row' <= last_page
              /\ curr_line' > curr_line /\ ~paged_up => curr_line' <= last_page
         /\ scroll_col_offset' > scroll_col_offset =>
              /\ ~TextWrapped
              /\ scroll_col_offset' + data_win_cols - LineNumLen([rows |-> rows']) <= max_chars'
<1> USE DEF ScrollInv, TypeOK
<1>1. ASSUME NEW key, display_lines(key)
      PROVE  /\ rows' = rows =>
                  /\ scroll_row' > scroll_row => scroll_row' <= Max({1, rows - data_win_rows + 1})
                  /\ curr_line' > curr_line /\ ~paged_up =>
                       curr_line' <= Max({1, rows - data_win_rows + 1})
             /\ scroll_col_offset' > scroll_col_offset =>
                  /\ ~TextWrapped
                  /\ scroll_col_offset' + data_win_cols - LineNumLen([rows |-> rows']) <= max_chars'
  <2>1. PICK b \in Displays :
           /\ Shown(b) /\ RightToLineEnd(b) /\ NumberToLastPage(b)
           /\ changed => b.line = 1 /\ b.row = 1 /\ b.col = 0
           /\ ~changed => b.row = scroll_row /\ b.col = scroll_col_offset
           /\ ~changed /\ ~paged_up => b.line = curr_line
           /\ changed \/ ~paged_up => DownToLastPage(b)
    BY <1>1, DisplayShows
  <2>2. /\ b.rows \in Nat \ {0} /\ rows' = b.rows /\ max_chars' = b.max
        /\ curr_line' \in Nat /\ scroll_col_offset' \in Nat /\ data_win_rows \in Nat \ {0}
        /\ curr_line \in Nat /\ scroll_col_offset \in Nat
        /\ scroll_row \in Int /\ scroll_row' \in Int
    BY <2>1, WindowSize DEF Displays, Shown
  <2>3. LineNumLen([rows |-> rows']) = LineNumLen(b)
    BY <2>2 DEF LineNumLen
  <2>4. rows' = rows => LastPage(b) = Max({1, rows - data_win_rows + 1})
    BY <2>2, MaxOfTwo DEF LastPage
  <2>5. LastPage(b) \in Nat \ {0}
    BY <2>2 DEF LastPage
  <2>6. ASSUME rows' = rows, curr_line' > curr_line, ~paged_up
        PROVE  curr_line' <= LastPage(b)
    BY <2>1, <2>2, <2>5, <2>6 DEF DownToLastPage
  <2>7. ASSUME scroll_col_offset' > scroll_col_offset
        PROVE  scroll_col_offset' > b.col
    BY <2>1, <2>2, <2>7
  <2>8. ASSUME rows' = rows, scroll_row' > scroll_row PROVE scroll_row' <= LastPage(b)
    <3>1. CASE changed
      BY <2>1, <2>2, <2>5, <3>1 DEF NumberToLastPage
    <3>2. CASE ~changed
      BY <2>1, <2>8, <3>2 DEF NumberToLastPage
    <3>3. QED BY <3>1, <3>2
  <2>9. QED BY <2>1, <2>2, <2>3, <2>4, <2>6, <2>7, <2>8 DEF RightToLineEnd
<1>2. CASE UNCHANGED <<scroll_row, curr_line, scroll_col_offset>>
  BY <1>2
<1>3. QED
  BY <1>1, <1>2 DEF Next, SelectKey, UpdateWindow, FreeGarbage, SplitForever, NewData, RenderLayout,
     vars, position

(* Going forward, the number stops at the last page and the column at the  *)
(* end of the longest line, always; the line shown stops at the last page  *)
(* unless the window was paged up.                                         *)
THEOREM ScrollingStopsAtEnds == Spec => StopsAtEnds
BY ScrollInvariant, StepStopsAtEnds, PTL DEF Spec, StopsAtEnds

(* The turn of the loop that a character of a line falls into.             *)
LEMMA TurnOfCharacter ==
  ASSUME NEW s \in Nat \ {0}, NEW n \in Nat
  PROVE  \E k \in Nat : k <= n /\ k * s <= n /\ n < (k + 1) * s
<1> DEFINE Beyond == {k \in Nat : n < (k + 1) * s}
<1>1. n < (n + 1) * s
  BY SMT
<1>2. n \in Beyond
  BY <1>1
<1>3. PICK k \in Beyond : \A m \in Beyond : k <= m
  BY <1>2, LeastNumber
<1>4. k \in Nat /\ k <= n /\ n < (k + 1) * s
  BY <1>2, <1>3
<1>5. k * s <= n
  <2>1. CASE k = 0
    BY <2>1
  <2>2. CASE k # 0
    <3>1. k - 1 \in Nat /\ k - 1 \notin Beyond
      BY <1>3, <1>4, <2>2
    <3>2. ~(n < ((k - 1) + 1) * s)
      BY <3>1
    <3>3. (k - 1) + 1 = k /\ k * s \in Nat
      BY <1>4
    <3>4. QED BY <3>2, <3>3
  <2>3. QED BY <2>1, <2>2
<1>6. QED BY <1>4, <1>5

(* The line m follows the line l in the list of text t.                    *)
FollowsIn(t, l, m) ==
  \/ m.of = l.of + 1 /\ m.from = 0 /\ l.from + l.len = t[l.of] + 1
  \/ m.of = l.of /\ m.from = l.from + l.len - 1

(* A list of wrapped lines shows every character in rows of the window's   *)
(* width, each beginning where the one before ends.                        *)
LEMMA WrappedLines ==
  ASSUME NEW t \in Seq(Nat) \ {<<>>}, data_win_cols \in Nat \ {0}, ~NeverAdvances(t), TextWrapped
  PROVE  /\ \A i \in 1 .. Len(t) : \A j \in 1 .. t[i] :
              \E l \in Lines(t) : l.of = i /\ l.from < j /\ j <= l.from + l.len
         /\ \A l \in Lines(t) : l.len <= data_win_cols
         /\ \A l \in Lines(t) :
              \/ l = [of |-> Len(t), from |-> l.from, len |-> t[Len(t)] - l.from + 1]
              \/ \E m \in Lines(t) : FollowsIn(t, l, m)
<1>1. Len(t) \in Nat /\ Step \in Nat /\ Step + 1 = data_win_cols
  BY LenProperties DEF Step
<1>2. \A i \in 1 .. Len(t) : t[i] \in Nat
  OBVIOUS
<1>3. \A i \in 1 .. Len(t) : t[i] > 0 => Step # 0
  BY DEF NeverAdvances
<1>4. \A l : l \in Lines(t) <=> \E i \in 1 .. Len(t) : \E k \in Turns(t, i) : l = Part(t, i, k)
  BY DEF Lines, Turns
<1>5. ASSUME NEW i \in 1 .. Len(t), NEW k \in Turns(t, i)
      PROVE  /\ Part(t, i, k).of = i /\ Part(t, i, k).from = k * Step /\ k * Step \in Nat
             /\ Part(t, i, k).len = IF Step <= t[i] - k * Step THEN Step + 1 ELSE t[i] - k * Step + 1
             /\ Part(t, i, k) \in [of : Nat \ {0}, from : Nat, len : Nat \ {0}]
  <2>1. k \in Nat /\ (k = 0 \/ k * Step < t[i])
    BY DEF Turns
  <2>2. QED BY <1>1, <2>1, PartOfLine
<1>6. ASSUME NEW i \in 1 .. Len(t), NEW j \in 1 .. t[i]
      PROVE  \E l \in Lines(t) : l.of = i /\ l.from < j /\ j <= l.from + l.len
  <2>1. t[i] \in Nat /\ j - 1 \in Nat /\ j \in Nat /\ Step \in Nat \ {0}
    BY <1>1, <1>2, <1>3
  <2>2. PICK k \in Nat : k <= j - 1 /\ k * Step <= j - 1 /\ j - 1 < (k + 1) * Step
    BY <2>1, TurnOfCharacter
  <2>3. k * Step \in Nat /\ (k + 1) * Step = k * Step + Step
    BY <2>1, <2>2
  <2>4. k * Step < t[i] /\ k \in 0 .. t[i]
    BY <2>1, <2>2, <2>3
  <2>5. k \in Turns(t, i)
    BY <2>4 DEF Turns
  <2>6. /\ Part(t, i, k) \in Lines(t)
        /\ Part(t, i, k).of = i /\ Part(t, i, k).from = k * Step
        /\ Part(t, i, k).len = IF Step <= t[i] - k * Step THEN Step + 1 ELSE t[i] - k * Step + 1
    BY <1>4, <1>5, <2>5
  <2>7. k * Step < j /\ j <= k * Step + Part(t, i, k).len
    BY <2>1, <2>2, <2>3, <2>6
  <2>8. QED BY <2>6, <2>7
<1>7. ASSUME NEW l \in Lines(t) PROVE l.len <= data_win_cols
  <2>0. PICK i \in 1 .. Len(t) : \E k \in Turns(t, i) : l = Part(t, i, k)
    BY <1>4
  <2>1. PICK k \in Turns(t, i) : l = Part(t, i, k)
    BY <2>0
  <2>2. t[i] \in Nat
    BY <1>2
  <2>3. QED BY <1>1, <1>5, <2>1, <2>2
<1>8. ASSUME NEW l \in Lines(t)
      PROVE  \/ l = [of |-> Len(t), from |-> l.from, len |-> t[Len(t)] - l.from + 1]
             \/ \E m \in Lines(t) : FollowsIn(t, l, m)
  <2>0. PICK i \in 1 .. Len(t) : \E k \in Turns(t, i) : l = Part(t, i, k)
    BY <1>4
  <2>1. PICK k \in Turns(t, i) : l = Part(t, i, k)
    BY <2>0
  <2>2. /\ l.of = i /\ l.from = k * Step /\ k * Step \in Nat /\ t[i] \in Nat /\ k \in Nat
        /\ l.len = IF Step <= t[i] - k * Step THEN Step + 1 ELSE t[i] - k * Step + 1
        /\ l \in [of : Nat \ {0}, from : Nat, len : Nat \ {0}]
    BY <1>2, <1>5, <2>1 DEF Turns
  <2>3. CASE Step < t[i] - k * Step
    <3>1. Step \in Nat \ {0}
      BY <1>1, <1>3, <2>2, <2>3
    <3>2. (k + 1) * Step = k * Step + Step /\ k + 1 <= (k + 1) * Step
      BY <2>2, <3>1
    <3>3. k + 1 \in Turns(t, i)
      BY <2>2, <2>3, <3>1, <3>2 DEF Turns
    <3>4. Part(t, i, k + 1) \in Lines(t) /\ Part(t, i, k + 1).of = i
          /\ Part(t, i, k + 1).from = (k + 1) * Step
      BY <1>4, <1>5, <3>3
    <3>5. FollowsIn(t, l, Part(t, i, k + 1))
      <4>1. l.len = Step + 1
        BY <2>2, <2>3, <3>1
      <4>2. l.from + l.len - 1 = k * Step + Step
        BY SMTT(30), <2>2, <3>1, <4>1
      <4>3. QED BY <2>2, <3>2, <3>4, <4>2 DEF FollowsIn
    <3>6. QED BY <3>4, <3>5
  <2>4. CASE ~(Step < t[i] - k * Step)
    <3>1. l.len = t[i] - k * Step + 1
      BY SMTT(30), <1>1, <2>2, <2>4
    <3>2. CASE i = Len(t)
      <4>1. l = [of |-> l.of, from |-> l.from, len |-> l.len]
        BY <2>2
      <4>2. QED BY <2>2, <3>1, <3>2, <4>1
    <3>3. CASE i # Len(t)
      <4>1. i + 1 \in 1 .. Len(t)
        BY <1>1, <3>3
      <4>2. 0 \in Turns(t, i + 1) /\ 0 * Step = 0
        BY <1>1, <1>2, <4>1 DEF Turns
      <4>3. Part(t, i + 1, 0) \in Lines(t) /\ Part(t, i + 1, 0).of = i + 1 /\ Part(t, i + 1, 0).from = 0
        BY <1>4, <1>5, <4>1, <4>2
      <4>4. FollowsIn(t, l, Part(t, i + 1, 0))
        BY <2>2, <3>1, <4>3 DEF FollowsIn
      <4>5. QED BY <4>3, <4>4
    <3>4. QED BY <3>2, <3>3
  <2>5. QED BY <2>3, <2>4
<1>9. QED BY <1>6, <1>7, <1>8

(* So does a list of lines that do not wrap, a row for each.               *)
LEMMA UnwrappedLines ==
  ASSUME NEW t \in Seq(Nat) \ {<<>>}, ~TextWrapped
  PROVE  /\ \A i \in 1 .. Len(t) : \A j \in 1 .. t[i] :
              \E l \in Lines(t) : l.of = i /\ l.from < j /\ j <= l.from + l.len
         /\ \A l \in Lines(t) :
              \/ l = [of |-> Len(t), from |-> l.from, len |-> t[Len(t)] - l.from + 1]
              \/ \E m \in Lines(t) : FollowsIn(t, l, m)
<1> DEFINE Line(i) == [of |-> i, from |-> 0, len |-> t[i] + 1]
<1>1. Len(t) \in Nat /\ \A i \in 1 .. Len(t) : t[i] \in Nat
  BY LenProperties
<1>2. Lines(t) = {Line(i) : i \in 1 .. Len(t)}
  BY DEF Lines
<1>3. ASSUME NEW i \in 1 .. Len(t), NEW j \in 1 .. t[i]
      PROVE  \E l \in Lines(t) : l.of = i /\ l.from < j /\ j <= l.from + l.len
  <2>1. Line(i) \in Lines(t) /\ Line(i).of = i /\ Line(i).from < j /\ j <= Line(i).from + Line(i).len
    BY <1>1, <1>2
  <2>2. QED BY <2>1
<1>4. ASSUME NEW l \in Lines(t)
      PROVE  \/ l = [of |-> Len(t), from |-> l.from, len |-> t[Len(t)] - l.from + 1]
             \/ \E m \in Lines(t) : FollowsIn(t, l, m)
  <2>1. PICK i \in 1 .. Len(t) : l = Line(i)
    BY <1>2
  <2>2. CASE i = Len(t)
    BY <1>1, <2>1, <2>2
  <2>3. CASE i # Len(t)
    <3>1. Line(i + 1) \in Lines(t) /\ i + 1 \in 1 .. Len(t)
      BY <1>1, <1>2, <2>3
    <3>2. FollowsIn(t, l, Line(i + 1))
      BY <1>1, <2>1 DEF FollowsIn
    <3>3. QED BY <3>1, <3>2
  <2>4. QED BY <2>2, <2>3
<1>5. QED BY <1>3, <1>4

(* Splitting long lines loses no character of any text in a window of any  *)
(* width.                                                                  *)
THEOREM SplittingLosesNothing == Spec => WrapsText
<1>1. ASSUME ScrollInv, [Next]_vars, changed, ~changed'
      PROVE  /\ \A i \in 1 .. Len(text') : \A j \in 1 .. text'[i] :
                  \E l \in lines' : l.of = i /\ l.from < j /\ j <= l.from + l.len
             /\ \A l \in lines' : TextWrapped => l.len <= data_win_cols
             /\ \A l \in lines' : l = [of |-> Len(text'), from |-> l.from, len |-> text'[Len(text')] - l.from + 1]
                                   \/ \E m \in lines' : Follows(l, m)
  <2>1. PICK key : display_lines(key)
    BY <1>1 DEF Next, SelectKey, UpdateWindow, FreeGarbage, SplitForever, NewData, RenderLayout, vars
  <2>2. text' \in Seq(Nat) \ {<<>>} /\ ~NeverAdvances(text')
    BY <1>1, <2>1, WindowAssumption DEF display_lines
  <2>3. lines' = Lines(text')
    BY <1>1, <2>1, DisplayShows DEF Shown
  <2>4. data_win_cols \in Nat \ {0}
    BY <1>1, WindowSize DEF ScrollInv
  <2>5. \A l, m : Follows(l, m) <=> FollowsIn(text', l, m)
    BY DEF Follows, FollowsIn
  <2> HIDE DEF Follows
  <2>6. CASE TextWrapped
    BY <2>2, <2>3, <2>4, <2>5, <2>6, WrappedLines
  <2>7. CASE ~TextWrapped
    BY <2>2, <2>3, <2>5, <2>7, UnwrappedLines
  <2>8. QED BY <2>6, <2>7
<1>2. QED
  BY <1>1, ScrollInvariant, PTL DEF Spec, WrapsText
=============================================================================
