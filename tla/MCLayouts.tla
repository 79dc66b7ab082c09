------------------------------ MODULE MCLayouts ------------------------------
(***************************************************************************)
(* A table of five codes, four of whose plugins have a window and two a    *)
(* topbar, and five families of files: command lines; any two lines of     *)
(* bindings; any short art, and some of the length of the buffer; any      *)
(* matrix of up to four cells, and of two by three or three by two that    *)
(* begin and end with two given keys; and two or three layouts to switch   *)
(* between.                                                                *)
(***************************************************************************)
EXTENDS Layouts

b == "b"  p == "p"  s == "s"  z == "z"
MCKeys == {b, p, s, z}
MCTable == <<2, 4, 6, 8, 10>>
MCTitleLength == [i \in 1 .. 5 |-> i]

Bind(c, k) == [code |-> c, key |-> k]
Bindings(lines) == [section |-> "plugins", bindings |-> lines]
Layout(l, h, a) == [section |-> "layout", label |-> l, header |-> h, art |-> a]

(* z is bound to a plugin that has no window.                              *)
Usual == Bindings(<<Bind(2, b), Bind(6, p), Bind(8, s), Bind(4, z)>>)

BindingFiles ==
  {<<Layout("one", <<>>, <<b, Newline>>), Bindings(l)>> :
     l \in [1 .. 2 -> [code : 1 .. 11, key : {b, p}]]}

(* Command lines of up to five characters, behind a comment or not.        *)
CommandFiles ==
  LET texts == UNION {[1 .. n -> {"g", "x", " "}] : n \in 0 .. 5}
               \cup {<<"g", " ", "p">>, <<"x", " ", "p", " ", "g">>, <<"g", "-", " ", "p">>}
  IN {<<[section |-> "command", text |-> before \o t \o <<Newline>>],
        Layout("one", <<>>, <<b, Newline>>)>> : before \in {<<>>, <<"#", "g", Newline>>}, t \in texts}

Draw(m) == [i \in 1 .. Len(m) * (Len(m[1]) + 1) |->
  LET r == ((i - 1) \div (Len(m[1]) + 1)) + 1  c == ((i - 1) % (Len(m[1]) + 1)) + 1
  IN IF c > Len(m[1]) THEN Newline ELSE m[r][c]]

ArtFiles ==
  LET short == UNION {[1 .. n -> {b, p, Newline, "#"}] : n \in 0 .. 5}
      long  == {[i \in 1 .. n |-> IF i % 5 = 0 THEN Newline ELSE b] : n \in 12 .. 16}
  IN {<<Usual, Layout("one", <<>>, a)>> : a \in short \cup long}

Matrices(rows, cols, keys) == [1 .. rows -> [1 .. cols -> keys]]
MatrixFiles ==
  {<<Usual, Layout("one", <<p, Newline>>, Draw(m))>> :
     m \in UNION {Matrices(1, 3, {b, p, s}), Matrices(2, 2, {b, p, s}), Matrices(3, 1, {b, p, s}),
                  {w \in Matrices(2, 3, {b, p, s}) : w[1][1] = b /\ w[2][3] = s},
                  {w \in Matrices(3, 2, {b, p, s}) : w[1][1] = p /\ w[3][2] = s},
                  Matrices(1, 1, MCKeys), Matrices(1, 4, {b, p})}}

SwitchFiles ==
  LET one == <<<<b, p>>>>  two == <<<<s>>, <<p>>>>  three == <<<<s, s>>, <<b, p>>>>
  IN {<<Usual, Layout("one", <<>>, Draw(first)), Layout("two", h, Draw(second))>> :
        first \in {one, two, three}, second \in {one, two, three},
        h \in {<<>>, <<p, p, s, Newline, b, Newline>>, <<z, b, Newline, z>>, <<z, p, p, Newline>>}}
     \cup
     {<<Usual, Layout("one", <<>>, Draw(one)), Layout("two", <<p, Newline, z>>, Draw(two)),
        Layout(l, <<s, Newline>>, Draw(three))>> : l \in {"two", "three"}}

MCCommandLetters == {"g", "p", "x"}
MCDebuggers == <<<<"g">>, <<"p">>>>
MCFiles == CommandFiles \cup BindingFiles \cup ArtFiles \cup MatrixFiles \cup SwitchFiles
MCScreens == {[rows |-> 6, cols |-> 13], [rows |-> 15, cols |-> 20]}
=============================================================================
