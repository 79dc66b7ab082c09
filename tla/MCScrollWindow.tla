--------------------------- MODULE MCScrollWindow ---------------------------
(***************************************************************************)
(* A window in two layouts and in one of a single column, over up to ten   *)
(* lines: three times the smaller window, and a line number of two digits; *)
(* and lines that are split in two or three rows, or just not.  One window *)
(* of every kind: Src numbers its lines, Src, Asm and Reg do not wrap      *)
(* theirs, and an update shows the program's line in Src and Asm, the end  *)
(* in Dbg and the beginning in Reg.                                        *)
(***************************************************************************)
EXTENDS ScrollWindow

MCWindowSizes == {<<3, 4>>, <<5, 6>>, <<4, 1>>}
MCTexts ==
  {[i \in 1 .. n |-> 0] : n \in 1 .. 10} \cup {<<3>>, <<4>>, <<4, 0, 0>>, <<0, 4, 0, 4, 0>>}
  \cup {[i \in 1 .. 2 |-> IF i = 1 THEN k ELSE n] : k \in {3, 6, 7}, n \in {1, 4, 5}}
=============================================================================
