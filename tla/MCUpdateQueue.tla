--------------------------- MODULE MCUpdateQueue ---------------------------
(***************************************************************************)
(* Small instances of UpdateQueue: a queue of two or three slots makes     *)
(* wrap-around, full and empty all happen within one update_windows() call.*)
(***************************************************************************)
EXTENDS UpdateQueue

CONSTANTS Brk, Src, Wat

MCUpdates == {Brk, Src, Wat}

(* breakpoints.c asks for two windows, watchpoints.c for one.              *)
MCRequests == {<<Brk, Src>>, <<Wat>>}
=============================================================================
