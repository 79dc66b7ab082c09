---------------------------- MODULE MCWindowData ----------------------------
(***************************************************************************)
(* Two places in two files and two functions; one plugin of each kind (Prm *)
(* and Unt move the program as Con, Fin, Nxt and Stp do).                  *)
(***************************************************************************)
EXTENDS WindowData, TLC

CONSTANTS in_main, in_helper, main_c, helper_c, main_fn, helper_fn

MCPlaces == {in_main, in_helper}
MCFile == in_main :> main_c @@ in_helper :> helper_c
MCFunc == in_main :> main_fn @@ in_helper :> helper_fn
MCErrorWord == {"LcV", "Stk", "Reg"} \X {in_helper}
MCModuleLevel == {in_main}
MCLength == in_main :> 1 @@ in_helper :> 3
MCOutputs == {<<"output", "output">>, <<"error", "error">>}
=============================================================================
