---------------------------- MODULE MCCharBuffer ----------------------------
(***************************************************************************)
(* CharBuffer with a buffer of two characters that doubles twice, to eight:*)
(* eleven characters fill it, double it twice and loop it back.            *)
(***************************************************************************)
EXTENDS CharBuffer

CONSTANTS a, b
=============================================================================
