------------------------------ MODULE MCConsole ------------------------------
(***************************************************************************)
(* Two characters with a newline are written; one key or two are typed.    *)
(***************************************************************************)
EXTENDS Console

MCLines == { <<"x", "nl">> }
OneKey == <<"cr">>
TwoKeys == <<"x", "cr">>
==============================================================================
