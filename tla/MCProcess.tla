------------------------------ MODULE MCProcess ------------------------------
(***************************************************************************)
(* Instances of Process for TLC.                                           *)
(***************************************************************************)
EXTENDS Process, TLC

\* Threads other than the menu are interchangeable.
ProcessSymmetry == Permutations(Threads \ {Boot})
==============================================================================
