------------------------------- MODULE Absence -------------------------------
(***************************************************************************)
(* What an Option holds when it holds nothing.                             *)
(***************************************************************************)
CONSTANT None   \* a model value: unequal to every other
=============================================================================
