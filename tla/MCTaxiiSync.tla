---------------------------- MODULE MCTaxiiSync -----------------------------
(***************************************************************************)
(* Small feeds for TaxiiSync.                                              *)
(***************************************************************************)
EXTENDS TaxiiSync, TLC

CONSTANTS r1, r2

(* Objects stamped by their producer before the server adds them; the      *)
(* second carries no timestamp the client can use.                         *)
LagAdded    == <<2, 4, 5>>
LagModified == <<1, 0, 4>>

(* Objects added the moment they are stamped.                              *)
PromptAdded    == <<1, 2, 3>>
PromptModified == <<1, 2, 3>>

ASSUME FeedAssumption == NoLateArrival
=============================================================================
