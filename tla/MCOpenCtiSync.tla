--------------------------- MODULE MCOpenCtiSync ----------------------------
(***************************************************************************)
(* Small instances for OpenCtiSync.                                        *)
(***************************************************************************)
EXTENDS OpenCtiSync, TLC

CONSTANTS r1, r2

(* Three versions of two objects: the third version updates the first     *)
(* object.  The first has no updated_at that can be a mark, the second's   *)
(* is later than its own `modified`, and the third's takes the mark back   *)
(* to before the second, which is then listed again.                       *)
DistinctModified == <<1, 3, 5>>
SeparateUpdated  == <<0, 4, 2>>
UpdateReplaces   == <<0, 0, 1>>

(* Two objects written in the same millisecond, as one bulk import does;   *)
(* here updated_at is `modified`.                                          *)
TiedModified == <<1, 1, 2>>
NoReplaces   == <<0, 0, 0>>
=============================================================================
