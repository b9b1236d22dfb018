------------------------------ MODULE FeedCopy ------------------------------
(***************************************************************************)
(* What an incremental connector promises, whatever protocol it speaks.  A *)
(* remote feed offers records one after the other, a new one sometimes     *)
(* replacing an older one; a local store takes copies; a durable cursor    *)
(* claims that some records need never be asked for again.  The cursor may *)
(* fall back, which costs a repeated page, but it never claims a current   *)
(* record the store does not hold.  TaxiiSync and OpenCtiSync are shown to *)
(* implement this module.                                                  *)
(***************************************************************************)
CONSTANT Records    \* everything the feed will ever offer

VARIABLES
  offered,          \* the records the feed has offered
  current,          \* those of them no later record replaces
  stored,           \* the records the store has taken
  claimed           \* the records no request from the cursor returns again

copyVars == <<offered, current, stored, claimed>>

Init ==
  /\ offered = {}
  /\ current = {}
  /\ stored = {}
  /\ claimed = {}

(* A new record lies beyond the cursor: one offered behind it is lost      *)
(* without an error.                                                       *)
Offer(r, replaced) ==
  /\ r \notin offered
  /\ r \notin claimed
  /\ offered' = offered \union {r}
  /\ current' = (current \ replaced) \union {r}
  /\ UNCHANGED <<stored, claimed>>

(* The records of one page are committed to the store.                     *)
Copy(page) ==
  /\ stored' = stored \union page
  /\ UNCHANGED <<offered, current, claimed>>

(* The cursor is written.                                                  *)
Claim(behind) ==
  /\ behind \intersect current \subseteq stored
  /\ claimed' = behind
  /\ UNCHANGED <<offered, current, stored>>

Next ==
  \/ \E r \in Records, replaced \in SUBSET current : Offer(r, replaced)
  \/ \E page \in SUBSET offered : Copy(page)
  \/ \E behind \in SUBSET Records : Claim(behind)

Spec == Init /\ [][Next]_copyVars
=============================================================================
