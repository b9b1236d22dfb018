---------------------------- MODULE OpenCtiSync -----------------------------
(***************************************************************************)
(* The OpenCTI poll: sync_opencti in brolga-connectors/src/sync.rs with    *)
(* the query it sends (OpenCtiClient::page), against an instance whose     *)
(* objects keep being created and updated.                                 *)
(*                                                                         *)
(* Every creation or update is a version 1, 2, ... in the order in which   *)
(* the instance's index shows it; an update replaces the version before.   *)
(* A page holds current versions modified strictly after `since` and       *)
(* beyond the GraphQL cursor `after`, in order of modification.  The mark  *)
(* that becomes the next `since` is read from another field, updated_at.   *)
(***************************************************************************)
EXTENDS Naturals, FiniteSets

CONSTANTS
  NumVersions,    \* how many versions the instance will ever show
  MaxTime,        \* the last timestamp; 0 stands for "no timestamp"
  Modified,       \* each version's `modified`: the filter and the order
  Updated,        \* its `updated_at`, 0 for none or one not ending in Z
  Replaces,       \* the version an update replaces, 0 for a new object
  Unrenderable,   \* versions whose toStix is not STIX
  OverclaimsMore, \* whether hasNextPage may be claimed at the end
  Runners, PageSize, MaxPages, MaxFaults

Versions == 1..NumVersions
Stamps   == 0..MaxTime

ASSUME ConstantsAssumption ==
  /\ NumVersions \in Nat /\ MaxTime \in Nat /\ MaxFaults \in Nat
  /\ PageSize \in Nat \ {0} /\ MaxPages \in Nat
  /\ Modified \in [Versions -> Stamps \ {0}]
  /\ Updated \in [Versions -> Stamps]
  /\ Replaces \in [Versions -> 0..NumVersions]
  /\ Unrenderable \subseteq Versions
  /\ OverclaimsMore \in BOOLEAN

(* The query orders by `modified`, so a listing is in that order.  That    *)
(* versions also become visible in it is assumed of the instance: one      *)
(* shown late, behind a mark already taken, is out of this model.          *)
ASSUME OrderAssumption ==
  \A i, j \in Versions : i <= j => Modified[i] <= Modified[j]

(* An update replaces a version the index has shown before it.             *)
ASSUME ReplacesAssumption == \A i \in Versions : Replaces[i] < i

VARIABLES
  published,     \* versions 1..published are visible
  stored,        \* versions the evidence store holds
  skipped,       \* unrenderable versions of the pages that were ingested
  cursor,        \* the durable connector cursor of this instance
  pc, local, after, pages, answer, cancelled,   \* each run, as TaxiiSync's
  report,        \* what the last run returned to its caller
  faults

storeVars  == <<stored, skipped, cursor>>
vars == <<published, storeVars, pc, local, after, pages, answer, cancelled,
          report, faults>>

-----------------------------------------------------------------------------
Statuses == {"complete", "partial", "failed"}
Cursors  == [since : Stamps, status : Statuses]
Starting == [since |-> 0, status |-> "complete"]

(* OpenCtiPage, or the error in its place.  `end` is the GraphQL end       *)
(* cursor, 0 for none; upTo remembers what was visible at the answer.      *)
Answers  == [kind : {"none", "page", "error"}, objs : SUBSET Versions,
             newest : Stamps, end : 0..NumVersions, more : BOOLEAN,
             upTo : 0..NumVersions]
NoAnswer == [kind |-> "none", objs |-> {}, newest |-> 0, end |-> 0,
             more |-> FALSE, upTo |-> 0]

Reports   == [result : {"none", "error"} \union Statuses,
              upTo : 0..NumVersions]
NoReport  == [result |-> "none", upTo |-> 0]
ErrReport == [result |-> "error", upTo |-> 0]

Fault == faults < MaxFaults /\ faults' = faults + 1

-----------------------------------------------------------------------------
(* The instance (external).                                                *)

Current == {i \in 1..published : \A j \in 1..published : Replaces[j] # i}

Eligible(since, token) == {i \in Current : Modified[i] > since /\ i > token}

(* What no query with this `since` returns, whatever its `after`.          *)
Behind(since) == {i \in Versions : Modified[i] <= since}

Publish ==
  /\ published < NumVersions
  /\ published' = published + 1
  /\ UNCHANGED <<storeVars, pc, local, after, pages, answer, cancelled,
                 report, faults>>

(* The first versions of the listing; `more` is never denied with          *)
(* something left.                                                         *)
IsPage(objs, eligible, more) ==
  /\ \A i \in objs : \A j \in eligible : j <= i => j \in objs
  /\ Cardinality(objs) <= PageSize
  /\ objs = {} => eligible = {}
  /\ ~more => objs = eligible
  /\ objs = eligible => ~more \/ OverclaimsMore

-----------------------------------------------------------------------------
Forget(r) ==
  /\ pc' = [pc EXCEPT ![r] = "idle"]
  /\ local' = [local EXCEPT ![r] = Starting]
  /\ after' = [after EXCEPT ![r] = 0]
  /\ pages' = [pages EXCEPT ![r] = 0]
  /\ answer' = [answer EXCEPT ![r] = NoAnswer]
  /\ cancelled' = [cancelled EXCEPT ![r] = FALSE]

(* persist(..)? and `return Ok(report)`, or the storage error in its place *)
ReturnOk(r, c, upTo) ==
  /\ Forget(r)
  /\ \/ /\ cursor' = c
        /\ report' = [report EXCEPT ![r] =
                        [result |-> c.status, upTo |-> upTo]]
        /\ UNCHANGED faults
     \/ /\ Fault
        /\ report' = [report EXCEPT ![r] = ErrReport]
        /\ UNCHANGED cursor

ReturnErr(r) ==
  /\ Forget(r)
  /\ report' = [report EXCEPT ![r] = ErrReport]

Start(r) ==
  /\ pc[r] = "idle"
  /\ pc' = [pc EXCEPT ![r] = "head"]
  /\ local' = [local EXCEPT ![r] = cursor]
  /\ report' = [report EXCEPT ![r] = NoReport]
  /\ UNCHANGED <<published, storeVars, after, pages, answer, cancelled,
                 faults>>

StopEarly(r) ==
  /\ pc[r] = "head"
  /\ cancelled[r] \/ pages[r] >= MaxPages
  /\ ReturnOk(r, [local[r] EXCEPT !.status = "partial"], 0)
  /\ UNCHANGED <<published, stored, skipped>>

(* client.page(..): the query carries both the high-water mark, which      *)
(* moved with the page before, and the cursor inside the result set.  The  *)
(* newest mark is the greatest updated_at of the page that can be used, if *)
(* there is one.  The end cursor is the last version's, or a server's      *)
(* mistake: none, or the one it was sent.                                  *)
AnswerTo(r) ==
  \/ LET eligible == Eligible(local[r].since, after[r]) IN
     \E objs \in SUBSET eligible, more \in BOOLEAN :
       /\ IsPage(objs, eligible, more)
       /\ \E newest \in {Updated[i] : i \in objs} \union {0},
             end \in objs \union {0, after[r]} :
            /\ \A i \in objs : Updated[i] <= newest
            /\ end \in objs => \A i \in objs : i <= end
            /\ answer' = [answer EXCEPT ![r] =
                 [kind |-> "page", objs |-> objs, newest |-> newest,
                  end |-> end, more |-> more, upTo |-> published]]
       /\ UNCHANGED faults
  \/ /\ Fault
     /\ answer' = [answer EXCEPT ![r] = [NoAnswer EXCEPT !.kind = "error"]]

Fetch(r) ==
  /\ pc[r] = "head"
  /\ ~cancelled[r]
  /\ pages[r] < MaxPages
  /\ AnswerTo(r)
  /\ pc' = [pc EXCEPT ![r] = "answered"]
  /\ UNCHANGED <<published, storeVars, local, after, pages, cancelled, report>>

OnFetchError(r) ==
  /\ pc[r] = "answered"
  /\ answer[r].kind = "error"
  /\ ReturnErr(r)
  /\ \/ cursor' = [local[r] EXCEPT !.status = "failed"] /\ UNCHANGED faults
     \/ Fault /\ UNCHANGED cursor
  /\ UNCHANGED <<published, stored, skipped>>

(* Mutant: an empty page that claims more is asked for again.              *)
OnEmptyPageAgain(r) ==
  /\ pc[r] = "answered"
  /\ answer[r].kind = "page"
  /\ answer[r].objs = {}
  /\ pc' = [pc EXCEPT ![r] = "head"]
  /\ UNCHANGED <<published, storeVars, local, after, pages, answer,
                 cancelled, report, faults>>

OnEmptyPage(r) ==
  /\ pc[r] = "answered"
  /\ answer[r].kind = "page"
  /\ answer[r].objs = {}
  /\ ReturnOk(r, [local[r] EXCEPT !.status = "complete"], answer[r].upTo)
  /\ UNCHANGED <<published, stored, skipped>>

(* The bundle holds what rendered; the rest is counted in the report.      *)
Unrendered(r) == answer[r].objs \intersect Unrenderable

IngestPage(r) ==
  /\ pc[r] = "answered"
  /\ answer[r].kind = "page"
  /\ answer[r].objs # {}
  /\ ~cancelled[r]
  /\ stored' = stored \union (answer[r].objs \ Unrenderable)
  /\ skipped' = skipped \union Unrendered(r)
  /\ pages' = [pages EXCEPT ![r] = @ + 1]
  /\ pc' = [pc EXCEPT ![r] = "ingested"]
  /\ UNCHANGED <<published, cursor, local, after, answer, cancelled, report,
                 faults>>

(* Mutant: a page that failed to import moves the cursor all the same.     *)
IngestFailsAhead(r) ==
  /\ pc[r] = "answered"
  /\ answer[r].kind = "page"
  /\ answer[r].objs # {}
  /\ ReturnErr(r)
  /\ Fault
  /\ cursor' = [since |-> answer[r].newest, status |-> "failed"]
  /\ UNCHANGED <<published, stored, skipped>>

IngestFails(r) ==
  /\ pc[r] = "answered"
  /\ answer[r].kind = "page"
  /\ answer[r].objs # {}
  /\ ReturnErr(r)
  /\ LET failed == [local[r] EXCEPT !.status = "failed"] IN
     \/ cancelled[r] /\ cursor' = failed /\ UNCHANGED faults
     \/ Fault /\ cursor' \in {cursor, failed}
  /\ UNCHANGED <<published, stored, skipped>>

(* Mutant: the mark never moves.                                           *)
AdvancedNowhere(r) ==
  [since  |-> local[r].since,
   status |-> IF answer[r].more THEN "partial" ELSE "complete"]

Advanced(r) ==
  [since  |-> IF answer[r].newest # 0 THEN answer[r].newest
              ELSE local[r].since,
   status |-> IF answer[r].more THEN "partial" ELSE "complete"]

(* Whether the server moved its cursor.                                    *)
Moved(r) == answer[r].end # 0 /\ answer[r].end # after[r]

AdvanceAndContinue(r) ==
  /\ pc[r] = "ingested"
  /\ answer[r].more
  /\ Moved(r)
  /\ cursor' = Advanced(r)
  /\ local' = [local EXCEPT ![r] = Advanced(r)]
  /\ after' = [after EXCEPT ![r] = answer[r].end]
  /\ answer' = [answer EXCEPT ![r] = NoAnswer]
  /\ pc' = [pc EXCEPT ![r] = "head"]
  /\ UNCHANGED <<published, stored, skipped, pages, cancelled, report,
                 faults>>

(* The last page, or a server that claims more without moving its cursor:  *)
(* the second write repeats the first with the same content.               *)
AdvanceAndReturn(r) ==
  /\ pc[r] = "ingested"
  /\ answer[r].more => ~Moved(r)
  /\ ReturnOk(r, Advanced(r), answer[r].upTo)
  /\ UNCHANGED <<published, stored, skipped>>

AdvanceFails(r) ==
  /\ pc[r] = "ingested"
  /\ answer[r].more
  /\ Fault
  /\ ReturnErr(r)
  /\ UNCHANGED <<published, storeVars>>

Cancel(r) ==
  /\ pc[r] # "idle"
  /\ ~cancelled[r]
  /\ Fault
  /\ cancelled' = [cancelled EXCEPT ![r] = TRUE]
  /\ UNCHANGED <<published, storeVars, pc, local, after, pages, answer,
                 report>>

Crash(r) ==
  /\ pc[r] # "idle"
  /\ Fault
  /\ Forget(r)
  /\ UNCHANGED <<published, storeVars, report>>

Init ==
  /\ published = 0
  /\ stored = {} /\ skipped = {}
  /\ cursor = Starting
  /\ pc = [r \in Runners |-> "idle"]
  /\ local = [r \in Runners |-> Starting]
  /\ after = [r \in Runners |-> 0]
  /\ pages = [r \in Runners |-> 0]
  /\ answer = [r \in Runners |-> NoAnswer]
  /\ cancelled = [r \in Runners |-> FALSE]
  /\ report = [r \in Runners |-> NoReport]
  /\ faults = 0

RunStep(r) ==
  \/ StopEarly(r) \/ Fetch(r) \/ OnFetchError(r) \/ OnEmptyPage(r)
  \/ IngestPage(r) \/ IngestFails(r)
  \/ AdvanceAndContinue(r) \/ AdvanceAndReturn(r) \/ AdvanceFails(r)

Next ==
  \/ Publish
  \/ \E r \in Runners : Start(r) \/ RunStep(r) \/ Cancel(r) \/ Crash(r)

Spec == Init /\ [][Next]_vars

FairSpec ==
  /\ Spec
  /\ WF_vars(Publish)
  /\ \A r \in Runners : WF_vars(RunStep(r)) /\ WF_vars(Start(r))

-----------------------------------------------------------------------------
TypeOK ==
  /\ published \in 0..NumVersions
  /\ stored \in SUBSET (1..published)
  /\ skipped \in SUBSET Unrenderable
  /\ cursor \in Cursors
  /\ pc \in [Runners -> {"idle", "head", "answered", "ingested"}]
  /\ local \in [Runners -> Cursors]
  /\ after \in [Runners -> 0..NumVersions]
  /\ pages \in [Runners -> 0..MaxPages]
  /\ answer \in [Runners -> Answers]
  /\ cancelled \in [Runners -> BOOLEAN]
  /\ report \in [Runners -> Reports]
  /\ faults \in 0..MaxFaults

(* What an instance must be like for a mark of one field and a strict      *)
(* filter on another to be sound: no version's updated_at reaches the      *)
(* `modified` of a later version.  Where the two fields are one it says    *)
(* that no two versions carry the same timestamp.                          *)
MarksSeparate ==
  \A i, j \in Versions : i < j => Updated[i] < Modified[j]

(* SyncReport::is_complete: nothing that was visible at the last answer    *)
(* and is still current is missing.                                        *)
CompleteCoversFeed ==
  \A r \in Runners :
    report[r].result = "complete" =>
      {i \in Current : i <= report[r].upTo} \subseteq stored \union skipped

(* The bound on pages, and the check on the server's cursor, end a run.    *)
EveryRunEnds ==
  \A r \in Runners : (pc[r] # "idle") ~> (pc[r] = "idle")

(* Runs that keep being started catch up with the instance.                *)
FeedCaughtUp == <>[](Current \subseteq stored \union skipped)

(* The poll implements the incremental copy of FeedCopy.                   *)
Copy == INSTANCE FeedCopy WITH
          Records <- Versions, offered <- 1..published, current <- Current,
          stored <- stored \union skipped, claimed <- Behind(cursor.since)
CopySpec == Copy!Spec
=============================================================================
