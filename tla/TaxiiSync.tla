----------------------------- MODULE TaxiiSync ------------------------------
(***************************************************************************)
(* The TAXII page loop: sync_collection in brolga-connectors/src/sync.rs   *)
(* with the client call it makes (TaxiiClient::objects) against a TAXII    *)
(* server that keeps publishing.                                           *)
(*                                                                         *)
(* A run loads the stored cursor, asks for a page, hands it to the         *)
(* ingestion pipeline, and writes the cursor in a transaction of its own.  *)
(* Several processes may run over one database at once (two invocations of *)
(* `brolga fetch` that overlap), a process may die between any two of      *)
(* those steps, and every request and every write may fail.                *)
(*                                                                         *)
(* The collection is the sequence 1, 2, ... in the order the server added  *)
(* the objects.  Object i was added at Added[i] and carries the `modified` *)
(* timestamp Modified[i] (0: none that the client can use).                *)
(***************************************************************************)
EXTENDS Naturals, FiniteSets

CONSTANTS
  NumObjects,    \* how many objects the server will ever add
  MaxTime,       \* the last timestamp; 0 stands for "no timestamp"
  Added,         \* when the server added each object
  Modified,      \* the timestamp each object carries
  Runners,       \* processes that may run the sync
  PageSize,      \* SyncOptions::page_size
  MaxPages,      \* SyncOptions::max_pages
  UseEtag,       \* SyncOptions::use_etag
  Version,       \* the negotiated TaxiiVersion, "V20" or "V21"
  TagScope,      \* what the server derives an ETag from: "none", "page"
                 \* (the response, as HTTP defines it) or "collection"
  NoTag,         \* Option::None for an entity tag
  OverclaimsMore,\* whether the server may claim `more` at the end
  MaxFaults      \* bound on failures, crashes and cancellations together

Objects == 1..NumObjects
Stamps  == 0..MaxTime

ASSUME ConstantsAssumption ==
  /\ NumObjects \in Nat /\ MaxTime \in Nat /\ MaxFaults \in Nat
  /\ PageSize \in Nat \ {0} /\ MaxPages \in Nat
  /\ Added \in [Objects -> Stamps \ {0}]
  /\ Modified \in [Objects -> Stamps]
  /\ UseEtag \in BOOLEAN /\ OverclaimsMore \in BOOLEAN
  /\ Version \in {"V20", "V21"}
  /\ TagScope \in {"none", "page", "collection"}

ASSUME NoTagAssumption ==
  NoTag \notin [objs : SUBSET Objects, more : BOOLEAN]

VARIABLES
  published,     \* the server holds objects 1..published
  stored,        \* objects the evidence store holds (or has quarantined)
  cursor,        \* the durable connector cursor of this collection
  pc,            \* where each run is: idle, head (of the loop), answered,
                 \* ingested (the page is committed, the cursor is not)
  local,         \* the run's own copy of the cursor
  next,          \* the run's continuation token
  tag,           \* the entity tag the run's next request will carry
  pages,         \* report.pages
  answer,        \* the response the run is handling
  cancelled,     \* the run's CancellationToken
  report,        \* what the last run returned to its caller
  faults         \* failures so far

serverVars == <<published>>
storeVars  == <<stored, cursor>>
runVars    == <<pc, local, next, tag, pages, answer, cancelled, report>>
vars       == <<serverVars, storeVars, runVars, faults>>

-----------------------------------------------------------------------------
Statuses == {"complete", "partial", "failed", "not_modified"}
Tags     == {NoTag} \union [objs : SUBSET Objects, more : BOOLEAN]

(* ConnectorCursor.  The token is the position of the last object already  *)
(* listed, 0 when there is none.                                           *)
Cursors == [after : Stamps, next : 0..NumObjects, tag : Tags,
            status : Statuses]

Starting == [after |-> 0, next |-> 0, tag |-> NoTag, status |-> "complete"]

(* The same position, recorded as ending in this status.                   *)
Ended(c, status) ==
  [after |-> c.after, next |-> c.next, tag |-> c.tag, status |-> status]

(* The answers of TaxiiClient::objects: Ok(Some(page)), Ok(None) for a 304 *)
(* and Err.  upTo is not in the response; it remembers what the collection *)
(* held when the server answered.                                          *)
Answers == [kind : {"none", "page", "not_modified", "error"},
            objs : SUBSET Objects, newest : Stamps, next : 0..NumObjects,
            more : BOOLEAN, tag : Tags, upTo : 0..NumObjects]

Bodiless(kind, upTo) ==
  [kind |-> kind, objs |-> {}, newest |-> 0, next |-> 0, more |-> FALSE,
   tag |-> NoTag, upTo |-> upTo]
NoAnswer == Bodiless("none", 0)

(* What sync_collection returns: Ok(report) with the status of its cursor, *)
(* or Err.  upTo is history: the collection at the last answer.            *)
(* and whether a cancellation is what ended the run.                       *)
Reports == [result : {"none", "error"} \union Statuses,
            upTo : 0..NumObjects]

NoReport == [result |-> "none", upTo |-> 0]
ErrReport == [result |-> "error", upTo |-> 0]

Fault == faults < MaxFaults /\ faults' = faults + 1

-----------------------------------------------------------------------------
(* The server (external).                                                  *)

(* What a request with this position may return: `added_after` keeps the   *)
(* objects added strictly later, the token continues after a position.     *)
Eligible(after, token) ==
  {i \in 1..published : Added[i] > after /\ i > token}

(* What no request with this position can return, now or later.            *)
Behind(after, token) == {i \in Objects : Added[i] <= after \/ i <= token}

(* newest_added_of: the newest usable timestamp of a page, 0 if none.      *)
IsNewestOf(t, objs) ==
  \/ objs = {} /\ t = 0
  \/ /\ \E i \in objs : Modified[i] = t
     /\ \A i \in objs : Modified[i] <= t

EtagOf(objs, more) ==
  CASE TagScope = "none"       -> NoTag
    [] TagScope = "page"       -> [objs |-> objs, more |-> more]
    [] TagScope = "collection" -> [objs |-> 1..published, more |-> FALSE]

(* A page: the first eligible objects in server order, at most PageSize of *)
(* them, none only when nothing is eligible.  One that denies `more` has  *)
(* listed everything.                                                      *)
IsPage(objs, eligible, more) ==
  /\ objs \subseteq eligible
  /\ \A i \in objs : \A j \in eligible : j <= i => j \in objs
  /\ Cardinality(objs) <= PageSize
  /\ objs = {} => eligible = {}
  /\ ~more => objs = eligible
  /\ objs = eligible => ~more \/ OverclaimsMore

Publish ==
  /\ published < NumObjects
  /\ published' = published + 1
  /\ UNCHANGED <<storeVars, runVars, faults>>

-----------------------------------------------------------------------------
(* The end of a run.  Its locals die with it.                              *)

Forget(r) ==
  /\ pc' = [pc EXCEPT ![r] = "idle"]
  /\ local' = [local EXCEPT ![r] = Starting]
  /\ next' = [next EXCEPT ![r] = 0]
  /\ tag' = [tag EXCEPT ![r] = NoTag]
  /\ pages' = [pages EXCEPT ![r] = 0]
  /\ answer' = [answer EXCEPT ![r] = NoAnswer]
  /\ cancelled' = [cancelled EXCEPT ![r] = FALSE]

(* persist(..)? and `return Ok(report)`, or the storage error in its place *)
ReturnOk(r, c, upTo) ==
  /\ Forget(r)
  /\ \/ /\ cursor' = c
        /\ report' = [report EXCEPT ![r] =
                        [result |-> c.status, upTo |-> upTo]]
        /\ UNCHANGED faults
     \/ /\ Fault
        /\ report' = [report EXCEPT ![r] = ErrReport]
        /\ UNCHANGED cursor

(* `let _ = persist(..)` and `return Err(..)`: the write is best effort.   *)
ReturnErr(r, c) ==
  /\ Forget(r)
  /\ report' = [report EXCEPT ![r] = ErrReport]
  /\ \/ cursor' = c /\ UNCHANGED faults
     \/ Fault /\ UNCHANGED cursor

-----------------------------------------------------------------------------
(* One run of sync_collection, a step per request and per transaction.     *)

Start(r) ==
  /\ pc[r] = "idle"
  /\ pc' = [pc EXCEPT ![r] = "head"]
  /\ local' = [local EXCEPT ![r] = cursor]
  /\ next' = [next EXCEPT ![r] = cursor.next]
  /\ tag' = [tag EXCEPT ![r] = IF UseEtag THEN cursor.tag ELSE NoTag]
  /\ report' = [report EXCEPT ![r] = NoReport]
  /\ UNCHANGED <<serverVars, storeVars, pages, answer, cancelled, faults>>

StopCancelled(r) ==
  /\ pc[r] = "head"
  /\ cancelled[r]
  /\ ReturnOk(r, Ended(local[r], "partial"), 0)
  /\ UNCHANGED <<serverVars, stored>>

(* Mutant: the bound forgets where in the collection it stopped.           *)
StopAtBoundUnplaced(r) ==
  /\ pc[r] = "head"
  /\ ~cancelled[r]
  /\ pages[r] >= MaxPages
  /\ ReturnOk(r, [after |-> local[r].after, next |-> 0,
                  tag |-> local[r].tag, status |-> "partial"], 0)
  /\ UNCHANGED <<serverVars, stored>>

StopAtBound(r) ==
  /\ pc[r] = "head"
  /\ ~cancelled[r]
  /\ pages[r] >= MaxPages
  /\ ReturnOk(r, [after |-> local[r].after, next |-> next[r],
                  tag |-> local[r].tag, status |-> "partial"], 0)
  /\ UNCHANGED <<serverVars, stored>>

(* client.objects(..): 2.1 sends the token and the limit, 2.0 neither (and *)
(* no range header), so a 2.0 page is positioned by added_after alone and  *)
(* carries no token.                                                       *)
SentToken(r) == IF Version = "V21" THEN next[r] ELSE 0

(* The token the server hands out: the last object's, where it has more.   *)
IsTokenOf(token, objs, more) ==
  IF Version = "V21" /\ more /\ objs # {}
  THEN token \in objs /\ \A i \in objs : i <= token
  ELSE token = 0

(* The server answers 304 when its tag is the one the request carried.     *)
Response(r, objs, newest, token, more) ==
  LET etag == EtagOf(objs, more) IN
  IF tag[r] # NoTag /\ tag[r] = etag
  THEN Bodiless("not_modified", published)
  ELSE [kind |-> "page", objs |-> objs, newest |-> newest, next |-> token,
        more |-> more, tag |-> etag, upTo |-> published]

AnswerTo(r) ==
  \/ /\ \E objs \in SUBSET Eligible(local[r].after, SentToken(r)),
           more \in BOOLEAN :
          /\ IsPage(objs, Eligible(local[r].after, SentToken(r)), more)
          /\ \E newest \in Stamps, token \in 0..NumObjects :
               /\ IsNewestOf(newest, objs)
               /\ IsTokenOf(token, objs, more)
               /\ answer' = [answer EXCEPT ![r] =
                               Response(r, objs, newest, token, more)]
     /\ UNCHANGED faults
  \/ /\ Fault
     /\ answer' = [answer EXCEPT ![r] = Bodiless("error", 0)]

Fetch(r) ==
  /\ pc[r] = "head"
  /\ ~cancelled[r]
  /\ pages[r] < MaxPages
  /\ AnswerTo(r)
  /\ pc' = [pc EXCEPT ![r] = "answered"]
  /\ UNCHANGED <<serverVars, storeVars, local, next, tag, pages, cancelled,
                 report>>

OnNotModified(r) ==
  /\ pc[r] = "answered"
  /\ answer[r].kind = "not_modified"
  /\ ReturnOk(r, Ended(local[r], "not_modified"),
              answer[r].upTo)
  /\ UNCHANGED <<serverVars, stored>>

OnFetchError(r) ==
  /\ pc[r] = "answered"
  /\ answer[r].kind = "error"
  /\ ReturnErr(r, Ended(local[r], "failed"))
  /\ UNCHANGED <<serverVars, stored>>

(* page.etag.or(cursor.etag)                                               *)
TagAfter(r) == IF answer[r].tag # NoTag THEN answer[r].tag ELSE local[r].tag

OnEmptyPage(r) ==
  /\ pc[r] = "answered"
  /\ answer[r].kind = "page"
  /\ answer[r].objs = {}
  /\ ReturnOk(r, [after |-> local[r].after, next |-> 0,
                  tag |-> TagAfter(r), status |-> "complete"],
              answer[r].upTo)
  /\ UNCHANGED <<serverVars, stored>>

(* pipeline.ingest_batch commits the page in one transaction; a cancelled  *)
(* token or any failure inside leaves nothing of it.                       *)
IngestPage(r) ==
  /\ pc[r] = "answered"
  /\ answer[r].kind = "page"
  /\ answer[r].objs # {}
  /\ ~cancelled[r]
  /\ stored' = stored \union answer[r].objs
  /\ pc' = [pc EXCEPT ![r] = "ingested"]
  /\ pages' = [pages EXCEPT ![r] = @ + 1]
  /\ UNCHANGED <<serverVars, cursor, local, next, tag, answer, cancelled,
                 report, faults>>

(* Mutant: a page that failed to import moves the cursor all the same.     *)
IngestFailsAhead(r) ==
  /\ pc[r] = "answered"
  /\ answer[r].kind = "page"
  /\ answer[r].objs # {}
  /\ Fault
  /\ Forget(r)
  /\ report' = [report EXCEPT ![r] = ErrReport]
  /\ cursor' = [after |-> local[r].after, next |-> answer[r].next,
                tag |-> TagAfter(r), status |-> "failed"]
  /\ UNCHANGED <<serverVars, stored>>

IngestFails(r) ==
  /\ pc[r] = "answered"
  /\ answer[r].kind = "page"
  /\ answer[r].objs # {}
  /\ LET failed == Ended(local[r], "failed") IN
     \/ cancelled[r] /\ ReturnErr(r, failed)
     \/ /\ ~cancelled[r]
        /\ Forget(r)
        /\ report' = [report EXCEPT ![r] = ErrReport]
        /\ Fault
        /\ cursor' \in {cursor, failed}
  /\ UNCHANGED <<serverVars, stored>>

(* Mutant: the mark is the server's clock, not the page's newest object.   *)
AdvancedToNow(r) ==
  [after |-> Added[answer[r].upTo], next |-> 0, tag |-> TagAfter(r),
   status |-> IF answer[r].more THEN "partial" ELSE "complete"]

(* The cursor after an ingested page.                                      *)
Advanced(r) ==
  [after  |-> IF answer[r].newest # 0 THEN answer[r].newest
              ELSE local[r].after,
   next   |-> IF answer[r].more THEN answer[r].next ELSE 0,
   tag    |-> TagAfter(r),
   status |-> IF answer[r].more THEN "partial" ELSE "complete"]

AdvanceAndContinue(r) ==
  /\ pc[r] = "ingested"
  /\ answer[r].more
  /\ cursor' = Advanced(r)
  /\ local' = [local EXCEPT ![r] = Advanced(r)]
  /\ next' = [next EXCEPT ![r] = answer[r].next]
  /\ tag' = [tag EXCEPT ![r] = NoTag]
  /\ answer' = [answer EXCEPT ![r] = NoAnswer]
  /\ pc' = [pc EXCEPT ![r] = "head"]
  /\ UNCHANGED <<serverVars, stored, pages, cancelled, report, faults>>

(* Mutant: `more` is not looked at.                                        *)
AdvanceAndReturnEarly(r) ==
  /\ pc[r] = "ingested"
  /\ ReturnOk(r, Ended(Advanced(r), "complete"), answer[r].upTo)
  /\ UNCHANGED <<serverVars, stored>>

AdvanceAndReturn(r) ==
  /\ pc[r] = "ingested"
  /\ ~answer[r].more
  /\ ReturnOk(r, Advanced(r), answer[r].upTo)
  /\ UNCHANGED <<serverVars, stored>>

(* persist(..)? after an ingested page: the records are in, the cursor is  *)
(* not, and the run ends with the error.                                   *)
AdvanceFails(r) ==
  /\ pc[r] = "ingested"
  /\ answer[r].more
  /\ Fault
  /\ Forget(r)
  /\ report' = [report EXCEPT ![r] = ErrReport]
  /\ UNCHANGED <<serverVars, storeVars>>

-----------------------------------------------------------------------------
(* The environment of a run: its deadline passes, its process dies.        *)

Cancel(r) ==
  /\ pc[r] # "idle"
  /\ ~cancelled[r]
  /\ Fault
  /\ cancelled' = [cancelled EXCEPT ![r] = TRUE]
  /\ UNCHANGED <<serverVars, storeVars, pc, local, next, tag, pages, answer,
                 report>>

Crash(r) ==
  /\ pc[r] # "idle"
  /\ Fault
  /\ Forget(r)
  /\ UNCHANGED <<serverVars, storeVars, report>>

Init ==
  /\ published = 0
  /\ stored = {}
  /\ cursor = Starting
  /\ pc = [r \in Runners |-> "idle"]
  /\ local = [r \in Runners |-> Starting]
  /\ next = [r \in Runners |-> 0]
  /\ tag = [r \in Runners |-> NoTag]
  /\ pages = [r \in Runners |-> 0]
  /\ answer = [r \in Runners |-> NoAnswer]
  /\ cancelled = [r \in Runners |-> FALSE]
  /\ report = [r \in Runners |-> NoReport]
  /\ faults = 0

(* What a run does by itself once started.                                 *)
RunStep(r) ==
  \/ StopCancelled(r) \/ StopAtBound(r) \/ Fetch(r)
  \/ OnNotModified(r) \/ OnFetchError(r) \/ OnEmptyPage(r)
  \/ IngestPage(r) \/ IngestFails(r)
  \/ AdvanceAndContinue(r) \/ AdvanceAndReturn(r) \/ AdvanceFails(r)

Next ==
  \/ Publish
  \/ \E r \in Runners : Start(r) \/ RunStep(r) \/ Cancel(r) \/ Crash(r)

Spec == Init /\ [][Next]_vars

(* The server publishes what it has, a run that is going takes its steps,  *)
(* and the operator's scheduler keeps starting runs.                       *)
FairSpec ==
  /\ Spec
  /\ WF_vars(Publish)
  /\ \A r \in Runners : WF_vars(RunStep(r)) /\ WF_vars(Start(r))

-----------------------------------------------------------------------------
TypeOK ==
  /\ published \in 0..NumObjects
  /\ stored \in SUBSET Objects
  /\ cursor \in Cursors
  /\ pc \in [Runners -> {"idle", "head", "answered", "ingested"}]
  /\ local \in [Runners -> Cursors]
  /\ next \in [Runners -> 0..NumObjects]
  /\ tag \in [Runners -> Tags]
  /\ pages \in [Runners -> Nat]
  /\ answer \in [Runners -> Answers]
  /\ cancelled \in [Runners -> BOOLEAN]
  /\ report \in [Runners -> Reports]
  /\ faults \in 0..MaxFaults

(* What the feed must be like for a high-water mark over timestamps to be  *)
(* sound: nothing is listed after an object that carries its own or a      *)
(* later timestamp.                                                        *)
NoLateArrival ==
  \A i, j \in Objects : Added[i] <= Modified[j] => i <= j

(* sync.rs: "the cursor never moves ahead of stored data".  Whatever runs  *)
(* overlap, fail or die, an object that no request from the durable cursor *)
(* can return again is in the store.                                       *)
CursorNeverAheadOfStore ==
  Behind(cursor.after, cursor.next) \subseteq stored

(* SyncReport::is_complete: a run that reports Complete or NotModified has *)
(* left nothing of the feed, as the server held it when it last answered,  *)
(* out of the store.                                                       *)
CompleteCoversFeed ==
  \A r \in Runners :
    report[r].result \in {"complete", "not_modified"} =>
      1..report[r].upTo \subseteq stored

(* cursor.rs and ADR 0005: the cursor is written in the same transaction   *)
(* as the records, so between runs the store holds nothing beyond it.      *)
RecordsAndCursorTogether ==
  (\A r \in Runners : pc[r] = "idle") =>
    stored \subseteq Behind(cursor.after, cursor.next)

(* Runs that keep being started, each bounded, cover the whole feed.       *)
FeedCaughtUp == <>(stored = Objects)

(* The loop implements the incremental copy of FeedCopy.                   *)
Copy == INSTANCE FeedCopy WITH
          Records <- Objects, offered <- 1..published,
          current <- 1..published, stored <- stored,
          claimed <- Behind(cursor.after, cursor.next)
CopySpec == Copy!Spec
=============================================================================
